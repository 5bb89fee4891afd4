----------------------------- MODULE MCGateway -----------------------------
(***************************************************************************)
(* The gateway with two providers, either of which can restore the other's *)
(* shard, one blob and two requests at a time.                             *)
(***************************************************************************)
EXTENDS Gateway

CONSTANTS admin, alice, op1, op2

AllAccounts == {admin, alice, op1, op2}
TwoOperators == {op1, op2}
InOrder == <<op1, op2>>
JustAlice == {alice}
Nobody == {}
UsualPricing == [rate |-> 10, feeBps |-> 500]
PublicPolicy == {[storageMode |-> "Public", accessPolicy |-> "OwnerOnly"]}
OneByte == {1}
Exact == {0}

\* A first block, one day later the expiry, and the first block a refund is possible in.
ThreeTimes == {1, 86401, 86402}

(* Either the machinery has its troubles, or the owner and the clock make  *)
(* some; what is registered expires at the second of the times.            *)
MachineryTrouble == faults > 0 \/ \E b \in Blobs : lost[b] # {}
OutsideTrouble == ownerCalls > 0 \/ \E t \in Timestamps : t < now

Bounded ==
  /\ ~(MachineryTrouble /\ OutsideTrouble)
  /\ \A b \in Blobs : blobs[b].expiresAt \in {NoExpiry, 86401}

MCSpec ==
  GatewayInit /\ [][GatewayNext /\ Bounded']_<<vars, gatewayVars>> /\ Fairness
=============================================================================
