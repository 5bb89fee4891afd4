----------------------------- MODULE MCRegistry -----------------------------
(***************************************************************************)
(* Instances of PrimeServerRegistry for TLC.  The default rate of the      *)
(* contract, 10^12 wei, is beyond TLC's integers: the instances count in   *)
(* units of 10^11 wei (rate 10), and rate 1 makes the immediate reward     *)
(* round down to zero.                                                     *)
(***************************************************************************)
EXTENDS PrimeServerRegistry, TLC

CONSTANTS admin, alice, op1, op2

OneOwner == {admin, alice, op1}
OwnerAndAdmin == {admin, alice}
TwoProviders == {admin, alice, op1, op2}
TwoOperators == {op1, op2}
OneOperator == {op1}
JustAlice == {alice}
Nobody == {}

Price(rate, bps) == [rate |-> rate, feeBps |-> bps]
UsualPricing == Price(10, 500)
NoPricings == {}
EdgePricings == {Price(1, 10000), Price(0, 500)}

PublicPolicy == {[storageMode |-> "Public", accessPolicy |-> "OwnerOnly"]}
OneByte == {1}
Exact == {0}
ShortExactOver == {-1, 0, 1}

\* A first block, the block one day later and the next one.
OneDayClock == {1, 86401, 86402}

(* For the ledger: who is coordinator changes in the first block only,     *)
(* before there is a provider.                                             *)
DelegatesEarly == coordinators # {Admin} => now = 1 /\ nextProviderId = 1

LedgerSpec == Init /\ [][Next /\ DelegatesEarly']_vars

OperatorSymmetry == Permutations(TwoOperators)
=============================================================================
