------------------------------- MODULE MCFcc -------------------------------
(***************************************************************************)
(* One blob of alice, private with selected wallets or confidential, two   *)
(* wallets with two intents each, two machines.                            *)
(***************************************************************************)
EXTENDS FccAccess

CONSTANTS admin, alice, bob, sender, device, m1, m2

People == {admin, alice, bob, sender}
Signers == {alice, bob}
JustAlice == {alice}
JustSender == {sender}
Nobody == {}
OneDevice == {device}
TwoMachines == {m1, m2}

UsualPricing == [rate |-> 10, feeBps |-> 500]
EncryptedPolicies ==
  { [storageMode |-> "Private", accessPolicy |-> "SelectedWallets"],
    [storageMode |-> "Confidential", accessPolicy |-> "ComputeOnly"] }
OneByte == {1}
Exact == {0}
OneDayClock == {1, 2, 86402}

\* Sealed for this blob, for the one use or the other.
SomeEnvelopes ==
  { [blob |-> 1, owner |-> alice, storageMode |-> "Private", accessPolicy |-> "SelectedWallets"],
    [blob |-> 1, owner |-> alice, storageMode |-> "Confidential", accessPolicy |-> "ComputeOnly"] }
=============================================================================
