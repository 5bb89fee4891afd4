------------------------------ MODULE MCQueue ------------------------------
(***************************************************************************)
(* Instances of RecoveryQueue for TLC.                                     *)
(***************************************************************************)
EXTENDS RecoveryQueue, TLC

CONSTANTS one, other, ana, ben, cem

OneBlob == {one}
TwoBlobs == {one, other}
NoBlob == {}
OneBroken == {one}
OneRequest == {ana}
TwoRequests == {ana, ben}
AnyRequest == Permutations(Requests)
=============================================================================
