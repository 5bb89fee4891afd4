--------------------------- MODULE OneTimeAccess ---------------------------
(***************************************************************************)
(* What the confidential-access half of the contract promises of its       *)
(* intents: a wallet's intents for a blob are numbered in the order they   *)
(* are recorded, no number is ever given out twice, and each is served at  *)
(* most once.                                                              *)
(***************************************************************************)
EXTENDS Integers

CONSTANTS Pairs    \* a blob and a wallet

VARIABLES
  issued,   \* how many intents each pair has been given
  served    \* the numbers of those that were served

Init ==
  /\ issued = [p \in Pairs |-> 0]
  /\ served = [p \in Pairs |-> {}]

Issue(p) ==
  /\ issued' = [issued EXCEPT ![p] = @ + 1]
  /\ UNCHANGED served

Serve(p, n) ==
  /\ n \notin served[p]
  /\ served' = [served EXCEPT ![p] = @ \cup {n}]
  /\ UNCHANGED issued

Next == \E p \in Pairs : Issue(p) \/ \E n \in 0..(issued[p] - 1) : Serve(p, n)

Spec == Init /\ [][Next]_<<issued, served>>
=============================================================================
