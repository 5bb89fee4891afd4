------------------------------- MODULE Totals -------------------------------
(***************************************************************************)
(* The sum f[1] + ... + f[n], by prefix sums.  It is a recursive function  *)
(* and not a fold, so that RegistryProofs can reason about it for every n. *)
(***************************************************************************)
EXTENDS Integers

Total(f, n) ==
  LET prefix[i \in 0..n] == IF i = 0 THEN 0 ELSE prefix[i - 1] + f[i]
  IN  prefix[n]
=============================================================================
