---------------------------- MODULE PartialSums ----------------------------
(***************************************************************************)
(* The sum of h[1] + ... + h[N], written as a recursive function so that    *)
(* TLAPS can reason about it (EscrowProofs) and TLC can evaluate it.        *)
(***************************************************************************)
EXTENDS Naturals

Prefixes(h, N) ==
  LET s[n \in 0 .. N] == IF n = 0 THEN 0 ELSE s[n - 1] + h[n]
  IN s

SumTo(h, N) == Prefixes(h, N)[N]
=============================================================================
