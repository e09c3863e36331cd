-------------------------------- MODULE Sums --------------------------------
(***************************************************************************)
(* Totals over an initial segment of the integers.  Rows of a table are    *)
(* numbered 1, 2, ...; a SQL SUM over them is Total of the summed column.   *)
(* PartialSums is a recursive FUNCTION (not a RECURSIVE operator) so that   *)
(* SumsProofs can prove what it computes.                                   *)
(***************************************************************************)
EXTENDS Integers

(* PartialSums(f, N)[n] = f[1] + ... + f[n], for n in 0 .. N.               *)
PartialSums(f, N) ==
  LET s[n \in 0 .. N] == IF n = 0 THEN 0 ELSE s[n - 1] + f[n]
  IN  s

Total(f, N) == PartialSums(f, N)[N]
=============================================================================
