---------------------------- MODULE MCEmailOutbox ----------------------------
(* Instances of EmailOutbox for TLC.                                       *)
EXTENDS EmailOutbox, TLC

Processes == Permutations(Workers)
==============================================================================
