------------------------------ MODULE MCReviews ------------------------------
(* Instances of Market with its reviews for TLC.                           *)
EXTENDS Reviews, TLC

Accounts == Permutations(Users \ Sellers) \cup Permutations(Posts)
=============================================================================
