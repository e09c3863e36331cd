------------------------------ MODULE MCMarket ------------------------------
(* Instances of Market for TLC.                                            *)
EXTENDS Market, TLC

Accounts == Permutations(Users \ Sellers)
=============================================================================
