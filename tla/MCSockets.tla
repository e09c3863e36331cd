------------------------------ MODULE MCSockets ------------------------------
(* Instances of Sockets for TLC.                                           *)
EXTENDS Sockets

Interchangeable == Permutations(Clients) \cup Permutations(Senders)
=============================================================================
