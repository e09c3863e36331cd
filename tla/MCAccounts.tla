------------------------------ MODULE MCAccounts ------------------------------
(* Instances of Accounts and Uploads for TLC.                              *)
EXTENDS Uploads, TLC

TwoTiers == {<<2, 1>>, <<3, 2>>}

(* What may disturb what: logging in and rotating, by the password or by a *)
(* link; the sockets and what ends them; registration and a first login;   *)
(* the quota; the avatar.                                                  *)
Together ==
  {{"login", "change"}, {"change", "forgot", "reset"}, {"change", "connect"},
   {"register", "resend", "login"}, {"image", "avatar"}, {"avatar", "remove"}}

Alike == Permutations(Requests) \cup Permutations(Passwords) \cup Permutations(Procs)
=============================================================================
