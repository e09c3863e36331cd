----------------------------- MODULE MCRowLocks -----------------------------
(* Instances of RowLocks for TLC: the workloads.  Users are 1, 2, 3.       *)
EXTENDS RowLocks, TLC

Sessions == Permutations(Procs)

List(u, l, type, price, minutes) ==
  [Body("create", u, l) EXCEPT !.type = type, !.start = price,
     !.bin = IF type = "bin" THEN price ELSE NoPrice, !.minutes = minutes]
Bid(u, l, amount) == [Body("bid", u, l) EXCEPT !.amount = amount]
Cash(op, u, amount) == [Body(op, u, 0) EXCEPT !.amount = amount]

(* Users 2 and 3 bid for a lot of user 1, users 1 and 3 buy user 2's BIN   *)
(* lot, the sellers edit the one and delete the other, and user 2 moves    *)
(* money: every pair of users meets in both orders.                        *)
Handling ==
  {List(1, 1, "bid", 1, 1), List(2, 2, "bin", 2, 1),
   Bid(2, 1, 2), Bid(3, 1, 3), Body("buy", 1, 2), Body("buy", 3, 2),
   Cash("withdraw", 2, 2), Cash("deposit", 2, 2),
   [Body("edit", 1, 1) EXCEPT !.start = 2], Body("delete", 2, 2)}

(* One bid on one lot.                                                     *)
OneBid == {List(1, 1, "bid", 1, 1), Bid(2, 1, 2)}
=============================================================================
