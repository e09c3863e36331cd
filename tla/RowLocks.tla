------------------------------ MODULE RowLocks ------------------------------
(***************************************************************************)
(* The handlers of Market as the transactions they are: statements on a    *)
(* READ COMMITTED database, with the row locks of SELECT ... FOR UPDATE,   *)
(* running in any number of requests and scheduler ticks at once.          *)
(*                                                                         *)
(* The variables of Market are the committed tables.  A session is one     *)
(* request or tick with its SQLAlchemy identity map: it locks the lot,     *)
(* then the users in ascending id, reads what others have committed in the *)
(* meantime, and writes at its commit.  A tick first reads the lot without *)
(* a lock, and the row it locks later does not replace that copy.          *)
(***************************************************************************)
EXTENDS Market, FiniteSets

CONSTANTS
  Procs,      \* concurrent sessions
  Workload,   \* the requests clients may send, as records (see Request)
  Timers      \* processes with an armed timer for one lot

ASSUME IdsAssumption == Users \subseteq Nat
ASSUME TimersAssumption == Timers \in Nat

VARIABLE session

lockvars == <<vars, session>>

(* A request body; fields a kind of request does not have are NoUser or 0. *)
Request ==
  [op : {"create", "bid", "buy", "edit", "delete", "deposit", "withdraw", "tick"},
   user : Users \cup {NoUser}, lot : 0 .. NumLots, amount : Nat,
   start : Prices \cup {Keep}, bin : Prices \cup {NoPrice, Keep},
   type : Kinds \cup {KeepType}, minutes : Nat]

Body(op, u, l) ==
  [op |-> op, user |-> u, lot |-> l, amount |-> 0,
   start |-> Keep, bin |-> Keep, type |-> KeepType, minutes |-> 0]

(* What the schemas and the authentication let through to a handler.       *)
Valid(r) ==
  /\ r \in Request /\ r.user \in Users /\ r.op # "tick"
  /\ IF r.op \in {"deposit", "withdraw"}
     THEN r.lot = 0 /\ r.amount \in Deposits
     ELSE r.lot \in Lots
  /\ r.op = "bid" => r.amount \in Amounts
  /\ r.op \in {"create", "edit", "delete"} => r.user \in Sellers
  /\ r.op = "edit" => r.minutes \in Durations \cup {0}
  /\ r.op = "create" => /\ r.type \in Kinds /\ r.minutes \in Durations
                        /\ r.start \in Prices /\ r.bin \in Prices \cup {NoPrice}

ASSUME WorkloadAssumption == \A r \in Workload : Valid(r)
ASSUME ProcsAssumption == IsFiniteSet(Procs)

(* step: "idle", waiting for the "lot", for the head of todo ("users"),    *)
(* about to read commitments and "decide", about to "commit", or, with its *)
(* money committed, telling the users in todo: its INSERT waits for the    *)
(* head's row ("announce") and then for the lot's ("refer").               *)
NoCash == [u \in Users |-> 0]

Idle ==
  [step |-> "idle", req |-> Body("tick", NoUser, 0), row |-> <<>>, t |-> 0, s |-> 0,
   todo |-> <<>>, locked |-> {}, shared |-> {}, refers |-> FALSE, cash |-> NoCash]

Step(p) == session[p].step
Req(p) == session[p].req

Become(p, new) == session' = [session EXCEPT ![p] = new]
Reply(p) == Become(p, Idle)

-----------------------------------------------------------------------------
(* Locks.                                                                  *)

HoldsLot(p, l) == Req(p).lot = l /\ l # 0 /\ Step(p) \in {"users", "decide", "commit"}

(* A notice refers to its recipient and to its lot, whose rows its INSERT  *)
(* locks FOR KEY SHARE, in this order, until it commits.                   *)
Telling(p) == Step(p) \in {"announce", "refer"}
SharesLot(p, l) == Req(p).lot = l /\ session[p].refers

LotFreeAlways(l) == TRUE                                         \* mutant
LotFree(l) == \A q \in Procs : ~ HoldsLot(q, l) /\ ~ SharesLot(q, l)

(* FOR UPDATE conflicts with FOR UPDATE and with KEY SHARE; KEY SHARE only *)
(* with FOR UPDATE.                                                        *)
UserFreeAlways(p, u) == TRUE                                     \* mutant
UserFree(p, u) ==
  \A q \in Procs \ {p} : u \notin session[q].locked \cup session[q].shared

Sharable(p, u) == \A q \in Procs \ {p} : u \notin session[q].locked
Referable(l) == \A q \in Procs : ~ HoldsLot(q, l)

(* lock_users_by_id: distinct ids in ascending order.                      *)
AscendingBuyerFirst(u, v) == IF u = v THEN <<u>> ELSE <<u, v>>   \* mutant
Ascending(u, v) ==
  IF u = v THEN <<u>> ELSE IF u < v THEN <<u, v>> ELSE <<v, u>>

(* The sessions p is queued behind.                                        *)
Blockers(p) ==
  LET s == session[p]
  IN  CASE s.step = "lot" ->
             {q \in Procs : HoldsLot(q, s.req.lot) \/ SharesLot(q, s.req.lot)}
        [] s.step = "users" ->
             {q \in Procs \ {p} : Head(s.todo) \in session[q].locked \cup session[q].shared}
        [] s.step = "announce" -> {q \in Procs \ {p} : Head(s.todo) \in session[q].locked}
        [] s.step = "refer" -> {q \in Procs : HoldsLot(q, s.req.lot)}
        [] OTHER -> {}

-----------------------------------------------------------------------------
(* A session starts.                                                       *)

LockInit == Init /\ session = [p \in Procs |-> Idle]

(* The clock waits for a transaction that read it Latency ago.             *)
TimePasses ==
  /\ \A p \in Procs : Step(p) \in {"users", "decide", "commit"} /\ Req(p).lot # 0
        => now - session[p].t < Latency
  /\ Tick
  /\ UNCHANGED session

(* POST /auctions is one INSERT; its foreign key share-locks the creator.  *)
Create(r) ==
  /\ r.op = "create"
  /\ \A q \in Procs : r.user \notin session[q].locked
  /\ \E t \in RecentTimes :
        CreateAuction(r.user, r.lot, r.type, r.start, r.bin, r.minutes, t)
  /\ UNCHANGED session

Receive(p, r) ==
  /\ Step(p) = "idle"
  /\ r.op # "create"
  /\ IF r.op \in {"deposit", "withdraw"}
     THEN Become(p, [Idle EXCEPT !.step = "users", !.req = r, !.todo = <<r.user>>])
     ELSE Become(p, [Idle EXCEPT !.step = "lot", !.req = r])
  /\ UNCHANGED vars

(* A timer whose deadline has come reads the lot, without a lock.  A tick  *)
(* that finds it closed or not yet due does nothing (or re-arms).          *)
Fire(p, l) ==
  /\ Step(p) = "idle"
  /\ Due(l)
  /\ Cardinality({q \in Procs : /\ Req(q).op = "tick" /\ Req(q).lot = l
                                /\ Step(q) # "idle" /\ ~ Telling(q)}) < Timers
  /\ Become(p, [Idle EXCEPT !.step = "lot", !.req = Body("tick", NoUser, l),
                            !.row = [status |-> status[l], end_time |-> end_time[l]]])
  /\ UNCHANGED vars

-----------------------------------------------------------------------------
(* The lot's lock is granted: the handler checks the row it got.           *)

Granted(p, op) == Step(p) = "lot" /\ Req(p).op = op /\ LotFree(Req(p).lot)

(* The next users to lock, and what the clock said at the check.           *)
LockNext(p, todo) ==
  Become(p, [session[p] EXCEPT !.step = IF todo = <<>> THEN "commit" ELSE "users",
                               !.todo = todo, !.t = now, !.s = now])

LotBid(p) ==
  LET r == Req(p)
  IN  /\ Granted(p, "bid")
      /\ IF Biddable(r.user, r.lot, r.amount, now)
         THEN LockNext(p, <<r.user>>)
         ELSE Reply(p)
      /\ UNCHANGED vars

LotBuy(p) ==
  LET r == Req(p)
  IN  /\ Granted(p, "buy")
      /\ IF Buyable(r.user, r.lot, now)
         THEN LockNext(p, Ascending(r.user, created_by[r.lot]))
         ELSE Reply(p)
      /\ UNCHANGED vars

LotEdit(p) ==
  LET r == Req(p)
      e == Edited(r.lot, r.start, r.bin, r.type)
  IN  /\ Granted(p, "edit")
      /\ IF /\ created_by[r.lot] = r.user
            /\ Editable(r.lot)
            /\ r.minutes > 0 => end_time[r.lot] + r.minutes <= LastDeadline
            /\ e.type = "bin" => e.bin # NoPrice
            /\ e.bin # NoPrice => e.bin >= e.start
         THEN LockNext(p, <<>>)
         ELSE Reply(p)
      /\ UNCHANGED vars

LotDelete(p) ==
  LET r == Req(p)
  IN  /\ Granted(p, "delete")
      /\ IF created_by[r.lot] = r.user /\ Deletable(r.lot)
         THEN LockNext(p, <<>>)
         ELSE Reply(p)
      /\ UNCHANGED vars

(* complete_auction: the row must exist, but is_active and end_time are    *)
(* those of the copy the tick already had.  The bids are queried afresh.   *)
LotSettle(p) ==
  LET l == Req(p).lot
      row == session[p].row
  IN  /\ Granted(p, "tick")
      /\ IF status[l] # "deleted" /\ row.status = "active" /\ row.end_time <= now
         THEN LockNext(p, IF bids[l] = <<>> THEN <<>>
                          ELSE Ascending(Leader(l), created_by[l]))
         ELSE Reply(p)
      /\ UNCHANGED vars

(* The next user row is granted, and refreshed (populate_existing).        *)
LockUser(p) ==
  LET u == Head(session[p].todo)
      rest == Tail(session[p].todo)
  IN  /\ Step(p) = "users"
      /\ UserFree(p, u)
      /\ Become(p, [session[p] EXCEPT
                      !.locked = @ \cup {u}, !.cash[u] = balance[u], !.todo = rest,
                      !.step = IF rest # <<>> THEN "users"
                               ELSE IF Req(p).op = "tick" THEN "commit" ELSE "decide"])
      /\ UNCHANGED vars

-----------------------------------------------------------------------------
(* The commitments are queried, without locks, and the money checked.      *)

Decide(p) ==
  LET r == Req(p)
      cash == session[p].cash[r.user]
  IN  /\ Step(p) = "decide"
      /\ IF CASE r.op = "bid" -> cash - EffectiveCommitted(r.user, r.lot) >= r.amount
              [] r.op = "buy" -> cash - CommittedBalance(r.user) >= bin_price[r.lot]
              [] r.op = "deposit" ->
                   cash + r.amount <= MaxUserBalance /\ Len(ledger[r.user]) < MaxRows
              [] r.op = "withdraw" ->
                   cash - CommittedBalance(r.user) >= r.amount /\ Len(ledger[r.user]) < MaxRows
         THEN Become(p, [session[p] EXCEPT !.step = "commit", !.s = now])
         ELSE Reply(p)
      /\ UNCHANGED vars

-----------------------------------------------------------------------------
(* The writes land and every lock is released.                             *)

Committing(p, op) == Step(p) = "commit" /\ Req(p).op = op

(* A bid tells who led before and then the seller, a purchase the seller.  *)
Tell(p, todo) == Become(p, [Idle EXCEPT !.step = "announce", !.req = Req(p), !.todo = todo])

Outbid(l) == IF bids[l] = <<>> THEN <<>> ELSE <<Leader(l)>>

CommitBid(p) ==
  /\ Committing(p, "bid")
  /\ WriteBid(Req(p).user, Req(p).lot, Req(p).amount, session[p].s)
  /\ Tell(p, Append(Outbid(Req(p).lot), created_by[Req(p).lot]))

CommitBuy(p) ==
  /\ Committing(p, "buy")
  /\ WritePurchase(session[p].cash, Req(p).user, Req(p).lot, session[p].s)
  /\ Tell(p, <<created_by[Req(p).lot]>>)

CommitEdit(p) ==
  LET r == Req(p)
  IN  /\ Committing(p, "edit")
      /\ WriteEdit(r.lot, r.start, r.bin, r.type, r.minutes)
      /\ Reply(p)

CommitDelete(p) ==
  /\ Committing(p, "delete")
  /\ WriteDelete(Req(p).lot)
  /\ Reply(p)

CommitCash(p) ==
  LET r == Req(p)
  IN  /\ \/ Committing(p, "deposit")
            /\ WriteCash(session[p].cash, r.user, "deposit", r.amount)
         \/ Committing(p, "withdraw")
            /\ WriteCash(session[p].cash, r.user, "withdrawal", -r.amount)
      /\ Reply(p)

(* After the settlement one INSERT tells every bidder, in no particular    *)
(* order, and then the seller.                                             *)
Orders(S) ==
  {q \in [1 .. Cardinality(S) -> S] : \A i, j \in DOMAIN q : q[i] = q[j] => i = j}

Bidders(l) == {bids[l][i].user : i \in 1 .. Len(bids[l])}

CommitSettlement(p) ==
  LET l == Req(p).lot
  IN  /\ Committing(p, "tick")
      /\ WriteSettlement(session[p].cash, l)
      /\ IF bids[l] = <<>>
         THEN Reply(p)
         ELSE \E q \in Orders(Bidders(l)) : Tell(p, Append(q, created_by[l]))

(* Each row of an INSERT locks its user and then the lot.                  *)
Announce(p) ==
  LET u == Head(session[p].todo)
  IN  /\ Step(p) = "announce"
      /\ Sharable(p, u)
      /\ Become(p, [session[p] EXCEPT !.step = "refer", !.shared = @ \cup {u},
                                      !.todo = Tail(@)])
      /\ UNCHANGED vars

(* notify_user commits after each row, the settlement's notify_many after  *)
(* the last.                                                               *)
Refer(p) ==
  /\ Step(p) = "refer"
  /\ Referable(Req(p).lot)
  /\ IF session[p].todo = <<>>
     THEN Reply(p)
     ELSE IF Req(p).op = "tick"
     THEN Become(p, [session[p] EXCEPT !.step = "announce", !.refers = TRUE])
     ELSE Become(p, [session[p] EXCEPT !.step = "announce", !.shared = {}])
  /\ UNCHANGED vars

(* A client that disconnects, a cancelled tick, a lost connection or the   *)
(* deadlock detector: the transaction is rolled back at any point.         *)
Abort(p) ==
  /\ Step(p) # "idle"
  /\ Reply(p)
  /\ UNCHANGED vars

Proceed(p) ==
  \/ LotBid(p) \/ LotBuy(p) \/ LotEdit(p) \/ LotDelete(p) \/ LotSettle(p)
  \/ LockUser(p) \/ Decide(p)
  \/ CommitBid(p) \/ CommitBuy(p) \/ CommitEdit(p) \/ CommitDelete(p)
  \/ CommitCash(p) \/ CommitSettlement(p) \/ Announce(p) \/ Refer(p)

LockStep ==
  \/ TimePasses
  \/ \E r \in Workload : Create(r)
  \/ \E p \in Procs, r \in Workload : Receive(p, r)
  \/ \E p \in Procs, l \in Lots : Fire(p, l)
  \/ \E p \in Procs : Proceed(p) \/ Abort(p)

LockSpec == LockInit /\ [][LockStep]_lockvars

-----------------------------------------------------------------------------
(* Properties.                                                             *)

(* No lost update: the balance a session is about to write from is still   *)
(* the committed one, and no two sessions hold the same lot.               *)
CopiesFresh ==
  \A p \in Procs :
    /\ \A u \in session[p].locked : session[p].cash[u] = balance[u]
    /\ \A q \in Procs \ {p}, l \in Lots : ~ (HoldsLot(p, l) /\ HoldsLot(q, l))

SessionStates ==
  [step : {"idle", "lot", "users", "decide", "commit", "announce", "refer"},
   req : Request,
   row : {<<>>} \cup [status : {"active"}, end_time : Nat],
   t : 0 .. Horizon, s : 0 .. Horizon,
   todo : Seq(Users), locked : SUBSET Users, shared : SUBSET Users,
   refers : BOOLEAN, cash : [Users -> Nat]]

(* The types, and what the locks are for.                                  *)
SessionOK == session \in [Procs -> SessionStates] /\ CopiesFresh

(* Interleaved statement by statement, the handlers are what Market says   *)
(* they are: every commit is one of its atomic steps, whatever other       *)
(* sessions read and committed since this one began.                       *)
AtomicHandlers == Spec

Deadlocked(S) == S # {} /\ \A p \in S : Blockers(p) \cap S # {}

(* Before their commit requests and settlements never wait for each other  *)
(* in a circle: the lot comes before the users and the users in ascending  *)
(* id.  A notice keeps no such order, so a circle takes one, of a handler  *)
(* whose money is committed, and a handler waiting for a user's row.       *)
HandlersNeverCycle ==
  \A S \in SUBSET Procs : Deadlocked(S) =>
    /\ \E p \in S : Telling(p)
    /\ \E p \in S : Step(p) = "users"
=============================================================================
