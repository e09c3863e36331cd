---------------------------- MODULE RowLocksProofs ----------------------------
(***************************************************************************)
(* Proofs about RowLocks, for any number of sessions, users, lots and      *)
(* requests: what the row locks are for (no lost update, no lot written by *)
(* two), that a circle of waiting handlers takes a notice, and that        *)
(* statement by statement the handlers do what Market says in one step.    *)
(*                                                                         *)
(* The invariant says of each session what it has checked under its locks  *)
(* and that nobody else can undo it before the commit.                     *)
(***************************************************************************)
EXTENDS RowLocks, MarketProofs, FiniteSetTheorems

-----------------------------------------------------------------------------
(* The invariant, session by session.                                      *)

Working(s) == s.step \in {"users", "decide", "commit"}
OnCash(s) == s.req.op \in {"deposit", "withdraw"}
Ticking(s) == s.req.op = "tick" /\ s.step \in {"lot", "users", "commit"}
Tells(s) == s.step \in {"announce", "refer"}

(* A session is about a request the schemas let through, or a lot's timer. *)
Asked(s) ==
  s.step # "idle" =>
    \/ s.req.op = "tick" /\ s.req.lot \in Lots /\ s.step # "decide"
    \/ /\ s.req \in Workload /\ Valid(s.req)
       /\ s.req.op # "create"
       /\ s.step = "lot" => ~ OnCash(s)
       /\ s.step = "decide" => s.req.op \in {"bid", "buy", "deposit", "withdraw"}

(* A tick has found its lot open and due when it read it.                  *)
Read(s) ==
  Ticking(s) => /\ s.row \in [status : {"active"}, end_time : Nat]
                /\ s.row.end_time <= now
                /\ status[s.req.lot] # "absent"

(* What a PATCH checks under the lot's lock.                               *)
Patchable(r) ==
  LET e == Edited(r.lot, r.start, r.bin, r.type)
  IN  /\ created_by[r.lot] = r.user
      /\ Editable(r.lot)
      /\ r.minutes > 0 => end_time[r.lot] + r.minutes <= LastDeadline
      /\ e.type = "bin" => e.bin # NoPrice
      /\ e.bin # NoPrice => e.bin >= e.start

(* What the handler has checked under the lot's lock still holds, ...      *)
Checked(s) ==
  LET r == s.req
  IN  Working(s) =>
        /\ r.op = "bid" => Biddable(r.user, r.lot, r.amount, s.t)
        /\ r.op = "buy" => Buyable(r.user, r.lot, s.t)
        /\ r.op = "edit" => Patchable(r)
        /\ r.op = "delete" => created_by[r.lot] = r.user /\ Deletable(r.lot)
        /\ r.op = "tick" => status[r.lot] # "deleted"

(* ... it has read the clock a moment ago, ...                             *)
Recent(s) ==
  Working(s) /\ ~ OnCash(s) => s.t <= s.s /\ s.s <= now /\ now - s.t <= Latency

(* ... and the money it has counted is still there.                        *)
Afford(s) ==
  LET r == s.req
      cash == s.cash[r.user]
  IN  s.step = "commit" =>
        /\ r.op = "bid" => cash - CommittedBalance(r.user) >= r.amount
        /\ r.op = "buy" => cash - CommittedBalance(r.user) >= bin_price[r.lot]
        /\ r.op = "deposit" => cash + r.amount <= MaxUserBalance
        /\ r.op = "withdraw" => cash - CommittedBalance(r.user) >= r.amount
        /\ OnCash(s) => Len(ledger[r.user]) < MaxRows

(* Whose rows a handler locks.                                             *)
Needed(s) ==
  LET r == s.req
  IN  IF r.op \in {"bid", "deposit", "withdraw"} THEN {r.user}
      ELSE IF r.op = "buy" THEN {r.user, created_by[r.lot]}
      ELSE IF r.op = "tick" /\ bids[r.lot] # <<>> THEN {Leader(r.lot), created_by[r.lot]}
      ELSE {}

Waiting(s) == {s.todo[i] : i \in 1 .. Len(s.todo)}

(* It holds some of them and waits for the others in ascending order.      *)
Queue(s) ==
  /\ s.step \in {"users", "announce"} => s.todo # <<>>
  /\ s.step \in {"idle", "lot", "decide", "commit"} => s.todo = <<>>
  /\ Working(s) => s.locked \cup Waiting(s) = Needed(s)
  /\ ~ Working(s) => s.locked = {}
  /\ ~ Tells(s) => s.shared = {} /\ ~ s.refers
  /\ s.step = "users" =>
       /\ \A i, j \in 1 .. Len(s.todo) : i < j => s.todo[i] < s.todo[j]
       /\ \A u \in s.locked, i \in 1 .. Len(s.todo) : u < s.todo[i]

Fresh(s) == \A u \in s.locked : s.cash[u] = balance[u]

Good(s) ==
  /\ s \in SessionStates
  /\ Asked(s) /\ Read(s) /\ Checked(s) /\ Recent(s) /\ Afford(s) /\ Queue(s) /\ Fresh(s)

(* Two sessions never hold the same row.                                   *)
SameLot(s, q) == Working(s) /\ Working(q) /\ s.req.lot = q.req.lot /\ s.req.lot # 0
Apart(s, q) == s.locked \cap q.locked = {} /\ ~ SameLot(s, q)

Tables == TypeOK /\ SellersKnown /\ BlankWhenAbsent

LockInv ==
  /\ Tables
  /\ session \in [Procs -> SessionStates]
  /\ \A p \in Procs : Good(session[p])
  /\ \A p, q \in Procs : p # q => Apart(session[p], session[q])

-----------------------------------------------------------------------------
(* What other sessions do leaves a session good.                           *)

LotStays(l) ==
  /\ status'[l] = status[l] /\ created_by'[l] = created_by[l]
  /\ auction_type'[l] = auction_type[l] /\ starting_price'[l] = starting_price[l]
  /\ current_price'[l] = current_price[l] /\ bin_price'[l] = bin_price[l]
  /\ end_time'[l] = end_time[l] /\ extensions_count'[l] = extensions_count[l]
  /\ bids'[l] = bids[l]

UserStays(u) ==
  /\ balance'[u] = balance[u] /\ ledger'[u] = ledger[u]
  /\ CommittedBalance(u)' <= CommittedBalance(u)

NobodyUnlists == \A l \in Lots : status[l] # "absent" => status'[l] # "absent"

LEMMA CommittedNext ==
  ASSUME TypeOK', NEW u \in Users
  PROVE  CommittedBalance(u)' \in Nat
<1> DEFINE g == Held(u)'
<1>1. g \in [1 .. NumLots -> Nat] /\ NumLots \in Nat
  BY LotsAssumption DEF TypeOK, Held, Lots
<1> HIDE DEF g
<1>2. Total(g, NumLots) \in Int /\ Total(g, NumLots) >= 0
  <2>1. g \in [1 .. NumLots -> Int]
    BY <1>1
  <2>2. QED
    BY <1>1, <2>1, TotalInt, TotalNonNegative
<1>3. QED
  BY <1>2 DEF CommittedBalance, g

(* Checks about a lot are about its row.                                   *)
LEMMA ChecksStay ==
  ASSUME NEW s, Checked(s), NEW l, s.req.lot = l, LotStays(l)
  PROVE  Checked(s)'
<1>1. Leader(l)' = Leader(l)
  BY DEF Leader, LotStays
<1>2. ASSUME NEW u, NEW a, NEW t
      PROVE  Biddable(u, l, a, t)' <=> Biddable(u, l, a, t)
  BY <1>1 DEF Biddable, LotStays
<1>3. ASSUME NEW u, NEW t
      PROVE  Buyable(u, l, t)' <=> Buyable(u, l, t)
  BY DEF Buyable, LotStays
<1>4. Patchable(s.req)' <=> Patchable(s.req)
  BY DEF Patchable, Editable, Edited, LotStays
<1>5. Deletable(l)' <=> Deletable(l)
  BY DEF Deletable, LotStays
<1>6. created_by'[l] = created_by[l] /\ status'[l] = status[l]
  BY DEF LotStays
<1>7. QED
  BY <1>2, <1>3, <1>4, <1>5, <1>6 DEF Checked, Working

(* ... and so is whom it locks.                                            *)
LEMMA NeededStays ==
  ASSUME NEW s, s.req.lot \in Lots => LotStays(s.req.lot), Asked(s), s.step # "idle"
  PROVE  Needed(s)' = Needed(s)
<1>1. CASE s.req.lot \in Lots
  BY <1>1 DEF Needed, LotStays, Leader
<1>2. CASE s.req.lot \notin Lots
  BY <1>2 DEF Needed, Asked, Valid
<1>3. QED
  BY <1>1, <1>2

(* At its commit a session holds every row it needs.                       *)
LEMMA HoldsAll ==
  ASSUME NEW s, Queue(s), s.step \in {"decide", "commit"}
  PROVE  s.locked = Needed(s)
<1>1. s.todo = <<>> /\ Working(s)
  BY DEF Queue, Working
<1>2. Waiting(s) = {}
  BY <1>1 DEF Waiting
<1>3. QED
  BY <1>1, <1>2 DEF Queue

LEMMA GoodLater ==
  ASSUME TypeOK, TypeOK', NEW s, Good(s), NobodyUnlists, now <= now',
         Working(s) /\ ~ OnCash(s) => now' - s.t <= Latency,
         Working(s) /\ s.req.lot \in Lots => LotStays(s.req.lot),
         \A u \in s.locked : UserStays(u)
  PROVE  Good(s)'
<1>1. /\ s \in SessionStates
      /\ Asked(s) /\ Read(s) /\ Checked(s) /\ Recent(s) /\ Afford(s) /\ Queue(s) /\ Fresh(s)
  BY DEF Good
<1>a. /\ now \in Nat /\ now' \in Nat /\ s.t \in Nat /\ s.s \in Nat
      /\ s.row \in [status : {"active"}, end_time : Nat] => s.row.end_time \in Nat
  BY <1>1, BoundsAssumption DEF TypeOK, SessionStates
<1>2. Read(s)'
  BY <1>1, <1>a DEF Read, Ticking, NobodyUnlists, Asked, Valid
<1>3. Checked(s)'
  <2>1. CASE Working(s) /\ s.req.lot \in Lots
    BY <1>1, <2>1, ChecksStay
  <2>2. CASE ~ Working(s)
    BY <2>2 DEF Checked, Working
  <2>3. CASE Working(s) /\ s.req.lot \notin Lots
    BY <1>1, <2>3 DEF Checked, Asked, Valid, Working
  <2>4. QED
    BY <2>1, <2>2, <2>3
<1>4. Recent(s)'
  BY <1>1, <1>a DEF Recent, Working, OnCash
<1>5. Needed(s)' = Needed(s) \/ ~ Working(s)
  BY <1>1, NeededStays DEF Working
<1>6. Queue(s)'
  BY <1>1, <1>5 DEF Queue, Working, Waiting, Tells
<1>7. Fresh(s)'
  BY <1>1 DEF Fresh, UserStays
<1>8. Afford(s)'
  <2> SUFFICES ASSUME s.step = "commit"
               PROVE  Afford(s)'
    BY DEF Afford
  <2>1. CASE s.req.op \notin {"bid", "buy", "deposit", "withdraw"}
    BY <2>1 DEF Afford, OnCash
  <2>2. CASE s.req.op \in {"bid", "buy", "deposit", "withdraw"}
    <3>1. s.req.user \in s.locked
      BY <1>1, <2>2, HoldsAll DEF Needed
    <3>2. s.req.user \in Users /\ s.req.amount \in Nat
      BY <1>1, <2>2 DEF Asked, Valid, Request
    <3>3. s.cash[s.req.user] \in Nat
      BY <1>1, <3>2 DEF SessionStates
    <3>4. CommittedBalance(s.req.user) \in Nat /\ CommittedBalance(s.req.user)' \in Nat
      BY <3>2, CommittedType, CommittedNext
    <3>5. /\ CommittedBalance(s.req.user)' <= CommittedBalance(s.req.user)
          /\ ledger'[s.req.user] = ledger[s.req.user]
      BY <3>1 DEF UserStays
    <3>6. s.req.op = "buy" => /\ bin_price'[s.req.lot] = bin_price[s.req.lot]
                             /\ bin_price[s.req.lot] \in Nat
      BY <1>1 DEF Asked, Valid, LotStays, Working, TypeOK
    <3>7. MaxUserBalance \in Nat
      BY BalanceAssumption
    <3> DEFINE c == s.cash[s.req.user]
               d == CommittedBalance(s.req.user)
               e == CommittedBalance(s.req.user)'
               b == bin_price[s.req.lot]
    <3>8. /\ s.req.op = "bid" => c - d >= s.req.amount
          /\ s.req.op = "buy" => c - d >= b
          /\ s.req.op = "deposit" => c + s.req.amount <= MaxUserBalance
          /\ s.req.op = "withdraw" => c - d >= s.req.amount
          /\ OnCash(s) => Len(ledger[s.req.user]) < MaxRows
      BY <1>1 DEF Afford
    <3>9. c \in Nat /\ d \in Nat /\ e \in Nat /\ e <= d /\ s.req.amount \in Nat
      BY <3>2, <3>3, <3>4, <3>5
    <3> HIDE DEF c, d, e, b
    <3>10. /\ s.req.op = "bid" => c - e >= s.req.amount
           /\ s.req.op = "buy" => c - e >= b
           /\ s.req.op = "withdraw" => c - e >= s.req.amount
      BY <3>6, <3>8, <3>9 DEF b
    <3>11. QED
      BY <3>5, <3>6, <3>8, <3>10 DEF Afford, OnCash, c, d, e, b
  <2>3. QED
    BY <2>1, <2>2
<1>9. (s \in SessionStates)' /\ Asked(s)'
  BY <1>1 DEF SessionStates, Asked, Valid, Request
<1>10. QED
  BY <1>2, <1>3, <1>4, <1>6, <1>7, <1>8, <1>9 DEF Good

LEMMA GoodStays ==
  ASSUME TypeOK, TypeOK', NEW s, Good(s), NobodyUnlists, now' = now,
         Working(s) /\ s.req.lot \in Lots => LotStays(s.req.lot),
         \A u \in s.locked : UserStays(u)
  PROVE  Good(s)'
<1>1. now <= now'
  BY BoundsAssumption DEF TypeOK
<1>2. Working(s) /\ ~ OnCash(s) => now' - s.t <= Latency
  BY DEF Good, Recent
<1>3. QED
  BY <1>1, <1>2, GoodLater

LEMMA IdleGood == Good(Idle) /\ Good(Idle)'
<1>1. Idle \in SessionStates
  <2>1. Body("tick", NoUser, 0) \in Request
    BY LotsAssumption DEF Body, Request
  <2>2. <<>> \in Seq(Users) /\ NoCash \in [Users -> Nat] /\ 0 \in 0 .. Horizon
    BY BoundsAssumption DEF NoCash
  <2>3. QED
    BY <2>1, <2>2 DEF Idle, SessionStates
<1>2. (Idle \in SessionStates)'
  BY <1>1 DEF SessionStates, Request
<1>3. Asked(Idle) /\ Read(Idle) /\ Checked(Idle) /\ Recent(Idle) /\ Afford(Idle)
  BY DEF Asked, Read, Checked, Recent, Afford, Idle, Working, Ticking
<1>4. (Asked(Idle) /\ Read(Idle) /\ Checked(Idle) /\ Recent(Idle) /\ Afford(Idle))'
  BY DEF Asked, Read, Checked, Recent, Afford, Idle, Working, Ticking
<1>5. Queue(Idle) /\ Fresh(Idle)
  BY DEF Queue, Fresh, Idle, Working, Tells
<1>6. (Queue(Idle) /\ Fresh(Idle))'
  BY DEF Queue, Fresh, Idle, Working, Tells
<1>7. QED
  BY <1>1, <1>2, <1>3, <1>4, <1>5, <1>6 DEF Good

LEMMA IdleApart ==
  ASSUME NEW s
  PROVE  Apart(Idle, s) /\ Apart(s, Idle)
BY DEF Apart, Idle, SameLot, Working

LEMMA ApartSymmetric ==
  ASSUME NEW s, NEW q, Apart(s, q)
  PROVE  Apart(q, s)
BY DEF Apart, SameLot, Working

(* A stutter on the tables.                                                *)
LEMMA TablesStay ==
  ASSUME Tables, UNCHANGED vars
  PROVE  /\ Tables' /\ now' = now /\ NobodyUnlists
         /\ \A l \in Lots : LotStays(l)
         /\ \A u \in Users : UserStays(u)
<1>1. TypeOK' /\ BlankWhenAbsent'
  BY NextSteps, StepTypeOK, StepBlank DEF Tables
<1>2. /\ now' = now /\ status' = status /\ created_by' = created_by
      /\ auction_type' = auction_type /\ starting_price' = starting_price
      /\ current_price' = current_price /\ bin_price' = bin_price
      /\ end_time' = end_time /\ extensions_count' = extensions_count /\ bids' = bids
      /\ balance' = balance /\ ledger' = ledger
  BY DEF vars, listing, deadline, money
<1>3. ASSUME NEW u \in Users
      PROVE  UserStays(u)
  <2>1. CommittedBalance(u)' = CommittedBalance(u) /\ CommittedBalance(u) \in Nat
    BY <1>2, CommittedSame, CommittedType DEF Tables
  <2>2. QED
    BY <1>2, <2>1 DEF UserStays
<1>4. QED
  BY <1>1, <1>2, <1>3 DEF Tables, SellersKnown, NobodyUnlists, LotStays

LEMMA VarsStay ==
  ASSUME Tables, UNCHANGED vars, NEW s, Good(s)
  PROVE  Good(s)'
<1>1. s.locked \subseteq Users
  BY DEF Good, SessionStates
<1>2. QED
  BY <1>1, TablesStay, GoodStays DEF Tables

(* One session moves; the tables change only under its locks.              *)
LEMMA SessionStep ==
  ASSUME LockInv, Tables', now' = now, NobodyUnlists,
         NEW p \in Procs, NEW c, session[p] = c, NEW new, Become(p, new),
         \A l \in Lots : LotStays(l) \/ (Working(c) /\ l = c.req.lot),
         \A u \in Users : UserStays(u) \/ u \in c.locked,
         Good(new)', \A q \in Procs : q # p => Apart(new, session[q])
  PROVE  LockInv'
<1>1. /\ Tables /\ session \in [Procs -> SessionStates]
      /\ \A q \in Procs : Good(session[q])
      /\ \A q, r \in Procs : q # r => Apart(session[q], session[r])
  BY DEF LockInv
<1>2. new \in SessionStates /\ SessionStates' = SessionStates
  BY DEF Good, SessionStates, Request
<1>3. session' \in [Procs -> SessionStates]
  BY <1>1, <1>2 DEF Become
<1>4. session'[p] = new /\ \A q \in Procs : q # p => session'[q] = session[q]
  BY <1>1 DEF Become
<1>5. ASSUME NEW q \in Procs
      PROVE  Good(session[q])'
  <2>1. CASE q = p
    BY <1>4, <2>1
  <2>2. CASE q # p
    <3>1. PICK d : d = session[q]
      OBVIOUS
    <3>2. Good(d) /\ Apart(c, d) /\ session'[q] = d
      BY <1>1, <1>4, <2>2, <3>1
    <3>3. Working(d) /\ d.req.lot \in Lots => LotStays(d.req.lot)
      <4> SUFFICES ASSUME Working(d), d.req.lot \in Lots PROVE LotStays(d.req.lot)
        OBVIOUS
      <4>1. d.req.lot # 0
        BY DEF Lots
      <4>2. ~ (Working(c) /\ d.req.lot = c.req.lot)
        BY <3>2, <4>1 DEF Apart, SameLot
      <4>3. QED
        BY <4>2
    <3>4. \A u \in d.locked : UserStays(u)
      <4>1. d.locked \subseteq Users /\ c.locked \cap d.locked = {}
        BY <3>2 DEF Good, SessionStates, Apart
      <4>2. QED
        BY <4>1
    <3>5. Good(d)'
      BY <1>1, <3>2, <3>3, <3>4, GoodStays DEF Tables
    <3>6. QED
      BY <3>2, <3>5
  <2>3. QED
    BY <2>1, <2>2
<1>6. ASSUME NEW q \in Procs, NEW r \in Procs, q # r
      PROVE  Apart(session'[q], session'[r])
  <2>1. CASE q = p
    BY <1>4, <1>6, <2>1
  <2>2. CASE r = p
    BY <1>4, <1>6, <2>2, ApartSymmetric
  <2>3. CASE q # p /\ r # p
    BY <1>1, <1>4, <1>6, <2>3
  <2>4. QED
    BY <2>1, <2>2, <2>3
<1>7. (\A q, r \in Procs : q # r => Apart(session[q], session[r]))'
  BY <1>6 DEF Apart, SameLot, Working
<1>8. QED
  BY <1>2, <1>3, <1>5, <1>7 DEF LockInv

(* ... the same for a step that only reads.                                *)
LEMMA ReadStep ==
  ASSUME LockInv, UNCHANGED vars, NEW p \in Procs, NEW new, Become(p, new),
         Good(new), \A q \in Procs : q # p => Apart(new, session[q])
  PROVE  LockInv'
<1>1. PICK c : c = session[p]
  OBVIOUS
<1>2. Tables
  BY DEF LockInv
<1>3. Good(new)'
  BY <1>2, VarsStay
<1>4. QED
  BY <1>1, <1>2, <1>3, TablesStay, SessionStep

LEMMA ReplyStep ==
  ASSUME LockInv, UNCHANGED vars, NEW p \in Procs, Reply(p)
  PROVE  LockInv'
BY ReadStep, IdleGood, IdleApart DEF Reply

LEMMA SessionGood ==
  ASSUME LockInv, NEW p \in Procs
  PROVE  /\ session[p] \in SessionStates /\ Good(session[p])
         /\ \A q \in Procs : q # p => Apart(session[p], session[q])
         /\ \A q \in Procs : session[q] \in SessionStates /\ Good(session[q])
BY DEF LockInv

-----------------------------------------------------------------------------
(* A session starts.                                                       *)

LEMMA IdleFields ==
  /\ Idle \in SessionStates
  /\ Idle.step = "idle" /\ Idle.todo = <<>>
  /\ Idle.locked = {} /\ Idle.shared = {} /\ ~ Idle.refers
BY IdleGood DEF Idle, Good

LEMMA ReceiveStep ==
  ASSUME LockInv, NEW p \in Procs, NEW r \in Workload, Receive(p, r)
  PROVE  LockInv'
<1>1. Valid(r) /\ r.op # "create" /\ r \in Request /\ r.user \in Users
  BY WorkloadAssumption DEF Receive, Valid
<1>2. CASE OnCash([req |-> r])
  <2>1. PICK new : new = [Idle EXCEPT !.step = "users", !.req = r, !.todo = <<r.user>>]
    OBVIOUS
  <2>2. Become(p, new)
    BY <1>2, <2>1 DEF Receive, OnCash
  <2>3. <<r.user>> \in Seq(Users)
    BY <1>1
  <2>4. /\ new \in SessionStates
        /\ new.step = "users" /\ new.req = r /\ new.todo = <<r.user>>
        /\ new.locked = {} /\ new.shared = {} /\ ~ new.refers
    BY <1>1, <2>1, <2>3, IdleFields DEF SessionStates
  <2>5. Queue(new)
    BY <1>2, <2>4 DEF Queue, Waiting, Needed, OnCash, Working, Tells
  <2>6. Asked(new) /\ Read(new) /\ Checked(new) /\ Recent(new) /\ Afford(new) /\ Fresh(new)
    BY <1>1, <1>2, <2>4
       DEF Asked, Read, Checked, Recent, Afford, Fresh, Ticking, OnCash, Working
  <2>7. r.lot = 0
    BY <1>1, <1>2 DEF Valid, OnCash
  <2>8. QED
    BY <2>2, <2>4, <2>5, <2>6, <2>7, ReadStep DEF Good, Apart, SameLot, Receive
<1>3. CASE ~ OnCash([req |-> r])
  <2>1. PICK new : new = [Idle EXCEPT !.step = "lot", !.req = r]
    OBVIOUS
  <2>2. Become(p, new)
    BY <1>3, <2>1 DEF Receive, OnCash
  <2>3. /\ new \in SessionStates
        /\ new.step = "lot" /\ new.req = r /\ new.todo = <<>>
        /\ new.locked = {} /\ new.shared = {} /\ ~ new.refers
    BY <1>1, <2>1, IdleFields DEF SessionStates
  <2>4. Asked(new) /\ Read(new) /\ Checked(new) /\ Recent(new) /\ Afford(new)
        /\ Fresh(new) /\ Queue(new)
    BY <1>1, <1>3, <2>3
       DEF Asked, Read, Checked, Recent, Afford, Fresh, Queue, Ticking, OnCash, Working, Valid,
           Tells
  <2>5. QED
    BY <2>2, <2>3, <2>4, ReadStep DEF Good, Apart, SameLot, Working, Receive
<1>4. QED
  BY <1>2, <1>3

LEMMA FireStep ==
  ASSUME LockInv, NEW p \in Procs, NEW l \in Lots, Fire(p, l)
  PROVE  LockInv'
<1>1. PICK new : new = [Idle EXCEPT !.step = "lot", !.req = Body("tick", NoUser, l),
                          !.row = [status |-> status[l], end_time |-> end_time[l]]]
  OBVIOUS
<1>2. status[l] = "active" /\ end_time[l] \in Nat /\ end_time[l] <= now
  BY DEF Fire, Due, LockInv, Tables, TypeOK
<1>3. Body("tick", NoUser, l) \in Request
  BY DEF Body, Request, Lots
<1>4. /\ new \in SessionStates /\ new.row = [status |-> "active", end_time |-> end_time[l]]
      /\ new.step = "lot" /\ new.req = Body("tick", NoUser, l) /\ new.todo = <<>>
      /\ new.locked = {} /\ new.shared = {} /\ ~ new.refers
  BY <1>1, <1>2, <1>3, IdleFields DEF SessionStates
<1>5. new.req.op = "tick" /\ new.req.lot = l
  BY <1>4 DEF Body
<1>6. Read(new)
  BY <1>2, <1>4, <1>5 DEF Read
<1>7. Asked(new) /\ Checked(new) /\ Recent(new) /\ Afford(new) /\ Fresh(new) /\ Queue(new)
  BY <1>4, <1>5 DEF Asked, Checked, Recent, Afford, Fresh, Queue, Working, Tells
<1>8. QED
  BY <1>1, <1>4, <1>6, <1>7, ReadStep DEF Fire, Good, Apart, SameLot, Working

-----------------------------------------------------------------------------
(* The lot is locked.                                                      *)

LEMMA AscendingIs ==
  ASSUME NEW u \in Users, NEW v \in Users
  PROVE  /\ Ascending(u, v) \in Seq(Users) /\ Ascending(u, v) # <<>>
         /\ {Ascending(u, v)[i] : i \in 1 .. Len(Ascending(u, v))} = {u, v}
         /\ \A i, j \in 1 .. Len(Ascending(u, v)) :
              i < j => Ascending(u, v)[i] < Ascending(u, v)[j]
<1>1. u \in Nat /\ v \in Nat
  BY IdsAssumption
<1>2. CASE u = v
  <2>1. Ascending(u, v) = <<u>>
    BY <1>2 DEF Ascending
  <2>2. QED
    BY <1>2, <2>1
<1>3. CASE u < v
  <2>1. Ascending(u, v) = <<u, v>>
    BY <1>1, <1>3 DEF Ascending
  <2>2. Len(<<u, v>>) = 2 /\ <<u, v>>[1] = u /\ <<u, v>>[2] = v /\ <<u, v>> \in Seq(Users)
    OBVIOUS
  <2>3. 1 .. 2 = {1, 2}
    OBVIOUS
  <2>4. QED
    BY <1>1, <1>3, <2>1, <2>2, <2>3
<1>4. CASE v < u
  <2>1. Ascending(u, v) = <<v, u>>
    BY <1>1, <1>4 DEF Ascending
  <2>2. Len(<<v, u>>) = 2 /\ <<v, u>>[1] = v /\ <<v, u>>[2] = u /\ <<v, u>> \in Seq(Users)
    OBVIOUS
  <2>3. 1 .. 2 = {1, 2}
    OBVIOUS
  <2>4. QED
    BY <1>1, <1>4, <2>1, <2>2, <2>3
<1>5. u = v \/ u < v \/ v < u
  BY <1>1
<1>6. QED
  BY ONLY <1>2, <1>3, <1>4, <1>5

(* A granted lot is nobody else's, and its holder goes for the users it    *)
(* needs, in ascending order.                                              *)
LEMMA LockNextStep ==
  ASSUME LockInv, UNCHANGED vars, NEW p \in Procs, NEW c, c = session[p], c.step = "lot",
         LotFree(c.req.lot), NEW todo \in Seq(Users), LockNext(p, todo),
         NEW new, new = [c EXCEPT !.step = IF todo = <<>> THEN "commit" ELSE "users",
                                  !.todo = todo, !.t = now, !.s = now],
         Checked(new), Needed(new) = {todo[i] : i \in 1 .. Len(todo)},
         \A i, j \in 1 .. Len(todo) : i < j => todo[i] < todo[j],
         c.req.op \notin {"deposit", "withdraw"},
         todo = <<>> => c.req.op \in {"edit", "delete", "tick"}
  PROVE  LockInv'
<1>1. Good(c) /\ c \in SessionStates
  BY SessionGood
<1>2. Tables
  BY DEF LockInv
<1>3. c.locked = {} /\ c.shared = {} /\ ~ c.refers /\ Asked(c) /\ Read(c)
  BY <1>1 DEF Good, Queue, Working, Tells
<1>4. now \in 0 .. Horizon
  BY <1>2 DEF Tables, TypeOK
<1>5. /\ new \in SessionStates
      /\ new.step = (IF todo = <<>> THEN "commit" ELSE "users")
      /\ new.todo = todo /\ new.t = now /\ new.s = now
      /\ new.req = c.req /\ new.row = c.row
      /\ new.locked = {} /\ new.shared = {} /\ ~ new.refers /\ new.cash = c.cash
  BY <1>1, <1>3, <1>4 DEF SessionStates
<1>6. Asked(new)
  BY <1>3, <1>5 DEF Asked, OnCash
<1>7. Read(new)
  BY <1>3, <1>5 DEF Read, Ticking
<1>8. Recent(new)
  BY <1>4, <1>5, BoundsAssumption DEF Recent
<1>9. Afford(new)
  BY <1>5 DEF Afford, OnCash
<1>10. Queue(new)
  BY <1>5 DEF Queue, Waiting, Working, Tells
<1>11. Fresh(new)
  BY <1>5 DEF Fresh
<1>12. Good(new)
  BY <1>5, <1>6, <1>7, <1>8, <1>9, <1>10, <1>11 DEF Good
<1>13. ASSUME NEW q \in Procs
       PROVE  Apart(new, session[q])
  <2>1. ~ HoldsLot(q, c.req.lot)
    BY DEF LotFree
  <2>2. QED
    BY <1>5, <2>1 DEF Apart, SameLot, HoldsLot, Working, Step, Req
<1>14. Become(p, new)
  BY DEF LockNext
<1>15. QED
  BY <1>12, <1>13, <1>14, ReadStep

LEMMA LotBidStep ==
  ASSUME LockInv, NEW p \in Procs, LotBid(p)
  PROVE  LockInv'
<1>1. PICK c : c = session[p]
  OBVIOUS
<1>2. CASE ~ Biddable(c.req.user, c.req.lot, c.req.amount, now)
  BY <1>1, <1>2, ReplyStep DEF LotBid, Req
<1>3. CASE Biddable(c.req.user, c.req.lot, c.req.amount, now)
  <2>1. c.step = "lot" /\ c.req.op = "bid" /\ Asked(c) /\ c.req.user \in Users
    BY <1>1, SessionGood DEF LotBid, Granted, Step, Req, Good, Asked, Valid
  <2> DEFINE todo == <<c.req.user>>
  <2>2. PICK new : new = [c EXCEPT !.step = IF todo = <<>> THEN "commit" ELSE "users",
                                   !.todo = todo, !.t = now, !.s = now]
    OBVIOUS
  <2>3. c \in SessionStates
    BY <1>1, SessionGood
  <2>4. new.req = c.req /\ new.t = now
    BY <2>2, <2>3 DEF SessionStates
  <2>5. Checked(new)
    BY <1>3, <2>1, <2>4 DEF Checked
  <2>6. todo \in Seq(Users) /\ todo # <<>> /\ Len(todo) = 1 /\ todo[1] = c.req.user
    BY <2>1
  <2>7. Needed(new) = {todo[i] : i \in 1 .. Len(todo)}
    BY <2>1, <2>4, <2>6 DEF Needed
  <2>8. LockNext(p, todo) /\ LotFree(c.req.lot) /\ UNCHANGED vars
    BY <1>1, <1>3 DEF LotBid, Req, Granted
  <2>9. \A i, j \in 1 .. Len(todo) : i < j => todo[i] < todo[j]
    BY <2>6
  <2> HIDE DEF todo
  <2>10. QED
    BY <1>1, <2>1, <2>2, <2>5, <2>6, <2>7, <2>8, <2>9, LockNextStep
<1>4. QED
  BY <1>2, <1>3

LEMMA LotBuyStep ==
  ASSUME LockInv, NEW p \in Procs, LotBuy(p)
  PROVE  LockInv'
<1>1. PICK c : c = session[p]
  OBVIOUS
<1>2. CASE ~ Buyable(c.req.user, c.req.lot, now)
  BY <1>1, <1>2, ReplyStep DEF LotBuy, Req
<1>3. CASE Buyable(c.req.user, c.req.lot, now)
  <2>1. /\ c.step = "lot" /\ c.req.op = "buy" /\ Asked(c) /\ c.req.user \in Users
        /\ c.req.lot \in Lots
    BY <1>1, SessionGood DEF LotBuy, Granted, Step, Req, Good, Asked, Valid
  <2>2. created_by[c.req.lot] \in Users
    BY <1>3, <2>1 DEF LockInv, Tables, SellersKnown, Buyable
  <2> DEFINE todo == Ascending(c.req.user, created_by[c.req.lot])
  <2>3. PICK new : new = [c EXCEPT !.step = IF todo = <<>> THEN "commit" ELSE "users",
                                   !.todo = todo, !.t = now, !.s = now]
    OBVIOUS
  <2>4. c \in SessionStates
    BY <1>1, SessionGood
  <2>5. new.req = c.req /\ new.t = now
    BY <2>3, <2>4 DEF SessionStates
  <2>6. Checked(new)
    BY <1>3, <2>1, <2>5 DEF Checked
  <2>7. /\ todo \in Seq(Users) /\ todo # <<>>
        /\ {todo[i] : i \in 1 .. Len(todo)} = {c.req.user, created_by[c.req.lot]}
        /\ \A i, j \in 1 .. Len(todo) : i < j => todo[i] < todo[j]
    BY <2>1, <2>2, AscendingIs
  <2>8. LockNext(p, todo) /\ LotFree(c.req.lot) /\ UNCHANGED vars
    BY <1>1, <1>3 DEF LotBuy, Req, Granted
  <2> HIDE DEF todo
  <2>9. Needed(new) = {todo[i] : i \in 1 .. Len(todo)}
    BY <2>1, <2>5, <2>7 DEF Needed
  <2>10. QED
    BY <1>1, <2>1, <2>3, <2>6, <2>7, <2>8, <2>9, LockNextStep
<1>4. QED
  BY <1>2, <1>3

LEMMA LotEditStep ==
  ASSUME LockInv, NEW p \in Procs, LotEdit(p)
  PROVE  LockInv'
<1>1. PICK c : c = session[p]
  OBVIOUS
<1>2. CASE ~ Patchable(c.req)
  BY <1>1, <1>2, ReplyStep DEF LotEdit, Req, Patchable
<1>3. CASE Patchable(c.req)
  <2>1. c.step = "lot" /\ c.req.op = "edit"
    BY <1>1 DEF LotEdit, Granted, Step, Req
  <2>2. PICK new : new = [c EXCEPT !.step = IF <<>> = <<>> THEN "commit" ELSE "users",
                                   !.todo = <<>>, !.t = now, !.s = now]
    OBVIOUS
  <2>3. c \in SessionStates
    BY <1>1, SessionGood
  <2>4. new.req = c.req
    BY <2>2, <2>3 DEF SessionStates
  <2>5. Checked(new)
    BY <1>3, <2>1, <2>4 DEF Checked
  <2>6. LockNext(p, <<>>) /\ LotFree(c.req.lot) /\ UNCHANGED vars
    BY <1>1, <1>3 DEF LotEdit, Req, Granted, Patchable
  <2>7. <<>> \in Seq(Users) /\ Len(<<>>) = 0 /\ 1 .. 0 = {}
    OBVIOUS
  <2>8. Needed(new) = {<<>>[i] : i \in 1 .. Len(<<>>)}
    BY <2>1, <2>4, <2>7 DEF Needed
  <2>9. \A i, j \in 1 .. Len(<<>>) : i < j => <<>>[i] < <<>>[j]
    BY <2>7
  <2>10. QED
    BY <1>1, <2>1, <2>2, <2>5, <2>6, <2>7, <2>8, <2>9, LockNextStep
<1>4. QED
  BY <1>2, <1>3

LEMMA LotDeleteStep ==
  ASSUME LockInv, NEW p \in Procs, LotDelete(p)
  PROVE  LockInv'
<1>1. PICK c : c = session[p]
  OBVIOUS
<1>2. CASE ~ (created_by[c.req.lot] = c.req.user /\ Deletable(c.req.lot))
  BY <1>1, <1>2, ReplyStep DEF LotDelete, Req
<1>3. CASE created_by[c.req.lot] = c.req.user /\ Deletable(c.req.lot)
  <2>1. c.step = "lot" /\ c.req.op = "delete"
    BY <1>1 DEF LotDelete, Granted, Step, Req
  <2>2. PICK new : new = [c EXCEPT !.step = IF <<>> = <<>> THEN "commit" ELSE "users",
                                   !.todo = <<>>, !.t = now, !.s = now]
    OBVIOUS
  <2>3. c \in SessionStates
    BY <1>1, SessionGood
  <2>4. new.req = c.req
    BY <2>2, <2>3 DEF SessionStates
  <2>5. Checked(new)
    BY <1>3, <2>1, <2>4 DEF Checked
  <2>6. LockNext(p, <<>>) /\ LotFree(c.req.lot) /\ UNCHANGED vars
    BY <1>1, <1>3 DEF LotDelete, Req, Granted
  <2>7. <<>> \in Seq(Users) /\ Len(<<>>) = 0 /\ 1 .. 0 = {}
    OBVIOUS
  <2>8. Needed(new) = {<<>>[i] : i \in 1 .. Len(<<>>)}
    BY <2>1, <2>4, <2>7 DEF Needed
  <2>9. \A i, j \in 1 .. Len(<<>>) : i < j => <<>>[i] < <<>>[j]
    BY <2>7
  <2>10. QED
    BY <1>1, <2>1, <2>2, <2>5, <2>6, <2>7, <2>8, <2>9, LockNextStep
<1>4. QED
  BY <1>2, <1>3

LEMMA LotSettleStep ==
  ASSUME LockInv, NEW p \in Procs, LotSettle(p)
  PROVE  LockInv'
<1>1. PICK c : c = session[p]
  OBVIOUS
<1> DEFINE l == c.req.lot
<1>2. CASE ~ (status[l] # "deleted" /\ c.row.status = "active" /\ c.row.end_time <= now)
  BY <1>1, <1>2, ReplyStep DEF LotSettle, Req
<1>3. CASE status[l] # "deleted" /\ c.row.status = "active" /\ c.row.end_time <= now
  <2>1. c.step = "lot" /\ c.req.op = "tick" /\ c \in SessionStates /\ Asked(c) /\ Read(c)
    BY <1>1, SessionGood DEF LotSettle, Granted, Step, Req, Good
  <2>2. l \in Lots /\ status[l] # "absent"
    BY <2>1 DEF Asked, Read, Ticking, Valid
  <2>3. created_by[l] \in Users
    BY <2>2 DEF LockInv, Tables, SellersKnown
  <2>4. bids[l] # <<>> => Leader(l) \in Users
    BY <2>2, LastBidType DEF LockInv, Tables, Leader
  <2> DEFINE todo == IF bids[l] = <<>> THEN <<>> ELSE Ascending(Leader(l), created_by[l])
  <2>5. PICK new : new = [c EXCEPT !.step = IF todo = <<>> THEN "commit" ELSE "users",
                                   !.todo = todo, !.t = now, !.s = now]
    OBVIOUS
  <2>6. new.req = c.req
    BY <2>1, <2>5 DEF SessionStates
  <2>7. Checked(new)
    BY <1>3, <2>1, <2>6 DEF Checked
  <2>8. LockNext(p, todo) /\ LotFree(l) /\ UNCHANGED vars
    BY <1>1, <1>3 DEF LotSettle, Req, Granted
  <2>9. /\ todo \in Seq(Users)
        /\ Needed(new) = {todo[i] : i \in 1 .. Len(todo)}
        /\ \A i, j \in 1 .. Len(todo) : i < j => todo[i] < todo[j]
    <3>1. CASE bids[l] = <<>>
      <4>1. todo = <<>> /\ Len(<<>>) = 0 /\ 1 .. 0 = {} /\ <<>> \in Seq(Users)
        BY <3>1
      <4>2. Needed(new) = {}
        BY <2>1, <2>6, <3>1 DEF Needed
      <4>3. QED
        BY <4>1, <4>2
    <3>2. CASE bids[l] # <<>>
      <4>1. todo = Ascending(Leader(l), created_by[l])
        BY <3>2
      <4>2. Needed(new) = {Leader(l), created_by[l]}
        BY <2>1, <2>6, <3>2 DEF Needed
      <4>3. /\ Ascending(Leader(l), created_by[l]) \in Seq(Users)
            /\ {Ascending(Leader(l), created_by[l])[i] :
                  i \in 1 .. Len(Ascending(Leader(l), created_by[l]))}
               = {Leader(l), created_by[l]}
            /\ \A i, j \in 1 .. Len(Ascending(Leader(l), created_by[l])) :
                 i < j => Ascending(Leader(l), created_by[l])[i]
                            < Ascending(Leader(l), created_by[l])[j]
        BY <2>3, <2>4, <3>2, AscendingIs
      <4> HIDE DEF todo, l
      <4>4. QED
        BY <4>1, <4>2, <4>3
    <3>3. QED
      BY <3>1, <3>2
  <2> HIDE DEF todo
  <2>10. QED
    BY <1>1, <2>1, <2>5, <2>7, <2>8, <2>9, LockNextStep
<1>4. QED
  BY <1>2, <1>3

-----------------------------------------------------------------------------
(* The users are locked one by one.                                        *)

LEMMA HeadAndTail ==
  ASSUME NEW S, NEW todo \in Seq(S), todo # <<>>
  PROVE  /\ Head(todo) \in S /\ Head(todo) = todo[1] /\ 1 \in 1 .. Len(todo)
         /\ Tail(todo) \in Seq(S) /\ Len(Tail(todo)) = Len(todo) - 1
         /\ \A i \in 1 .. Len(Tail(todo)) : Tail(todo)[i] = todo[i + 1] /\ i + 1 \in 1 .. Len(todo)
         /\ {todo[i] : i \in 1 .. Len(todo)}
              = {Head(todo)} \cup {Tail(todo)[i] : i \in 1 .. Len(Tail(todo))}
<1>1. /\ Head(todo) \in S /\ Head(todo) = todo[1] /\ Len(todo) \in Nat /\ Len(todo) >= 1
      /\ Tail(todo) \in Seq(S) /\ Len(Tail(todo)) = Len(todo) - 1
  OBVIOUS
<1>2. \A i \in 1 .. Len(Tail(todo)) : Tail(todo)[i] = todo[i + 1] /\ i + 1 \in 1 .. Len(todo)
  OBVIOUS
<1>3. ASSUME NEW i \in 1 .. Len(todo)
      PROVE  todo[i] \in {Head(todo)} \cup {Tail(todo)[k] : k \in 1 .. Len(Tail(todo))}
  <2>1. CASE i = 1
    BY <1>1, <2>1
  <2>2. CASE i # 1
    <3>1. i - 1 \in 1 .. Len(Tail(todo)) /\ (i - 1) + 1 = i
      BY <1>1, <2>2
    <3>2. Tail(todo)[i - 1] = todo[i]
      BY <1>2, <3>1
    <3>3. QED
      BY <3>1, <3>2
  <2>3. QED
    BY <2>1, <2>2
<1>4. {Head(todo)} \cup {Tail(todo)[k] : k \in 1 .. Len(Tail(todo))}
        \subseteq {todo[i] : i \in 1 .. Len(todo)}
  <2>1. 1 \in 1 .. Len(todo)
    BY <1>1
  <2>2. QED
    BY <1>1, <1>2, <2>1
<1>5. QED
  BY <1>1, <1>2, <1>3, <1>4

LEMMA LockUserStep ==
  ASSUME LockInv, NEW p \in Procs, LockUser(p)
  PROVE  LockInv'
<1>1. PICK c : c = session[p]
  OBVIOUS
<1>2. c \in SessionStates /\ Good(c) /\ \A q \in Procs : q # p => Apart(c, session[q])
  BY <1>1, SessionGood
<1>3. c.step = "users" /\ Working(c) /\ UNCHANGED vars
  BY <1>1 DEF LockUser, Step, Working
<1>4. /\ Asked(c) /\ Read(c) /\ Checked(c) /\ Recent(c) /\ Afford(c) /\ Queue(c) /\ Fresh(c)
  BY <1>2 DEF Good
<1>5. c.todo # <<>> /\ c.todo \in Seq(Users) /\ c.locked \subseteq Users
  BY <1>2, <1>3, <1>4 DEF Queue, SessionStates
<1> DEFINE todo == c.todo
           u == Head(todo)
           rest == Tail(todo)
           cash == [c.cash EXCEPT ![u] = balance[u]]
           step == IF rest # <<>> THEN "users"
                   ELSE IF c.req.op = "tick" THEN "commit" ELSE "decide"
<1>6. PICK new : new = [c EXCEPT !.locked = @ \cup {u}, !.cash[u] = balance[u],
                                 !.todo = rest, !.step = step]
  OBVIOUS
<1>7. Become(p, new) /\ \A q \in Procs \ {p} : u \notin session[q].locked \cup session[q].shared
  BY <1>1, <1>6 DEF LockUser, UserFree, Req
<1>8. /\ u \in Users /\ u = todo[1] /\ 1 \in 1 .. Len(todo)
      /\ rest \in Seq(Users) /\ Len(rest) = Len(todo) - 1
      /\ \A i \in 1 .. Len(rest) : rest[i] = todo[i + 1] /\ i + 1 \in 1 .. Len(todo)
      /\ Waiting(c) = {u} \cup {rest[i] : i \in 1 .. Len(rest)}
  BY <1>5, HeadAndTail DEF Waiting
<1>9. balance \in [Users -> Nat] /\ c.cash \in [Users -> Nat]
  BY <1>2 DEF LockInv, Tables, TypeOK, SessionStates
<1>10. cash \in [Users -> Nat] /\ cash[u] = balance[u]
       /\ \A v \in Users : v # u => cash[v] = c.cash[v]
  BY <1>8, <1>9
<1>11. /\ new \in SessionStates /\ new.req = c.req /\ new.row = c.row
       /\ new.t = c.t /\ new.s = c.s /\ new.todo = rest /\ new.step = step
       /\ new.locked = c.locked \cup {u} /\ new.shared = c.shared
       /\ new.refers = c.refers /\ new.cash = cash
  <2> HIDE DEF cash
  <2>1. new = [c EXCEPT !.locked = @ \cup {u}, !.cash = cash, !.todo = rest, !.step = step]
    BY <1>6 DEF cash
  <2>2. step \in {"users", "commit", "decide"} /\ c.locked \cup {u} \in SUBSET Users
    BY <1>5, <1>8
  <2> HIDE DEF step, rest, u, todo
  <2>3. QED
    BY <1>2, <1>8, <1>10, <2>1, <2>2 DEF SessionStates
<1>12. Asked(new)
  <2>1. c.req.op = "tick"
          \/ (c.req \in Workload /\ Valid(c.req) /\ c.req.op # "create")
    BY <1>3, <1>4 DEF Asked
  <2>2. c.req.op # "tick" => c.req.op \in {"bid", "buy", "deposit", "withdraw"}
    <3>1. CASE c.req.op \in {"edit", "delete"}
      <4>1. Needed(c) = {} /\ u \in Waiting(c)
        BY <1>8, <3>1 DEF Needed
      <4>2. QED
        BY <1>3, <1>4, <4>1 DEF Queue
    <3>2. QED
      BY <2>1, <3>1 DEF Valid, Request
  <2>3. /\ new.req = c.req /\ new.step \in {"users", "commit", "decide"}
        /\ c.req.op = "tick" => new.step # "decide"
    BY <1>11
  <2>4. c.req.op = "tick" => c.req.lot \in Lots
    BY <1>3, <1>4 DEF Asked, Valid
  <2>5. QED
    BY <2>1, <2>2, <2>3, <2>4 DEF Asked, OnCash
<1>13. Read(new)
  BY <1>3, <1>4, <1>11 DEF Read, Ticking
<1>14. Checked(new) /\ Recent(new)
  BY <1>3, <1>4, <1>11 DEF Checked, Recent, Working, OnCash
<1>15. Afford(new)
  BY <1>11 DEF Afford, OnCash
<1>16. Fresh(new)
  BY <1>4, <1>5, <1>10, <1>11 DEF Fresh
<1>17. Queue(new)
  <2>1. Working(new) /\ ~ Tells(new) /\ (new.step = "users" <=> rest # <<>>)
    BY <1>11 DEF Working, Tells
  <2>2. Needed(new) = Needed(c)
    BY <1>11 DEF Needed
  <2>3. c.locked \cup Waiting(c) = Needed(c) /\ c.shared = {} /\ ~ c.refers
    BY <1>3, <1>4 DEF Queue, Tells
  <2>4. new.locked \cup Waiting(new) = Needed(new)
    <3>1. new.todo = rest /\ new.locked = c.locked \cup {u}
      BY <1>11
    <3>2. Waiting(new) = {rest[i] : i \in 1 .. Len(rest)}
      BY ONLY <3>1 DEF Waiting
    <3>3. Waiting(c) = {u} \cup Waiting(new)
      BY <1>8, <3>2
    <3>4. QED
      BY <2>2, <2>3, <3>1, <3>3
  <2>5. ASSUME NEW i \in 1 .. Len(rest), NEW j \in 1 .. Len(rest), i < j
        PROVE  rest[i] < rest[j]
    <3>1. i + 1 < j + 1 /\ i + 1 \in 1 .. Len(todo) /\ j + 1 \in 1 .. Len(todo)
      BY <1>8, <2>5
    <3>2. QED
      BY <1>3, <1>4, <1>8, <3>1 DEF Queue
  <2>6. ASSUME NEW v \in c.locked \cup {u}, NEW i \in 1 .. Len(rest)
        PROVE  v < rest[i]
    <3>1. rest[i] = todo[i + 1] /\ i + 1 \in 1 .. Len(todo) /\ 1 < i + 1
      BY <1>8
    <3>2. CASE v = u
      BY <1>3, <1>4, <1>8, <3>1, <3>2 DEF Queue
    <3>3. CASE v \in c.locked
      BY <1>3, <1>4, <3>1, <3>3 DEF Queue
    <3>4. QED
      BY <3>2, <3>3
  <2>7. QED
    BY <1>11, <2>1, <2>3, <2>4, <2>5, <2>6 DEF Queue, Working, Tells
<1>18. Good(new)
  BY <1>11, <1>12, <1>13, <1>14, <1>15, <1>16, <1>17 DEF Good
<1>19. ASSUME NEW q \in Procs, q # p
       PROVE  Apart(new, session[q])
  <2>1. Apart(c, session[q]) /\ u \notin session[q].locked
    BY <1>2, <1>7, <1>19
  <2>2. QED
    BY <1>3, <1>11, <2>1 DEF Apart, SameLot
<1>20. QED
  BY <1>3, <1>7, <1>18, <1>19, ReadStep

LEMMA DecideStep ==
  ASSUME LockInv, NEW p \in Procs, Decide(p)
  PROVE  LockInv'
<1>1. PICK c : c = session[p]
  OBVIOUS
<1>2. c \in SessionStates /\ Good(c) /\ \A q \in Procs : q # p => Apart(c, session[q])
  BY <1>1, SessionGood
<1>3. c.step = "decide" /\ Working(c) /\ UNCHANGED vars
  BY <1>1 DEF Decide, Step, Working
<1>4. /\ Asked(c) /\ Read(c) /\ Checked(c) /\ Recent(c) /\ Afford(c) /\ Queue(c) /\ Fresh(c)
  BY <1>2 DEF Good
<1> DEFINE r == c.req
           cash == c.cash[r.user]
           Pays == CASE r.op = "bid" -> cash - EffectiveCommitted(r.user, r.lot) >= r.amount
                     [] r.op = "buy" -> cash - CommittedBalance(r.user) >= bin_price[r.lot]
                     [] r.op = "deposit" ->
                          cash + r.amount <= MaxUserBalance /\ Len(ledger[r.user]) < MaxRows
                     [] r.op = "withdraw" ->
                          cash - CommittedBalance(r.user) >= r.amount
                            /\ Len(ledger[r.user]) < MaxRows
<1>5. CASE ~ Pays
  BY <1>1, <1>5, ReplyStep DEF Decide, Req
<1>6. CASE Pays
  <2>1. PICK new : new = [c EXCEPT !.step = "commit", !.s = now]
    OBVIOUS
  <2>2. Become(p, new)
    BY <1>1, <1>6, <2>1 DEF Decide, Req
  <2>3. now \in 0 .. Horizon
    BY DEF LockInv, Tables, TypeOK
  <2>4. /\ new \in SessionStates /\ new.req = c.req /\ new.row = c.row
        /\ new.t = c.t /\ new.s = now /\ new.todo = c.todo /\ new.step = "commit"
        /\ new.locked = c.locked /\ new.shared = c.shared
        /\ new.refers = c.refers /\ new.cash = c.cash
    BY <1>2, <2>1, <2>3 DEF SessionStates
  <2>5. r.op \in {"bid", "buy", "deposit", "withdraw"} /\ Valid(r)
    BY <1>3, <1>4 DEF Asked
  <2>6. Asked(new) /\ Read(new)
    BY <1>3, <1>4, <2>4, <2>5 DEF Asked, OnCash, Read, Ticking
  <2>7. Checked(new)
    BY <1>3, <1>4, <2>4 DEF Checked, Working
  <2>8. c.t \in Nat /\ c.s \in Nat
    BY <1>2, BoundsAssumption DEF SessionStates
  <2>9. Recent(new)
    BY <1>3, <1>4, <2>3, <2>4, <2>8 DEF Recent, Working, OnCash
  <2>10. Afford(new)
    <3>1. r.op = "bid" => EffectiveCommitted(r.user, r.lot) = CommittedBalance(r.user)
      <4>1. r.user \in Users /\ CommittedBalance(r.user) \in Nat
        BY <2>5, CommittedType DEF Valid, LockInv, Tables
      <4>2. r.op = "bid" => Leader(r.lot) # r.user
        BY <1>3, <1>4 DEF Checked, Biddable
      <4>3. QED
        BY <4>1, <4>2 DEF EffectiveCommitted
    <3>2. /\ r.op = "bid" => cash - CommittedBalance(r.user) >= r.amount
          /\ r.op = "buy" => cash - CommittedBalance(r.user) >= bin_price[r.lot]
          /\ r.op = "deposit" => cash + r.amount <= MaxUserBalance
          /\ r.op = "withdraw" => cash - CommittedBalance(r.user) >= r.amount
          /\ OnCash(c) => Len(ledger[r.user]) < MaxRows
      BY <1>6, <2>5, <3>1 DEF OnCash
    <3>3. QED
      BY <2>4, <3>2 DEF Afford, OnCash
  <2>11. Queue(new)
    <3>1. Needed(new) = Needed(c)
      BY <2>4 DEF Needed
    <3>2. QED
      BY <1>3, <1>4, <2>4, <3>1 DEF Queue, Waiting, Working, Tells
  <2>12. Fresh(new)
    BY <1>4, <2>4 DEF Fresh
  <2>13. Good(new)
    BY <2>4, <2>6, <2>7, <2>9, <2>10, <2>11, <2>12 DEF Good
  <2>14. \A q \in Procs : q # p => Apart(new, session[q])
    BY <1>2, <1>3, <2>4 DEF Apart, SameLot, Working
  <2>15. QED
    BY <1>3, <2>2, <2>13, <2>14, ReadStep
<1>7. QED
  BY <1>5, <1>6

(* A notice's INSERT holds no lot and no user for itself.                  *)
LEMMA TellingGood ==
  ASSUME NEW new \in SessionStates, Tells(new), Asked(new),
         new.locked = {}, new.step = "announce" => new.todo # <<>>
  PROVE  Good(new) /\ ~ Working(new)
<1>1. ~ Working(new) /\ ~ Ticking(new)
  BY DEF Working, Ticking, Tells
<1>2. Read(new) /\ Checked(new) /\ Recent(new) /\ Afford(new) /\ Queue(new) /\ Fresh(new)
  BY <1>1 DEF Read, Checked, Recent, Afford, Queue, Fresh, Working, Tells
<1>3. QED
  BY <1>1, <1>2 DEF Good

(* ... and so its next one moves nobody else.                              *)
LEMMA TellingStep ==
  ASSUME LockInv, UNCHANGED vars, NEW p \in Procs, NEW c, c = session[p], Tells(c),
         NEW new, Become(p, new), new.req = c.req, Tells(new),
         new \in SessionStates, new.locked = {}, new.step = "announce" => new.todo # <<>>
  PROVE  LockInv'
<1>1. Asked(c)
  BY SessionGood DEF Good
<1>2. Asked(new)
  BY <1>1 DEF Asked, Tells
<1>3. Good(new) /\ ~ Working(new)
  BY <1>2, TellingGood
<1>4. \A q \in Procs : q # p => Apart(new, session[q])
  BY <1>3 DEF Apart, SameLot
<1>5. QED
  BY <1>3, <1>4, ReadStep

LEMMA AnnounceStep ==
  ASSUME LockInv, NEW p \in Procs, Announce(p)
  PROVE  LockInv'
<1>1. PICK c : c = session[p]
  OBVIOUS
<1>2. c \in SessionStates /\ Queue(c)
  BY <1>1, SessionGood DEF Good
<1>3. c.step = "announce" /\ Tells(c) /\ UNCHANGED vars
  BY <1>1 DEF Announce, Step, Tells
<1>4. c.todo # <<>> /\ c.todo \in Seq(Users) /\ c.locked = {}
  BY <1>2, <1>3 DEF Queue, SessionStates, Working
<1>5. PICK u, rest : u = Head(c.todo) /\ rest = Tail(c.todo)
  OBVIOUS
<1>6. u \in Users /\ rest \in Seq(Users)
  BY <1>4, <1>5, HeadAndTail
<1>7. PICK new : new = [c EXCEPT !.step = "refer", !.shared = @ \cup {u}, !.todo = rest]
  OBVIOUS
<1>8. Become(p, new)
  BY <1>1, <1>5, <1>7 DEF Announce
<1>9. c.shared \cup {u} \in SUBSET Users
  BY <1>2, <1>6 DEF SessionStates
<1>10. new \in SessionStates /\ new.req = c.req /\ new.step = "refer" /\ new.locked = {}
  BY <1>2, <1>4, <1>6, <1>7, <1>9 DEF SessionStates
<1>11. QED
  BY <1>1, <1>3, <1>8, <1>10, TellingStep DEF Tells

LEMMA ReferStep ==
  ASSUME LockInv, NEW p \in Procs, Refer(p)
  PROVE  LockInv'
<1>1. PICK c : c = session[p]
  OBVIOUS
<1>2. c \in SessionStates /\ Queue(c)
  BY <1>1, SessionGood DEF Good
<1>3. c.step = "refer" /\ Tells(c) /\ UNCHANGED vars
  BY <1>1 DEF Refer, Step, Tells
<1>4. c.locked = {}
  BY <1>2, <1>3 DEF Queue, Working
<1>5. CASE c.todo = <<>>
  BY <1>1, <1>3, <1>5, ReplyStep DEF Refer
<1>6. CASE c.todo # <<>>
  <2>1. PICK new : /\ Become(p, new)
                   /\ \/ new = [c EXCEPT !.step = "announce", !.refers = TRUE]
                      \/ new = [c EXCEPT !.step = "announce", !.shared = {}]
    BY <1>1, <1>6 DEF Refer
  <2>2. /\ new \in SessionStates /\ new.req = c.req /\ new.todo = c.todo
        /\ new.step = "announce" /\ new.locked = {}
    <3>1. CASE new = [c EXCEPT !.step = "announce", !.refers = TRUE]
      BY <1>2, <1>4, <3>1 DEF SessionStates
    <3>2. CASE new = [c EXCEPT !.step = "announce", !.shared = {}]
      BY <1>2, <1>4, <3>2 DEF SessionStates
    <3>3. QED
      BY <2>1, <3>1, <3>2
  <2>3. QED
    BY <1>1, <1>3, <1>6, <2>1, <2>2, TellingStep DEF Tells
<1>7. QED
  BY <1>5, <1>6

-----------------------------------------------------------------------------
(* Steps of no session.                                                    *)

LEMMA SameSessions ==
  ASSUME LockInv, Tables', session' = session,
         \A q \in Procs : \A c : c = session[q] => Good(c)'
  PROVE  LockInv'
<1>1. SessionStates' = SessionStates
  BY DEF SessionStates, Request
<1>2. ASSUME NEW q \in Procs
      PROVE  Good(session[q])'
  <2>1. PICK c : c = session[q]
    OBVIOUS
  <2>2. Good(c)' /\ session'[q] = c
    BY <2>1
  <2>3. QED
    BY <2>2
<1>3. (\A q, r \in Procs : q # r => Apart(session[q], session[r]))'
  BY DEF LockInv, Apart, SameLot, Working
<1>4. QED
  BY <1>1, <1>2, <1>3 DEF LockInv

LEMMA TimePassesStep ==
  ASSUME LockInv, TimePasses
  PROVE  LockInv'
<1>1. Tick /\ Tables /\ session' = session
  BY DEF TimePasses, LockInv
<1>2. Tables'
  <2>1. TypeOK' /\ BlankWhenAbsent'
    BY <1>1, NextSteps, StepTypeOK, StepBlank DEF Tables, Next
  <2>2. QED
    BY <1>1, <2>1 DEF Tables, SellersKnown, Tick, listing
<1>3. now' = now + 1 /\ now \in Nat
  BY <1>1, BoundsAssumption DEF Tick, Tables, TypeOK
<1>4. /\ NobodyUnlists /\ \A l \in Lots : LotStays(l)
      /\ status' = status /\ bids' = bids /\ current_price' = current_price
      /\ balance' = balance /\ ledger' = ledger
  BY <1>1 DEF Tick, NobodyUnlists, LotStays, listing, deadline, money
<1>5. ASSUME NEW u \in Users
      PROVE  UserStays(u)
  <2>1. CommittedBalance(u)' = CommittedBalance(u) /\ CommittedBalance(u) \in Nat
    BY <1>1, <1>4, CommittedSame, CommittedType DEF Tables
  <2>2. QED
    BY <1>4, <2>1 DEF UserStays
<1>6. ASSUME NEW q \in Procs, NEW c, c = session[q]
      PROVE  Good(c)'
  <2>1. Good(c) /\ c \in SessionStates
    BY <1>6, SessionGood
  <2>2. Working(c) /\ ~ OnCash(c) => now' - c.t <= Latency
    <3> SUFFICES ASSUME Working(c), ~ OnCash(c)
                 PROVE  now' - c.t <= Latency
      OBVIOUS
    <3>1. c.req.lot # 0
      BY <2>1 DEF Good, Asked, Valid, Working, OnCash, Lots
    <3>2. now - c.t < Latency
      BY <1>6, <3>1 DEF TimePasses, Step, Req, Working
    <3>3. c.t \in Nat
      BY <2>1, BoundsAssumption DEF SessionStates
    <3>4. QED
      BY <1>3, <3>2, <3>3, BoundsAssumption
  <2>3. c.locked \subseteq Users
    BY <2>1 DEF SessionStates
  <2>4. QED
    BY <1>1, <1>2, <1>3, <1>4, <1>5, <2>1, <2>2, <2>3, GoodLater DEF Tables
<1>7. QED
  BY <1>1, <1>2, <1>6, SameSessions

(* The lot a POST inserts is nobody's yet.                                 *)
LEMMA CreateStep ==
  ASSUME LockInv, NEW r \in Workload, Create(r)
  PROVE  LockInv' /\ [Next]_vars
<1>1. Valid(r) /\ r.op = "create" /\ Tables /\ session' = session
  BY WorkloadAssumption DEF Create, LockInv
<1>2. /\ r.user \in Sellers /\ r.user \in Users /\ r.lot \in Lots
      /\ r.type \in Kinds /\ r.minutes \in Durations
      /\ r.start \in Prices /\ r.bin \in Prices \cup {NoPrice}
  BY <1>1 DEF Valid
<1>3. PICK t \in RecentTimes :
        CreateAuction(r.user, r.lot, r.type, r.start, r.bin, r.minutes, t)
  BY DEF Create
<1>4. Next
  BY <1>2, <1>3 DEF Next
<1>5. /\ status[r.lot] = "absent" /\ status'[r.lot] = "active"
      /\ created_by'[r.lot] = r.user
      /\ \A l \in Lots \ {r.lot} : /\ LotStays(l) /\ created_by'[l] = created_by[l]
                                   /\ status'[l] = status[l]
                                   /\ current_price'[l] = current_price[l]
      /\ bids' = bids /\ now' = now /\ balance' = balance /\ ledger' = ledger
  BY <1>1, <1>2, <1>3 DEF CreateAuction, LotStays, Tables, TypeOK, money
<1>6. Tables'
  <2>1. TypeOK' /\ BlankWhenAbsent'
    BY <1>1, <1>4, NextSteps, StepTypeOK, StepBlank DEF Tables
  <2>2. SellersKnown'
    BY <1>1, <1>2, <1>5 DEF Tables, SellersKnown
  <2>3. QED
    BY <2>1, <2>2 DEF Tables
<1>7. NobodyUnlists
  BY <1>5 DEF NobodyUnlists
<1>8. ASSUME NEW u \in Users
      PROVE  UserStays(u)
  <2>1. bids[r.lot] = <<>>
    BY <1>1, <1>2, <1>5 DEF Tables, BlankWhenAbsent
  <2>2. CommittedBalance(u)' = CommittedBalance(u) /\ CommittedBalance(u) \in Nat
    BY <1>1, <1>2, <1>5, <1>6, <2>1, CommittedWithoutBids, CommittedType DEF Tables
  <2>3. QED
    BY <1>5, <2>2 DEF UserStays
<1>9. ASSUME NEW q \in Procs, NEW c, c = session[q]
      PROVE  Good(c)'
  <2>1. Good(c) /\ c \in SessionStates
    BY <1>9, SessionGood
  <2>2. Working(c) /\ c.req.lot \in Lots => c.req.lot # r.lot
    <3> SUFFICES ASSUME Working(c), c.req.lot \in Lots
                 PROVE  status[c.req.lot] # "absent"
      BY <1>5
    <3>1. Asked(c) /\ Checked(c) /\ Read(c)
      BY <2>1 DEF Good
    <3>2. c.req.op \in {"bid", "buy", "edit", "delete", "tick"}
      BY <3>1 DEF Asked, Working, Valid, Request, Lots
    <3>3. c.req.op = "tick" => c.step # "decide"
      BY <3>1 DEF Asked, Working, Valid
    <3>4. QED
      BY <3>1, <3>2, <3>3
         DEF Checked, Read, Ticking, Working, Biddable, Buyable, Patchable, Editable, Deletable
  <2>3. Working(c) /\ c.req.lot \in Lots => LotStays(c.req.lot)
    BY <1>5, <2>2
  <2>4. c.locked \subseteq Users
    BY <2>1 DEF SessionStates
  <2>5. QED
    BY <1>1, <1>5, <1>6, <1>7, <1>8, <2>1, <2>3, <2>4, GoodStays DEF Tables
<1>10. QED
  BY <1>1, <1>4, <1>6, <1>9, SameSessions

-----------------------------------------------------------------------------
(* The commits: each is a step of Market on the rows the session holds.    *)

LEMMA CommitStep ==
  ASSUME LockInv, TypeOK', BlankWhenAbsent', now' = now, created_by' = created_by,
         NEW p \in Procs, NEW c, c = session[p], Working(c),
         NEW new, Become(p, new), Good(new)', ~ Working(new), new.locked = {},
         \A l \in Lots : status'[l] = "absent" <=> status[l] = "absent",
         \A l \in Lots : l # c.req.lot => LotStays(l),
         \A u \in Users : u \notin c.locked => UserStays(u)
  PROVE  LockInv'
<1>1. Tables'
  BY DEF LockInv, Tables, SellersKnown
<1>2. NobodyUnlists
  BY DEF NobodyUnlists
<1>3. \A q \in Procs : q # p => Apart(new, session[q])
  BY DEF Apart, SameLot
<1>4. QED
  BY <1>1, <1>2, <1>3, SessionStep

LEMMA CommittingIs ==
  ASSUME LockInv, NEW p \in Procs, NEW c, c = session[p], c.step = "commit"
  PROVE  /\ Tables /\ Good(c) /\ c \in SessionStates /\ Working(c)
         /\ Asked(c) /\ Read(c) /\ Checked(c) /\ Recent(c) /\ Afford(c) /\ Queue(c)
         /\ \A u \in c.locked : u \in Users /\ c.cash[u] = balance[u]
         /\ c.locked = Needed(c)
         /\ ~ OnCash(c) => c.t \in RecentTimes /\ c.s \in RecentTimes /\ c.t <= c.s
<1>1. /\ Tables /\ Good(c) /\ c \in SessionStates /\ Working(c)
      /\ Asked(c) /\ Read(c) /\ Checked(c) /\ Recent(c) /\ Afford(c) /\ Queue(c) /\ Fresh(c)
  BY SessionGood DEF LockInv, Good, Working
<1>2. c.locked = Needed(c)
  BY <1>1, HoldsAll
<1>3. \A u \in c.locked : u \in Users /\ c.cash[u] = balance[u]
  BY <1>1 DEF SessionStates, Fresh
<1>4. ~ OnCash(c) => c.t \in RecentTimes /\ c.s \in RecentTimes /\ c.t <= c.s
  <2>1. c.t \in Nat /\ c.s \in Nat /\ now \in Nat
    BY <1>1, BoundsAssumption DEF SessionStates, Tables, TypeOK
  <2>2. QED
    BY <1>1, <2>1, BoundsAssumption DEF Recent, RecentTimes
<1>5. QED
  BY <1>1, <1>2, <1>3, <1>4

(* A commit that tells somebody about it.                                  *)
LEMMA TellStep ==
  ASSUME LockInv, NEW p \in Procs, NEW c, c = session[p], c.step = "commit",
         NEW todo \in Seq(Users), todo # <<>>, Tell(p, todo),
         NEW new, new = [Idle EXCEPT !.step = "announce", !.req = c.req, !.todo = todo]
  PROVE  Become(p, new) /\ Good(new)' /\ ~ Working(new) /\ new.locked = {}
<1>1. c \in SessionStates /\ Asked(c)
  BY CommittingIs
<1>2. Become(p, new)
  BY DEF Tell, Req
<1>3. /\ new \in SessionStates /\ new.step = "announce" /\ new.req = c.req
      /\ new.todo = todo /\ new.locked = {}
  BY <1>1, IdleFields DEF SessionStates
<1>4. Asked(new) /\ Tells(new)
  BY <1>1, <1>3 DEF Asked, Tells
<1>5. Good(new) /\ ~ Working(new)
  BY <1>3, <1>4, TellingGood
<1>6. Good(new)'
  BY <1>3, <1>4, <1>5
     DEF Good, Asked, Read, Checked, Recent, Afford, Queue, Fresh, Ticking, Working, Tells,
         SessionStates, Request
<1>7. QED
  BY <1>2, <1>3, <1>5, <1>6

LEMMA SellerAndLeader ==
  ASSUME Tables, NEW l \in Lots, status[l] # "absent"
  PROVE  created_by[l] \in Users /\ (bids[l] # <<>> => Leader(l) \in Users)
<1>1. created_by[l] \in Users
  BY DEF Tables, SellersKnown
<1>2. bids[l] # <<>> => Leader(l) \in Users
  BY LastBidType DEF Tables, Leader
<1>3. QED
  BY <1>1, <1>2

LEMMA CommitBidStep ==
  ASSUME LockInv, NEW p \in Procs, CommitBid(p)
  PROVE  LockInv' /\ Next
<1>1. PICK c : c = session[p]
  OBVIOUS
<1>2. /\ c.step = "commit" /\ c.req.op = "bid"
      /\ WriteBid(c.req.user, c.req.lot, c.req.amount, c.s)
      /\ Tell(p, Append(Outbid(c.req.lot), created_by[c.req.lot]))
  BY <1>1 DEF CommitBid, Committing, Step, Req
<1> DEFINE u == c.req.user
           l == c.req.lot
           a == c.req.amount
<1>3. /\ Tables /\ Working(c) /\ Asked(c) /\ Checked(c) /\ Afford(c)
      /\ c.locked = Needed(c) /\ \A v \in c.locked : v \in Users /\ c.cash[v] = balance[v]
      /\ c.t \in RecentTimes /\ c.s \in RecentTimes /\ c.t <= c.s
  BY <1>1, <1>2, CommittingIs DEF OnCash
<1>4. u \in Users /\ l \in Lots /\ a \in Amounts /\ a \in Nat
  BY <1>2, <1>3, AmountsAssumption DEF Asked, Valid
<1>5. c.locked = {u}
  BY <1>2, <1>3 DEF Needed
<1>6. Biddable(u, l, a, c.t)
  BY <1>2, <1>3 DEF Checked
<1>7. balance[u] - EffectiveCommitted(u, l) >= a
  <2>1. c.cash[u] = balance[u] /\ c.cash[u] - CommittedBalance(u) >= a
    BY <1>2, <1>3, <1>5 DEF Afford
  <2>2. CommittedBalance(u) \in Nat /\ Leader(l) # u
    BY <1>3, <1>4, <1>6, CommittedType DEF Tables, Biddable
  <2>3. EffectiveCommitted(u, l) = CommittedBalance(u)
    BY <2>2 DEF EffectiveCommitted
  <2>4. QED
    BY <2>1, <2>3
<1>8. PlaceBid(u, l, a, c.t, c.s)
  BY <1>2, <1>3, <1>6, <1>7 DEF PlaceBid
<1>9. Next
  BY <1>3, <1>4, <1>8 DEF Next
<1>10. TypeOK' /\ BlankWhenAbsent'
  BY <1>3, <1>9, NextSteps, StepTypeOK, StepBlank DEF Tables
<1> HIDE DEF u, l, a
<1>11. /\ status' = status /\ balance' = balance /\ ledger' = ledger /\ now' = now
       /\ created_by' = created_by
       /\ bids'[l] = Append(bids[l], [user |-> u, amount |-> a])
       /\ \A k \in Lots \ {l} : LotStays(k)
  BY <1>3, <1>4, <1>8 DEF PlaceBid, WriteBid, Tables, TypeOK, money, listing, LotStays
<1>12. Leader(l)' = u
  <2>1. bids[l] \in Seq(BidRows) /\ [user |-> u, amount |-> a] \in BidRows
    BY <1>3, <1>4 DEF Tables, TypeOK, BidRows
  <2>2. bids'[l] # <<>> /\ bids'[l][Len(bids'[l])] = [user |-> u, amount |-> a]
    BY <1>11, <2>1
  <2>3. QED
    BY <2>2 DEF Leader
<1>13. ASSUME NEW w \in Users, w # u
       PROVE  UserStays(w)
  <2>1. CommittedBalance(w)' = CommittedBalance(w) + Held(w)'[l] - Held(w)[l]
    BY <1>3, <1>4, <1>10, <1>11, CommittedMoves DEF Tables, LotStays
  <2>2. Held(w)'[l] = 0
    BY <1>4, <1>12, <1>13, HeldAt
  <2>3. Held(w)[l] \in Nat /\ CommittedBalance(w) \in Nat
    BY <1>3, <1>4, HeldType, CommittedType DEF Lots, Tables
  <2>4. QED
    BY <1>11, <2>1, <2>2, <2>3 DEF UserStays
<1>14. Append(Outbid(l), created_by[l]) \in Seq(Users)
  <2>1. status[l] # "absent"
    BY <1>6 DEF Biddable, l
  <2>2. created_by[l] \in Users /\ Outbid(l) \in Seq(Users)
    BY <1>3, <1>4, <2>1, SellerAndLeader DEF Outbid
  <2>3. QED
    BY <2>2
<1>15. PICK todo : todo = Append(Outbid(l), created_by[l])
  OBVIOUS
<1>16. todo \in Seq(Users) /\ todo # <<>> /\ Tell(p, todo)
  <2>1. Outbid(l) = <<>> \/ \E v : Outbid(l) = <<v>>
    BY DEF Outbid
  <2>2. Append(Outbid(l), created_by[l]) # <<>>
    BY <2>1
  <2>3. QED
    BY <1>2, <1>14, <1>15, <2>2 DEF l
<1>17. PICK new : new = [Idle EXCEPT !.step = "announce", !.req = c.req, !.todo = todo]
  OBVIOUS
<1>18. Become(p, new) /\ Good(new)' /\ ~ Working(new) /\ new.locked = {}
  BY <1>1, <1>2, <1>16, <1>17, TellStep
<1>19. QED
  BY <1>1, <1>3, <1>5, <1>9, <1>10, <1>11, <1>13, <1>18, CommitStep DEF l

(* A step that leaves the money of others alone and commits nobody new.    *)
LEMMA OthersStay ==
  ASSUME TypeOK, TypeOK', NEW k \in Lots, NEW S \in SUBSET Users,
         \A u \in Users \ S : balance'[u] = balance[u] /\ ledger'[u] = ledger[u],
         \A l \in Lots \ {k} : /\ status'[l] = status[l] /\ current_price'[l] = current_price[l]
                               /\ bids'[l] = bids[l],
         status'[k] # "active" \/ (bids[k] = <<>> /\ bids'[k] = <<>>)
  PROVE  \A u \in Users : u \notin S => UserStays(u)
<1> SUFFICES ASSUME NEW u \in Users, u \notin S
             PROVE  CommittedBalance(u)' <= CommittedBalance(u)
  BY DEF UserStays
<1>1. CommittedBalance(u)' = CommittedBalance(u) + Held(u)'[k] - Held(u)[k]
  BY CommittedMoves
<1>2. Held(u)'[k] = 0
  BY HeldAt, NoBidsNoLeader
<1>3. Held(u)[k] \in Nat /\ CommittedBalance(u) \in Nat
  BY HeldType, CommittedType DEF Lots
<1>4. QED
  BY <1>1, <1>2, <1>3

LEMMA CommitBuyStep ==
  ASSUME LockInv, NEW p \in Procs, CommitBuy(p)
  PROVE  LockInv' /\ Next
<1>1. PICK c : c = session[p]
  OBVIOUS
<1>2. /\ c.step = "commit" /\ c.req.op = "buy"
      /\ WritePurchase(c.cash, c.req.user, c.req.lot, c.s)
      /\ Tell(p, <<created_by[c.req.lot]>>)
  BY <1>1 DEF CommitBuy, Committing, Step, Req
<1> DEFINE u == c.req.user
           l == c.req.lot
<1>3. /\ Tables /\ Working(c) /\ Asked(c) /\ Checked(c) /\ Afford(c)
      /\ c.locked = Needed(c) /\ \A v \in c.locked : v \in Users /\ c.cash[v] = balance[v]
      /\ c.t \in RecentTimes /\ c.s \in RecentTimes /\ c.t <= c.s
  BY <1>1, <1>2, CommittingIs DEF OnCash
<1>4. u \in Users /\ l \in Lots
  BY <1>2, <1>3 DEF Asked, Valid
<1>5. c.locked = {u, created_by[l]}
  BY <1>2, <1>3 DEF Needed
<1>6. Buyable(u, l, c.t)
  BY <1>2, <1>3 DEF Checked
<1>7. c.cash[u] = balance[u] /\ c.cash[created_by[l]] = balance[created_by[l]]
  BY <1>3, <1>5
<1>8. Available(u) >= bin_price[l]
  BY <1>2, <1>3, <1>7 DEF Afford, Available
<1>9. WritePurchase(balance, u, l, c.s)
  <2>1. Settle(c.cash, l, u, bin_price[l], "bin_purchase")
    BY <1>2 DEF WritePurchase
  <2>2. \A v \in Users : /\ v = u => c.cash[v] = balance[v]
                         /\ v = created_by[l] => c.cash[v] = balance[v]
    BY <1>7
  <2>3. Settle(balance, l, u, bin_price[l], "bin_purchase")
    BY <1>7, <2>1, <2>2 DEF Settle
  <2>4. QED
    BY <1>2, <2>3 DEF WritePurchase
<1>10. Next
  <2>1. BuyNow(u, l, c.t, c.s)
    BY <1>3, <1>6, <1>8, <1>9 DEF BuyNow
  <2>2. QED
    BY <1>3, <1>4, <2>1 DEF Next
<1>11. TypeOK' /\ BlankWhenAbsent'
  BY <1>3, <1>10, NextSteps, StepTypeOK, StepBlank DEF Tables
<1> HIDE DEF u, l
<1>12. /\ now' = now /\ created_by' = created_by /\ bids' = bids
       /\ status[l] = "active" /\ status'[l] = "completed"
       /\ \A k \in Lots \ {l} : LotStays(k)
  BY <1>3, <1>4, <1>6, <1>9 DEF Buyable, WritePurchase, Tables, TypeOK, listing, LotStays
<1>13. \A v \in Users \ c.locked : balance'[v] = balance[v] /\ ledger'[v] = ledger[v]
  BY <1>5, <1>9 DEF WritePurchase, Settle
<1>14. \A v \in Users : v \notin c.locked => UserStays(v)
  BY <1>3, <1>4, <1>11, <1>12, <1>13, OthersStay DEF Tables, LotStays
<1>15. PICK todo : todo = <<created_by[l]>>
  OBVIOUS
<1>16. todo \in Seq(Users) /\ todo # <<>> /\ Tell(p, todo)
  BY <1>2, <1>3, <1>4, <1>12, <1>15, SellerAndLeader DEF l
<1>17. PICK new : new = [Idle EXCEPT !.step = "announce", !.req = c.req, !.todo = todo]
  OBVIOUS
<1>18. Become(p, new) /\ Good(new)' /\ ~ Working(new) /\ new.locked = {}
  BY <1>1, <1>2, <1>16, <1>17, TellStep
<1>19. QED
  BY <1>1, <1>3, <1>10, <1>11, <1>12, <1>14, <1>18, CommitStep DEF l, LotStays

LEMMA CommitEditStep ==
  ASSUME LockInv, NEW p \in Procs, CommitEdit(p)
  PROVE  LockInv' /\ Next
<1>1. PICK c : c = session[p]
  OBVIOUS
<1> DEFINE r == c.req
           l == c.req.lot
<1>2. /\ c.step = "commit" /\ r.op = "edit" /\ Reply(p)
      /\ WriteEdit(l, r.start, r.bin, r.type, r.minutes)
  BY <1>1 DEF CommitEdit, Committing, Step, Req
<1>3. /\ Tables /\ Working(c) /\ Asked(c) /\ Checked(c)
      /\ c.locked = Needed(c) /\ \A v \in c.locked : v \in Users
  BY <1>1, <1>2, CommittingIs
<1>4. /\ r.user \in Sellers /\ l \in Lots /\ r.minutes \in Durations \cup {0}
      /\ r.start \in Prices \cup {Keep} /\ r.bin \in Prices \cup {NoPrice, Keep}
      /\ r.type \in Kinds \cup {KeepType}
  BY <1>2, <1>3 DEF Asked, Valid, Request
<1>5. Patchable(r)
  BY <1>2, <1>3 DEF Checked
<1>6. UpdateAuction(r.user, l, r.start, r.bin, r.type, r.minutes)
  BY <1>2, <1>5 DEF Patchable, UpdateAuction
<1>7. Next
  BY <1>4, <1>6 DEF Next
<1>8. TypeOK' /\ BlankWhenAbsent'
  BY <1>3, <1>7, NextSteps, StepTypeOK, StepBlank DEF Tables
<1>9. /\ now' = now /\ created_by' = created_by /\ bids' = bids /\ status' = status
      /\ balance' = balance /\ ledger' = ledger
      /\ \A k \in Lots \ {l} : LotStays(k)
  BY <1>2, <1>3, <1>4 DEF WriteEdit, Tables, TypeOK, LotStays, money
<1>10. bids[l] = <<>>
  BY <1>5 DEF Patchable, Editable
<1>11. \A v \in Users : v \notin c.locked => UserStays(v)
  <2>1. c.locked \in SUBSET Users
    BY <1>3
  <2>2. QED
    BY <1>3, <1>4, <1>8, <1>9, <1>10, <2>1, OthersStay DEF Tables, LotStays
<1>12. QED
  BY <1>1, <1>2, <1>3, <1>7, <1>8, <1>9, <1>11, CommitStep, IdleGood, IdleFields
     DEF Reply, Working

LEMMA CommitDeleteStep ==
  ASSUME LockInv, NEW p \in Procs, CommitDelete(p)
  PROVE  LockInv' /\ Next
<1>1. PICK c : c = session[p]
  OBVIOUS
<1> DEFINE l == c.req.lot
<1>2. c.step = "commit" /\ c.req.op = "delete" /\ Reply(p) /\ WriteDelete(l)
  BY <1>1 DEF CommitDelete, Committing, Step, Req
<1>3. /\ Tables /\ Working(c) /\ Asked(c) /\ Checked(c)
      /\ c.locked = Needed(c) /\ \A v \in c.locked : v \in Users
  BY <1>1, <1>2, CommittingIs
<1>4. c.req.user \in Sellers /\ l \in Lots
  BY <1>2, <1>3 DEF Asked, Valid
<1>5. created_by[l] = c.req.user /\ Deletable(l)
  BY <1>2, <1>3 DEF Checked
<1>6. Next
  BY <1>2, <1>4, <1>5 DEF Next, DeleteAuction
<1>7. TypeOK' /\ BlankWhenAbsent'
  BY <1>3, <1>6, NextSteps, StepTypeOK, StepBlank DEF Tables
<1>8. /\ now' = now /\ created_by' = created_by /\ bids' = bids /\ status'[l] = "deleted"
      /\ balance' = balance /\ ledger' = ledger
      /\ \A k \in Lots \ {l} : LotStays(k)
  BY <1>2, <1>3, <1>4 DEF WriteDelete, Tables, TypeOK, LotStays, money, listing, deadline
<1>9. \A v \in Users : v \notin c.locked => UserStays(v)
  <2>1. c.locked \in SUBSET Users
    BY <1>3
  <2>2. QED
    BY <1>3, <1>4, <1>7, <1>8, <2>1, OthersStay DEF Tables, LotStays
<1>10. QED
  BY <1>1, <1>2, <1>3, <1>5, <1>6, <1>7, <1>8, <1>9, CommitStep, IdleGood, IdleFields
     DEF Reply, Working, LotStays, Deletable

LEMMA CommitCashStep ==
  ASSUME LockInv, NEW p \in Procs, CommitCash(p)
  PROVE  LockInv' /\ Next
<1>1. PICK c : c = session[p]
  OBVIOUS
<1> DEFINE u == c.req.user
           a == c.req.amount
<1>2. c.step = "commit" /\ OnCash(c) /\ Reply(p)
  BY <1>1 DEF CommitCash, Committing, Step, Req, OnCash
<1>3. /\ Tables /\ Working(c) /\ Asked(c) /\ Afford(c)
      /\ c.locked = Needed(c) /\ \A v \in c.locked : v \in Users /\ c.cash[v] = balance[v]
  BY <1>1, <1>2, CommittingIs
<1>4. u \in Users /\ a \in Deposits /\ c.req.lot = 0
  BY <1>2, <1>3 DEF Asked, Valid, OnCash
<1>5. c.locked = {u} /\ c.cash[u] = balance[u]
  BY <1>2, <1>3 DEF Needed, OnCash
<1>6. \/ c.req.op = "deposit" /\ WriteCash(balance, u, "deposit", a)
      \/ c.req.op = "withdraw" /\ WriteCash(balance, u, "withdrawal", -a)
  BY <1>1, <1>5 DEF CommitCash, Committing, Req, WriteCash
<1>7. Next
  <2>1. Len(ledger[u]) < MaxRows
    BY <1>2, <1>3 DEF Afford
  <2>2. CASE c.req.op = "deposit"
    <3>1. balance[u] + a <= MaxUserBalance
      BY <1>2, <1>3, <1>5, <2>2 DEF Afford
    <3>2. Deposit(u, a)
      BY <1>6, <2>1, <2>2, <3>1 DEF Deposit
    <3>3. QED
      BY <1>4, <3>2 DEF Next
  <2>3. CASE c.req.op = "withdraw"
    <3>1. Available(u) >= a
      BY <1>2, <1>3, <1>5, <2>3 DEF Afford, Available
    <3>2. Withdraw(u, a)
      BY <1>6, <2>1, <2>3, <3>1 DEF Withdraw
    <3>3. QED
      BY <1>4, <3>2 DEF Next
  <2>4. QED
    BY <1>6, <2>2, <2>3
<1>8. TypeOK' /\ BlankWhenAbsent'
  BY <1>3, <1>7, NextSteps, StepTypeOK, StepBlank DEF Tables
<1>9. /\ now' = now /\ created_by' = created_by /\ bids' = bids /\ status' = status
      /\ current_price' = current_price /\ \A k \in Lots : LotStays(k)
  BY <1>6 DEF WriteCash, LotStays, listing, deadline
<1>10. ASSUME NEW v \in Users, v # u
       PROVE  UserStays(v)
  <2>1. balance'[v] = balance[v] /\ ledger'[v] = ledger[v]
    BY <1>3, <1>6, <1>10 DEF WriteCash, Tables, TypeOK
  <2>2. CommittedBalance(v)' = CommittedBalance(v) /\ CommittedBalance(v) \in Nat
    BY <1>3, <1>9, CommittedSame, CommittedType DEF Tables
  <2>3. QED
    BY <2>1, <2>2 DEF UserStays
<1>11. QED
  BY <1>1, <1>2, <1>3, <1>5, <1>7, <1>8, <1>9, <1>10, CommitStep, IdleGood, IdleFields
     DEF Reply, Working

(* The bidders of a lot are finitely many, so there is an order to tell    *)
(* them in.                                                                *)
LEMMA BiddersFinite ==
  ASSUME TypeOK, NEW l \in Lots
  PROVE  IsFiniteSet(Bidders(l)) /\ Bidders(l) \subseteq Users
<1>1. bids[l] \in Seq(BidRows) /\ Len(bids[l]) \in Nat
  BY DEF TypeOK
<1>2. \A i \in 1 .. Len(bids[l]) : bids[l][i] \in BidRows
  BY <1>1
<1> DEFINE f == [i \in 1 .. Len(bids[l]) |-> bids[l][i].user]
<1>3. f \in Surjection(1 .. Len(bids[l]), Bidders(l))
  BY DEF Surjection, Bidders
<1>4. IsFiniteSet(1 .. Len(bids[l]))
  BY <1>1, FS_Interval
<1>5. IsFiniteSet(Bidders(l))
  <2> HIDE DEF f
  <2>1. QED
    BY <1>3, <1>4, FS_Surjection
<1>6. QED
  BY <1>2, <1>5 DEF Bidders, BidRows

(* A settlement on what the tick read before it had the lot's lock.        *)
LateSettlement ==
  \E l \in Lots : /\ status[l] \notin {"absent", "deleted"}
                  /\ WriteSettlement(balance, l)

LEMMA SettlementType ==
  ASSUME Tables, NEW l \in Lots, status[l] # "absent", WriteSettlement(balance, l)
  PROVE  TypeOK' /\ BlankWhenAbsent'
<1>1. /\ status' = [status EXCEPT ![l] = "completed"] /\ now' = now
      /\ UNCHANGED <<listing, current_price, deadline, bids>>
  BY DEF WriteSettlement
<1>2. /\ balance' \in [Users -> Nat] /\ ledger' \in [Users -> Seq(Rows)]
      /\ winner_id' \in [Lots -> Users \cup {NoUser}]
  <2>1. CASE bids[l] = <<>>
    BY <2>1 DEF WriteSettlement, Payout, money, Tables, TypeOK
  <2>2. CASE bids[l] # <<>>
    <3>1. PICK last : last = bids[l][Len(bids[l])]
      OBVIOUS
    <3>2. last.user \in Users /\ last.amount \in Nat
      BY <2>2, <3>1, LastBidType DEF Tables
    <3>3. /\ Settle(balance, l, last.user, last.amount, "bid_win")
          /\ winner_id' = [winner_id EXCEPT ![l] = last.user]
      BY <2>2, <3>1 DEF WriteSettlement, Payout
    <3>4. balance' \in [Users -> Nat] /\ ledger' \in [Users -> Seq(Rows)]
      BY <3>2, <3>3, SettleType DEF RowTypes, Tables
    <3>5. QED
      BY <3>2, <3>3, <3>4 DEF Tables, TypeOK
  <2>3. QED
    BY <2>1, <2>2
<1>3. TypeOK'
  BY <1>1, <1>2 DEF Tables, TypeOK, listing, deadline
<1>4. BlankWhenAbsent'
  BY <1>1 DEF Tables, TypeOK, BlankWhenAbsent, deadline
<1>5. QED
  BY <1>3, <1>4

LEMMA CommitSettlementStep ==
  ASSUME LockInv, NEW p \in Procs, CommitSettlement(p)
  PROVE  /\ LockInv'
         /\ Req(p).lot \in Lots /\ status[Req(p).lot] \notin {"absent", "deleted"}
         /\ WriteSettlement(balance, Req(p).lot)
<1>1. PICK c : c = session[p]
  OBVIOUS
<1> DEFINE l == c.req.lot
<1>2. /\ c.step = "commit" /\ c.req.op = "tick" /\ WriteSettlement(c.cash, l)
  BY <1>1 DEF CommitSettlement, Committing, Step, Req
<1>3. /\ Tables /\ Working(c) /\ Asked(c) /\ Checked(c) /\ Read(c) /\ c \in SessionStates
      /\ c.locked = Needed(c) /\ \A v \in c.locked : v \in Users /\ c.cash[v] = balance[v]
  BY <1>1, <1>2, CommittingIs
<1>4. l \in Lots /\ status[l] # "absent" /\ status[l] # "deleted" /\ created_by[l] \in Users
  BY <1>2, <1>3 DEF Asked, Valid, Read, Ticking, Checked, Tables, SellersKnown
<1>5. bids[l] # <<>> => c.locked = {Leader(l), created_by[l]}
  BY <1>2, <1>3 DEF Needed
<1>6. WriteSettlement(balance, l)
  <2>1. CASE bids[l] = <<>>
    BY <1>2, <2>1 DEF WriteSettlement, Payout
  <2>2. CASE bids[l] # <<>>
    <3>1. PICK last : last = bids[l][Len(bids[l])]
      OBVIOUS
    <3>2. last.user = Leader(l)
      BY <2>2, <3>1 DEF Leader
    <3>3. Settle(c.cash, l, last.user, last.amount, "bid_win")
      BY <1>2, <2>2, <3>1 DEF WriteSettlement, Payout
    <3>4. c.cash[last.user] = balance[last.user] /\ c.cash[created_by[l]] = balance[created_by[l]]
      BY <1>3, <1>5, <2>2, <3>2
    <3>5. Settle(balance, l, last.user, last.amount, "bid_win")
      BY <3>3, <3>4 DEF Settle
    <3>6. QED
      BY <1>2, <2>2, <3>1, <3>5 DEF WriteSettlement, Payout
  <2>3. QED
    BY <2>1, <2>2
<1>7. TypeOK' /\ BlankWhenAbsent'
  BY <1>3, <1>4, <1>6, SettlementType
<1>8. /\ now' = now /\ created_by' = created_by /\ bids' = bids
      /\ status'[l] = "completed" /\ \A k \in Lots \ {l} : LotStays(k)
  BY <1>3, <1>4, <1>6 DEF WriteSettlement, Tables, TypeOK, listing, deadline, LotStays
<1>9. \A v \in Users \ c.locked : balance'[v] = balance[v] /\ ledger'[v] = ledger[v]
  <2>1. CASE bids[l] = <<>>
    BY <1>6, <2>1 DEF WriteSettlement, Payout, money
  <2>2. CASE bids[l] # <<>>
    <3>1. PICK last : last = bids[l][Len(bids[l])]
      OBVIOUS
    <3>2. last.user = Leader(l)
      BY <2>2, <3>1 DEF Leader
    <3>3. Settle(balance, l, last.user, last.amount, "bid_win")
      BY <1>6, <2>2, <3>1 DEF WriteSettlement, Payout
    <3>4. QED
      BY <1>5, <2>2, <3>2, <3>3 DEF Settle
  <2>3. QED
    BY <2>1, <2>2
<1>10. \A v \in Users : v \notin c.locked => UserStays(v)
  <2>1. c.locked \in SUBSET Users
    BY <1>3
  <2>2. QED
    BY <1>3, <1>4, <1>7, <1>8, <1>9, <2>1, OthersStay DEF Tables, LotStays
<1>11. \A k \in Lots : status'[k] = "absent" <=> status[k] = "absent"
  BY <1>4, <1>8 DEF LotStays
<1>12. LockInv'
  <2>1. CASE bids[l] = <<>>
    <3>1. Become(p, Idle)
      BY <1>1, <1>2, <2>1 DEF CommitSettlement, Req, Reply
    <3>2. QED
      BY <1>1, <1>3, <1>7, <1>8, <1>10, <1>11, <3>1, CommitStep, IdleGood, IdleFields
         DEF Working
  <2>2. CASE bids[l] # <<>>
    <3>1. PICK q \in Orders(Bidders(l)) : Tell(p, Append(q, created_by[l]))
      BY <1>1, <1>2, <2>2 DEF CommitSettlement, Req
    <3>2. PICK seller : seller = created_by[l]
      OBVIOUS
    <3>3. q \in Seq(Users) /\ seller \in Users
      <4>1. IsFiniteSet(Bidders(l)) /\ Bidders(l) \subseteq Users
        BY <1>3, <1>4, BiddersFinite DEF Tables
      <4>2. Cardinality(Bidders(l)) \in Nat
        BY <4>1, FS_CardinalityType
      <4>3. q \in [1 .. Cardinality(Bidders(l)) -> Users]
        BY <4>1 DEF Orders
      <4>4. QED
        BY <1>4, <3>2, <4>2, <4>3
    <3>4. PICK todo : todo = Append(q, seller)
      OBVIOUS
    <3>5. todo \in Seq(Users) /\ todo # <<>> /\ Tell(p, todo)
      BY <3>1, <3>2, <3>3, <3>4
    <3>6. PICK new : new = [Idle EXCEPT !.step = "announce", !.req = c.req, !.todo = todo]
      OBVIOUS
    <3>7. Become(p, new) /\ Good(new)' /\ ~ Working(new) /\ new.locked = {}
      BY <1>1, <1>2, <3>5, <3>6, TellStep
    <3>8. QED
      BY <1>1, <1>3, <1>7, <1>8, <1>10, <1>11, <3>7, CommitStep
  <2>3. QED
    BY <2>1, <2>2
<1>13. QED
  BY <1>1, <1>4, <1>6, <1>12 DEF Req

-----------------------------------------------------------------------------
(* The invariant holds, and every step is one of Market's.                 *)

LEMMA InitLockInv == LockInit => LockInv
<1> SUFFICES ASSUME LockInit PROVE LockInv
  OBVIOUS
<1>1. Tables
  <2>1. TypeOK /\ BlankWhenAbsent
    BY InitTypeOK DEF LockInit, Init, BlankWhenAbsent
  <2>2. SellersKnown
    BY DEF LockInit, Init, SellersKnown
  <2>3. QED
    BY <2>1, <2>2 DEF Tables
<1>2. \A p \in Procs : session[p] = Idle
  BY DEF LockInit
<1>3. session \in [Procs -> SessionStates]
  BY IdleFields DEF LockInit
<1>4. QED
  BY <1>1, <1>2, <1>3, IdleGood, IdleApart DEF LockInv

LEMMA StepLockInv ==
  ASSUME LockInv, [LockStep]_lockvars
  PROVE  LockInv' /\ [Next \/ \E p \in Procs : CommitSettlement(p)]_vars
<1> DEFINE Moves == [Next \/ \E p \in Procs : CommitSettlement(p)]_vars
<1>1. CASE TimePasses
  BY <1>1, TimePassesStep DEF TimePasses, Next
<1>2. ASSUME NEW r \in Workload, Create(r)
      PROVE  LockInv' /\ Moves
  BY <1>2, CreateStep
<1>3. ASSUME NEW p \in Procs, NEW r \in Workload, Receive(p, r)
      PROVE  LockInv' /\ Moves
  BY <1>3, ReceiveStep DEF Receive
<1>4. ASSUME NEW p \in Procs, NEW l \in Lots, Fire(p, l)
      PROVE  LockInv' /\ Moves
  BY <1>4, FireStep DEF Fire
<1>5. ASSUME NEW p \in Procs, Proceed(p)
      PROVE  LockInv' /\ Moves
  <2>1. CASE LotBid(p)
    BY <2>1, LotBidStep DEF LotBid
  <2>2. CASE LotBuy(p)
    BY <2>2, LotBuyStep DEF LotBuy
  <2>3. CASE LotEdit(p)
    BY <2>3, LotEditStep DEF LotEdit
  <2>4. CASE LotDelete(p)
    BY <2>4, LotDeleteStep DEF LotDelete
  <2>5. CASE LotSettle(p)
    BY <2>5, LotSettleStep DEF LotSettle
  <2>6. CASE LockUser(p)
    BY <2>6, LockUserStep DEF LockUser
  <2>7. CASE Decide(p)
    BY <2>7, DecideStep DEF Decide
  <2>8. CASE CommitBid(p)
    BY <2>8, CommitBidStep
  <2>9. CASE CommitBuy(p)
    BY <2>9, CommitBuyStep
  <2>10. CASE CommitEdit(p)
    BY <2>10, CommitEditStep
  <2>11. CASE CommitDelete(p)
    BY <2>11, CommitDeleteStep
  <2>12. CASE CommitCash(p)
    BY <2>12, CommitCashStep
  <2>13. CASE CommitSettlement(p)
    BY <2>13, CommitSettlementStep
  <2>14. CASE Announce(p)
    BY <2>14, AnnounceStep DEF Announce
  <2>15. CASE Refer(p)
    BY <2>15, ReferStep DEF Refer
  <2>16. QED
    BY <1>5, <2>1, <2>2, <2>3, <2>4, <2>5, <2>6, <2>7, <2>8, <2>9, <2>10, <2>11,
       <2>12, <2>13, <2>14, <2>15 DEF Proceed
<1>6. ASSUME NEW p \in Procs, Abort(p)
      PROVE  LockInv' /\ Moves
  BY <1>6, ReplyStep DEF Abort
<1>7. CASE UNCHANGED lockvars
  <2>1. Tables /\ Tables' /\ UNCHANGED vars /\ session' = session
    BY <1>7, TablesStay DEF lockvars, LockInv
  <2>2. ASSUME NEW q \in Procs, NEW c, c = session[q]
        PROVE  Good(c)'
    BY <2>1, <2>2, SessionGood, VarsStay
  <2>3. QED
    BY <2>1, <2>2, SameSessions
<1>8. QED
  BY <1>1, <1>2, <1>3, <1>4, <1>5, <1>6, <1>7 DEF LockStep

LEMMA LockInvHolds == LockSpec => []LockInv
<1>1. LockInv /\ [LockStep]_lockvars => LockInv'
  BY StepLockInv
<1>2. QED
  BY <1>1, InitLockInv, PTL DEF LockSpec

(* For any number of sessions, requests and timers: a session writes from  *)
(* the balances that are committed, whoever committed in the meantime, and *)
(* no lot is locked twice: SELECT ... FOR UPDATE with populate_existing    *)
(* loses no update.                                                        *)
THEOREM SessionsAlwaysOK == LockSpec => []SessionOK
<1>1. LockInv => SessionOK
  <2> SUFFICES ASSUME LockInv PROVE SessionOK
    OBVIOUS
  <2>1. \A p \in Procs : \A u \in session[p].locked : session[p].cash[u] = balance[u]
    BY DEF LockInv, Good, Fresh
  <2>2. ASSUME NEW p \in Procs, NEW q \in Procs \ {p}, NEW l \in Lots,
               HoldsLot(p, l), HoldsLot(q, l)
        PROVE  FALSE
    <3>1. Apart(session[p], session[q])
      BY DEF LockInv
    <3>2. QED
      BY <2>2, <3>1 DEF Apart, SameLot, Working, HoldsLot, Step, Req
  <2>3. session \in [Procs -> SessionStates]
    BY DEF LockInv
  <2>4. QED
    BY <2>1, <2>2, <2>3 DEF SessionOK, CopiesFresh
<1>2. QED
  BY <1>1, LockInvHolds, PTL

(* For any number of sessions, requests and timers: every statement-level  *)
(* step is a step of Market or none, except that a tick settles on the     *)
(* status and the deadline it read before it had the lot's lock.           *)
THEOREM OnlySettlementsAreLate == LockSpec => [][Next \/ LateSettlement]_vars
<1>1. LockInv /\ [LockStep]_lockvars => [Next \/ LateSettlement]_vars
  BY StepLockInv, CommitSettlementStep DEF LateSettlement
<1>2. QED
  BY <1>1, LockInvHolds, PTL DEF LockSpec

-----------------------------------------------------------------------------
(* With one timer per lot at most, nothing is settled twice.               *)

OneTick ==
  \A p, q \in Procs : p # q /\ Ticking(session[p]) /\ Ticking(session[q])
    => session[p].req.lot # session[q].req.lot

(* The lot a tick is after has not been sold to a bidder yet.              *)
Unsettled ==
  \A p \in Procs : Ticking(session[p]) =>
    LET l == session[p].req.lot
    IN  status[l] = "completed" => bids[l] = <<>>

TickInv == LockInv /\ BidsAscendToPrice /\ OneTick /\ Unsettled

(* A settlement on the deadline the tick read before it had the lock.      *)
EarlySettlement == \E l \in Lots : SettleOpen(l)

(* Who is ticking after a step: who was, and whose timer fires.            *)
LEMMA TickMoves ==
  ASSUME LockInv, NEW q \in Procs, NEW p \in Procs, NEW new, Become(p, new),
         Ticking(new) => Ticking(session[p]) /\ new.req.lot = session[p].req.lot,
         Ticking(session'[q])
  PROVE  Ticking(session[q]) /\ session'[q].req.lot = session[q].req.lot
BY DEF LockInv, Become

LEMMA SameRequest ==
  ASSUME LockInv, NEW p \in Procs, NEW new, new.req = session[p].req,
         Step(p) \in {"lot", "users", "decide"}, Ticking(new)
  PROVE  Ticking(session[p]) /\ new.req.lot = session[p].req.lot
<1>1. Asked(session[p])
  BY DEF LockInv, Good
<1>2. QED
  BY <1>1 DEF Ticking, Step, Asked, Valid

LEMMA TickReplies ==
  ASSUME LockInv, NEW q \in Procs, NEW p \in Procs, Reply(p), Ticking(session'[q])
  PROVE  Ticking(session[q]) /\ session'[q].req.lot = session[q].req.lot
<1>1. ~ Ticking(Idle)
  BY IdleFields DEF Ticking
<1>2. QED
  BY <1>1, TickMoves DEF Reply

LEMMA TickTells ==
  ASSUME LockInv, NEW q \in Procs, NEW p \in Procs, NEW todo, Tell(p, todo)
  PROVE  /\ ~ Ticking(session'[p])
         /\ Ticking(session'[q])
              => Ticking(session[q]) /\ session'[q].req.lot = session[q].req.lot
<1>1. PICK new : new = [Idle EXCEPT !.step = "announce", !.req = Req(p), !.todo = todo]
  OBVIOUS
<1>2. new.step = "announce" /\ Become(p, new)
  BY <1>1, IdleFields DEF Tell, SessionStates
<1>3. session \in [Procs -> SessionStates]
  BY DEF LockInv
<1>4. session'[p] = new /\ ~ Ticking(new)
  BY <1>2, <1>3 DEF Become, Ticking
<1>5. QED
  BY <1>2, <1>4, TickMoves

LEMMA TickLocksNext ==
  ASSUME LockInv, NEW q \in Procs, NEW p \in Procs, NEW todo, LockNext(p, todo),
         Step(p) = "lot", Ticking(session'[q])
  PROVE  Ticking(session[q]) /\ session'[q].req.lot = session[q].req.lot
<1>1. PICK new : new = [session[p] EXCEPT !.step = IF todo = <<>> THEN "commit" ELSE "users",
                                          !.todo = todo, !.t = now, !.s = now]
  OBVIOUS
<1>2. session[p] \in SessionStates
  BY SessionGood
<1>3. new.req = session[p].req /\ Become(p, new)
  BY <1>1, <1>2 DEF SessionStates, LockNext
<1>4. QED
  BY <1>3, TickMoves, SameRequest

LEMMA SettledStopsTicking ==
  ASSUME LockInv, NEW p \in Procs, CommitSettlement(p)
  PROVE  ~ Ticking(session'[p])
<1>1. session \in [Procs -> SessionStates]
  BY DEF LockInv
<1>2. CASE Reply(p)
  BY <1>1, <1>2, IdleFields DEF Reply, Become, Ticking
<1>3. CASE ~ Reply(p)
  <2>1. PICK todo : Tell(p, todo)
    BY <1>3 DEF CommitSettlement
  <2>2. QED
    BY <2>1, TickTells
<1>4. QED
  BY <1>2, <1>3

LEMMA TicksStay ==
  ASSUME LockInv, [LockStep]_lockvars, NEW q \in Procs, Ticking(session'[q])
  PROVE  \/ Ticking(session[q]) /\ session'[q].req.lot = session[q].req.lot
         \/ /\ session'[q].req.lot \in Lots /\ Fire(q, session'[q].req.lot)
            /\ \A r \in Procs : r # q => session'[r] = session[r]
<1> DEFINE Was == Ticking(session[q]) /\ session'[q].req.lot = session[q].req.lot
           Fires == /\ session'[q].req.lot \in Lots /\ Fire(q, session'[q].req.lot)
                    /\ \A r \in Procs : r # q => session'[r] = session[r]
<1>a. session \in [Procs -> SessionStates]
  BY DEF LockInv
<1>1. CASE session' = session
  BY <1>1
<1>2. ASSUME NEW p \in Procs, NEW r \in Workload, Receive(p, r)
      PROVE  Was
  <2>1. r.op # "tick"
    BY WorkloadAssumption DEF Valid
  <2>2. PICK new : /\ Become(p, new)
                   /\ \/ new = [Idle EXCEPT !.step = "users", !.req = r, !.todo = <<r.user>>]
                      \/ new = [Idle EXCEPT !.step = "lot", !.req = r]
    BY <1>2 DEF Receive
  <2>3. new.req = r
    BY <2>2, IdleFields DEF SessionStates
  <2>4. QED
    BY <2>1, <2>2, <2>3, TickMoves DEF Ticking
<1>3. ASSUME NEW p \in Procs, NEW l \in Lots, Fire(p, l)
      PROVE  Was \/ Fires
  <2>1. PICK new : new = [Idle EXCEPT !.step = "lot", !.req = Body("tick", NoUser, l),
                            !.row = [status |-> status[l], end_time |-> end_time[l]]]
    OBVIOUS
  <2>2. Become(p, new) /\ new.req.lot = l
    BY <1>3, <2>1, IdleFields DEF Fire, SessionStates, Body
  <2>3. CASE p = q
    BY <1>3, <1>a, <2>2, <2>3 DEF Become
  <2>4. CASE p # q
    BY <1>a, <2>2, <2>4 DEF Become
  <2>5. QED
    BY <2>3, <2>4
<1>4. ASSUME NEW p \in Procs, Proceed(p)
      PROVE  Was
  <2>1. CASE LotBid(p) \/ LotBuy(p) \/ LotEdit(p) \/ LotDelete(p) \/ LotSettle(p)
    <3>1. Step(p) = "lot" /\ (Reply(p) \/ \E todo : LockNext(p, todo))
      BY <2>1 DEF LotBid, LotBuy, LotEdit, LotDelete, LotSettle, Granted
    <3>2. QED
      BY <3>1, TickReplies, TickLocksNext
  <2>2. CASE LockUser(p)
    <3>1. PICK c : c = session[p]
      OBVIOUS
    <3>2. PICK new : new = [c EXCEPT
                      !.locked = @ \cup {Head(c.todo)},
                      !.cash[Head(c.todo)] = balance[Head(c.todo)], !.todo = Tail(c.todo),
                      !.step = IF Tail(c.todo) # <<>> THEN "users"
                               ELSE IF Req(p).op = "tick" THEN "commit" ELSE "decide"]
      OBVIOUS
    <3>3. Become(p, new) /\ Step(p) = "users"
      BY <2>2, <3>1, <3>2 DEF LockUser
    <3>4. c \in SessionStates
      BY <3>1, SessionGood
    <3>5. new.req = c.req
      BY <3>2, <3>4 DEF SessionStates
    <3>6. QED
      BY <3>1, <3>3, <3>5, TickMoves, SameRequest
  <2>3. CASE Decide(p)
    <3>1. PICK c : c = session[p]
      OBVIOUS
    <3>2. PICK new : new = [c EXCEPT !.step = "commit", !.s = now]
      OBVIOUS
    <3>3. (Become(p, new) \/ Reply(p)) /\ Step(p) = "decide"
      BY <2>3, <3>1, <3>2 DEF Decide
    <3>4. c \in SessionStates
      BY <3>1, SessionGood
    <3>5. new.req = c.req
      BY <3>2, <3>4 DEF SessionStates
    <3>6. QED
      BY <3>1, <3>3, <3>5, TickMoves, SameRequest, TickReplies
  <2>4. CASE CommitEdit(p) \/ CommitDelete(p) \/ CommitCash(p)
    <3>1. Reply(p)
      BY <2>4 DEF CommitEdit, CommitDelete, CommitCash
    <3>2. QED
      BY <3>1, TickReplies
  <2>5. CASE CommitBid(p) \/ CommitBuy(p) \/ CommitSettlement(p)
    <3>1. Reply(p) \/ \E todo : Tell(p, todo)
      BY <2>5 DEF CommitBid, CommitBuy, CommitSettlement
    <3>2. QED
      BY <3>1, TickReplies, TickTells
  <2>6. CASE Announce(p) \/ Refer(p)
    <3>1. PICK c : c = session[p]
      OBVIOUS
    <3>2. \/ Reply(p)
          \/ \E new : /\ Become(p, new)
                      /\ \/ new = [c EXCEPT !.step = "refer", !.todo = Tail(@),
                                             !.shared = @ \cup {Head(c.todo)}]
                         \/ new = [c EXCEPT !.step = "announce", !.refers = TRUE]
                         \/ new = [c EXCEPT !.step = "announce", !.shared = {}]
      <4>1. CASE Announce(p)
        BY <3>1, <4>1 DEF Announce
      <4>2. CASE Refer(p)
        BY <3>1, <4>2 DEF Refer
      <4>3. QED
        BY <2>6, <4>1, <4>2
    <3>3. c \in SessionStates
      BY <3>1, SessionGood
    <3>4. Reply(p) \/ \E new : Become(p, new) /\ ~ Ticking(new)
      BY <3>2, <3>3 DEF SessionStates, Ticking
    <3>5. QED
      BY <3>4, TickMoves, TickReplies
  <2>7. QED
    BY <1>4, <2>1, <2>2, <2>3, <2>4, <2>5, <2>6 DEF Proceed
<1>5. ASSUME NEW p \in Procs, Abort(p)
      PROVE  Was
  BY <1>5, TickReplies DEF Abort
<1>6. QED
  BY <1>1, <1>2, <1>3, <1>4, <1>5 DEF LockStep, lockvars, TimePasses, Create

(* What a step may do to one lot.                                          *)
NoExtensions ==
  MaxExtensions = 0 /\ \A r \in Workload : r.op = "edit" => r.minutes = 0

NewlySold(l) ==
  /\ status'[l] = "completed" /\ bids'[l] # <<>>
  /\ ~ (status[l] = "completed" /\ bids[l] # <<>>)

DeadlineStays(l) ==
  status'[l] = "active" /\ status[l] # "absent"
    => status[l] = "active" /\ end_time'[l] = end_time[l]

SettledNow(l) == \E p \in Procs : CommitSettlement(p) /\ Req(p).lot = l

LEMMA LotsMove ==
  ASSUME LockInv, BidsAscendToPrice, [LockStep]_lockvars, NEW l \in Lots
  PROVE  /\ NewlySold(l) => SettledNow(l)
         /\ NoExtensions => DeadlineStays(l)
<1> DEFINE Fine == ~ NewlySold(l) /\ (NoExtensions => DeadlineStays(l))
<1>a. TypeOK /\ Tables
  BY DEF LockInv, Tables
<1>1. CASE UNCHANGED vars
  BY <1>1 DEF vars, NewlySold, DeadlineStays, deadline
<1>2. CASE TimePasses
  BY <1>2 DEF TimePasses, Tick, NewlySold, DeadlineStays, deadline
<1>3. ASSUME NEW r \in Workload, Create(r)
      PROVE  Fine
  <2>1. PICK t : CreateAuction(r.user, r.lot, r.type, r.start, r.bin, r.minutes, t)
    BY <1>3 DEF Create
  <2>2. QED
    BY <1>a, <2>1 DEF CreateAuction, TypeOK, NewlySold, DeadlineStays
<1>4. ASSUME NEW p \in Procs, CommitBid(p)
      PROVE  Fine
  <2>1. PICK c : c = session[p]
    OBVIOUS
  <2>2. /\ c.step = "commit" /\ c.req.op = "bid"
        /\ WriteBid(c.req.user, c.req.lot, c.req.amount, c.s)
    BY <1>4, <2>1 DEF CommitBid, Committing, Step, Req
  <2>3. Biddable(c.req.user, c.req.lot, c.req.amount, c.t)
    BY <2>1, <2>2, CommittingIs DEF Checked
  <2>4. NoExtensions => ~ Sniping(c.req.lot, c.s)
    <3>1. c.req.lot \in Lots
      BY <2>1, <2>2, CommittingIs DEF Asked, Valid
    <3>2. extensions_count[c.req.lot] \in Nat
      BY <1>a, <3>1 DEF TypeOK
    <3>3. NoExtensions => MaxExtensions = 0
      BY DEF NoExtensions
    <3>4. QED
      BY <3>2, <3>3 DEF Sniping
  <2>5. status' = status /\ (NoExtensions => end_time' = end_time)
    BY <2>2, <2>4 DEF WriteBid
  <2>6. ~ NewlySold(l)
    <3>1. status[c.req.lot] = "active"
      BY <2>3 DEF Biddable
    <3>2. l # c.req.lot => bids'[l] = bids[l]
      BY <1>a, <2>2 DEF WriteBid, TypeOK
    <3>3. QED
      BY <2>5, <3>1, <3>2 DEF NewlySold
  <2>7. QED
    BY <2>5, <2>6 DEF DeadlineStays
<1>5. ASSUME NEW p \in Procs, CommitBuy(p)
      PROVE  Fine
  <2>1. PICK c : c = session[p]
    OBVIOUS
  <2>2. /\ c.step = "commit" /\ c.req.op = "buy"
        /\ WritePurchase(c.cash, c.req.user, c.req.lot, c.s)
    BY <1>5, <2>1 DEF CommitBuy, Committing, Step, Req
  <2>3. Buyable(c.req.user, c.req.lot, c.t) /\ c.req.lot \in Lots
    BY <2>1, <2>2, CommittingIs DEF Checked, Asked, Valid
  <2>4. bids[c.req.lot] = <<>>
    <3>1. BidsFit(c.req.lot)
      BY <2>3, BidsFitAll
    <3>2. QED
      BY <2>3, <3>1 DEF Buyable, BidsFit
  <2>5. QED
    BY <1>a, <2>2, <2>3, <2>4 DEF WritePurchase, TypeOK, NewlySold, DeadlineStays
<1>6. ASSUME NEW p \in Procs, CommitEdit(p)
      PROVE  Fine
  <2>1. PICK c : c = session[p]
    OBVIOUS
  <2>2. /\ c.step = "commit" /\ c.req.op = "edit"
        /\ WriteEdit(c.req.lot, c.req.start, c.req.bin, c.req.type, c.req.minutes)
    BY <1>6, <2>1 DEF CommitEdit, Committing, Step, Req
  <2>3. c.req \in Workload /\ c.req.lot \in Lots
    BY <2>1, <2>2, CommittingIs DEF Asked, Valid
  <2>4. status' = status /\ bids' = bids /\ end_time' = [end_time EXCEPT ![c.req.lot] = @ + c.req.minutes]
    BY <2>2 DEF WriteEdit
  <2>5. NoExtensions => end_time'[l] = end_time[l]
    <3>1. NoExtensions => c.req.minutes = 0
      BY <2>2, <2>3 DEF NoExtensions
    <3>2. end_time \in [Lots -> Nat]
      BY <1>a DEF TypeOK
    <3>3. QED
      BY <2>4, <3>1, <3>2
  <2>6. QED
    BY <2>4, <2>5 DEF NewlySold, DeadlineStays
<1>7. ASSUME NEW p \in Procs, CommitDelete(p)
      PROVE  Fine
  BY <1>a, <1>7 DEF CommitDelete, WriteDelete, TypeOK, NewlySold, DeadlineStays, deadline
<1>8. ASSUME NEW p \in Procs, CommitCash(p)
      PROVE  Fine
  BY <1>8 DEF CommitCash, WriteCash, NewlySold, DeadlineStays, deadline
<1>9. ASSUME NEW p \in Procs, CommitSettlement(p)
      PROVE  (NewlySold(l) => SettledNow(l)) /\ DeadlineStays(l)
  <2>1. Req(p).lot \in Lots /\ WriteSettlement(balance, Req(p).lot)
    BY <1>9, CommitSettlementStep
  <2>2. CASE Req(p).lot = l
    BY <1>a, <1>9, <2>1, <2>2 DEF WriteSettlement, TypeOK, SettledNow, DeadlineStays
  <2>3. CASE Req(p).lot # l
    BY <1>a, <2>1, <2>3 DEF WriteSettlement, TypeOK, NewlySold, DeadlineStays, deadline
  <2>4. QED
    BY <2>2, <2>3
<1>10. ASSUME NEW p \in Procs, Proceed(p), ~ UNCHANGED vars
       PROVE  \/ CommitBid(p) \/ CommitBuy(p) \/ CommitEdit(p) \/ CommitDelete(p)
              \/ CommitCash(p) \/ CommitSettlement(p)
  BY <1>10 DEF Proceed, LotBid, LotBuy, LotEdit, LotDelete, LotSettle, LockUser, Decide,
                   Announce, Refer
<1>11. ASSUME NEW p \in Procs, Proceed(p), ~ UNCHANGED vars
       PROVE  /\ NewlySold(l) => SettledNow(l)
              /\ NoExtensions => DeadlineStays(l)
  BY <1>4, <1>5, <1>6, <1>7, <1>8, <1>9, <1>10, <1>11
<1>12. ASSUME NEW p \in Procs, Abort(p)
       PROVE  UNCHANGED vars
  BY <1>12 DEF Abort
<1>13. ASSUME NEW p \in Procs, NEW r \in Workload, Receive(p, r)
       PROVE  UNCHANGED vars
  BY <1>13 DEF Receive
<1>14. ASSUME NEW p \in Procs, NEW k \in Lots, Fire(p, k)
       PROVE  UNCHANGED vars
  BY <1>14 DEF Fire
<1>15. QED
  BY <1>1, <1>2, <1>3, <1>11, <1>12, <1>13, <1>14 DEF LockStep, lockvars

LEMMA StepTickInv ==
  ASSUME Timers <= 1, TickInv, [LockStep]_lockvars
  PROVE  TickInv' /\ [Next \/ EarlySettlement]_vars
<1>1. LockInv' /\ [Next \/ \E p \in Procs : CommitSettlement(p)]_vars
  BY StepLockInv DEF TickInv
<1>2. ASSUME NEW p \in Procs, CommitSettlement(p)
      PROVE  EarlySettlement \/ UNCHANGED vars
  <2>1. PICK l : l = Req(p).lot
    OBVIOUS
  <2>2. l \in Lots /\ status[l] \notin {"absent", "deleted"} /\ WriteSettlement(balance, l)
    BY <1>2, <2>1, CommitSettlementStep DEF TickInv
  <2>3. status \in [Lots -> {"absent", "active", "completed", "deleted"}]
    BY DEF TickInv, LockInv, Tables, TypeOK
  <2>4. CASE status[l] = "active"
    BY <2>2, <2>4 DEF EarlySettlement, SettleOpen
  <2>5. CASE status[l] = "completed"
    <3>1. Ticking(session[p])
      BY <1>2 DEF CommitSettlement, Committing, Ticking, Step, Req
    <3>2. bids[l] = <<>>
      BY <2>1, <2>5, <3>1 DEF TickInv, Unsettled, Req
    <3>3. status' = status
      BY <2>2, <2>3, <2>5 DEF WriteSettlement
    <3>4. QED
      BY <2>2, <3>2, <3>3 DEF WriteSettlement, Payout, vars
  <2>6. QED
    BY <2>2, <2>3, <2>4, <2>5
<1>3. [Next \/ EarlySettlement]_vars
  BY <1>1, <1>2
<1>4. BidsAscendToPrice'
  <2>1. CASE [Next]_vars
    BY <2>1, NextSteps, StepBidsAscend DEF TickInv, LockInv, Tables
  <2>2. CASE EarlySettlement
    <3>1. UNCHANGED <<listing, current_price, bids>>
      BY <2>2 DEF EarlySettlement, SettleOpen, WriteSettlement
    <3>2. \A l \in Lots : BidsFit(l)
      BY BidsFitAll DEF TickInv
    <3>3. \A l \in Lots : BidsFit(l)'
      BY <3>1, <3>2, SameBidsFit DEF listing
    <3>4. QED
      BY <3>3 DEF BidsAscendToPrice, BidsFit
  <2>3. QED
    BY <1>3, <2>1, <2>2
<1>5. OneTick'
  <2> SUFFICES ASSUME NEW p \in Procs, NEW q \in Procs, p # q,
                      Ticking(session'[p]), Ticking(session'[q]),
                      session'[p].req.lot = session'[q].req.lot
               PROVE  FALSE
    BY DEF OneTick, Ticking
  <2> DEFINE Fires(r) == /\ session'[r].req.lot \in Lots /\ Fire(r, session'[r].req.lot)
                         /\ \A v \in Procs : v # r => session'[v] = session[v]
             Was(r) == Ticking(session[r]) /\ session'[r].req.lot = session[r].req.lot
  <2>1. (Was(p) \/ Fires(p)) /\ (Was(q) \/ Fires(q))
    BY TicksStay DEF TickInv
  <2>2. ~ (Was(p) /\ Was(q))
    BY DEF TickInv, OneTick
  <2>3. ASSUME NEW r \in Procs, NEW v \in Procs, r # v, Fires(r), Ticking(session'[v]),
               session'[v].req.lot = session'[r].req.lot
        PROVE  FALSE
    <3> DEFINE l == session'[r].req.lot
               S == {w \in Procs : /\ Req(w).op = "tick" /\ Req(w).lot = l
                                   /\ Step(w) # "idle" /\ ~ Telling(w)}
    <3>1. Cardinality(S) < Timers
      BY <2>3 DEF Fire
    <3>2. v \in S
      <4>1. session'[v] = session[v]
        BY <2>3
      <4>2. session[v].req.op = "tick" /\ session[v].step \in {"lot", "users", "commit"}
        BY <2>3, <4>1 DEF Ticking
      <4>3. session[v].req.lot = l
        BY <2>3, <4>1
      <4>4. QED
        BY <4>2, <4>3 DEF Req, Step, Telling
    <3>3. IsFiniteSet(S)
      BY ProcsAssumption, FS_Subset
    <3> HIDE DEF S
    <3>4. Cardinality(S) \in Nat /\ Cardinality(S) # 0
      BY <3>2, <3>3, FS_CardinalityType, FS_EmptySet
    <3>5. QED
      BY <3>1, <3>4, TimersAssumption
  <2>4. QED
    BY <2>1, <2>2, <2>3
<1>6. Unsettled'
  <2> SUFFICES ASSUME NEW q \in Procs, Ticking(session'[q]),
                      status'[session'[q].req.lot] = "completed"
               PROVE  bids'[session'[q].req.lot] = <<>>
    BY DEF Unsettled, Ticking
  <2>1. PICK l : l = session'[q].req.lot
    OBVIOUS
  <2>2. session'[q].req.lot \in Lots
    <3>1. Good(session[q]) /\ (Ticking(session[q]) => session[q].req.lot \in Lots)
      BY DEF TickInv, LockInv, Good, Ticking, Asked, Valid
    <3>2. QED
      BY <3>1, TicksStay DEF TickInv
  <2>3. CASE Ticking(session[q]) /\ session[q].req.lot = l
    <3> SUFFICES ASSUME bids'[l] # <<>>
                 PROVE  FALSE
      BY <2>1
    <3>1. NewlySold(l)
      BY <2>1, <2>3 DEF TickInv, Unsettled, NewlySold
    <3>2. PICK p \in Procs : CommitSettlement(p) /\ Req(p).lot = l
      BY <2>1, <2>2, <3>1, LotsMove DEF TickInv, SettledNow
    <3>3. Ticking(session[p]) /\ ~ Ticking(session'[p])
      BY <3>2, SettledStopsTicking
         DEF TickInv, CommitSettlement, Committing, Ticking, Step, Req
    <3>4. QED
      BY <2>3, <3>2, <3>3 DEF TickInv, OneTick, Req
  <2>4. CASE Fire(q, l)
    <3>1. status[l] = "active" /\ UNCHANGED vars
      BY <2>4 DEF Fire, Due
    <3>2. QED
      BY <2>1, <3>1 DEF vars
  <2>5. QED
    BY <2>1, <2>3, <2>4, TicksStay DEF TickInv
<1>7. QED
  BY <1>1, <1>3, <1>4, <1>5, <1>6 DEF TickInv

-----------------------------------------------------------------------------
(* If nothing moves the deadline of an open lot either, the tick is right. *)

PunctualTimers == Timers = 0 \/ (Timers = 1 /\ NoExtensions)

(* No lot a tick is after has been given more time.                        *)
OnTime ==
  \A p \in Procs : Ticking(session[p]) =>
    LET l == session[p].req.lot
    IN  Timers # 0 /\ (status[l] = "active" => end_time[l] <= now)

LEMMA ClockMoves ==
  ASSUME [Next]_vars
  PROVE  now' = now \/ now' = now + 1
<1>1. CASE Tick
  BY <1>1 DEF Tick
<1>2. ASSUME NEW u \in Users, NEW a \in Deposits, Deposit(u, a) \/ Withdraw(u, a)
      PROVE  now' = now
  BY <1>2 DEF Deposit, Withdraw, WriteCash
<1>3. ASSUME NEW u, NEW l, NEW type, NEW start, NEW bin, NEW d, NEW t,
             CreateAuction(u, l, type, start, bin, d, t)
      PROVE  now' = now
  BY <1>3 DEF CreateAuction
<1>4. ASSUME NEW u, NEW l, NEW start, NEW bin, NEW type, NEW d,
             UpdateAuction(u, l, start, bin, type, d)
      PROVE  now' = now
  BY <1>4 DEF UpdateAuction, WriteEdit
<1>5. ASSUME NEW u, NEW l, DeleteAuction(u, l)
      PROVE  now' = now
  BY <1>5 DEF DeleteAuction, WriteDelete
<1>6. ASSUME NEW u, NEW l, NEW a, NEW t, NEW s, PlaceBid(u, l, a, t, s)
      PROVE  now' = now
  BY <1>6 DEF PlaceBid, WriteBid
<1>7. ASSUME NEW u, NEW l, NEW t, NEW s, BuyNow(u, l, t, s)
      PROVE  now' = now
  BY <1>7 DEF BuyNow, WritePurchase
<1>8. ASSUME NEW l, CompleteAuction(l)
      PROVE  now' = now
  BY <1>8 DEF CompleteAuction, WriteSettlement
<1>9. CASE UNCHANGED vars
  BY <1>9 DEF vars
<1>10. QED
  BY <1>1, <1>2, <1>3, <1>4, <1>5, <1>6, <1>7, <1>8, <1>9 DEF Next

LEMMA StepOnTime ==
  ASSUME PunctualTimers, TickInv, OnTime, [LockStep]_lockvars
  PROVE  OnTime' /\ [Next]_vars
<1>1. Timers <= 1
  BY DEF PunctualTimers
<1>2. TickInv' /\ [Next \/ \E p \in Procs : CommitSettlement(p)]_vars
  BY <1>1, StepTickInv, StepLockInv DEF TickInv
<1>3. ASSUME NEW p \in Procs, CommitSettlement(p)
      PROVE  [Next]_vars
  <2>1. PICK l : l = Req(p).lot
    OBVIOUS
  <2>2. l \in Lots /\ status[l] \notin {"absent", "deleted"} /\ WriteSettlement(balance, l)
    BY <1>3, <2>1, CommitSettlementStep DEF TickInv
  <2>3. status \in [Lots -> {"absent", "active", "completed", "deleted"}]
    BY DEF TickInv, LockInv, Tables, TypeOK
  <2>4. Ticking(session[p])
    BY <1>3 DEF CommitSettlement, Committing, Ticking, Step, Req
  <2>5. CASE status[l] = "active"
    <3>1. Due(l)
      BY <2>1, <2>4, <2>5 DEF OnTime, Due, Req
    <3>2. QED
      BY <2>2, <3>1 DEF Next, CompleteAuction
  <2>6. CASE status[l] = "completed"
    <3>1. bids[l] = <<>>
      BY <2>1, <2>4, <2>6 DEF TickInv, Unsettled, Req
    <3>2. status' = status
      BY <2>2, <2>3, <2>6 DEF WriteSettlement
    <3>3. QED
      BY <2>2, <3>1, <3>2 DEF WriteSettlement, Payout, vars
  <2>7. QED
    BY <2>2, <2>3, <2>5, <2>6
<1>4. OnTime'
  <2> SUFFICES ASSUME NEW q \in Procs, Ticking(session'[q])
               PROVE  LET l == session'[q].req.lot
                      IN  Timers # 0 /\ (status'[l] = "active" => end_time'[l] <= now')
    BY DEF OnTime, Ticking
  <2>1. PICK l : l = session'[q].req.lot
    OBVIOUS
  <2>2. CASE Ticking(session[q]) /\ session[q].req.lot = l
    <3>1. l \in Lots /\ status[l] # "absent"
      BY <2>2 DEF TickInv, LockInv, Good, Ticking, Asked, Valid, Read
    <3>2. Timers # 0 /\ (status[l] = "active" => end_time[l] <= now)
      BY <2>2 DEF OnTime
    <3>3. status'[l] = "active" => status[l] = "active" /\ end_time'[l] = end_time[l]
      BY <3>1, <3>2, LotsMove DEF PunctualTimers, TickInv, DeadlineStays
    <3>4. now <= now' /\ now \in Nat /\ now' \in Nat
      <4>1. now' = now \/ now' = now + 1
        BY <1>2, <1>3, ClockMoves
      <4>2. QED
        BY <4>1, BoundsAssumption DEF TickInv, LockInv, Tables, TypeOK
    <3>5. end_time[l] \in Nat
      BY <3>1 DEF TickInv, LockInv, Tables, TypeOK
    <3>6. QED
      BY <2>1, <3>2, <3>3, <3>4, <3>5
  <2>3. CASE Fire(q, l)
    <3>1. Due(l) /\ UNCHANGED vars
      BY <2>3 DEF Fire
    <3>2. Timers # 0
      <4> DEFINE S == {w \in Procs : /\ Req(w).op = "tick" /\ Req(w).lot = l
                                     /\ Step(w) # "idle" /\ ~ Telling(w)}
      <4>1. Cardinality(S) < Timers
        BY <2>3 DEF Fire
      <4>2. IsFiniteSet(S)
        BY ProcsAssumption, FS_Subset
      <4> HIDE DEF S
      <4>3. Cardinality(S) \in Nat
        BY <4>2, FS_CardinalityType
      <4>4. QED
        BY <4>1, <4>3
    <3>3. QED
      BY <2>1, <3>1, <3>2 DEF vars, Due, deadline
  <2>4. QED
    BY <2>1, <2>2, <2>3, TicksStay DEF TickInv
<1>5. QED
  BY <1>2, <1>3, <1>4

LEMMA InitTickInv == LockInit => TickInv /\ OnTime
<1> SUFFICES ASSUME LockInit PROVE TickInv /\ OnTime
  OBVIOUS
<1>1. LockInv
  BY InitLockInv
<1>2. BidsAscendToPrice
  BY InitIInv DEF LockInit, IInv
<1>3. \A p \in Procs : ~ Ticking(session[p])
  BY IdleFields DEF LockInit, Ticking
<1>4. QED
  BY <1>1, <1>2, <1>3 DEF TickInv, OneTick, Unsettled, OnTime

(* With one timer per lot at most, a settlement is of an open lot: the     *)
(* only thing stale about it can be the deadline.                          *)
THEOREM OneTimerSettlesOpenLots ==
  Timers <= 1 => (LockSpec => [][Next \/ EarlySettlement]_vars)
<1> SUFFICES ASSUME Timers <= 1
             PROVE  LockSpec => [][Next \/ EarlySettlement]_vars
  OBVIOUS
<1>1. TickInv /\ [LockStep]_lockvars => TickInv' /\ [Next \/ EarlySettlement]_vars
  BY StepTickInv
<1>2. LockInit => TickInv
  BY InitTickInv
<1>3. QED
  BY <1>1, <1>2, PTL DEF LockSpec

(* So with one timer per lot at most the money is right whatever requests  *)
(* and ticks interleave, extensions and PATCHes of the deadline included:  *)
(* nobody leads for more than they have, each sale is booked once and on   *)
(* both sides, the rows explain the balances, and what is over is over.    *)
THEOREM OneTimerKeepsTheBooks ==
  Timers <= 1 =>
    (LockSpec => /\ [](Solvent /\ BidsAscendToPrice /\ RowsMatchSale /\ SoldMeansPaid
                       /\ RunningBalance /\ LifetimeBounded)
                 /\ DeadlineNeverRecedes /\ FinishedIsFinal)
<1> SUFFICES ASSUME Timers <= 1
             PROVE  LockSpec => /\ [](Solvent /\ BidsAscendToPrice /\ RowsMatchSale
                                      /\ SoldMeansPaid /\ RunningBalance /\ LifetimeBounded)
                                /\ DeadlineNeverRecedes /\ FinishedIsFinal
  OBVIOUS
<1> DEFINE Books == TickInv /\ LedgerInv /\ LifetimeBounded
           Forward == [\A l \in Lots : status[l] = "active" /\ status'[l] = "active"
                         => end_time'[l] >= end_time[l]]_vars
           Final == [\A l \in Lots : status[l] \in {"completed", "deleted"} =>
                       /\ status'[l] = status[l]
                       /\ winner_id'[l] = winner_id[l]
                       /\ current_price'[l] = current_price[l]
                       /\ bids'[l] = bids[l]]_vars
<1>1. LockInit => Books
  BY InitTickInv, InitLedger DEF LockInit, Init, LifetimeBounded
<1>2. Books /\ [LockStep]_lockvars => [Steps]_vars
  BY StepTickInv DEF Steps, EarlySettlement
<1>3. Books /\ [Steps]_vars => LedgerInv' /\ LifetimeBounded' /\ Forward /\ Final
  <2> SUFFICES ASSUME Books, [Steps]_vars
               PROVE  LedgerInv' /\ LifetimeBounded' /\ Forward /\ Final
    OBVIOUS
  <2>1. TypeOK /\ BlankWhenAbsent
    BY DEF LedgerInv, MarketInv, IInv
  <2>2. LedgerInv'
    BY StepMarketInv, StepRunning, StepRowsMatch, StepSoldPaid DEF LedgerInv
  <2>3. LifetimeBounded'
    BY <2>1, StepBounded
  <2>4. Forward
    BY <2>1, DeadlineStep
  <2>5. Final
    BY <2>1, FinishedStep
  <2>6. QED
    BY <2>2, <2>3, <2>4, <2>5
<1>4. Books /\ [LockStep]_lockvars => Books' /\ Forward /\ Final
  BY <1>2, <1>3, StepTickInv
<1>5. Books => Solvent /\ BidsAscendToPrice /\ RowsMatchSale /\ SoldMeansPaid
               /\ RunningBalance /\ LifetimeBounded
  BY DEF LedgerInv, MarketInv, IInv
<1> HIDE DEF Books
<1>6. QED
  BY <1>1, <1>4, <1>5, PTL DEF LockSpec, DeadlineNeverRecedes, FinishedIsFinal

(* For any number of sessions, lots and requests: without timers, or with  *)
(* one per lot and deadlines that nothing extends, statement by statement  *)
(* the handlers do what Market says in one step.                           *)
THEOREM RowLocksImplementMarket ==
  PunctualTimers => (LockSpec => AtomicHandlers)
<1> SUFFICES ASSUME PunctualTimers
             PROVE  LockSpec => AtomicHandlers
  OBVIOUS
<1>1. TickInv /\ OnTime /\ [LockStep]_lockvars => TickInv' /\ OnTime' /\ [Next]_vars
  BY StepTickInv, StepOnTime DEF PunctualTimers
<1>2. LockInit => TickInv /\ OnTime /\ Init
  BY InitTickInv DEF LockInit
<1>3. QED
  BY <1>1, <1>2, PTL DEF LockSpec, AtomicHandlers, Spec

-----------------------------------------------------------------------------
(* A circle of waiting handlers takes one that tells and one that waits    *)
(* for a user.                                                             *)

Next1(p) == Head(session[p].todo)

(* Who is in a circle: handlers that wait for their lot hold nothing, and  *)
(* those that tell have let go of all they locked.                         *)
LEMMA WhoWaits ==
  ASSUME LockInv, NEW S \in SUBSET Procs, Deadlocked(S), NEW p \in S
  PROVE  /\ Step(p) \in {"lot", "users"} \/ Telling(p)
         /\ Queue(session[p]) /\ session[p] \in SessionStates
         /\ Step(p) # "users" => session[p].locked = {} /\ \A l \in Lots : ~ HoldsLot(p, l)
         /\ ~ Telling(p) => session[p].shared = {} /\ ~ session[p].refers
<1>1. p \in Procs /\ Queue(session[p]) /\ session[p] \in SessionStates
  BY DEF LockInv, Good
<1>2. Step(p) \in {"lot", "users"} \/ Telling(p)
  BY DEF Deadlocked, Blockers, Step, Telling
<1>3. ~ Telling(p) => session[p].shared = {} /\ ~ session[p].refers
  BY <1>1 DEF Queue, Tells, Telling, Step
<1>4. Step(p) # "users" => session[p].locked = {} /\ \A l \in Lots : ~ HoldsLot(p, l)
  BY <1>1, <1>2 DEF Queue, Working, HoldsLot, Telling, Step
<1>5. QED
  BY <1>1, <1>2, <1>3, <1>4

(* Whoever waits for a telling handler's rows, that handler waits for one  *)
(* that has not committed.                                                 *)
LEMMA SomebodyWaitsForAUser ==
  ASSUME LockInv, NEW S \in SUBSET Procs, Deadlocked(S)
  PROVE  \E p \in S : Step(p) = "users"
<1> SUFFICES ASSUME \A p \in S : Step(p) # "users"
             PROVE  FALSE
  OBVIOUS
<1>1. PICK p \in S : Blockers(p) \cap S # {}
  BY DEF Deadlocked
<1>2. PICK q \in S : q \in Blockers(p)
  BY <1>1
<1>3. PICK r \in S : r \in Blockers(q)
  BY DEF Deadlocked
<1>4. /\ Step(p) = "lot" \/ Telling(p)
      /\ Step(q) = "lot" \/ Telling(q)
  BY WhoWaits
<1>5. /\ session[q].locked = {} /\ session[r].locked = {}
      /\ \A l : ~ HoldsLot(q, l) /\ ~ HoldsLot(r, l)
  <2>1. /\ session[q].locked = {} /\ session[r].locked = {}
        /\ Step(q) \notin {"users", "decide", "commit"}
        /\ Step(r) \notin {"users", "decide", "commit"}
    BY WhoWaits DEF Telling
  <2>2. QED
    BY <2>1 DEF HoldsLot
<1>6. Telling(q)
  <2>1. SharesLot(q, Req(p).lot)
    BY <1>2, <1>4, <1>5 DEF Blockers, Step, Req, Telling
  <2>2. QED
    BY <2>1, WhoWaits DEF SharesLot
<1>7. QED
  BY <1>3, <1>5, <1>6 DEF Blockers, Telling, Step, Req

(* Before they tell, a session that waits for a user waits for one above   *)
(* every user it holds, and one that holds a lot or a user is past waiting *)
(* for lots.                                                               *)
LEMMA WaitsUpward ==
  ASSUME LockInv, NEW S \in SUBSET Procs, Deadlocked(S), \A p \in S : ~ Telling(p)
  PROVE  LET W == {p \in S : Step(p) = "users"}
         IN  /\ W # {}
             /\ \A p \in W : Next1(p) \in Nat
             /\ \A p \in W : \E q \in W : Next1(p) < Next1(q)
<1> DEFINE W == {p \in S : Step(p) = "users"}
<1>1. W # {}
  BY SomebodyWaitsForAUser
<1>2. ASSUME NEW p \in W
      PROVE  /\ Next1(p) \in Users /\ Next1(p) \in Nat
             /\ \A u \in session[p].locked : u < Next1(p)
  <2>1. /\ session[p].step = "users" /\ Queue(session[p])
        /\ session[p].todo \in Seq(Users)
    BY WhoWaits DEF Step, SessionStates
  <2>2. session[p].todo # <<>>
    BY <2>1 DEF Queue
  <2>3. Len(session[p].todo) >= 1 /\ Head(session[p].todo) = session[p].todo[1]
        /\ Head(session[p].todo) \in Users
    BY <2>1, <2>2
  <2>4. 1 \in 1 .. Len(session[p].todo)
    BY <2>1, <2>3
  <2>5. QED
    BY <2>1, <2>3, <2>4, IdsAssumption DEF Queue, Next1
<1>3. ASSUME NEW p \in W
      PROVE  \E q \in W : Next1(p) < Next1(q)
  <2>1. PICK q \in S : q \in Blockers(p)
    BY DEF Deadlocked
  <2>2. Next1(p) \in session[q].locked \cup session[q].shared
    BY <2>1 DEF Blockers, Step, Next1
  <2>3. Step(q) = "users" /\ session[q].shared = {}
    BY <2>2, WhoWaits
  <2>4. q \in W
    BY <2>3
  <2>5. QED
    BY <1>2, <2>2, <2>3, <2>4
<1>4. QED
  BY <1>1, <1>2, <1>3

LEMMA NoCircleBeforeCommit ==
  ASSUME LockInv, NEW S \in SUBSET Procs, Deadlocked(S), \A p \in S : ~ Telling(p)
  PROVE  FALSE
<1> DEFINE W == {p \in S : Step(p) = "users"}
           Above(p) == {q \in W : Next1(p) < Next1(q)}
           B == {Above(p) : p \in W}
<1>1. /\ W # {}
      /\ \A p \in W : Next1(p) \in Nat
      /\ \A p \in W : \E q \in W : Next1(p) < Next1(q)
  BY WaitsUpward
<1>2. W \subseteq Procs
  OBVIOUS
<1>3. B # {} /\ B \subseteq FiniteSubsetsOf(Procs)
  <2>1. ASSUME NEW p \in W
        PROVE  Above(p) \in FiniteSubsetsOf(Procs)
    <3>1. Above(p) \in SUBSET Procs
      BY <1>2
    <3>2. IsFiniteSet(Above(p))
      BY <3>1, ProcsAssumption, FS_Subset
    <3>3. QED
      BY <3>1, <3>2 DEF FiniteSubsetsOf
  <2>2. PICK p0 : p0 \in W
    BY <1>1
  <2> HIDE DEF W
  <2>3. Above(p0) \in B
    BY <2>2
  <2>4. B \subseteq FiniteSubsetsOf(Procs)
    <3> HIDE DEF Above
    <3>1. QED
      BY <2>1
  <2>5. QED
    BY <2>3, <2>4
<1>4. PICK x \in B : \A y \in B : ~ (<<y, x>> \in StrictSubsetOrdering(Procs))
  <2>1. IsWellFoundedOn(StrictSubsetOrdering(Procs), FiniteSubsetsOf(Procs))
    BY FS_StrictSubsetOrderingWellFounded
  <2>2. QED
    BY <1>3, <2>1, WFMin
<1>5. PICK p \in W : x = Above(p)
  OBVIOUS
<1>6. PICK q \in W : Next1(p) < Next1(q)
  BY <1>1
<1>7. Above(q) \subseteq Above(p) /\ q \in Above(p) /\ q \notin Above(q)
  BY <1>1, <1>6
<1>8. Above(q) \in SUBSET Procs /\ Above(p) \in SUBSET Procs /\ Above(q) # Above(p)
  BY <1>2, <1>7
<1>9. <<Above(q), Above(p)>> \in StrictSubsetOrdering(Procs)
  BY <1>7, <1>8 DEF StrictSubsetOrdering
<1>10. Above(q) \in B
  OBVIOUS
<1> HIDE DEF Above, B
<1>11. QED
  BY <1>4, <1>5, <1>9, <1>10

(* Until they have committed their money, requests and settlements never   *)
(* wait for each other in a circle, however many there are:                *)
(* get_for_update on the lot comes before lock_users_by_id, and that takes *)
(* the users in ascending id.  A circle takes a notice, which locks its    *)
(* recipient and its lot in no such order, and a handler that waits for a  *)
(* user's row.                                                             *)
THEOREM NoDeadlockAmongHandlers == LockSpec => []HandlersNeverCycle
<1>1. LockInv => HandlersNeverCycle
  BY SomebodyWaitsForAUser, NoCircleBeforeCommit DEF HandlersNeverCycle
<1>2. QED
  BY <1>1, LockInvHolds, PTL
=============================================================================
