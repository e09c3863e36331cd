---------------------------- MODULE NotificationsProofs ----------------------------
(***************************************************************************)
(* Proofs about Notifications, for every set of users, handlers and wishes *)
(* and every bound.  Each safety property has a part of its own in the     *)
(* inductive invariant, and all parts rest on Formed:                      *)
(*   Remembered  a handler's copy of the settings is that of its version;  *)
(*   Warnings    a warning is there, about to be committed, or lapped;     *)
(*   Audiences   whoever a timer found has been warned or is in its batch; *)
(*   Results     nobody has heard the result, or all have, alike;          *)
(*   Tellings    it is told, or about to be, once per settlement;          *)
(*   NewLots     each new lot has one handler until its rows are there;    *)
(*   Posted      rows, letters, lost letters and those under way tally.    *)
(***************************************************************************)
EXTENDS Notifications, FiniteSetTheorems, TLAPS

-----------------------------------------------------------------------------
(* The invariant.                                                          *)

Ops == {"idle", "bid", "buy", "post", "settle", "warn", "settings", "subscribe"}

Payloads == [user : Users, type : Types, lot : 0 .. MaxLots, via : Nat,
             off : SUBSET Flags, saves : Nat]

JobRows == [op : Ops, step : Steps, todo : Seq(Payloads), batch : SUBSET Payloads,
            audience : SUBSET Users, by : Users \cup {NoUser}, off : SUBSET Flags,
            saves : Nat, ask : SUBSET Flags, sub : Nat]

NoticeBags == UNION {[S -> Nat \ {0}] : S \in SUBSET Notices}

Typed ==
  /\ auction \in [leader : Users \cup {NoUser}, bidders : SUBSET Users,
                  active : BOOLEAN, warned : BOOLEAN]
  /\ lots \in 0 .. MaxLots
  /\ subs \in [Users -> SUBSET (1 .. MaxSubs)]
  /\ muted \in [Users -> SUBSET Flags]
  /\ rows \in NoticeBags /\ unread \in NoticeBags /\ letters \in NoticeBags
  /\ job \in [Jobs -> JobRows]
  /\ past \in [gone : NoticeBags, dropped : NoticeBags, saves : [Users -> Nat], bids : Nat,
               warnings : Nat, subs : 0 .. MaxSubs, laps : Nat, warned : SUBSET Users,
            late : Nat]

(* No two notices of a batch are alike.                                    *)
Single(P) == \A p, q \in P : Notice(p) = Notice(q) => p = q

OneByOne == {"BID_OUTBID", "BID_PLACED", "AUCTION_SOLD"}

SettledTypes == {"AUCTION_WON", "AUCTION_LOST", "AUCTION_SOLD"}

(* What a handler holds at each step.                                      *)
Shaped(q) ==
  /\ q.step = "idle" => q = Idle
  /\ q.step \in {"look", "row", "letter"} <=> q.todo # <<>>
  /\ \A i \in DOMAIN q.todo : q.todo[i].type \in OneByOne /\ q.todo[i].lot = 0
  /\ q.todo # <<>> => q.op \in {"bid", "buy"}
  /\ q.op = "bid" => \A i \in DOMAIN q.todo : q.todo[i].type # "AUCTION_SOLD"
  /\ q.op = "buy" => q.step \in {"row", "letter"} /\ Len(q.todo) = 1
  /\ q.step \in {"save", "insert", "erase"} => q.by \in Users /\ q.op \in {"settings", "subscribe"}
  /\ q.batch # {} => q.step = "batch"
  /\ q.step = "batch" => q.op \in {"post", "settle", "warn"} /\ Single(q.batch)
  /\ q.step = "query" => q.op \in {"post", "warn"}
  /\ q.step = "flag" => q.op = "warn"
  /\ q.op = "post" => q.sub \in 1 .. MaxLots /\ q.step \in {"query", "batch"}
  /\ q.step = "due" => q.op = "settle"
  /\ q.op = "settle" => q.step \in {"due", "batch"}
  /\ q.op = "post" => \A p \in q.batch : p.type = "NEW_LOT" /\ p.lot = q.sub
  /\ q.op = "warn" => \A p \in q.batch : p.type = "AUCTION_ENDING" /\ p.lot = 0
  /\ q.op = "settle" => \A p \in q.batch : p.type \in SettledTypes /\ p.lot = 0

Leads ==
  /\ Seller \notin auction.bidders
  /\ IF auction.bidders = {} THEN auction.leader = NoUser ELSE auction.leader \in auction.bidders

(* uq_subscription_pair.                                                   *)
OneSubscription == \A u \in Users : \A s, t \in subs[u] : s = t

UnreadAreThere == \A n \in Notices : Copies(n, unread) <= Copies(n, rows)

Formed ==
  /\ Typed
  /\ \A j \in Jobs : Shaped(job[j])
  /\ Leads
  /\ OneSubscription
  /\ UnreadAreThere

(* The notices a handler has yet to commit or send.                        *)
DueOf(q) == q.batch \cup {q.todo[i] : i \in DOMAIN q.todo}
Due(j) == DueOf(job[j])

(* A copy of u's settings is that of its version.                          *)
TrueCopy(u, off, saves) ==
  /\ saves <= past.saves[u]
  /\ saves = past.saves[u] => off = muted[u]

Remembered ==
  /\ \A u \in Users : past.saves[u] = 0 => muted[u] = {}
  /\ \A j \in Jobs : \A p \in Due(j) : TrueCopy(p.user, p.off, p.saves)
  /\ \A j \in Jobs : job[j].step = "save" => TrueCopy(job[j].by, job[j].off, job[j].saves)

(* The timers about to warn u.                                             *)
Warns(u) ==
  {j \in Jobs : /\ job[j].op = "warn" /\ job[j].step = "batch"
                /\ \E p \in job[j].batch : p.user = u}

Warnings ==
  \A u \in Users : Copies(Warning(u), rows) + Cardinality(Warns(u)) <= 1 + past.laps

Warned(u) == Created(Warning(u)) > 0

Audiences ==
  /\ \A u \in past.warned : Warned(u)
  /\ \A j \in Jobs : job[j].op = "warn" /\ job[j].step \in {"batch", "flag"} =>
       \A u \in job[j].audience : Warned(u) \/ \E p \in job[j].batch : p.user = u

Result(u, type) == [user |-> u, type |-> type, lot |-> 0]
ResultTypes == {"AUCTION_WON", "AUCTION_LOST"}

NoResults == \A u \in Users, type \in ResultTypes : Created(Result(u, type)) = 0

AllResults ==
  \A u \in Users, type \in ResultTypes :
    Created(Result(u, type)) > 0 <=> u \in auction.bidders /\ type = ResultFor(u)

Settling == {j \in Jobs : job[j].op = "settle" /\ job[j].step = "batch"}

Results ==
  /\ auction.active => NoResults /\ Settling = {}
  /\ NoResults \/ AllResults
  /\ \A j \in Settling : \A u \in Users, type \in ResultTypes :
       (\E p \in job[j].batch : Notice(p) = Result(u, type))
         <=> u \in auction.bidders /\ type = ResultFor(u)

(* Those about to tell how the lot ended, and how often it did.            *)
Telling ==
  {j \in Jobs : \/ job[j].op = "settle" /\ job[j].step = "batch"
                \/ job[j].op = "buy" /\ job[j].step = "row"}

Endings == past.late + (IF auction.active THEN 0 ELSE 1)

Tellings ==
  \A u \in Users, type \in SettledTypes :
    Created(Result(u, type)) + Cardinality(Telling) <= Endings

NewLot(u, l) == [user |-> u, type |-> "NEW_LOT", lot |-> l]

NewLots ==
  /\ \A u \in Users, l \in 1 .. MaxLots :
       Created(NewLot(u, l)) <= IF l <= lots THEN 1 ELSE 0
  /\ \A j \in Jobs : job[j].op = "post" =>
       /\ job[j].sub <= lots
       /\ \A u \in Users : Created(NewLot(u, job[j].sub)) = 0
       /\ \A k \in Jobs : job[k].op = "post" /\ job[k].sub = job[j].sub => k = j

MailedOf(n) == Copies(n, letters) + Copies(n, past.dropped) + Cardinality(UnderWay(n))

Posted ==
  \A n \in Notices : /\ MailedOf(n) <= Created(n)
                     /\ past.saves[n.user] = 0 => MailedOf(n) = Created(n)

-----------------------------------------------------------------------------
(* Bags of notices.                                                        *)

LEMMA BagMember ==
  ASSUME NEW b
  PROVE  b \in NoticeBags <=> IsABag(b) /\ DOMAIN b \subseteq Notices
<1>1. ASSUME b \in NoticeBags PROVE IsABag(b) /\ DOMAIN b \subseteq Notices
  BY <1>1 DEF NoticeBags, IsABag
<1>2. ASSUME IsABag(b), DOMAIN b \subseteq Notices PROVE b \in NoticeBags
  <2>1. PICK S \in SUBSET Notices : S = DOMAIN b
    BY <1>2
  <2>2. b \in [S -> Nat \ {0}]
    BY <1>2, <2>1 DEF IsABag
  <2>3. QED
    BY <2>2 DEF NoticeBags
<1>3. QED
  BY <1>1, <1>2

LEMMA CopiesNat ==
  ASSUME NEW b \in NoticeBags, NEW n
  PROVE  Copies(n, b) \in Nat /\ (Copies(n, b) > 0 <=> n \in DOMAIN b)
BY BagMember DEF IsABag, Copies

LEMMA EmptyIsBag == EmptyBag \in NoticeBags /\ \A n : Copies(n, EmptyBag) = 0
<1>1. IsABag(EmptyBag) /\ DOMAIN EmptyBag = {}
  BY DEF IsABag, EmptyBag, SetToBag
<1>2. QED
  BY <1>1, BagMember DEF Copies

LEMMA PlusBag ==
  ASSUME NEW a \in NoticeBags, NEW b \in NoticeBags
  PROVE  /\ a (+) b \in NoticeBags
         /\ \A n : Copies(n, a (+) b) = Copies(n, a) + Copies(n, b)
<1>0. IsABag(a) /\ IsABag(b) /\ DOMAIN a \subseteq Notices /\ DOMAIN b \subseteq Notices
  BY BagMember
<1>1. PICK c : c = a (+) b
  OBVIOUS
<1>2. /\ DOMAIN c = DOMAIN a \cup DOMAIN b
      /\ \A n \in DOMAIN c : c[n] = Copies(n, a) + Copies(n, b)
      /\ \E S : c = [n \in S |-> Copies(n, a) + Copies(n, b)]
  BY <1>1 DEF (+), Copies
<1>3. \A n \in DOMAIN c : c[n] \in {k \in Nat : k > 0}
  BY <1>2, CopiesNat
<1>4. IsABag(c)
  BY <1>2, <1>3 DEF IsABag
<1>5. \A n : Copies(n, c) = Copies(n, a) + Copies(n, b)
  BY <1>2 DEF Copies
<1>6. QED
  BY <1>0, <1>1, <1>2, <1>4, <1>5, BagMember

LEMMA MinusBag ==
  ASSUME NEW a \in NoticeBags, NEW m \in DOMAIN a
  PROVE  /\ a (-) SetToBag({m}) \in NoticeBags
         /\ \A n : Copies(n, a (-) SetToBag({m})) = IF n = m THEN Copies(m, a) - 1 ELSE Copies(n, a)
<1>0. IsABag(a) /\ DOMAIN a \subseteq Notices
  BY BagMember
<1>1. PICK c : c = a (-) SetToBag({m})
  OBVIOUS
<1>2. PICK d : d = [n \in DOMAIN a |-> IF n = m THEN a[m] - 1 ELSE a[n]]
  OBVIOUS
<1>3. c = [n \in {k \in DOMAIN d : d[k] > 0} |-> d[n]]
  BY <1>1, <1>2 DEF (-), SetToBag
<1>4. \A n \in DOMAIN a : d[n] \in Nat
  BY <1>0, <1>2 DEF IsABag
<1>5. IsABag(c) /\ DOMAIN c \subseteq DOMAIN a
  BY <1>2, <1>3, <1>4 DEF IsABag
<1>6. \A n : Copies(n, c) = IF n = m THEN Copies(m, a) - 1 ELSE Copies(n, a)
  BY <1>0, <1>2, <1>3, <1>4 DEF Copies, IsABag
<1>7. QED
  BY <1>0, <1>1, <1>5, <1>6, BagMember

LEMMA BagOfSingle ==
  ASSUME NEW P \in SUBSET Payloads, Single(P)
  PROVE  /\ BagOf(P) \in NoticeBags
         /\ \A n : Copies(n, BagOf(P)) = IF \E p \in P : Notice(p) = n THEN 1 ELSE 0
<1>1. \A p \in P : {q \in P : Notice(q) = Notice(p)} = {p}
  BY DEF Single
<1>2. \A p \in P : Cardinality({q \in P : Notice(q) = Notice(p)}) = 1
  BY <1>1, FS_Singleton
<1>3. PICK c : c = BagOf(P)
  OBVIOUS
<1>4. /\ DOMAIN c = {Notice(p) : p \in P}
      /\ \A n \in DOMAIN c : c[n] = 1
      /\ c = [n \in DOMAIN c |-> c[n]]
  BY <1>2, <1>3 DEF BagOf
<1>5. IsABag(c)
  BY <1>4 DEF IsABag
<1>6. \A p \in P : Notice(p) \in Notices
  BY DEF Payloads, Notice, Notices
<1>7. \A n : Copies(n, c) = IF \E p \in P : Notice(p) = n THEN 1 ELSE 0
  BY <1>4 DEF Copies
<1>8. QED
  BY <1>3, <1>4, <1>5, <1>6, <1>7, BagMember

(* The letters of a batch are some of its notices.                         *)
LEMMA MailedSingle ==
  ASSUME NEW P \in SUBSET Payloads, Single(P)
  PROVE  /\ Mailed(P) \in NoticeBags
         /\ \A n : Copies(n, Mailed(P)) =
              IF \E p \in P : Notice(p) = n /\ EmailEnabled(n.type, p.off) THEN 1 ELSE 0
<1>1. PICK Q : Q = {p \in P : EmailEnabled(p.type, p.off)}
  OBVIOUS
<1>2. Q \in SUBSET Payloads /\ Single(Q)
  BY <1>1 DEF Single
<1>3. \A n : \A p \in P : Notice(p) = n => n.type = p.type
  BY DEF Notice
<1>4. \A n : (\E p \in Q : Notice(p) = n)
               <=> (\E p \in P : Notice(p) = n /\ EmailEnabled(n.type, p.off))
  BY <1>1, <1>3
<1>5. QED
  BY <1>1, <1>2, <1>4, BagOfSingle DEF Mailed

LEMMA OneIsSingle ==
  ASSUME NEW p \in Payloads
  PROVE  {p} \in SUBSET Payloads /\ Single({p})
BY DEF Single

-----------------------------------------------------------------------------
(* Handlers and what they hold.                                            *)

LEMMA Todo ==
  ASSUME NEW s \in Seq(Payloads), s # <<>>
  PROVE  /\ 1 \in DOMAIN s /\ Head(s) = s[1] /\ Head(s) \in Payloads
         /\ Tail(s) \in Seq(Payloads)
         /\ Len(s) # 1 => Tail(s) # <<>>
         /\ \A i \in DOMAIN Tail(s) : \E k \in DOMAIN s : Tail(s)[i] = s[k]
<1>1. Len(s) \in Nat /\ Len(s) >= 1 /\ DOMAIN s = 1 .. Len(s)
  OBVIOUS
<1>2. Head(s) = s[1] /\ s[1] \in Payloads
  BY <1>1
<1>3. /\ Tail(s) \in Seq(Payloads) /\ Len(Tail(s)) = Len(s) - 1
      /\ \A i \in 1 .. Len(s) - 1 : Tail(s)[i] = s[i + 1]
  OBVIOUS
<1>4. DOMAIN Tail(s) = 1 .. Len(s) - 1
  BY <1>3
<1>5. \A i \in 1 .. Len(s) - 1 : i + 1 \in 1 .. Len(s)
  BY <1>1
<1>6. Len(s) # 1 => Tail(s) # <<>>
  BY <1>1, <1>3
<1>7. \A i \in DOMAIN Tail(s) : \E k \in DOMAIN s : Tail(s)[i] = s[k]
  BY <1>1, <1>3, <1>4, <1>5
<1>8. QED
  BY <1>1, <1>2, <1>3, <1>6, <1>7

LEMMA Alone ==
  ASSUME NEW p \in Payloads
  PROVE  /\ <<>> \o <<p>> \in Seq(Payloads) /\ <<>> \o <<p>> # <<>>
         /\ \A i \in DOMAIN (<<>> \o <<p>>) : (<<>> \o <<p>>)[i] = p
<1>1. <<>> \o <<p>> \in Seq(Payloads) /\ Len(<<>> \o <<p>>) = 1
  OBVIOUS
<1>2. (<<>> \o <<p>>)[1] = p
  OBVIOUS
<1>3. DOMAIN (<<>> \o <<p>>) = {1}
  BY <1>1
<1>4. QED
  BY <1>1, <1>2, <1>3

LEMMA Pair ==
  ASSUME NEW r \in Payloads, NEW p \in Payloads
  PROVE  /\ <<r>> \o <<p>> \in Seq(Payloads) /\ <<r>> \o <<p>> # <<>>
         /\ \A i \in DOMAIN (<<r>> \o <<p>>) : (<<r>> \o <<p>>)[i] \in {r, p}
<1>1. <<r>> \o <<p>> \in Seq(Payloads) /\ Len(<<r>> \o <<p>>) = 2
  OBVIOUS
<1>2. (<<r>> \o <<p>>)[1] = r /\ (<<r>> \o <<p>>)[2] = p
  OBVIOUS
<1>3. DOMAIN (<<r>> \o <<p>>) = {1, 2}
  BY <1>1
<1>4. QED
  BY <1>1, <1>2, <1>3

LEMMA TodoUpdate ==
  ASSUME NEW s \in Seq(Payloads), s # <<>>, NEW p \in Payloads
  PROVE  /\ [s EXCEPT ![1] = p] \in Seq(Payloads) /\ [s EXCEPT ![1] = p] # <<>>
         /\ DOMAIN [s EXCEPT ![1] = p] = DOMAIN s
         /\ [s EXCEPT ![1] = p][1] = p
         /\ \A i \in DOMAIN s : i # 1 => [s EXCEPT ![1] = p][i] = s[i]
OBVIOUS

LEMMA PayloadType ==
  ASSUME Typed, NEW u \in Users, NEW type \in Types, NEW lot \in 0 .. MaxLots, NEW via \in Nat
  PROVE  Payload(u, type, lot, via) \in Payloads
BY DEF Typed, Payload, Payloads

LEMMA IdleShaped == Idle \in JobRows /\ Shaped(Idle) /\ Idle.todo = <<>> /\ Idle.batch = {}
<1>1. <<>> \in Seq(Payloads)
  OBVIOUS
<1>2. QED
  BY <1>1 DEF Idle, JobRows, Ops, Steps, Shaped, Single

LEMMA BecomeStep ==
  ASSUME Typed, NEW j \in Jobs, NEW q \in JobRows, Become(j, q)
  PROVE  /\ job' \in [Jobs -> JobRows] /\ job'[j] = q
         /\ \A k \in Jobs : k # j => job'[k] = job[k]
BY DEF Typed, Become

JobsFormed == job \in [Jobs -> JobRows] /\ \A j \in Jobs : Shaped(job[j])

LEMMA BecomeFormed ==
  ASSUME Formed, NEW j \in Jobs, NEW q \in JobRows, Shaped(q), Become(j, q)
  PROVE  JobsFormed'
BY BecomeStep DEF Formed, JobsFormed

LEMMA FinishFormed ==
  ASSUME Formed, NEW j \in Jobs, Finish(j)
  PROVE  JobsFormed'
BY BecomeFormed, IdleShaped DEF Finish

(* The notices of a bid.                                                   *)
BidNotices(u) ==
  (IF auction.leader = NoUser THEN <<>>
   ELSE <<Payload(auction.leader, "BID_OUTBID", 0, 0)>>)
  \o <<Payload(Seller, "BID_PLACED", 0, 0)>>

LEMMA BidTodo ==
  ASSUME Formed, NEW u, NEW todo, todo = BidNotices(u)
  PROVE  /\ todo \in Seq(Payloads) /\ todo # <<>>
         /\ \A i \in DOMAIN todo : \E v \in Users, type \in {"BID_OUTBID", "BID_PLACED"} :
              todo[i] = Payload(v, type, 0, 0)
<1>1. PICK p : p = Payload(Seller, "BID_PLACED", 0, 0)
  OBVIOUS
<1>2. p \in Payloads
  BY <1>1, PayloadType, SellerAssumption, BoundsAssumption DEF Formed, Types
<1>3. CASE auction.leader = NoUser
  <2>1. todo = <<>> \o <<p>>
    BY <1>1, <1>3 DEF BidNotices
  <2>2. todo \in Seq(Payloads) /\ todo # <<>> /\ \A i \in DOMAIN todo : todo[i] = p
    BY <1>2, <2>1, Alone
  <2>3. QED
    BY <1>1, <2>2, SellerAssumption
<1>4. CASE auction.leader # NoUser
  <2>1. auction.leader \in Users
    BY <1>4 DEF Formed, Typed
  <2>2. PICK r : r = Payload(auction.leader, "BID_OUTBID", 0, 0)
    OBVIOUS
  <2>3. r \in Payloads
    BY <2>1, <2>2, PayloadType, BoundsAssumption DEF Formed, Types
  <2>4. todo = <<r>> \o <<p>>
    BY <1>1, <1>4, <2>2 DEF BidNotices
  <2>5. todo \in Seq(Payloads) /\ todo # <<>> /\ \A i \in DOMAIN todo : todo[i] \in {r, p}
    BY <1>2, <2>3, <2>4, Pair
  <2>6. QED
    BY <1>1, <2>1, <2>2, <2>5, SellerAssumption
<1>5. QED
  BY <1>3, <1>4

LEMMA PlaceBidJobs ==
  ASSUME Formed, NEW j \in Jobs, place_bid(j)
  PROVE  JobsFormed'
<1>0. PICK u \in Users :
        Become(j, [Idle EXCEPT !.op = "bid", !.step = "look", !.todo = BidNotices(u)])
  BY DEF place_bid, BidNotices
<1>1. PICK todo : todo = BidNotices(u)
  OBVIOUS
<1>2. /\ todo \in Seq(Payloads) /\ todo # <<>>
      /\ \A i \in DOMAIN todo : \E v \in Users, type \in {"BID_OUTBID", "BID_PLACED"} :
           todo[i] = Payload(v, type, 0, 0)
  BY <1>1, BidTodo
<1>3. \A i \in DOMAIN todo : /\ todo[i].type \in OneByOne /\ todo[i].lot = 0
                           /\ todo[i].type # "AUCTION_SOLD"
  BY <1>2 DEF Payload, OneByOne
<1>4. PICK q : q = [Idle EXCEPT !.op = "bid", !.step = "look", !.todo = todo]
  OBVIOUS
<1>5. q \in JobRows
  BY <1>2, <1>4, IdleShaped DEF Idle, JobRows, Ops, Steps
<1>6. Shaped(q)
  BY <1>2, <1>3, <1>4 DEF Idle, Shaped
<1>7. Become(j, q)
  BY <1>0, <1>1, <1>4
<1>8. QED
  BY <1>5, <1>6, <1>7, BecomeFormed

LEMMA BuyNowJobs ==
  ASSUME Formed, NEW j \in Jobs, buy_now(j)
  PROVE  JobsFormed'
<1>1. PICK p : p = Payload(Seller, "AUCTION_SOLD", 0, 0)
  OBVIOUS
<1>2. p \in Payloads
  BY <1>1, PayloadType, SellerAssumption, BoundsAssumption DEF Formed, Types
<1>3. p.type = "AUCTION_SOLD" /\ p.lot = 0
  BY <1>1 DEF Payload
<1>4. PICK q : q = [Idle EXCEPT !.op = "buy", !.step = "row", !.todo = <<p>>]
  OBVIOUS
<1>a. <<p>> \in Seq(Payloads)
  BY <1>2
<1>5. q \in JobRows
  BY <1>a, <1>4, IdleShaped DEF Idle, JobRows, Ops, Steps
<1>6. Shaped(q)
  BY <1>3, <1>4 DEF Idle, Shaped, OneByOne
<1>7. Become(j, q)
  BY <1>1, <1>4 DEF buy_now
<1>8. QED
  BY <1>5, <1>6, <1>7, BecomeFormed

LEMMA CreateAuctionJobs ==
  ASSUME Formed, NEW j \in Jobs, create_auction(j)
  PROVE  JobsFormed'
<1>1. PICK q : q = [Idle EXCEPT !.op = "post", !.step = "query", !.sub = lots + 1]
  OBVIOUS
<1>2. lots \in Nat /\ MaxLots \in Nat /\ lots < MaxLots
  BY BoundsAssumption DEF Formed, Typed, create_auction
<1>3. lots + 1 \in Nat /\ lots + 1 \in 1 .. MaxLots
  BY <1>2
<1>4. q \in JobRows
  BY <1>1, <1>3, IdleShaped DEF Idle, JobRows, Ops, Steps
<1>5. Shaped(q)
  BY <1>1, <1>3 DEF Idle, Shaped
<1>6. Become(j, q)
  BY <1>1 DEF create_auction
<1>7. QED
  BY <1>4, <1>5, <1>6, BecomeFormed

(* The settlement's notices differ in recipient or type.                   *)
LEMMA ResultBatch ==
  ASSUME Formed, NEW B,
         B = {Payload(u, ResultFor(u), 0, 0) : u \in Told}
             \cup {Payload(Seller, "AUCTION_SOLD", 0, 0)}
  PROVE  /\ B \in SUBSET Payloads /\ Single(B)
         /\ \A p \in B : p.type \in SettledTypes /\ p.lot = 0
<1>1. Told \subseteq Users
  BY DEF Formed, Typed, Told
<1>2. \A u \in Told : /\ Payload(u, ResultFor(u), 0, 0) \in Payloads
                      /\ Notice(Payload(u, ResultFor(u), 0, 0)) = Result(u, ResultFor(u))
  <2> TAKE u \in Told
  <2>1. ResultFor(u) \in Types
    BY DEF ResultFor, Types
  <2>2. Payload(u, ResultFor(u), 0, 0) \in Payloads
    BY <1>1, <2>1, PayloadType, BoundsAssumption DEF Formed
  <2>3. QED
    BY <2>2 DEF Payload, Notice, Result
<1>3. /\ Payload(Seller, "AUCTION_SOLD", 0, 0) \in Payloads
      /\ Notice(Payload(Seller, "AUCTION_SOLD", 0, 0)) = Result(Seller, "AUCTION_SOLD")
  <2>1. Payload(Seller, "AUCTION_SOLD", 0, 0) \in Payloads
    BY PayloadType, SellerAssumption, BoundsAssumption DEF Formed, Types
  <2>2. QED
    BY <2>1 DEF Payload, Notice, Result
<1>4. ASSUME NEW p \in B, NEW q \in B, Notice(p) = Notice(q)
      PROVE  p = q
  <2>1. \A u \in Told : Result(u, ResultFor(u)) # Result(Seller, "AUCTION_SOLD")
    BY DEF Result, ResultFor
  <2>2. \A u, v \in Told : Result(u, ResultFor(u)) = Result(v, ResultFor(v)) => u = v
    BY DEF Result
  <2>3. QED
    BY <1>2, <1>3, <1>4, <2>1, <2>2
<1>5. \A p \in B : p.type \in SettledTypes /\ p.lot = 0
  BY DEF Payload, ResultFor, SettledTypes
<1>6. QED
  BY <1>2, <1>3, <1>4, <1>5 DEF Single

LEMMA SettleJobs ==
  ASSUME Formed, NEW j \in Jobs, complete_auction(j)
  PROVE  JobsFormed'
<1>1. PICK B : B = {Payload(u, ResultFor(u), 0, 0) : u \in Told}
                   \cup {Payload(Seller, "AUCTION_SOLD", 0, 0)}
  OBVIOUS
<1>2. /\ B \in SUBSET Payloads /\ Single(B)
      /\ \A p \in B : p.type \in SettledTypes /\ p.lot = 0
  BY <1>1, ResultBatch
<1>3. PICK q : q = [Idle EXCEPT !.op = "settle", !.step = "batch", !.batch = B]
  OBVIOUS
<1>4. q \in JobRows
  BY <1>2, <1>3, IdleShaped DEF Idle, JobRows, Ops, Steps
<1>5. Shaped(q)
  BY <1>2, <1>3 DEF Idle, Shaped
<1>6. Finish(j) \/ Become(j, q)
  BY <1>1, <1>3 DEF complete_auction
<1>7. QED
  BY <1>4, <1>5, <1>6, BecomeFormed, FinishFormed

LEMMA TickJobs ==
  ASSUME Formed, NEW j \in Jobs, WakeToSettle(j)
  PROVE  JobsFormed'
<1>1. PICK q : q = [Idle EXCEPT !.op = "settle", !.step = "due"]
  OBVIOUS
<1>2. q \in JobRows
  BY <1>1, IdleShaped DEF Idle, JobRows, Ops, Steps
<1>3. Shaped(q)
  BY <1>1 DEF Idle, Shaped
<1>4. Become(j, q)
  BY <1>1 DEF WakeToSettle
<1>5. QED
  BY <1>2, <1>3, <1>4, BecomeFormed

LEMMA WakeJobs ==
  ASSUME Formed, NEW j \in Jobs, WakeToWarn(j)
  PROVE  JobsFormed'
<1>1. PICK q : q = [Idle EXCEPT !.op = "warn", !.step = "query"]
  OBVIOUS
<1>2. q \in JobRows
  BY <1>1, IdleShaped DEF Idle, JobRows, Ops, Steps
<1>3. Shaped(q)
  BY <1>1 DEF Idle, Shaped
<1>4. Become(j, q)
  BY <1>1 DEF WakeToWarn
<1>5. QED
  BY <1>2, <1>3, <1>4, BecomeFormed

LEMMA WarnBatch ==
  ASSUME Formed, NEW U \in SUBSET Users, NEW B, B = {Payload(u, "AUCTION_ENDING", 0, 0) : u \in U}
  PROVE  /\ B \in SUBSET Payloads /\ Single(B)
         /\ \A p \in B : p.type = "AUCTION_ENDING" /\ p.lot = 0
<1>1. \A u \in U : /\ Payload(u, "AUCTION_ENDING", 0, 0) \in Payloads
                   /\ Notice(Payload(u, "AUCTION_ENDING", 0, 0)) = Warning(u)
  <2> TAKE u \in U
  <2>1. Payload(u, "AUCTION_ENDING", 0, 0) \in Payloads
    BY PayloadType, BoundsAssumption DEF Formed, Types
  <2>2. QED
    BY <2>1 DEF Payload, Notice, Warning
<1>2. \A u, v \in U : Warning(u) = Warning(v) => u = v
  BY DEF Warning
<1>3. Single(B)
  BY <1>1, <1>2 DEF Single
<1>4. \A p \in B : p.type = "AUCTION_ENDING" /\ p.lot = 0
  BY DEF Payload
<1>5. QED
  BY <1>1, <1>3, <1>4

LEMMA QueryBiddersJobs ==
  ASSUME Formed, NEW j \in Jobs, QueryBidders(j)
  PROVE  JobsFormed'
<1>1. PICK U : U = UsersToWarn \ AlreadyNotified
  OBVIOUS
<1>2. U \in SUBSET Users /\ auction.bidders \in SUBSET Users
  BY <1>1 DEF Formed, Typed, UsersToWarn
<1>3. PICK B : B = {Payload(u, "AUCTION_ENDING", 0, 0) : u \in U}
  OBVIOUS
<1>4. /\ B \in SUBSET Payloads /\ Single(B)
      /\ \A p \in B : p.type = "AUCTION_ENDING" /\ p.lot = 0
  BY <1>2, <1>3, WarnBatch
<1>5. PICK q : q = [job[j] EXCEPT !.step = IF U = {} THEN "flag" ELSE "batch",
                                  !.batch = B, !.audience = auction.bidders]
  OBVIOUS
<1>6. Become(j, q)
  BY <1>1, <1>3, <1>5 DEF QueryBidders
<1>7. job[j] \in JobRows /\ Shaped(job[j]) /\ job[j].op = "warn" /\ job[j].step = "query"
  BY DEF Formed, Typed, QueryBidders
<1>8. q \in JobRows
  BY <1>2, <1>4, <1>5, <1>7 DEF JobRows, Steps
<1>9. /\ q.op = "warn" /\ q.step = IF U = {} THEN "flag" ELSE "batch"
      /\ q.todo = job[j].todo /\ q.batch = B
  BY <1>5, <1>7 DEF JobRows
<1>10. U = {} => B = {}
  BY <1>3
<1>11. Shaped(q)
  BY <1>4, <1>7, <1>9, <1>10 DEF Shaped
<1>12. QED
  BY <1>6, <1>8, <1>11, BecomeFormed

LEMMA PostBatch ==
  ASSUME Formed, NEW l \in 1 .. MaxLots, NEW B,
         B = UNION {{Payload(u, "NEW_LOT", l, s) : s \in subs[u]} : u \in Users}
  PROVE  /\ B \in SUBSET Payloads /\ Single(B)
         /\ \A p \in B : p.type = "NEW_LOT" /\ p.lot = l
<1>1. \A u \in Users : \A s \in subs[u] :
        /\ Payload(u, "NEW_LOT", l, s) \in Payloads
        /\ Notice(Payload(u, "NEW_LOT", l, s)) = NewLot(u, l)
  <2> TAKE u \in Users
  <2> TAKE s \in subs[u]
  <2>1. s \in Nat /\ l \in 0 .. MaxLots
    BY BoundsAssumption DEF Formed, Typed
  <2>2. Payload(u, "NEW_LOT", l, s) \in Payloads
    BY <2>1, PayloadType DEF Formed, Types
  <2>3. QED
    BY <2>2 DEF Payload, Notice, NewLot
<1>2. \A p \in B : \E u \in Users : \E s \in subs[u] : p = Payload(u, "NEW_LOT", l, s)
  OBVIOUS
<1>3. \A u, v \in Users : NewLot(u, l) = NewLot(v, l) => u = v
  BY DEF NewLot
<1>4. ASSUME NEW p \in B, NEW q \in B, Notice(p) = Notice(q)
      PROVE  p = q
  <2>1. PICK u \in Users : \E s \in subs[u] : p = Payload(u, "NEW_LOT", l, s)
    BY <1>2
  <2>2. PICK v \in Users : \E s \in subs[v] : q = Payload(v, "NEW_LOT", l, s)
    BY <1>2
  <2>3. u = v
    BY <1>1, <1>3, <1>4, <2>1, <2>2
  <2>4. \A s, t \in subs[u] : s = t
    BY DEF Formed, OneSubscription
  <2>5. QED
    BY <2>1, <2>2, <2>3, <2>4
<1>5. \A p \in B : p.type = "NEW_LOT" /\ p.lot = l
  BY <1>2 DEF Payload
<1>6. B \in SUBSET Payloads
  BY <1>1, <1>2
<1>7. QED
  BY <1>4, <1>5, <1>6 DEF Single

LEMMA QuerySubscribersJobs ==
  ASSUME Formed, NEW j \in Jobs, QuerySubscribers(j)
  PROVE  JobsFormed'
<1>1. PICK l : l = job[j].sub
  OBVIOUS
<1>2. PICK B : B = UNION {{Payload(u, "NEW_LOT", l, s) : s \in subs[u]} : u \in Users}
  OBVIOUS
<1>3. job[j] \in JobRows /\ Shaped(job[j]) /\ job[j].op = "post" /\ job[j].step = "query"
  BY DEF Formed, Typed, QuerySubscribers
<1>4. l \in 1 .. MaxLots
  BY <1>1, <1>3 DEF Shaped
<1>5. /\ B \in SUBSET Payloads /\ Single(B)
      /\ \A p \in B : p.type = "NEW_LOT" /\ p.lot = l
  BY <1>2, <1>4, PostBatch
<1>6. PICK q : q = [job[j] EXCEPT !.step = "batch", !.batch = B]
  OBVIOUS
<1>7. Finish(j) \/ Become(j, q)
  BY <1>1, <1>2, <1>6 DEF QuerySubscribers
<1>8. q \in JobRows
  BY <1>3, <1>5, <1>6 DEF JobRows, Steps
<1>9. /\ q.op = "post" /\ q.step = "batch" /\ q.sub = l
      /\ q.todo = job[j].todo /\ q.batch = B
  BY <1>1, <1>3, <1>6 DEF JobRows
<1>10. Shaped(q)
  BY <1>3, <1>4, <1>5, <1>9 DEF Shaped
<1>11. QED
  BY <1>7, <1>8, <1>10, BecomeFormed, FinishFormed

LEMMA LookJobs ==
  ASSUME Formed, NEW j \in Jobs, Look(j)
  PROVE  JobsFormed'
<1>1. job[j] \in JobRows /\ Shaped(job[j]) /\ job[j].step = "look"
  BY DEF Formed, Typed, Look
<1>2. PICK s : s = job[j].todo
  OBVIOUS
<1>3. s \in Seq(Payloads) /\ s # <<>> /\ 1 \in DOMAIN s /\ Head(s) = s[1] /\ s[1] \in Payloads
  BY <1>1, <1>2, Todo DEF JobRows, Shaped
<1>4. PICK p : p = Payload(s[1].user, s[1].type, s[1].lot, s[1].via)
  OBVIOUS
<1>5. s[1].user \in Users /\ s[1].type \in Types /\ s[1].lot \in 0 .. MaxLots /\ s[1].via \in Nat
  BY <1>3 DEF Payloads
<1>6. p \in Payloads /\ p.type = s[1].type /\ p.lot = s[1].lot
  <2>1. p \in Payloads
    BY <1>4, <1>5, PayloadType DEF Formed
  <2>2. QED
    BY <1>4, <2>1 DEF Payload
<1>7. PICK t : t = [s EXCEPT ![1] = p]
  OBVIOUS
<1>8. /\ t \in Seq(Payloads) /\ t # <<>> /\ DOMAIN t = DOMAIN s /\ t[1] = p
      /\ \A i \in DOMAIN s : i # 1 => t[i] = s[i]
  BY <1>3, <1>6, <1>7, TodoUpdate
<1>9. /\ \A i \in DOMAIN t : t[i].type \in OneByOne /\ t[i].lot = 0
      /\ job[j].op # "buy"
      /\ job[j].op = "bid" => \A i \in DOMAIN t : t[i].type # "AUCTION_SOLD"
  BY <1>1, <1>2, <1>3, <1>6, <1>8 DEF Shaped
<1>10. PICK q : q = [job[j] EXCEPT !.step = "row", !.todo = t]
  OBVIOUS
<1>11. Become(j, q)
  BY <1>1, <1>2, <1>3, <1>4, <1>7, <1>10 DEF Look, JobRows
<1>12. q \in JobRows
  BY <1>1, <1>8, <1>10 DEF JobRows, Steps
<1>13. q.op = job[j].op /\ q.step = "row" /\ q.todo = t /\ q.batch = job[j].batch
  BY <1>1, <1>10 DEF JobRows
<1>14. Shaped(q)
  BY <1>1, <1>2, <1>3, <1>8, <1>9, <1>13 DEF Shaped
<1>15. QED
  BY <1>11, <1>12, <1>14, BecomeFormed

LEMMA CommitRowJobs ==
  ASSUME Formed, NEW j \in Jobs, CommitRow(j)
  PROVE  JobsFormed'
<1>1. job[j] \in JobRows /\ Shaped(job[j]) /\ job[j].step = "row"
  BY DEF Formed, Typed, CommitRow
<1>2. PICK q : q = [job[j] EXCEPT !.step = "letter"]
  OBVIOUS
<1>3. Become(j, q)
  BY <1>2 DEF CommitRow
<1>4. q \in JobRows
  BY <1>1, <1>2 DEF JobRows, Steps
<1>5. q.op = job[j].op /\ q.step = "letter" /\ q.todo = job[j].todo /\ q.batch = job[j].batch
  BY <1>1, <1>2 DEF JobRows
<1>6. Shaped(q)
  BY <1>1, <1>5 DEF Shaped
<1>7. QED
  BY <1>3, <1>4, <1>6, BecomeFormed

LEMMA CommitLetterJobs ==
  ASSUME Formed, NEW j \in Jobs, CommitLetter(j)
  PROVE  JobsFormed'
<1>1. job[j] \in JobRows /\ Shaped(job[j]) /\ job[j].step = "letter"
  BY DEF Formed, Typed, CommitLetter
<1>2. PICK s : s = job[j].todo
  OBVIOUS
<1>3. s \in Seq(Payloads) /\ s # <<>>
  BY <1>1, <1>2 DEF JobRows, Shaped
<1>4. CASE Len(s) = 1
  BY <1>2, <1>4, FinishFormed DEF CommitLetter
<1>5. CASE Len(s) # 1
  <2>1. PICK t : t = Tail(s)
    OBVIOUS
  <2>2. /\ t \in Seq(Payloads) /\ t # <<>>
        /\ \A i \in DOMAIN t : \E k \in DOMAIN s : t[i] = s[k]
    BY <1>3, <1>5, <2>1, Todo
  <2>3. /\ \A i \in DOMAIN t : t[i].type \in OneByOne /\ t[i].lot = 0
        /\ job[j].op # "buy"
        /\ job[j].op = "bid" => \A i \in DOMAIN t : t[i].type # "AUCTION_SOLD"
    BY <1>1, <1>2, <1>5, <2>2 DEF Shaped
  <2>4. PICK q : q = [job[j] EXCEPT !.step = "look", !.todo = t]
    OBVIOUS
  <2>5. Become(j, q)
    BY <1>2, <1>5, <2>1, <2>4 DEF CommitLetter
  <2>6. q \in JobRows
    BY <1>1, <2>2, <2>4 DEF JobRows, Steps
  <2>7. q.op = job[j].op /\ q.step = "look" /\ q.todo = t /\ q.batch = job[j].batch
    BY <1>1, <2>4 DEF JobRows
  <2>8. Shaped(q)
    BY <1>1, <1>2, <1>3, <2>2, <2>3, <2>7 DEF Shaped
  <2>9. QED
    BY <2>5, <2>6, <2>8, BecomeFormed
<1>6. QED
  BY <1>4, <1>5

LEMMA CommitBatchJobs ==
  ASSUME Formed, NEW j \in Jobs, CommitBatch(j)
  PROVE  JobsFormed'
<1>1. job[j] \in JobRows /\ Shaped(job[j]) /\ job[j].step = "batch"
  BY DEF Formed, Typed, CommitBatch
<1>2. CASE job[j].op = "warn"
  <2>1. PICK none \in SUBSET Payloads : none = {}
    OBVIOUS
  <2>2. PICK q : q = [job[j] EXCEPT !.step = "flag", !.batch = none]
    OBVIOUS
  <2>3. Become(j, q)
    BY <1>2, <2>1, <2>2 DEF CommitBatch
  <2>4. q \in JobRows
    BY <1>1, <2>2 DEF JobRows, Steps
  <2>5. q.op = "warn" /\ q.step = "flag" /\ q.todo = job[j].todo /\ q.batch = {}
    BY <1>1, <1>2, <2>1, <2>2 DEF JobRows
  <2>6. Shaped(q)
    BY <1>1, <2>5 DEF Shaped
  <2>7. QED
    BY <2>3, <2>4, <2>6, BecomeFormed
<1>3. CASE job[j].op # "warn"
  BY <1>3, FinishFormed DEF CommitBatch
<1>4. QED
  BY <1>2, <1>3

LEMMA StartSettingsJobs ==
  ASSUME Formed, NEW j \in Jobs, StartSettings(j)
  PROVE  JobsFormed'
<1>1. PICK u \in Users, ask \in Wishes :
        Become(j, [Idle EXCEPT !.op = "settings", !.step = "save", !.by = u,
                               !.off = muted[u], !.saves = past.saves[u], !.ask = ask])
  BY DEF StartSettings
<1>2. PICK off, saves : off = muted[u] /\ saves = past.saves[u]
  OBVIOUS
<1>3. off \in SUBSET Flags /\ saves \in Nat /\ ask \in SUBSET Flags
  BY <1>2, WishesAssumption DEF Formed, Typed
<1>4. PICK q : q = [Idle EXCEPT !.op = "settings", !.step = "save", !.by = u,
                                !.off = off, !.saves = saves, !.ask = ask]
  OBVIOUS
<1>5. q \in JobRows
  BY <1>3, <1>4, IdleShaped DEF Idle, JobRows, Ops, Steps
<1>6. Shaped(q)
  BY <1>4 DEF Idle, Shaped
<1>7. Become(j, q)
  BY <1>1, <1>2, <1>4
<1>8. QED
  BY <1>5, <1>6, <1>7, BecomeFormed

LEMMA StartSubscribeJobs ==
  ASSUME Formed, NEW j \in Jobs, StartSubscribe(j)
  PROVE  JobsFormed'
<1>1. PICK u \in Users : Become(j, [Idle EXCEPT !.op = "subscribe", !.step = "insert", !.by = u])
  BY DEF StartSubscribe
<1>2. PICK q : q = [Idle EXCEPT !.op = "subscribe", !.step = "insert", !.by = u]
  OBVIOUS
<1>3. q \in JobRows
  BY <1>2, IdleShaped DEF Idle, JobRows, Ops, Steps
<1>4. Shaped(q)
  BY <1>2 DEF Idle, Shaped
<1>5. QED
  BY <1>1, <1>2, <1>3, <1>4, BecomeFormed

LEMMA StartUnsubscribeJobs ==
  ASSUME Formed, NEW j \in Jobs, StartUnsubscribe(j)
  PROVE  JobsFormed'
<1>1. PICK u \in Users : \E s \in subs[u] :
        Become(j, [Idle EXCEPT !.op = "subscribe", !.step = "erase", !.by = u, !.sub = s])
  BY DEF StartUnsubscribe
<1>2. subs[u] \subseteq Nat
  BY BoundsAssumption DEF Formed, Typed
<1>3. PICK s \in Nat :
        Become(j, [Idle EXCEPT !.op = "subscribe", !.step = "erase", !.by = u, !.sub = s])
  BY <1>1, <1>2
<1>4. PICK q : q = [Idle EXCEPT !.op = "subscribe", !.step = "erase", !.by = u, !.sub = s]
  OBVIOUS
<1>5. q \in JobRows
  BY <1>4, IdleShaped DEF Idle, JobRows, Ops, Steps
<1>6. Shaped(q)
  BY <1>4 DEF Idle, Shaped
<1>7. QED
  BY <1>3, <1>4, <1>5, <1>6, BecomeFormed

(* Every step leaves the handlers well formed.                             *)
LEMMA StepJobs ==
  ASSUME Formed, [Next]_vars
  PROVE  JobsFormed'
<1>1. CASE \/ mark_notification_read \/ mark_all_read \/ delete_notification
           \/ vars' = vars
  BY <1>1 DEF Formed, Typed, JobsFormed, mark_notification_read, mark_all_read, delete_notification, vars
<1>2. ASSUME NEW j \in Jobs, place_bid(j) \/ buy_now(j) \/ create_auction(j) \/ complete_auction(j)
      PROVE  JobsFormed'
  BY <1>2, PlaceBidJobs, BuyNowJobs, CreateAuctionJobs, SettleJobs
<1>3. ASSUME NEW j \in Jobs, \/ WakeToSettle(j) \/ WakeToWarn(j) \/ QueryBidders(j)
                             \/ QuerySubscribers(j) \/ Look(j)
      PROVE  JobsFormed'
  BY <1>3, TickJobs, WakeJobs, QueryBiddersJobs, QuerySubscribersJobs, LookJobs
<1>4. ASSUME NEW j \in Jobs, CommitRow(j) \/ CommitLetter(j) \/ CommitBatch(j)
      PROVE  JobsFormed'
  BY <1>4, CommitRowJobs, CommitLetterJobs, CommitBatchJobs
<1>5. ASSUME NEW j \in Jobs, StartSettings(j) \/ StartSubscribe(j) \/ StartUnsubscribe(j)
      PROVE  JobsFormed'
  BY <1>5, StartSettingsJobs, StartSubscribeJobs, StartUnsubscribeJobs
<1>6. ASSUME NEW j \in Jobs, \/ SetFlag(j) \/ update_notification_settings(j)
                             \/ subscribe(j) \/ unsubscribe(j) \/ BreaksOff(j)
      PROVE  JobsFormed'
  BY <1>6, FinishFormed DEF SetFlag, update_notification_settings, subscribe, unsubscribe, BreaksOff
<1>7. CASE Next
  BY <1>1, <1>2, <1>3, <1>4, <1>5, <1>6, <1>7 DEF Next
<1>8. QED
  BY <1>1, <1>7

-----------------------------------------------------------------------------
(* Rows and letters.                                                       *)

One(condition) == IF condition THEN 1 ELSE 0

LEMMA InsertRows ==
  ASSUME Formed, NEW P \in SUBSET Payloads, Single(P), Insert(P)
  PROVE  /\ rows' \in NoticeBags /\ unread' \in NoticeBags /\ UnreadAreThere'
         /\ \A n : Copies(n, rows') = Copies(n, rows) + One(\E p \in P : Notice(p) = n)
<1>1. rows \in NoticeBags /\ unread \in NoticeBags
  BY DEF Formed, Typed
<1>2. PICK b : b = BagOf(P)
  OBVIOUS
<1>3. b \in NoticeBags /\ \A n : Copies(n, b) = One(\E p \in P : Notice(p) = n)
  BY <1>2, BagOfSingle DEF One
<1>4. rows' = rows (+) b /\ unread' = unread (+) b
  BY <1>2 DEF Insert
<1>5. rows' \in NoticeBags /\ \A n : Copies(n, rows') = Copies(n, rows) + Copies(n, b)
  BY <1>1, <1>3, <1>4, PlusBag
<1>6. unread' \in NoticeBags /\ \A n : Copies(n, unread') = Copies(n, unread) + Copies(n, b)
  BY <1>1, <1>3, <1>4, PlusBag
<1>7. ASSUME NEW n \in Notices PROVE Copies(n, unread') <= Copies(n, rows')
  <2>1. Copies(n, unread) <= Copies(n, rows)
    BY DEF Formed, UnreadAreThere
  <2>2. Copies(n, unread) \in Nat /\ Copies(n, rows) \in Nat /\ Copies(n, b) \in Nat
    BY <1>1, <1>3, CopiesNat
  <2>3. QED
    BY <1>5, <1>6, <2>1, <2>2
<1>8. UnreadAreThere'
  BY <1>7 DEF UnreadAreThere
<1>9. \A n : Copies(n, rows') = Copies(n, rows) + One(\E p \in P : Notice(p) = n)
  <2>1. TAKE n
  <2>2. Copies(n, rows') = Copies(n, rows) + Copies(n, b)
    BY <1>5
  <2>3. Copies(n, b) = One(\E p \in P : Notice(p) = n)
    BY <1>3
  <2>4. QED
    BY <2>2, <2>3
<1>10. QED
  BY <1>5, <1>6, <1>8, <1>9

(* The notice a handler is at.                                             *)
LEMMA AtNotice ==
  ASSUME Formed, NEW j \in Jobs, job[j].step \in {"look", "row", "letter"}
  PROVE  /\ Head(job[j].todo) \in Payloads /\ Head(job[j].todo) = job[j].todo[1]
         /\ 1 \in DOMAIN job[j].todo
         /\ job[j].todo[1].type \in OneByOne /\ job[j].todo[1].lot = 0
         /\ Notice(Head(job[j].todo)) \in Notices
<1>1. job[j] \in JobRows /\ Shaped(job[j])
  BY DEF Formed, Typed
<1>2. job[j].todo \in Seq(Payloads) /\ job[j].todo # <<>>
  BY <1>1 DEF JobRows, Shaped
<1>3. Head(job[j].todo) \in Payloads /\ Head(job[j].todo) = job[j].todo[1] /\ 1 \in DOMAIN job[j].todo
  BY <1>2, Todo
<1>4. job[j].todo[1].type \in OneByOne /\ job[j].todo[1].lot = 0
  BY <1>1, <1>3 DEF Shaped
<1>5. Notice(Head(job[j].todo)) \in Notices
  BY <1>3 DEF Payloads, Notice, Notices
<1>6. QED
  BY <1>3, <1>4, <1>5

LEMMA AtBatch ==
  ASSUME Formed, NEW j \in Jobs
  PROVE  /\ job[j].batch \in SUBSET Payloads
         /\ job[j].step = "batch" => Single(job[j].batch)
         /\ \A p \in job[j].batch : Notice(p) \in Notices
<1>1. job[j] \in JobRows /\ Shaped(job[j])
  BY DEF Formed, Typed
<1>2. \A p \in Payloads : Notice(p) \in Notices
  BY DEF Payloads, Notice, Notices
<1>3. QED
  BY <1>1, <1>2 DEF JobRows, Shaped

LEMMA CommitRowRows ==
  ASSUME Formed, NEW j \in Jobs, CommitRow(j)
  PROVE  /\ rows' \in NoticeBags /\ unread' \in NoticeBags /\ UnreadAreThere'
         /\ \A n : Copies(n, rows') = Copies(n, rows) + One(Notice(Head(job[j].todo)) = n)
<1>1. PICK p \in Payloads : p = Head(job[j].todo)
  BY AtNotice DEF CommitRow
<1>2. PICK P : P = {p}
  OBVIOUS
<1>3. P \in SUBSET Payloads /\ Single(P) /\ Insert(P)
  BY <1>1, <1>2, OneIsSingle DEF CommitRow
<1>4. /\ rows' \in NoticeBags /\ unread' \in NoticeBags /\ UnreadAreThere'
      /\ \A n : Copies(n, rows') = Copies(n, rows) + One(\E q \in P : Notice(q) = n)
  BY <1>3, InsertRows
<1>5. \A n : (\E q \in P : Notice(q) = n) <=> (Notice(p) = n)
  BY <1>2
<1>6. QED
  BY <1>1, <1>4, <1>5 DEF One

LEMMA CommitBatchRows ==
  ASSUME Formed, NEW j \in Jobs, CommitBatch(j)
  PROVE  /\ rows' \in NoticeBags /\ unread' \in NoticeBags /\ UnreadAreThere'
         /\ \A n : Copies(n, rows')
                     = Copies(n, rows) + One(\E p \in job[j].batch : Notice(p) = n)
BY AtBatch, InsertRows DEF CommitBatch

LEMMA DeleteRows ==
  ASSUME Formed, delete_notification
  PROVE  /\ rows' \in NoticeBags /\ unread' \in NoticeBags /\ UnreadAreThere'
         /\ past'.gone \in NoticeBags
         /\ \E m : \A n : /\ Copies(n, rows') = Copies(n, rows) - One(n = m)
                          /\ Copies(n, past'.gone) = Copies(n, past.gone) + One(n = m)
<1>1. PICK m \in DOMAIN rows, read \in BOOLEAN :
        /\ HasSuch(m, read)
        /\ rows' = rows (-) SetToBag({m})
        /\ unread' = UnreadLeft(m, read)
        /\ past' = [past EXCEPT !.gone = @ (+) SetToBag({m})]
  BY DEF delete_notification
<1>2. rows \in NoticeBags /\ unread \in NoticeBags /\ past.gone \in NoticeBags
  BY DEF Formed, Typed
<1>3. PICK b : b = SetToBag({m})
  OBVIOUS
<1>4. b \in NoticeBags /\ \A n : Copies(n, b) = One(n = m)
  <2>1. m \in Notices
    BY <1>2, BagMember
  <2>2. b = [n \in {m} |-> 1]
    BY <1>3 DEF SetToBag
  <2>3. b \in NoticeBags
    BY <2>1, <2>2, BagMember DEF IsABag
  <2>4. QED
    BY <2>2, <2>3 DEF Copies, One
<1>5. past'.gone = past.gone (+) b
  BY <1>1, <1>3 DEF Formed, Typed
<1>6. past'.gone \in NoticeBags /\ \A n : Copies(n, past'.gone) = Copies(n, past.gone) + One(n = m)
  BY <1>2, <1>4, <1>5, PlusBag
<1>7. /\ rows' \in NoticeBags
      /\ \A n : Copies(n, rows') = IF n = m THEN Copies(m, rows) - 1 ELSE Copies(n, rows)
  BY <1>1, <1>2, MinusBag
<1>8. \A n : Copies(n, rows) \in Nat /\ Copies(n, unread) \in Nat
  BY <1>2, CopiesNat
<1>9. \A n : Copies(n, rows') = Copies(n, rows) - One(n = m)
  <2>1. TAKE n
  <2>2. Copies(n, rows) \in Nat /\ Copies(n, rows') = IF n = m THEN Copies(m, rows) - 1
                                                              ELSE Copies(n, rows)
    BY <1>7, <1>8
  <2>3. CASE n = m
    BY <2>2, <2>3 DEF One
  <2>4. CASE n # m
    BY <2>2, <2>4 DEF One
  <2>5. QED
    BY <2>3, <2>4
<1>10. unread' \in NoticeBags /\ UnreadAreThere'
  <2>1. \A n \in Notices : Copies(n, unread) <= Copies(n, rows)
    BY DEF Formed, UnreadAreThere
  <2>2. CASE read
    <3>1. unread' = unread /\ Copies(m, unread) < Copies(m, rows)
      BY <1>1, <2>2 DEF HasSuch, UnreadLeft
    <3>2. \A n \in Notices : Copies(n, unread') <= Copies(n, rows')
      BY <1>7, <1>8, <2>1, <3>1
    <3>3. QED
      BY <1>2, <3>1, <3>2 DEF UnreadAreThere
  <2>3. CASE ~ read
    <3>1. unread' = unread (-) SetToBag({m}) /\ m \in DOMAIN unread
      BY <1>1, <2>3 DEF HasSuch, UnreadLeft
    <3>2. /\ unread' \in NoticeBags
          /\ \A n : Copies(n, unread') = IF n = m THEN Copies(m, unread) - 1 ELSE Copies(n, unread)
      BY <1>2, <3>1, MinusBag
    <3>3. \A n \in Notices : Copies(n, unread') <= Copies(n, rows')
      BY <1>7, <1>8, <2>1, <3>2
    <3>4. QED
      BY <3>2, <3>3 DEF UnreadAreThere
  <2>4. QED
    BY <2>2, <2>3
<1>11. \E k : \A n : /\ Copies(n, rows') = Copies(n, rows) - One(n = k)
                     /\ Copies(n, past'.gone) = Copies(n, past.gone) + One(n = k)
  <2>1. WITNESS m
  <2>2. QED
    BY <1>6, <1>9
<1>12. QED
  BY <1>6, <1>7, <1>10, <1>11

LEMMA ReadRows ==
  ASSUME Formed, mark_notification_read \/ mark_all_read
  PROVE  unread' \in NoticeBags /\ UnreadAreThere'
<1>1. rows' = rows /\ rows \in NoticeBags /\ unread \in NoticeBags
  BY DEF Formed, Typed, mark_notification_read, mark_all_read
<1>2. \A n : Copies(n, rows) \in Nat /\ Copies(n, unread) \in Nat
  BY <1>1, CopiesNat
<1>3. \A n \in Notices : Copies(n, unread) <= Copies(n, rows)
  BY DEF Formed, UnreadAreThere
<1>4. unread' \in NoticeBags /\ \A n \in Notices : Copies(n, unread') <= Copies(n, unread)
  <2>1. CASE mark_notification_read
    <3>1. PICK m \in DOMAIN unread : unread' = unread (-) SetToBag({m})
      BY <2>1 DEF mark_notification_read
    <3>2. /\ unread' \in NoticeBags
          /\ \A n : Copies(n, unread') = IF n = m THEN Copies(m, unread) - 1 ELSE Copies(n, unread)
      BY <1>1, <3>1, MinusBag
    <3>3. QED
      BY <1>2, <3>2
  <2>2. CASE mark_all_read
    <3>1. PICK u \in Users : unread' = [n \in {m \in DOMAIN unread : m.user # u} |-> unread[n]]
      BY <2>2 DEF mark_all_read, UnreadBut
    <3>2. IsABag(unread) /\ DOMAIN unread \subseteq Notices
      BY <1>1, BagMember
    <3>3. IsABag(unread') /\ DOMAIN unread' \subseteq DOMAIN unread
      BY <3>1, <3>2 DEF IsABag
    <3>4. unread' \in NoticeBags
      BY <3>2, <3>3, BagMember
    <3>5. \A n \in Notices : Copies(n, unread') \in {0, Copies(n, unread)}
      BY <3>1 DEF Copies
    <3>6. QED
      BY <1>2, <3>4, <3>5
  <2>3. QED
    BY <2>1, <2>2
<1>5. \A n : Copies(n, unread') \in Nat
  BY <1>4, CopiesNat
<1>6. QED
  BY <1>1, <1>2, <1>3, <1>4, <1>5 DEF UnreadAreThere

(* A letter goes with the notice n of payload p.                           *)
Lettered(p, n) == Notice(p) = n /\ EmailEnabled(n.type, p.off)

LEMMA LettersOf ==
  ASSUME NEW a \in NoticeBags, NEW P \in SUBSET Payloads, Single(P), NEW b, b = a (+) Mailed(P)
  PROVE  /\ b \in NoticeBags
         /\ \A n : Copies(n, b) = Copies(n, a) + One(\E p \in P : Lettered(p, n))
<1>1. PICK c : c = Mailed(P)
  OBVIOUS
<1>2. c \in NoticeBags /\ \A n : Copies(n, c) = One(\E p \in P : Lettered(p, n))
  BY <1>1, MailedSingle DEF One, Lettered
<1>3. b \in NoticeBags /\ \A n : Copies(n, b) = Copies(n, a) + Copies(n, c)
  BY <1>1, <1>2, PlusBag
<1>4. QED
  BY <1>2, <1>3

LEMMA LetterOf ==
  ASSUME NEW a \in NoticeBags, NEW p \in Payloads, NEW b, b = a (+) Mailed({p})
  PROVE  /\ b \in NoticeBags
         /\ \A n : Copies(n, b) = Copies(n, a) + One(Lettered(p, n))
<1>1. PICK P : P = {p}
  OBVIOUS
<1>2. P \in SUBSET Payloads /\ Single(P) /\ b = a (+) Mailed(P)
  BY <1>1, OneIsSingle
<1>3. /\ b \in NoticeBags
      /\ \A n : Copies(n, b) = Copies(n, a) + One(\E q \in P : Lettered(q, n))
  BY <1>2, LettersOf
<1>4. \A n : (\E q \in P : Lettered(q, n)) <=> Lettered(p, n)
  BY <1>1
<1>5. QED
  BY <1>3, <1>4 DEF One

LEMMA CommitLetterLetters ==
  ASSUME Formed, NEW j \in Jobs, CommitLetter(j)
  PROVE  /\ letters' \in NoticeBags
         /\ \A n : Copies(n, letters')
                     = Copies(n, letters) + One(Lettered(Head(job[j].todo), n))
<1>1. letters \in NoticeBags /\ Head(job[j].todo) \in Payloads
  BY AtNotice DEF Formed, Typed, CommitLetter
<1>2. letters' = letters (+) Mailed({Head(job[j].todo)})
  BY DEF CommitLetter, LetterCommitted
<1>3. QED
  BY <1>1, <1>2, LetterOf

LEMMA CommitBatchLetters ==
  ASSUME Formed, NEW j \in Jobs, CommitBatch(j)
  PROVE  /\ letters' \in NoticeBags
         /\ \A n : Copies(n, letters')
                     = Copies(n, letters) + One(\E p \in job[j].batch : Lettered(p, n))
<1>1. letters \in NoticeBags /\ job[j].batch \in SUBSET Payloads /\ Single(job[j].batch)
  BY AtBatch DEF Formed, Typed, CommitBatch
<1>2. letters' = letters (+) Mailed(job[j].batch)
  BY DEF CommitBatch
<1>3. PICK P, b : P = job[j].batch /\ b = letters'
  OBVIOUS
<1>a. P \in SUBSET Payloads /\ Single(P)
  BY <1>1, <1>3
<1>b. b = letters (+) Mailed(P)
  BY <1>2, <1>3
<1>4. /\ b \in NoticeBags
      /\ \A n : Copies(n, b) = Copies(n, letters) + One(\E p \in P : Lettered(p, n))
  <2>1. letters \in NoticeBags
    BY DEF Formed, Typed
  <2>2. QED
    BY <2>1, <1>a, <1>b, LettersOf DEF One
<1>5. QED
  BY <1>3, <1>4

LEMMA BreakDropped ==
  ASSUME Formed, NEW j \in Jobs, BreaksOff(j), job[j].step = "letter"
  PROVE  /\ past'.dropped \in NoticeBags
         /\ \A n : Copies(n, past'.dropped)
                     = Copies(n, past.dropped) + One(Lettered(Head(job[j].todo), n))
<1>1. past.dropped \in NoticeBags /\ Head(job[j].todo) \in Payloads
  BY AtNotice DEF Formed, Typed
<1>2. past'.dropped = past.dropped (+) Mailed({Head(job[j].todo)})
  BY DEF BreaksOff, Formed, Typed
<1>3. QED
  BY <1>1, <1>2, LetterOf

-----------------------------------------------------------------------------
(* Formed.                                                                 *)

LEMMA InitFormed == Init => Formed
<1> SUFFICES ASSUME Init PROVE Formed
  OBVIOUS
<1>1. Typed
  <2>1. auction \in [leader : Users \cup {NoUser}, bidders : SUBSET Users,
                     active : BOOLEAN, warned : BOOLEAN]
    BY DEF Init
  <2>2. lots \in 0 .. MaxLots /\ 0 \in 0 .. MaxSubs
    BY BoundsAssumption DEF Init
  <2>3. subs \in [Users -> SUBSET (1 .. MaxSubs)] /\ muted \in [Users -> SUBSET Flags]
    BY DEF Init
  <2>4. rows \in NoticeBags /\ unread \in NoticeBags /\ letters \in NoticeBags
    BY EmptyIsBag DEF Init
  <2>5. job \in [Jobs -> JobRows]
    BY IdleShaped DEF Init
  <2>6. past \in [gone : NoticeBags, dropped : NoticeBags, saves : [Users -> Nat], bids : Nat,
                  warnings : Nat, subs : 0 .. MaxSubs, laps : Nat, warned : SUBSET Users,
            late : Nat]
    BY <2>2, EmptyIsBag DEF Init
  <2>7. QED
    BY <2>1, <2>2, <2>3, <2>4, <2>5, <2>6 DEF Typed
<1>2. \A j \in Jobs : Shaped(job[j])
  BY IdleShaped DEF Init
<1>3. Leads
  BY DEF Init, Leads
<1>4. OneSubscription
  BY DEF Init, OneSubscription
<1>5. UnreadAreThere
  BY EmptyIsBag DEF Init, UnreadAreThere
<1>6. QED
  BY <1>1, <1>2, <1>3, <1>4, <1>5 DEF Formed

(* Who writes what.                                                        *)
LEMMA Frame ==
  ASSUME [Next]_vars
  PROVE  /\ \/ auction' = auction
            \/ \E j \in Jobs : place_bid(j) \/ buy_now(j) \/ complete_auction(j) \/ SetFlag(j)
         /\ \/ lots' = lots
            \/ \E j \in Jobs : create_auction(j)
         /\ \/ subs' = subs
            \/ \E j \in Jobs : subscribe(j) \/ unsubscribe(j)
         /\ \/ muted' = muted
            \/ \E j \in Jobs : update_notification_settings(j)
         /\ \/ rows' = rows \/ delete_notification
            \/ \E j \in Jobs : CommitRow(j) \/ CommitBatch(j)
         /\ \/ unread' = unread \/ mark_notification_read \/ mark_all_read \/ delete_notification
            \/ \E j \in Jobs : CommitRow(j) \/ CommitBatch(j)
         /\ \/ letters' = letters
            \/ \E j \in Jobs : CommitLetter(j) \/ CommitBatch(j)
         /\ \/ past' = past \/ delete_notification
            \/ \E j \in Jobs : \/ place_bid(j) \/ complete_auction(j) \/ WakeToWarn(j) \/ QueryBidders(j) \/ SetFlag(j)
                              \/ update_notification_settings(j) \/ subscribe(j) \/ BreaksOff(j)
<1>1. \A j \in Jobs : place_bid(j) =>
        UNCHANGED <<lots, subs, muted, rows, unread, letters>>
  BY DEF place_bid
<1>2. \A j \in Jobs : buy_now(j) =>
        UNCHANGED <<lots, subs, muted, rows, unread, letters, past>>
  BY DEF buy_now
<1>a. \A j \in Jobs : WakeToSettle(j) =>
        UNCHANGED <<auction, lots, subs, muted, rows, unread, letters, past>>
  BY DEF WakeToSettle
<1>3. \A j \in Jobs : create_auction(j) =>
        UNCHANGED <<auction, subs, muted, rows, unread, letters, past>>
  BY DEF create_auction
<1>4. \A j \in Jobs : complete_auction(j) =>
        UNCHANGED <<lots, subs, muted, rows, unread, letters>>
  BY DEF complete_auction
<1>5. \A j \in Jobs : WakeToWarn(j) =>
        UNCHANGED <<auction, lots, subs, muted, rows, unread, letters>>
  BY DEF WakeToWarn
<1>6. \A j \in Jobs : QueryBidders(j) =>
        UNCHANGED <<auction, lots, subs, muted, rows, unread, letters>>
  BY DEF QueryBidders
<1>7. \A j \in Jobs : QuerySubscribers(j) =>
        UNCHANGED <<auction, lots, subs, muted, rows, unread, letters, past>>
  BY DEF QuerySubscribers
<1>8. \A j \in Jobs : Look(j) =>
        UNCHANGED <<auction, lots, subs, muted, rows, unread, letters, past>>
  BY DEF Look
<1>9. \A j \in Jobs : CommitRow(j) =>
        UNCHANGED <<auction, lots, subs, muted, letters, past>>
  BY DEF CommitRow
<1>10. \A j \in Jobs : CommitLetter(j) =>
        UNCHANGED <<auction, lots, subs, muted, rows, unread, past>>
  BY DEF CommitLetter
<1>11. \A j \in Jobs : CommitBatch(j) =>
        UNCHANGED <<auction, lots, subs, muted, past>>
  BY DEF CommitBatch
<1>12. \A j \in Jobs : SetFlag(j) =>
        UNCHANGED <<lots, subs, muted, rows, unread, letters>>
  BY DEF SetFlag
<1>13. \A j \in Jobs : StartSettings(j) =>
        UNCHANGED <<auction, lots, subs, muted, rows, unread, letters, past>>
  BY DEF StartSettings
<1>14. \A j \in Jobs : update_notification_settings(j) =>
        UNCHANGED <<auction, lots, subs, rows, unread, letters>>
  BY DEF update_notification_settings
<1>15. \A j \in Jobs : StartSubscribe(j) =>
        UNCHANGED <<auction, lots, subs, muted, rows, unread, letters, past>>
  BY DEF StartSubscribe
<1>16. \A j \in Jobs : subscribe(j) =>
        UNCHANGED <<auction, lots, muted, rows, unread, letters>>
  BY DEF subscribe
<1>17. \A j \in Jobs : StartUnsubscribe(j) =>
        UNCHANGED <<auction, lots, subs, muted, rows, unread, letters, past>>
  BY DEF StartUnsubscribe
<1>18. \A j \in Jobs : unsubscribe(j) =>
        UNCHANGED <<auction, lots, muted, rows, unread, letters, past>>
  BY DEF unsubscribe
<1>19. \A j \in Jobs : BreaksOff(j) =>
        UNCHANGED <<auction, lots, subs, muted, rows, unread, letters>>
  BY DEF BreaksOff
<1>20. mark_notification_read => UNCHANGED <<auction, lots, subs, muted, rows, letters, past>>
  BY DEF mark_notification_read
<1>21. mark_all_read => UNCHANGED <<auction, lots, subs, muted, rows, letters, past>>
  BY DEF mark_all_read
<1>22. delete_notification => UNCHANGED <<auction, lots, subs, muted, letters>>
  BY DEF delete_notification
<1>23. UNCHANGED vars => UNCHANGED <<auction, lots, subs, muted, rows, unread, letters, past>>
  BY DEF vars
<1>24. QED
  BY <1>a, <1>1, <1>2, <1>3, <1>4, <1>5, <1>6, <1>7, <1>8, <1>9, <1>10, <1>11, <1>12,
     <1>13, <1>14, <1>15, <1>16, <1>17, <1>18, <1>19, <1>20, <1>21, <1>22, <1>23 DEF Next

AuctionFormed ==
  /\ auction \in [leader : Users \cup {NoUser}, bidders : SUBSET Users,
                  active : BOOLEAN, warned : BOOLEAN]
  /\ Leads

(* The auction itself: a bid, its end, or the flag.                        *)
LEMMA StepAuction ==
  ASSUME Formed, [Next]_vars
  PROVE  AuctionFormed' /\ lots' \in 0 .. MaxLots /\ lots' >= lots
<1>1. auction \in [leader : Users \cup {NoUser}, bidders : SUBSET Users,
                   active : BOOLEAN, warned : BOOLEAN]
  BY DEF Formed, Typed
<1>2. \/ auction' = auction
      \/ \E u \in Users \ {Seller}, extended \in BOOLEAN :
           auction' = [auction EXCEPT !.leader = u, !.bidders = @ \cup {u},
                                      !.warned = @ /\ ~ extended]
      \/ auction' = [auction EXCEPT !.active = FALSE]
      \/ auction' = [auction EXCEPT !.warned = TRUE]
  BY Frame DEF place_bid, buy_now, complete_auction, SetFlag
<1>3. \/ lots' = lots
      \/ lots' = lots + 1 /\ lots < MaxLots
  BY Frame DEF create_auction
<1>4. Leads'
  <2>1. CASE auction' = auction
    BY <2>1 DEF Formed, Leads
  <2>2. ASSUME NEW u \in Users \ {Seller}, NEW extended \in BOOLEAN,
               auction' = [auction EXCEPT !.leader = u, !.bidders = @ \cup {u},
                                          !.warned = @ /\ ~ extended]
        PROVE  Leads'
    <3>1. auction'.leader = u /\ auction'.bidders = auction.bidders \cup {u}
      BY <1>1, <2>2
    <3>2. QED
      BY <3>1 DEF Formed, Leads
  <2>3. CASE auction' = [auction EXCEPT !.active = FALSE] \/ auction' = [auction EXCEPT !.warned = TRUE]
    <3>1. auction'.leader = auction.leader /\ auction'.bidders = auction.bidders
      BY <1>1, <2>3
    <3>2. QED
      BY <3>1 DEF Formed, Leads
  <2>4. QED
    BY <1>2, <2>1, <2>2, <2>3
<1>5. auction' \in [leader : Users \cup {NoUser}, bidders : SUBSET Users,
                    active : BOOLEAN, warned : BOOLEAN]
  <2>1. ASSUME NEW u \in Users \ {Seller}, NEW extended \in BOOLEAN,
               auction' = [auction EXCEPT !.leader = u, !.bidders = @ \cup {u},
                                          !.warned = @ /\ ~ extended]
        PROVE  auction' \in [leader : Users \cup {NoUser}, bidders : SUBSET Users,
                             active : BOOLEAN, warned : BOOLEAN]
    <3>1. (auction.warned /\ ~ extended) \in BOOLEAN
      OBVIOUS
    <3>2. PICK w \in BOOLEAN : w = (auction.warned /\ ~ extended)
      BY <3>1
    <3>3. PICK B \in SUBSET Users : B = auction.bidders \cup {u}
      BY <1>1
    <3>4. auction' = [auction EXCEPT !.leader = u, !.bidders = B, !.warned = w]
      BY <2>1, <3>2, <3>3
    <3>5. QED
      BY <1>1, <3>4
  <2>2. QED
    BY <1>1, <1>2, <2>1
<1>6. lots' \in 0 .. MaxLots /\ lots' >= lots
  BY <1>3, BoundsAssumption DEF Formed, Typed
<1>7. QED
  BY <1>4, <1>5, <1>6 DEF AuctionFormed

PastTyped ==
  past \in [gone : NoticeBags, dropped : NoticeBags, saves : [Users -> Nat], bids : Nat,
            warnings : Nat, subs : 0 .. MaxSubs, laps : Nat, warned : SUBSET Users,
            late : Nat]

LEMMA StepPast ==
  ASSUME Formed, [Next]_vars
  PROVE  PastTyped'
<1>1. past \in [gone : NoticeBags, dropped : NoticeBags, saves : [Users -> Nat], bids : Nat,
                warnings : Nat, subs : 0 .. MaxSubs, laps : Nat, warned : SUBSET Users,
            late : Nat]
  BY DEF Formed, Typed
<1>2. CASE past' = past
  BY <1>1, <1>2 DEF PastTyped
<1>3. CASE delete_notification
  <2>1. PICK g : past' = [past EXCEPT !.gone = g]
    BY <1>3 DEF delete_notification
  <2>2. past'.gone = g
    BY <1>1, <2>1
  <2>3. g \in NoticeBags
    BY <1>3, <2>2, DeleteRows
  <2>4. QED
    BY <1>1, <2>1, <2>3 DEF PastTyped
<1>4. ASSUME NEW j \in Jobs, place_bid(j)
      PROVE  PastTyped'
  BY <1>1, <1>4 DEF place_bid, PastTyped
<1>a. ASSUME NEW j \in Jobs, complete_auction(j)
      PROVE  PastTyped'
  <2>1. PICK n \in Nat : past' = [past EXCEPT !.late = n]
    <3>1. past.late \in Nat /\ past.late + 1 \in Nat
      BY <1>1
    <3>2. past' = [past EXCEPT !.late = past.late] \/ past' = [past EXCEPT !.late = past.late + 1]
      BY <1>a DEF complete_auction
    <3>3. QED
      BY <3>1, <3>2
  <2>2. QED
    BY <1>1, <2>1 DEF PastTyped
<1>5. ASSUME NEW j \in Jobs, WakeToWarn(j)
      PROVE  PastTyped'
  BY <1>1, <1>5 DEF WakeToWarn, PastTyped
<1>6. ASSUME NEW j \in Jobs, QueryBidders(j)
      PROVE  PastTyped'
  <2>0. PICK rivals : past' = [past EXCEPT !.laps = IF rivals = {} THEN @ ELSE @ + 1]
    BY <1>6 DEF QueryBidders
  <2>a. past.laps \in Nat
    BY <1>1
  <2>1. PICK n \in Nat : past' = [past EXCEPT !.laps = n]
    <3>1. past.laps + 1 \in Nat
      BY <2>a
    <3>2. past' = [past EXCEPT !.laps = past.laps] \/ past' = [past EXCEPT !.laps = past.laps + 1]
      BY <2>0
    <3>3. QED
      BY <2>a, <3>1, <3>2
  <2>2. QED
    BY <1>1, <2>1 DEF PastTyped
<1>7. ASSUME NEW j \in Jobs, SetFlag(j)
      PROVE  PastTyped'
  <2>1. job[j].audience \in SUBSET Users
    BY DEF Formed, Typed, JobRows
  <2>2. QED
    BY <1>1, <1>7, <2>1 DEF SetFlag, PastTyped
<1>8. ASSUME NEW j \in Jobs, update_notification_settings(j)
      PROVE  PastTyped'
  <2>1. PICK s \in [Users -> Nat] : past' = [past EXCEPT !.saves = s]
    <3>1. past.saves \in [Users -> Nat] /\ job[j].by \in Users
      BY <1>1, <1>8 DEF Formed, Shaped, update_notification_settings
    <3>2. past' = [past EXCEPT !.saves = [past.saves EXCEPT ![job[j].by] = @ + 1]]
      BY <1>1, <1>8 DEF update_notification_settings
    <3>3. [past.saves EXCEPT ![job[j].by] = @ + 1] \in [Users -> Nat]
      BY <3>1
    <3>4. QED
      BY <3>2, <3>3
  <2>2. QED
    BY <1>1, <2>1 DEF PastTyped
<1>9. ASSUME NEW j \in Jobs, subscribe(j)
      PROVE  PastTyped'
  <2>1. \/ past' = past
        \/ past' = [past EXCEPT !.subs = @ + 1] /\ past.subs < MaxSubs
    BY <1>9 DEF subscribe
  <2>2. past.subs < MaxSubs => past.subs + 1 \in 0 .. MaxSubs
    BY <1>1, BoundsAssumption
  <2>3. QED
    BY <1>1, <2>1, <2>2 DEF PastTyped
<1>10. ASSUME NEW j \in Jobs, BreaksOff(j)
       PROVE  PastTyped'
  <2>1. CASE job[j].step = "letter"
    <3>1. PICK d : past' = [past EXCEPT !.dropped = d]
      BY <1>10, <2>1 DEF BreaksOff
    <3>2. past'.dropped = d
      BY <1>1, <3>1
    <3>3. d \in NoticeBags
      BY <1>10, <2>1, <3>2, BreakDropped
    <3>4. QED
      BY <1>1, <3>1, <3>3 DEF PastTyped
  <2>2. CASE job[j].step # "letter"
    BY <1>1, <1>10, <2>2 DEF BreaksOff, PastTyped
  <2>3. QED
    BY <2>1, <2>2
<1>11. QED
  BY <1>a, <1>2, <1>3, <1>4, <1>5, <1>6, <1>7, <1>8, <1>9, <1>10, Frame

LEMMA StepSubs ==
  ASSUME Formed, [Next]_vars
  PROVE  subs' \in [Users -> SUBSET (1 .. MaxSubs)] /\ OneSubscription'
<1>1. subs \in [Users -> SUBSET (1 .. MaxSubs)] /\ OneSubscription
  BY DEF Formed, Typed
<1>2. CASE subs' = subs
  BY <1>1, <1>2 DEF OneSubscription
<1>3. ASSUME NEW j \in Jobs, subscribe(j)
      PROVE  subs' \in [Users -> SUBSET (1 .. MaxSubs)] /\ OneSubscription'
  <2>1. past.subs + 1 \in 1 .. MaxSubs
    BY <1>3, BoundsAssumption DEF Formed, Typed, subscribe
  <2>2. PICK s \in 1 .. MaxSubs : s = past.subs + 1
    BY <2>1
  <2>3. \/ subs' = subs
        \/ subs[job[j].by] = {} /\ subs' = [subs EXCEPT ![job[j].by] = @ \cup {s}]
    BY <1>3, <2>2 DEF subscribe, PairIsNew
  <2>4. QED
    BY <1>1, <2>3 DEF OneSubscription
<1>4. ASSUME NEW j \in Jobs, unsubscribe(j)
      PROVE  subs' \in [Users -> SUBSET (1 .. MaxSubs)] /\ OneSubscription'
  BY <1>1, <1>4 DEF unsubscribe, OneSubscription
<1>5. QED
  BY <1>2, <1>3, <1>4, Frame

LEMMA StepMuted ==
  ASSUME Formed, [Next]_vars
  PROVE  muted' \in [Users -> SUBSET Flags]
<1>1. muted \in [Users -> SUBSET Flags]
  BY DEF Formed, Typed
<1>2. ASSUME NEW j \in Jobs, update_notification_settings(j)
      PROVE  muted' \in [Users -> SUBSET Flags]
  <2>1. job[j].off \in SUBSET Flags /\ job[j].ask \in SUBSET Flags
    BY DEF Formed, Typed, JobRows
  <2>2. QED
    BY <1>1, <1>2, <2>1 DEF update_notification_settings, Written
<1>3. QED
  BY <1>1, <1>2, Frame

LEMMA StepRows ==
  ASSUME Formed, [Next]_vars
  PROVE  /\ rows' \in NoticeBags /\ unread' \in NoticeBags /\ letters' \in NoticeBags
         /\ UnreadAreThere'
<1>1. rows \in NoticeBags /\ unread \in NoticeBags /\ letters \in NoticeBags /\ UnreadAreThere
  BY DEF Formed, Typed
<1>2. ASSUME unread' = unread /\ rows' = rows
      PROVE  rows' \in NoticeBags /\ unread' \in NoticeBags /\ UnreadAreThere'
  BY <1>1, <1>2 DEF UnreadAreThere
<1>3. letters' \in NoticeBags
  BY <1>1, CommitLetterLetters, CommitBatchLetters, Frame
<1>4. ASSUME NEW j \in Jobs, CommitRow(j) \/ CommitBatch(j)
      PROVE  rows' \in NoticeBags /\ unread' \in NoticeBags /\ UnreadAreThere'
  BY <1>4, CommitRowRows, CommitBatchRows
<1>5. ASSUME mark_notification_read \/ mark_all_read \/ delete_notification
      PROVE  rows' \in NoticeBags /\ unread' \in NoticeBags /\ UnreadAreThere'
  <2>1. rows' = rows \/ delete_notification
    BY <1>5 DEF mark_notification_read, mark_all_read
  <2>2. QED
    BY <1>1, <1>5, <2>1, DeleteRows, ReadRows
<1>6. rows' \in NoticeBags /\ unread' \in NoticeBags /\ UnreadAreThere'
  <2>1. \/ unread' = unread /\ rows' = rows
        \/ \E j \in Jobs : CommitRow(j) \/ CommitBatch(j)
        \/ mark_notification_read \/ mark_all_read \/ delete_notification
    BY Frame
  <2>2. QED
    BY <1>2, <1>4, <1>5, <2>1
<1>7. QED
  BY <1>3, <1>6

LEMMA StepFormed ==
  ASSUME Formed, [Next]_vars
  PROVE  Formed'
<1>1. Typed'
  BY StepJobs, StepAuction, StepPast, StepSubs, StepMuted, StepRows
     DEF Typed, JobsFormed, AuctionFormed, PastTyped
<1>2. QED
  BY <1>1, StepJobs, StepAuction, StepSubs, StepRows DEF Formed, JobsFormed, AuctionFormed

LEMMA AlwaysFormed == Spec => []Formed
BY InitFormed, StepFormed, PTL DEF Spec

(* For every number of users and handlers: rows, letters and what handlers *)
(* hold are well formed, and the badge counts no row that is gone.         *)
THEOREM NotificationsTypeCorrect == Spec => []TypeOK
<1>1. Formed => TypeOK
  <2> SUFFICES ASSUME Formed PROVE TypeOK
    OBVIOUS
  <2>1. auction.leader \in auction.bidders \cup {NoUser} /\ auction.bidders \subseteq Users
    BY DEF Formed, Typed, Leads
  <2>2. \A b \in {rows, unread, letters, past.gone, past.dropped} :
          IsABag(b) /\ DOMAIN b \subseteq Notices
    BY BagMember DEF Formed, Typed
  <2>3. \A n \in DOMAIN unread : unread[n] <= Copies(n, rows)
    <3>1. \A n \in DOMAIN unread : n \in Notices /\ Copies(n, unread) = unread[n]
      BY <2>2 DEF Copies
    <3>2. QED
      BY <3>1 DEF Formed, UnreadAreThere
  <2>4. muted \in [Users -> SUBSET Flags] /\ subs \in [Users -> SUBSET (1 .. MaxSubs)]
    BY DEF Formed, Typed
  <2>5. \A j \in Jobs : /\ job[j].step \in Steps
                        /\ job[j].step \in {"look", "row", "letter"} <=> job[j].todo # <<>>
    BY DEF Formed, Typed, JobRows, Shaped
  <2>6. QED
    BY <2>1, <2>2, <2>3, <2>4, <2>5 DEF TypeOK
<1>2. QED
  BY <1>1, AlwaysFormed, PTL

-----------------------------------------------------------------------------
(* What each action makes of its handler.                                  *)

Acts(j) ==
  \/ place_bid(j) \/ buy_now(j) \/ create_auction(j) \/ WakeToSettle(j) \/ complete_auction(j)
  \/ WakeToWarn(j) \/ QueryBidders(j) \/ QuerySubscribers(j)
  \/ Look(j) \/ CommitRow(j) \/ CommitLetter(j) \/ CommitBatch(j) \/ SetFlag(j)
  \/ StartSettings(j) \/ update_notification_settings(j)
  \/ StartSubscribe(j) \/ subscribe(j) \/ StartUnsubscribe(j) \/ unsubscribe(j)
  \/ BreaksOff(j)

LEMMA ActsBecomes ==
  ASSUME Formed, NEW j \in Jobs, Acts(j)
  PROVE  \E q : Become(j, q)
BY DEF Acts, Finish, place_bid, buy_now, create_auction, WakeToSettle, complete_auction, WakeToWarn,
       QueryBidders, QuerySubscribers, Look, CommitRow, CommitLetter, CommitBatch, SetFlag,
       StartSettings, update_notification_settings, StartSubscribe, subscribe, StartUnsubscribe,
       unsubscribe, BreaksOff

(* One handler acts at a time.                                             *)
LEMMA OneActs ==
  ASSUME Formed, [Next]_vars
  PROVE  \/ job' = job
         \/ \E j \in Jobs : Acts(j) /\ \A k \in Jobs : k # j => job'[k] = job[k]
<1>1. ASSUME NEW j \in Jobs, Acts(j)
      PROVE  \A k \in Jobs : k # j => job'[k] = job[k]
  <2>1. PICK q : Become(j, q)
    BY <1>1, ActsBecomes
  <2>2. QED
    BY <2>1 DEF Become, Formed, Typed
<1>2. \/ job' = job
      \/ \E j \in Jobs : Acts(j)
  BY DEF Next, Acts, vars, mark_notification_read, mark_all_read, delete_notification
<1>3. QED
  BY <1>1, <1>2

(* The settings in p are those of this moment.                             *)
Fresh(p) == p \in Payloads /\ p.off = muted[p.user] /\ p.saves = past.saves[p.user]

LEMMA PayloadFresh ==
  ASSUME Formed, NEW u \in Users, NEW type \in Types, NEW lot \in 0 .. MaxLots, NEW via \in Nat
  PROVE  Fresh(Payload(u, type, lot, via))
<1>1. Payload(u, type, lot, via) \in Payloads
  BY PayloadType DEF Formed
<1>2. QED
  BY <1>1 DEF Payload, Fresh

LEMMA AfterBid ==
  ASSUME Formed, NEW j \in Jobs, place_bid(j)
  PROVE  /\ job'[j].op = "bid" /\ job'[j].step = "look"
         /\ job'[j].batch = {}
         /\ \A p \in DueOf(job'[j]) : Fresh(p)
<1>1. PICK u \in Users :
        Become(j, [Idle EXCEPT !.op = "bid", !.step = "look", !.todo = BidNotices(u)])
  BY DEF place_bid, BidNotices
<1>2. PICK todo : todo = BidNotices(u)
  OBVIOUS
<1>3. \A i \in DOMAIN todo : \E v \in Users, type \in {"BID_OUTBID", "BID_PLACED"} :
        todo[i] = Payload(v, type, 0, 0)
  BY <1>2, BidTodo
<1>4. {"BID_OUTBID", "BID_PLACED"} \subseteq Types /\ 0 \in 0 .. MaxLots
  BY BoundsAssumption DEF Types
<1>5. \A i \in DOMAIN todo : Fresh(todo[i])
  BY <1>3, <1>4, PayloadFresh
<1>6. job'[j] = [Idle EXCEPT !.op = "bid", !.step = "look", !.todo = todo]
  BY <1>1, <1>2 DEF Become, Formed, Typed
<1>7. job'[j].op = "bid" /\ job'[j].step = "look" /\ job'[j].batch = {} /\ job'[j].todo = todo
  BY <1>6 DEF Idle
<1>8. QED
  BY <1>5, <1>7 DEF DueOf

LEMMA AfterBuy ==
  ASSUME Formed, NEW j \in Jobs, buy_now(j)
  PROVE  /\ job'[j].op = "buy" /\ job'[j].step = "row"
         /\ job'[j].batch = {}
         /\ \A p \in DueOf(job'[j]) : Fresh(p)
<1>1. PICK p : p = Payload(Seller, "AUCTION_SOLD", 0, 0)
  OBVIOUS
<1>2. Fresh(p)
  BY <1>1, PayloadFresh, SellerAssumption, BoundsAssumption DEF Types
<1>3. job'[j] = [Idle EXCEPT !.op = "buy", !.step = "row", !.todo = <<p>>]
  BY <1>1 DEF Become, Formed, Typed, buy_now
<1>4. job'[j].op = "buy" /\ job'[j].step = "row" /\ job'[j].batch = {} /\ job'[j].todo = <<p>>
  BY <1>3 DEF Idle
<1>5. QED
  BY <1>2, <1>4 DEF DueOf

LEMMA AfterCreate ==
  ASSUME Formed, NEW j \in Jobs, create_auction(j)
  PROVE  /\ job'[j].op = "post" /\ job'[j].step = "query"
         /\ job'[j].batch = {} /\ job'[j].todo = <<>> /\ job'[j].sub = lots + 1
<1>1. job'[j] = [Idle EXCEPT !.op = "post", !.step = "query", !.sub = lots + 1]
  BY DEF Become, Formed, Typed, create_auction
<1>2. QED
  BY <1>1 DEF Idle

LEMMA AfterSettle ==
  ASSUME Formed, NEW j \in Jobs, complete_auction(j)
  PROVE  /\ job[j].op = "settle" /\ job[j].step = "due"
         /\ \/ job'[j] = Idle
            \/ /\ job'[j].op = "settle" /\ job'[j].step = "batch" /\ job'[j].todo = <<>>
               /\ job'[j].batch = {Payload(u, ResultFor(u), 0, 0) : u \in Told}
                                  \cup {Payload(Seller, "AUCTION_SOLD", 0, 0)}
               /\ \A p \in job'[j].batch : Fresh(p)
<1>1. PICK B : B = {Payload(u, ResultFor(u), 0, 0) : u \in Told}
                   \cup {Payload(Seller, "AUCTION_SOLD", 0, 0)}
  OBVIOUS
<1>2. Told \subseteq Users /\ \A u \in Told : ResultFor(u) \in Types
  BY DEF Formed, Typed, Told, ResultFor, Types
<1>3. \A u \in Told : Fresh(Payload(u, ResultFor(u), 0, 0))
  BY <1>2, PayloadFresh, BoundsAssumption
<1>4. Fresh(Payload(Seller, "AUCTION_SOLD", 0, 0))
  BY PayloadFresh, SellerAssumption, BoundsAssumption DEF Types
<1>5. \A p \in B : Fresh(p)
  BY <1>1, <1>3, <1>4
<1>6. job'[j] = Idle \/ job'[j] = [Idle EXCEPT !.op = "settle", !.step = "batch", !.batch = B]
  BY <1>1 DEF Become, Finish, Formed, Typed, complete_auction
<1>7. \/ job'[j] = Idle
      \/ job'[j].op = "settle" /\ job'[j].step = "batch" /\ job'[j].todo = <<>> /\ job'[j].batch = B
  BY <1>6 DEF Idle
<1>8. job[j].op = "settle" /\ job[j].step = "due"
  BY DEF complete_auction, Formed, Shaped
<1>9. QED
  BY <1>1, <1>5, <1>7, <1>8

LEMMA AfterTick ==
  ASSUME Formed, NEW j \in Jobs, WakeToSettle(j)
  PROVE  /\ job'[j].op = "settle" /\ job'[j].step = "due"
         /\ job'[j].batch = {} /\ job'[j].todo = <<>>
<1>1. job'[j] = [Idle EXCEPT !.op = "settle", !.step = "due"]
  BY DEF Become, Formed, Typed, WakeToSettle
<1>2. QED
  BY <1>1 DEF Idle

LEMMA AfterWake ==
  ASSUME Formed, NEW j \in Jobs, WakeToWarn(j)
  PROVE  /\ job'[j].op = "warn" /\ job'[j].step = "query"
         /\ job'[j].batch = {} /\ job'[j].todo = <<>>
<1>1. job'[j] = [Idle EXCEPT !.op = "warn", !.step = "query"]
  BY DEF Become, Formed, Typed, WakeToWarn
<1>2. QED
  BY <1>1 DEF Idle

LEMMA AfterQueryBidders ==
  ASSUME Formed, NEW j \in Jobs, QueryBidders(j)
  PROVE  /\ job[j].op = "warn" /\ job[j].step = "query" /\ job[j].batch = {}
         /\ job'[j].op = "warn" /\ job'[j].step \in {"batch", "flag"} /\ job'[j].todo = <<>>
         /\ job'[j].audience = auction.bidders
         /\ job'[j].batch
              = {Payload(u, "AUCTION_ENDING", 0, 0) : u \in UsersToWarn \ AlreadyNotified}
         /\ \A p \in job'[j].batch : Fresh(p)
<1>1. PICK B : B = {Payload(u, "AUCTION_ENDING", 0, 0) : u \in UsersToWarn \ AlreadyNotified}
  OBVIOUS
<1>2. UsersToWarn \subseteq Users
  BY DEF Formed, Typed, UsersToWarn
<1>3. \A p \in B : Fresh(p)
  BY <1>1, <1>2, PayloadFresh, BoundsAssumption DEF Types
<1>4. job[j] \in JobRows /\ Shaped(job[j]) /\ job[j].op = "warn" /\ job[j].step = "query"
  BY DEF Formed, Typed, QueryBidders
<1>5. PICK step \in {"batch", "flag"} :
        job'[j] = [job[j] EXCEPT !.step = step, !.batch = B, !.audience = auction.bidders]
  BY <1>1 DEF Become, Formed, Typed, QueryBidders
<1>6. /\ job'[j].op = "warn" /\ job'[j].step = step /\ job'[j].todo = job[j].todo
      /\ job'[j].audience = auction.bidders /\ job'[j].batch = B
  BY <1>4, <1>5 DEF JobRows
<1>7. job[j].todo = <<>> /\ job[j].batch = {}
  BY <1>4 DEF Shaped
<1>8. QED
  BY <1>1, <1>3, <1>4, <1>6, <1>7

LEMMA AfterQuerySubscribers ==
  ASSUME Formed, NEW j \in Jobs, QuerySubscribers(j)
  PROVE  /\ job[j].op = "post" /\ job[j].step = "query" /\ job[j].batch = {}
         /\ \/ job'[j] = Idle
            \/ /\ job'[j].op = "post" /\ job'[j].step = "batch" /\ job'[j].todo = <<>>
               /\ job'[j].sub = job[j].sub
               /\ \A p \in job'[j].batch : Fresh(p)
<1>1. PICK B : B = UNION {{Payload(u, "NEW_LOT", job[j].sub, s) : s \in subs[u]} : u \in Users}
  OBVIOUS
<1>2. job[j] \in JobRows /\ Shaped(job[j]) /\ job[j].op = "post" /\ job[j].step = "query"
  BY DEF Formed, Typed, QuerySubscribers
<1>3. job[j].sub \in 0 .. MaxLots /\ \A u \in Users : subs[u] \subseteq Nat
  BY <1>2, BoundsAssumption DEF Shaped, Formed, Typed
<1>4. \A u \in Users : \A s \in subs[u] : Fresh(Payload(u, "NEW_LOT", job[j].sub, s))
  BY <1>3, PayloadFresh DEF Types
<1>5. \A p \in B : \E u \in Users : \E s \in subs[u] : p = Payload(u, "NEW_LOT", job[j].sub, s)
  BY <1>1
<1>6. \A p \in B : Fresh(p)
  BY <1>4, <1>5
<1>7. job'[j] = Idle \/ job'[j] = [job[j] EXCEPT !.step = "batch", !.batch = B]
  BY <1>1 DEF Become, Finish, Formed, Typed, QuerySubscribers
<1>8. job[j].todo = <<>> /\ job[j].batch = {}
  BY <1>2 DEF Shaped
<1>9. CASE job'[j] = [job[j] EXCEPT !.step = "batch", !.batch = B]
  <2>1. /\ job'[j].op = "post" /\ job'[j].step = "batch" /\ job'[j].todo = job[j].todo
        /\ job'[j].sub = job[j].sub /\ job'[j].batch = B
    BY <1>2, <1>9 DEF JobRows
  <2>2. QED
    BY <1>2, <1>6, <1>8, <2>1
<1>10. QED
  BY <1>2, <1>7, <1>8, <1>9

LEMMA AfterLook ==
  ASSUME Formed, NEW j \in Jobs, Look(j)
  PROVE  /\ job[j].op \in {"bid", "buy"} /\ job'[j].op = job[j].op
         /\ job'[j].step = "row" /\ job'[j].batch = {} /\ job[j].batch = {}
         /\ \A p \in DueOf(job'[j]) : Fresh(p) \/ p \in Due(j)
<1>1. job[j] \in JobRows /\ Shaped(job[j]) /\ job[j].step = "look"
  BY DEF Formed, Typed, Look
<1>2. PICK s : s = job[j].todo
  OBVIOUS
<1>3. s \in Seq(Payloads) /\ s # <<>> /\ 1 \in DOMAIN s /\ Head(s) = s[1] /\ s[1] \in Payloads
  BY <1>1, <1>2, Todo DEF JobRows, Shaped
<1>4. PICK p : p = Payload(s[1].user, s[1].type, s[1].lot, s[1].via)
  OBVIOUS
<1>5. s[1].user \in Users /\ s[1].type \in Types /\ s[1].lot \in 0 .. MaxLots /\ s[1].via \in Nat
  BY <1>3 DEF Payloads
<1>6. Fresh(p)
  BY <1>4, <1>5, PayloadFresh
<1>7. PICK t : t = [s EXCEPT ![1] = p]
  OBVIOUS
<1>8. DOMAIN t = DOMAIN s /\ t[1] = p /\ \A i \in DOMAIN s : i # 1 => t[i] = s[i]
  BY <1>3, <1>7
<1>9. job'[j] = [job[j] EXCEPT !.step = "row", !.todo = t]
  BY <1>1, <1>2, <1>3, <1>4, <1>7 DEF Look, JobRows, Become, Formed, Typed
<1>10. /\ job'[j].op = job[j].op /\ job'[j].step = "row" /\ job'[j].todo = t
       /\ job'[j].batch = job[j].batch
  BY <1>1, <1>9 DEF JobRows
<1>11. \A i \in DOMAIN t : Fresh(t[i]) \/ t[i] \in {s[k] : k \in DOMAIN s}
  BY <1>6, <1>8
<1>12. job[j].op \in {"bid", "buy"} /\ job[j].batch = {}
  BY <1>1, <1>2, <1>3 DEF Shaped
<1>13. QED
  BY <1>2, <1>10, <1>11, <1>12 DEF Due, DueOf

LEMMA AfterCommitRow ==
  ASSUME Formed, NEW j \in Jobs, CommitRow(j)
  PROVE  /\ job[j].op \in {"bid", "buy"} /\ job'[j].op = job[j].op
         /\ job[j].step = "row" /\ job'[j].step = "letter"
         /\ job'[j].batch = {} /\ job[j].batch = {}
         /\ job'[j].todo = job[j].todo
<1>1. job[j] \in JobRows /\ Shaped(job[j]) /\ job[j].step = "row"
  BY DEF Formed, Typed, CommitRow
<1>2. job'[j] = [job[j] EXCEPT !.step = "letter"]
  BY DEF CommitRow, Become, Formed, Typed
<1>3. /\ job'[j].op = job[j].op /\ job'[j].step = "letter" /\ job'[j].todo = job[j].todo
      /\ job'[j].batch = job[j].batch
  BY <1>1, <1>2 DEF JobRows
<1>4. QED
  BY <1>1, <1>3 DEF Shaped

LEMMA AfterCommitLetter ==
  ASSUME Formed, NEW j \in Jobs, CommitLetter(j)
  PROVE  /\ job[j].op \in {"bid", "buy"} /\ job[j].step = "letter" /\ job[j].batch = {}
         /\ \/ job'[j] = Idle
            \/ /\ job'[j].op = job[j].op /\ job'[j].step = "look" /\ job'[j].batch = {}
               /\ \A p \in DueOf(job'[j]) : p \in Due(j)
<1>1. job[j] \in JobRows /\ Shaped(job[j]) /\ job[j].step = "letter"
  BY DEF Formed, Typed, CommitLetter
<1>2. PICK s : s = job[j].todo
  OBVIOUS
<1>3. s \in Seq(Payloads) /\ s # <<>>
  BY <1>1, <1>2 DEF JobRows, Shaped
<1>4. PICK t : t = Tail(s)
  OBVIOUS
<1>5. \A i \in DOMAIN t : \E k \in DOMAIN s : t[i] = s[k]
  BY <1>3, <1>4, Todo
<1>6. job[j].op \in {"bid", "buy"} /\ job[j].batch = {}
  BY <1>1, <1>2, <1>3 DEF Shaped
<1>7. job'[j] = Idle \/ job'[j] = [job[j] EXCEPT !.step = "look", !.todo = t]
  BY <1>2, <1>4 DEF CommitLetter, Become, Finish, Formed, Typed
<1>8. CASE job'[j] = [job[j] EXCEPT !.step = "look", !.todo = t]
  <2>1. /\ job'[j].op = job[j].op /\ job'[j].step = "look" /\ job'[j].todo = t
        /\ job'[j].batch = job[j].batch
    BY <1>1, <1>8 DEF JobRows
  <2>2. QED
    BY <1>1, <1>2, <1>5, <1>6, <2>1 DEF Due, DueOf
<1>9. QED
  BY <1>1, <1>6, <1>7, <1>8

LEMMA AfterCommitBatch ==
  ASSUME Formed, NEW j \in Jobs, CommitBatch(j)
  PROVE  /\ job[j].op \in {"post", "settle", "warn"} /\ job[j].step = "batch"
         /\ \/ job'[j] = Idle /\ job[j].op # "warn"
            \/ /\ job[j].op = "warn" /\ job'[j].op = "warn" /\ job'[j].step = "flag"
               /\ job'[j].batch = {} /\ job'[j].todo = <<>>
               /\ job'[j].audience = job[j].audience
<1>1. job[j] \in JobRows /\ Shaped(job[j]) /\ job[j].step = "batch"
  BY DEF Formed, Typed, CommitBatch
<1>2. job[j].op \in {"post", "settle", "warn"} /\ job[j].todo = <<>>
  BY <1>1 DEF Shaped
<1>3. CASE job[j].op # "warn"
  BY <1>1, <1>2, <1>3 DEF CommitBatch, Become, Finish, Formed, Typed
<1>4. CASE job[j].op = "warn"
  <2>1. PICK none : none = {}
    OBVIOUS
  <2>2. job'[j] = [job[j] EXCEPT !.step = "flag", !.batch = none]
    BY <1>4, <2>1 DEF CommitBatch, Become, Formed, Typed
  <2>3. /\ job'[j].op = job[j].op /\ job'[j].step = "flag" /\ job'[j].todo = job[j].todo
        /\ job'[j].batch = none /\ job'[j].audience = job[j].audience
    BY <1>1, <2>2 DEF JobRows
  <2>4. QED
    BY <1>1, <1>2, <1>4, <2>1, <2>3
<1>5. QED
  BY <1>3, <1>4

LEMMA AfterStartSettings ==
  ASSUME Formed, NEW j \in Jobs, StartSettings(j)
  PROVE  /\ job'[j].op = "settings" /\ job'[j].step = "save"
         /\ job'[j].batch = {} /\ job'[j].todo = <<>>
         /\ \E u \in Users : /\ job'[j].by = u /\ job'[j].off = muted[u]
                             /\ job'[j].saves = past.saves[u]
<1>1. PICK u \in Users, ask \in Wishes :
        job'[j] = [Idle EXCEPT !.op = "settings", !.step = "save", !.by = u,
                               !.off = muted[u], !.saves = past.saves[u], !.ask = ask]
  BY DEF StartSettings, Become, Formed, Typed
<1>2. QED
  BY <1>1 DEF Idle

LEMMA AfterSubscribe ==
  ASSUME Formed, NEW j \in Jobs, StartSubscribe(j) \/ StartUnsubscribe(j)
  PROVE  /\ job'[j].op = "subscribe" /\ job'[j].step \in {"insert", "erase"}
         /\ job'[j].batch = {} /\ job'[j].todo = <<>>
<1>1. CASE StartSubscribe(j)
  <2>1. PICK u : job'[j] = [Idle EXCEPT !.op = "subscribe", !.step = "insert", !.by = u]
    BY <1>1 DEF StartSubscribe, Become, Formed, Typed
  <2>2. QED
    BY <2>1 DEF Idle
<1>2. CASE StartUnsubscribe(j)
  <2>1. PICK u \in Users : \E s \in subs[u] :
          Become(j, [Idle EXCEPT !.op = "subscribe", !.step = "erase", !.by = u, !.sub = s])
    BY <1>2 DEF StartUnsubscribe
  <2>2. PICK s \in subs[u] :
          job'[j] = [Idle EXCEPT !.op = "subscribe", !.step = "erase", !.by = u, !.sub = s]
    BY <2>1 DEF Become, Formed, Typed
  <2>3. QED
    BY <2>2 DEF Idle
<1>3. QED
  BY <1>1, <1>2

Ends(j) ==
  SetFlag(j) \/ update_notification_settings(j) \/ subscribe(j) \/ unsubscribe(j) \/ BreaksOff(j)

LEMMA AfterEnd ==
  ASSUME Formed, NEW j \in Jobs, Ends(j)
  PROVE  job'[j] = Idle
BY DEF Ends, Finish, Become, Formed, Typed, SetFlag, update_notification_settings, subscribe,
       unsubscribe, BreaksOff

(* What falls due is as read now; the rest was due before.                 *)
LEMMA StepDue ==
  ASSUME Formed, [Next]_vars, NEW k \in Jobs, NEW p \in Due(k)'
  PROVE  p \in Due(k) \/ Fresh(p)
<1>0. p \in DueOf(job'[k])
  BY DEF Due
<1>1. CASE job'[k] = job[k]
  BY <1>0, <1>1 DEF Due
<1>2. CASE job'[k] = Idle
  BY <1>0, <1>2, IdleShaped DEF DueOf
<1>3. ASSUME Acts(k)
      PROVE  p \in Due(k) \/ Fresh(p)
  <2>1. CASE place_bid(k)
    BY <1>0, <2>1, AfterBid
  <2>2. CASE buy_now(k)
    BY <1>0, <2>2, AfterBuy
  <2>3. CASE create_auction(k)
    BY <1>0, <2>3, AfterCreate DEF DueOf
  <2>4. CASE complete_auction(k)
    BY <1>0, <1>2, <2>4, AfterSettle DEF DueOf
  <2>a. CASE WakeToSettle(k)
    BY <1>0, <2>a, AfterTick DEF DueOf
  <2>5. CASE WakeToWarn(k)
    BY <1>0, <2>5, AfterWake DEF DueOf
  <2>6. CASE QueryBidders(k)
    BY <1>0, <2>6, AfterQueryBidders DEF DueOf
  <2>7. CASE QuerySubscribers(k)
    BY <1>0, <1>2, <2>7, AfterQuerySubscribers DEF DueOf
  <2>8. CASE Look(k)
    BY <1>0, <2>8, AfterLook
  <2>9. CASE CommitRow(k)
    BY <1>0, <2>9, AfterCommitRow DEF Due, DueOf
  <2>10. CASE CommitLetter(k)
    BY <1>0, <1>2, <2>10, AfterCommitLetter
  <2>11. CASE CommitBatch(k)
    BY <1>0, <1>2, <2>11, AfterCommitBatch DEF DueOf
  <2>12. CASE StartSettings(k)
    BY <1>0, <2>12, AfterStartSettings DEF DueOf
  <2>13. CASE StartSubscribe(k) \/ StartUnsubscribe(k)
    BY <1>0, <2>13, AfterSubscribe DEF DueOf
  <2>14. CASE Ends(k)
    BY <1>2, <2>14, AfterEnd
  <2>15. QED
    BY <1>3, <2>a, <2>1, <2>2, <2>3, <2>4, <2>5, <2>6, <2>7, <2>8, <2>9, <2>10, <2>11, <2>12, <2>13,
       <2>14 DEF Acts, Ends
<1>4. QED
  BY <1>1, <1>3, OneActs

-----------------------------------------------------------------------------
(* Settings.                                                               *)

(* A save bumps the version of one user; nothing else touches settings.    *)
LEMMA StepSaves ==
  ASSUME Formed, [Next]_vars
  PROVE  \/ past'.saves = past.saves /\ muted' = muted
         \/ \E j \in Jobs :
              /\ update_notification_settings(j)
              /\ job[j].by \in Users
              /\ past'.saves[job[j].by] = past.saves[job[j].by] + 1
              /\ \A u \in Users : u # job[j].by =>
                   past'.saves[u] = past.saves[u] /\ muted'[u] = muted[u]
<1>1. past \in [gone : NoticeBags, dropped : NoticeBags, saves : [Users -> Nat], bids : Nat,
                warnings : Nat, subs : 0 .. MaxSubs, laps : Nat, warned : SUBSET Users,
            late : Nat]
  BY DEF Formed, Typed
<1>2. ASSUME NEW j \in Jobs, update_notification_settings(j)
      PROVE  /\ job[j].by \in Users
             /\ past'.saves[job[j].by] = past.saves[job[j].by] + 1
             /\ \A u \in Users : u # job[j].by =>
                  past'.saves[u] = past.saves[u] /\ muted'[u] = muted[u]
  <2>1. job[j].by \in Users
    BY <1>2 DEF Formed, Shaped, update_notification_settings
  <2>2. past'.saves = [past.saves EXCEPT ![job[j].by] = @ + 1]
    BY <1>1, <1>2 DEF update_notification_settings
  <2>3. muted' = [muted EXCEPT ![job[j].by] = Written(@, job[j].off, job[j].ask)]
    BY <1>2 DEF update_notification_settings
  <2>4. past.saves \in [Users -> Nat] /\ muted \in [Users -> SUBSET Flags]
    BY <1>1 DEF Formed, Typed
  <2>5. QED
    BY <2>1, <2>2, <2>3, <2>4
<1>3. \/ \E j \in Jobs : update_notification_settings(j)
      \/ muted' = muted
  BY Frame
<1>4. ASSUME muted' = muted
      PROVE  \/ past'.saves = past.saves
             \/ \E j \in Jobs : update_notification_settings(j)
  <2>1. CASE past' = past \/ delete_notification
    BY <1>1, <2>1 DEF delete_notification
  <2>2. ASSUME NEW j \in Jobs, \/ place_bid(j) \/ complete_auction(j) \/ WakeToWarn(j)
                               \/ QueryBidders(j) \/ SetFlag(j) \/ subscribe(j) \/ BreaksOff(j)
        PROVE  past'.saves = past.saves
    <3>a. CASE complete_auction(j)
      BY <1>1, <3>a DEF complete_auction
    <3>1. CASE place_bid(j)
      BY <1>1, <3>1 DEF place_bid
    <3>2. CASE WakeToWarn(j)
      BY <1>1, <3>2 DEF WakeToWarn
    <3>3. CASE QueryBidders(j)
      BY <1>1, <3>3 DEF QueryBidders
    <3>4. CASE SetFlag(j)
      BY <1>1, <3>4 DEF SetFlag
    <3>5. CASE subscribe(j)
      BY <1>1, <3>5 DEF subscribe
    <3>6. CASE BreaksOff(j)
      BY <1>1, <3>6 DEF BreaksOff
    <3>7. QED
      BY <2>2, <3>a, <3>1, <3>2, <3>3, <3>4, <3>5, <3>6
  <2>3. QED
    BY <2>1, <2>2, Frame
<1>5. QED
  BY <1>2, <1>3, <1>4

LEMMA KeepCopy ==
  ASSUME Formed, [Next]_vars, NEW u \in Users, NEW off, NEW saves \in Nat,
         TrueCopy(u, off, saves)
  PROVE  TrueCopy(u, off, saves)'
<1>1. past.saves[u] \in Nat /\ past'.saves[u] \in Nat
  BY StepPast DEF Formed, Typed, PastTyped
<1>2. \/ past'.saves[u] = past.saves[u] /\ muted'[u] = muted[u]
      \/ past'.saves[u] = past.saves[u] + 1
  BY StepSaves
<1>3. QED
  BY <1>1, <1>2 DEF TrueCopy

LEMMA DuePayloads ==
  ASSUME Formed, NEW j \in Jobs
  PROVE  Due(j) \subseteq Payloads
<1>1. job[j].todo \in Seq(Payloads) /\ job[j].batch \subseteq Payloads
  BY DEF Formed, Typed, JobRows
<1>2. QED
  BY <1>1 DEF Due, DueOf

LEMMA InitRemembered == Init => Remembered
<1> SUFFICES ASSUME Init PROVE Remembered
  OBVIOUS
<1>1. \A j \in Jobs : Due(j) = {} /\ job[j].step # "save"
  BY IdleShaped DEF Init, Due, DueOf, Idle
<1>2. QED
  BY <1>1 DEF Init, Remembered

LEMMA StepRemembered ==
  ASSUME Formed, Remembered, [Next]_vars
  PROVE  Remembered'
<1>1. ASSUME NEW u \in Users, past'.saves[u] = 0
      PROVE  muted'[u] = {}
  <2>1. past.saves[u] \in Nat
    BY DEF Formed, Typed
  <2>2. past'.saves[u] = past.saves[u] /\ muted'[u] = muted[u]
    BY <1>1, <2>1, StepSaves
  <2>3. QED
    BY <1>1, <2>2 DEF Remembered
<1>3. ASSUME NEW j \in Jobs, NEW p \in Due(j)'
      PROVE  TrueCopy(p.user, p.off, p.saves)'
  <2>1. p \in Due(j) \/ Fresh(p)
    BY StepDue
  <2>2. p \in Payloads
    BY <2>1, DuePayloads DEF Fresh
  <2>3. p.user \in Users /\ p.saves \in Nat
    BY <2>2 DEF Payloads
  <2>4. TrueCopy(p.user, p.off, p.saves)
    <3>1. CASE p \in Due(j)
      BY <3>1 DEF Remembered
    <3>2. CASE Fresh(p)
      BY <2>3, <3>2 DEF Fresh, TrueCopy
    <3>3. QED
      BY <2>1, <3>1, <3>2
  <2>5. PICK u, off, saves : u = p.user /\ off = p.off /\ saves = p.saves
    OBVIOUS
  <2>6. TrueCopy(u, off, saves)'
    BY <2>3, <2>4, <2>5, KeepCopy
  <2>7. QED
    BY <2>5, <2>6
<1>4. ASSUME NEW j \in Jobs, job'[j].step = "save"
      PROVE  TrueCopy(job[j].by, job[j].off, job[j].saves)'
  <2>1. PICK u, off, saves : u = job'[j].by /\ off = job'[j].off /\ saves = job'[j].saves
    OBVIOUS
  <2>2. u \in Users /\ saves \in Nat /\ TrueCopy(u, off, saves)
    <3>1. CASE job'[j] = job[j]
      BY <1>4, <2>1, <3>1 DEF Remembered, Formed, Typed, JobRows, Shaped
    <3>2. CASE StartSettings(j)
      <4>1. PICK v \in Users : u = v /\ off = muted[v] /\ saves = past.saves[v]
        BY <2>1, <3>2, AfterStartSettings
      <4>2. past.saves[v] \in Nat
        BY DEF Formed, Typed
      <4>3. QED
        BY <4>1, <4>2 DEF TrueCopy
    <3>3. job'[j] = job[j] \/ Acts(j)
      BY OneActs
    <3>4. job'[j] # Idle
      BY <1>4 DEF Idle
    <3>5. CASE Acts(j)
      <4>1. ~ (place_bid(j) \/ buy_now(j) \/ create_auction(j) \/ WakeToSettle(j)
               \/ complete_auction(j))
        BY <1>4, <3>4, AfterBid, AfterBuy, AfterCreate, AfterTick, AfterSettle
      <4>2. ~ (WakeToWarn(j) \/ QueryBidders(j) \/ QuerySubscribers(j))
        BY <1>4, <3>4, AfterWake, AfterQueryBidders, AfterQuerySubscribers
      <4>3. ~ (Look(j) \/ CommitRow(j) \/ CommitLetter(j) \/ CommitBatch(j))
        BY <1>4, <3>4, AfterLook, AfterCommitRow, AfterCommitLetter, AfterCommitBatch
      <4>4. ~ (StartSubscribe(j) \/ StartUnsubscribe(j) \/ Ends(j))
        BY <1>4, <3>4, AfterSubscribe, AfterEnd
      <4>5. StartSettings(j)
        BY <3>5, <4>1, <4>2, <4>3, <4>4 DEF Acts, Ends
      <4>6. QED
        BY <3>2, <4>5
    <3>6. QED
      BY <3>1, <3>3, <3>5
  <2>3. TrueCopy(u, off, saves)'
    BY <2>2, KeepCopy
  <2>4. QED
    BY <2>1, <2>3
<1>5. QED
  BY <1>1, <1>3, <1>4 DEF Remembered

LEMMA AlwaysRemembered == Spec => [](Formed /\ Remembered)
<1>1. Init => Formed /\ Remembered
  BY InitFormed, InitRemembered
<1>2. Formed /\ Remembered /\ [Next]_vars => (Formed /\ Remembered)'
  BY StepFormed, StepRemembered
<1>3. QED
  BY <1>1, <1>2, PTL DEF Spec

(* A letter that leaves now is one its user has not turned off, or its     *)
(* handler has read the settings before they changed.                      *)
LEMMA LetterIsWanted ==
  ASSUME Formed, Remembered, NEW j \in Jobs, NEW p \in Due(j), NEW n, Lettered(p, n)
  PROVE  \/ {"email_notifications", OptOutFlag(n.type)} \cap muted[n.user] = {}
         \/ ReadBefore(n.user) # {}
<1>1. p \in Payloads /\ TrueCopy(p.user, p.off, p.saves)
  BY DuePayloads DEF Remembered
<1>2. n.user = p.user /\ EmailEnabled(n.type, p.off)
  BY DEF Lettered, Notice
<1>3. p.saves \in Nat /\ past.saves[p.user] \in Nat
  BY <1>1 DEF Payloads, Formed, Typed
<1>4. CASE p.saves = past.saves[p.user]
  <2>1. p.off = muted[n.user]
    BY <1>1, <1>2, <1>4 DEF TrueCopy
  <2>2. QED
    BY <1>2, <2>1 DEF EmailEnabled
<1>5. CASE p.saves < past.saves[p.user]
  <2>1. p \in job[j].batch \cup {job[j].todo[i] : i \in DOMAIN job[j].todo}
    BY DEF Due, DueOf
  <2>2. j \in ReadBefore(n.user)
    BY <1>2, <1>5, <2>1 DEF ReadBefore
  <2>3. QED
    BY <2>2
<1>6. QED
  BY <1>1, <1>3, <1>4, <1>5 DEF TrueCopy

(* For every number of users and handlers: saved settings are those asked  *)
(* for unless another save came between, and no letter is written that is  *)
(* turned off but by handlers that had read the settings before.           *)
THEOREM SettingsAlwaysTakeHold == Spec => SettingsTakeHold
<1>1. ASSUME Formed, Remembered, [Next]_vars
      PROVE  /\ \A u \in Users : past'.saves[u] > past.saves[u] =>
                  \E j \in Jobs : /\ job[j].step = "save" /\ job[j].by = u
                                  /\ job'[j] = Idle
                                  /\ muted'[u] = job[j].ask \/ job[j].saves < past.saves[u]
             /\ \A n \in DOMAIN letters' :
                  Copies(n, letters') > Copies(n, letters)
                    => \/ {"email_notifications", OptOutFlag(n.type)} \cap muted[n.user] = {}
                       \/ ReadBefore(n.user) # {}
  <2>1. ASSUME NEW u \in Users, past'.saves[u] > past.saves[u]
        PROVE  \E j \in Jobs : /\ job[j].step = "save" /\ job[j].by = u
                               /\ job'[j] = Idle
                               /\ muted'[u] = job[j].ask \/ job[j].saves < past.saves[u]
    <3>1. past.saves[u] \in Nat
      BY <1>1 DEF Formed, Typed
    <3>2. PICK j \in Jobs : update_notification_settings(j) /\ job[j].by = u
      BY <1>1, <2>1, <3>1, StepSaves
    <3>3. job[j].step = "save" /\ job'[j] = Idle
      BY <1>1, <3>2, AfterEnd DEF Ends, update_notification_settings
    <3>4. job[j] \in JobRows /\ job[j].saves \in Nat /\ TrueCopy(u, job[j].off, job[j].saves)
      BY <1>1, <3>2, <3>3 DEF Remembered, Formed, Typed, JobRows
    <3>5. CASE job[j].saves = past.saves[u]
      <4>1. job[j].off = muted[u]
        BY <3>4, <3>5 DEF TrueCopy
      <4>2. muted'[u] = Written(muted[u], job[j].off, job[j].ask)
        BY <1>1, <3>2 DEF update_notification_settings, Formed, Typed
      <4>3. muted'[u] = job[j].ask
        BY <4>1, <4>2 DEF Written
      <4>4. QED
        BY <3>2, <3>3, <4>3
    <3>6. CASE job[j].saves # past.saves[u]
      <4>1. job[j].saves < past.saves[u]
        BY <3>1, <3>4, <3>6 DEF TrueCopy
      <4>2. QED
        BY <3>2, <3>3, <4>1
    <3>7. QED
      BY <3>5, <3>6
  <2>2. ASSUME NEW n, Copies(n, letters') > Copies(n, letters)
        PROVE  \/ {"email_notifications", OptOutFlag(n.type)} \cap muted[n.user] = {}
               \/ ReadBefore(n.user) # {}
    <3>1. Copies(n, letters) \in Nat
      BY <1>1, CopiesNat DEF Formed, Typed
    <3>2. letters' # letters
      BY <2>2, <3>1
    <3>3. ASSUME NEW j \in Jobs, CommitLetter(j)
          PROVE  \E p \in Due(j) : Lettered(p, n)
      <4>1. Copies(n, letters') = Copies(n, letters) + One(Lettered(Head(job[j].todo), n))
        BY <1>1, <3>3, CommitLetterLetters DEF One
      <4>2. Lettered(Head(job[j].todo), n)
        BY <2>2, <3>1, <4>1 DEF One
      <4>3. Head(job[j].todo) \in Due(j)
        BY <1>1, <3>3, AtNotice DEF Due, DueOf, CommitLetter
      <4>4. QED
        BY <4>2, <4>3
    <3>4. ASSUME NEW j \in Jobs, CommitBatch(j)
          PROVE  \E p \in Due(j) : Lettered(p, n)
      <4>1. Copies(n, letters')
              = Copies(n, letters) + One(\E p \in job[j].batch : Lettered(p, n))
        BY <1>1, <3>4, CommitBatchLetters DEF One
      <4>2. \E p \in job[j].batch : Lettered(p, n)
        BY <2>2, <3>1, <4>1 DEF One
      <4>3. QED
        BY <4>2 DEF Due, DueOf
    <3>5. PICK j \in Jobs : CommitLetter(j) \/ CommitBatch(j)
      BY <1>1, <3>2, Frame
    <3>6. PICK p \in Due(j) : Lettered(p, n)
      BY <3>3, <3>4, <3>5
    <3>7. QED
      BY <1>1, <3>6, LetterIsWanted
  <2>3. QED
    BY <2>1, <2>2
<1>2. QED
  BY <1>1, AlwaysRemembered, PTL DEF Spec, SettingsTakeHold

-----------------------------------------------------------------------------
(* Rows ever created.                                                      *)

LEMMA CreatedNat ==
  ASSUME Formed, NEW n
  PROVE  Created(n) \in Nat /\ Copies(n, rows) \in Nat /\ Copies(n, past.gone) \in Nat
<1>1. Copies(n, rows) \in Nat /\ Copies(n, past.gone) \in Nat
  BY CopiesNat DEF Formed, Typed
<1>2. QED
  BY <1>1 DEF Created

(* The two bags of history change in one action each.                      *)
LEMMA StepHistory ==
  ASSUME Formed, [Next]_vars
  PROVE  /\ past'.gone = past.gone \/ delete_notification
         /\ \/ past'.dropped = past.dropped
            \/ \E j \in Jobs : BreaksOff(j) /\ job[j].step = "letter"
<1>1. past \in [gone : NoticeBags, dropped : NoticeBags, saves : [Users -> Nat], bids : Nat,
                warnings : Nat, subs : 0 .. MaxSubs, laps : Nat, warned : SUBSET Users,
            late : Nat]
  BY DEF Formed, Typed
<1>2. CASE past' = past
  BY <1>2
<1>3. CASE delete_notification
  BY <1>1, <1>3 DEF delete_notification
<1>4. ASSUME NEW j \in Jobs,
             \/ place_bid(j) \/ complete_auction(j) \/ WakeToWarn(j) \/ QueryBidders(j)
             \/ SetFlag(j) \/ update_notification_settings(j) \/ subscribe(j)
      PROVE  past'.gone = past.gone /\ past'.dropped = past.dropped
  <2>a. CASE complete_auction(j)
    BY <1>1, <2>a DEF complete_auction
  <2>1. CASE place_bid(j)
    BY <1>1, <2>1 DEF place_bid
  <2>2. CASE WakeToWarn(j)
    BY <1>1, <2>2 DEF WakeToWarn
  <2>3. CASE QueryBidders(j)
    BY <1>1, <2>3 DEF QueryBidders
  <2>4. CASE SetFlag(j)
    BY <1>1, <2>4 DEF SetFlag
  <2>5. CASE update_notification_settings(j)
    BY <1>1, <2>5 DEF update_notification_settings
  <2>6. CASE subscribe(j)
    BY <1>1, <2>6 DEF subscribe
  <2>7. QED
    BY <1>4, <2>a, <2>1, <2>2, <2>3, <2>4, <2>5, <2>6
<1>5. ASSUME NEW j \in Jobs, BreaksOff(j)
      PROVE  past'.gone = past.gone /\ (past'.dropped = past.dropped \/ job[j].step = "letter")
  BY <1>1, <1>5 DEF BreaksOff
<1>6. QED
  BY <1>2, <1>3, <1>4, <1>5, Frame

RowCommitted(j) ==
  \A n : Created(n)' = Created(n) + (IF Notice(Head(job[j].todo)) = n THEN 1 ELSE 0)

BatchCommitted(j) ==
  \A n : Created(n)' = Created(n) + (IF \E p \in job[j].batch : Notice(p) = n THEN 1 ELSE 0)

LEMMA CommitRowCreated ==
  ASSUME Formed, NEW j \in Jobs, CommitRow(j)
  PROVE  RowCommitted(j)
<1>1. past' = past
  BY DEF CommitRow
<1>2. ASSUME NEW n
      PROVE  Created(n)' = Created(n) + (IF Notice(Head(job[j].todo)) = n THEN 1 ELSE 0)
  <2>1. Copies(n, rows') = Copies(n, rows) + (IF Notice(Head(job[j].todo)) = n THEN 1 ELSE 0)
    BY CommitRowRows DEF One
  <2>2. QED
    BY <1>1, <2>1, CreatedNat DEF Created
<1>3. QED
  BY <1>2 DEF RowCommitted

LEMMA CommitBatchCreated ==
  ASSUME Formed, NEW j \in Jobs, CommitBatch(j)
  PROVE  BatchCommitted(j)
<1>1. past' = past
  BY DEF CommitBatch
<1>2. ASSUME NEW n
      PROVE  Created(n)' = Created(n) + (IF \E p \in job[j].batch : Notice(p) = n THEN 1 ELSE 0)
  <2>1. Copies(n, rows') = Copies(n, rows) + (IF \E p \in job[j].batch : Notice(p) = n THEN 1 ELSE 0)
    BY CommitBatchRows DEF One
  <2>2. QED
    BY <1>1, <2>1, CreatedNat DEF Created
<1>3. QED
  BY <1>2 DEF BatchCommitted

(* A deletion moves a row to those that are gone.                          *)
LEMMA StepCreated ==
  ASSUME Formed, [Next]_vars
  PROVE  \/ \A n : Created(n)' = Created(n)
         \/ \E j \in Jobs : CommitRow(j) \/ CommitBatch(j)
<1>1. CASE delete_notification
  <2>1. PICK m : \A n : /\ Copies(n, rows') = Copies(n, rows) - One(n = m)
                        /\ Copies(n, past'.gone) = Copies(n, past.gone) + One(n = m)
    BY <1>1, DeleteRows
  <2>2. \A n : Created(n)' = Created(n)
    BY <2>1, CreatedNat DEF Created, One
  <2>3. QED
    BY <2>2
<1>2. CASE rows' = rows /\ past'.gone = past.gone
  BY <1>2 DEF Created
<1>3. QED
  BY <1>1, <1>2, StepHistory, Frame

LEMMA CreatedGrows ==
  ASSUME Formed, [Next]_vars, NEW n
  PROVE  Created(n)' \in Nat /\ Created(n)' >= Created(n)
<1>1. Created(n) \in Nat
  BY CreatedNat
<1>2. \/ Created(n)' = Created(n)
      \/ Created(n)' = Created(n) + 1
  <2>1. CASE \A m : Created(m)' = Created(m)
    BY <2>1
  <2>2. ASSUME NEW j \in Jobs, CommitRow(j)
        PROVE  Created(n)' = Created(n) \/ Created(n)' = Created(n) + 1
    BY <1>1, <2>2, CommitRowCreated DEF RowCommitted
  <2>3. ASSUME NEW j \in Jobs, CommitBatch(j)
        PROVE  Created(n)' = Created(n) \/ Created(n)' = Created(n) + 1
    BY <1>1, <2>3, CommitBatchCreated DEF BatchCommitted
  <2>4. QED
    BY <2>1, <2>2, <2>3, StepCreated
<1>3. QED
  BY <1>1, <1>2

-----------------------------------------------------------------------------
(* Letters.                                                                *)

AtLetter(q, n) == q.step = "letter" /\ Lettered(Head(q.todo), n)

LEMMA UnderWayMembers ==
  ASSUME NEW n
  PROVE  /\ \A j \in Jobs : j \in UnderWay(n) <=> AtLetter(job[j], n)
         /\ UnderWay(n) \subseteq Jobs
         /\ IsFiniteSet(UnderWay(n)) /\ Cardinality(UnderWay(n)) \in Nat
<1>1. UnderWay(n) \subseteq Jobs
  BY DEF UnderWay
<1>2. IsFiniteSet(UnderWay(n))
  BY <1>1, JobsAssumption, FS_Subset
<1>3. Cardinality(UnderWay(n)) \in Nat
  BY <1>2, FS_CardinalityType
<1>4. QED
  BY <1>1, <1>2, <1>3 DEF UnderWay, AtLetter, Lettered

LEMMA UnderWayNext ==
  ASSUME NEW n
  PROVE  /\ \A j \in Jobs : j \in UnderWay(n)' <=> AtLetter(job'[j], n)
         /\ UnderWay(n)' \subseteq Jobs
BY DEF UnderWay, AtLetter, Lettered

(* Who comes to the letter, and who leaves it.                             *)
LEMMA LetterSteps ==
  ASSUME Formed, NEW j \in Jobs, Acts(j)
  PROVE  /\ job'[j].step = "letter" => CommitRow(j)
         /\ job[j].step = "letter" => CommitLetter(j) \/ BreaksOff(j)
<1>1. Idle.step = "idle"
  BY DEF Idle
<1>2. ASSUME job'[j].step = "letter" PROVE CommitRow(j)
  <2>1. ~ (place_bid(j) \/ buy_now(j) \/ create_auction(j) \/ WakeToSettle(j)
           \/ complete_auction(j))
    BY <1>1, <1>2, AfterBid, AfterBuy, AfterCreate, AfterTick, AfterSettle
  <2>2. ~ (WakeToWarn(j) \/ QueryBidders(j) \/ QuerySubscribers(j))
    BY <1>1, <1>2, AfterWake, AfterQueryBidders, AfterQuerySubscribers
  <2>3. ~ (Look(j) \/ CommitLetter(j) \/ CommitBatch(j))
    BY <1>1, <1>2, AfterLook, AfterCommitLetter, AfterCommitBatch
  <2>4. ~ (StartSettings(j) \/ StartSubscribe(j) \/ StartUnsubscribe(j) \/ Ends(j))
    BY <1>1, <1>2, AfterStartSettings, AfterSubscribe, AfterEnd
  <2>5. QED
    BY <2>1, <2>2, <2>3, <2>4 DEF Acts, Ends
<1>3. ASSUME job[j].step = "letter" PROVE CommitLetter(j) \/ BreaksOff(j)
  <2>1. ~ (place_bid(j) \/ buy_now(j) \/ create_auction(j) \/ WakeToSettle(j)
           \/ complete_auction(j) \/ WakeToWarn(j)
           \/ StartSettings(j) \/ StartSubscribe(j) \/ StartUnsubscribe(j))
    BY <1>1, <1>3 DEF Starts, place_bid, buy_now, create_auction, WakeToSettle,
                      complete_auction, WakeToWarn,
                      StartSettings, StartSubscribe, StartUnsubscribe
  <2>2. ~ (QueryBidders(j) \/ QuerySubscribers(j) \/ Look(j) \/ CommitRow(j) \/ CommitBatch(j))
    BY <1>3 DEF QueryBidders, QuerySubscribers, Look, CommitRow, CommitBatch
  <2>3. ~ (SetFlag(j) \/ update_notification_settings(j) \/ subscribe(j) \/ unsubscribe(j))
    BY <1>3 DEF SetFlag, update_notification_settings, subscribe, unsubscribe
  <2>4. QED
    BY <2>1, <2>2, <2>3 DEF Acts
<1>4. QED
  BY <1>2, <1>3

LEMMA UnderWayChange ==
  ASSUME NEW j \in Jobs, \A k \in Jobs : k # j => job'[k] = job[k], NEW n
  PROVE  /\ AtLetter(job'[j], n) /\ ~ AtLetter(job[j], n)
              => Cardinality(UnderWay(n)') = Cardinality(UnderWay(n)) + 1
         /\ ~ AtLetter(job'[j], n) /\ AtLetter(job[j], n)
              => Cardinality(UnderWay(n)') = Cardinality(UnderWay(n)) - 1
         /\ (AtLetter(job'[j], n) <=> AtLetter(job[j], n))
              => Cardinality(UnderWay(n)') = Cardinality(UnderWay(n))
<1>1. PICK S, T : S = UnderWay(n) /\ T = UnderWay(n)'
  OBVIOUS
<1>2. /\ S \subseteq Jobs /\ T \subseteq Jobs /\ IsFiniteSet(S)
      /\ \A k \in Jobs : k \in S <=> AtLetter(job[k], n)
      /\ \A k \in Jobs : k \in T <=> AtLetter(job'[k], n)
  BY <1>1, UnderWayMembers, UnderWayNext
<1>3. \A k \in Jobs : k # j => (k \in S <=> k \in T)
  BY <1>2
<1>4. ASSUME j \in T, j \notin S PROVE Cardinality(T) = Cardinality(S) + 1
  <2>1. T = S \cup {j}
    BY <1>2, <1>3, <1>4
  <2>2. QED
    BY <1>2, <1>4, <2>1, FS_AddElement
<1>5. ASSUME j \notin T, j \in S PROVE Cardinality(T) = Cardinality(S) - 1
  <2>1. T = S \ {j}
    BY <1>2, <1>3, <1>5
  <2>2. QED
    BY <1>2, <1>5, <2>1, FS_RemoveElement
<1>6. ASSUME j \in T <=> j \in S PROVE T = S
  BY <1>2, <1>3, <1>6
<1>7. QED
  BY <1>1, <1>2, <1>4, <1>5, <1>6

(* A letter that is sent off, or lost, was under way.                      *)
LEMMA LetterEnds ==
  ASSUME Formed, [Next]_vars, NEW j \in Jobs, CommitLetter(j) \/ BreaksOff(j),
         job[j].step = "letter", NEW n
  PROVE  MailedOf(n)' = MailedOf(n)
<1>1. PICK p : p = Head(job[j].todo)
  OBVIOUS
<1>2. Acts(j) /\ \A k \in Jobs : k # j => job'[k] = job[k]
  <2>1. Acts(j)
    BY DEF Acts
  <2>2. PICK q : Become(j, q)
    BY <2>1, ActsBecomes
  <2>3. QED
    BY <2>1, <2>2 DEF Become, Formed, Typed
<1>3. job'[j].step # "letter"
  BY AfterCommitLetter, AfterEnd DEF Ends, Idle
<1>4. ~ AtLetter(job'[j], n) /\ (AtLetter(job[j], n) <=> Lettered(p, n))
  BY <1>1, <1>3 DEF AtLetter
<1>5. PICK c, d : c = Cardinality(UnderWay(n)) /\ d = Cardinality(UnderWay(n)')
  OBVIOUS
<1>6. c \in Nat /\ d = c - (IF Lettered(p, n) THEN 1 ELSE 0)
  BY <1>2, <1>4, <1>5, UnderWayChange, UnderWayMembers
<1>7. Copies(n, letters) \in Nat /\ Copies(n, past.dropped) \in Nat
  BY CopiesNat DEF Formed, Typed
<1>8. CASE CommitLetter(j)
  <2>1. Copies(n, letters') = Copies(n, letters) + (IF Lettered(p, n) THEN 1 ELSE 0)
    BY <1>1, <1>8, CommitLetterLetters DEF One
  <2>2. past' = past
    BY <1>8 DEF CommitLetter
  <2>3. QED
    BY <1>5, <1>6, <1>7, <2>1, <2>2 DEF MailedOf
<1>9. CASE BreaksOff(j)
  <2>1. Copies(n, past'.dropped) = Copies(n, past.dropped) + (IF Lettered(p, n) THEN 1 ELSE 0)
    BY <1>1, <1>9, BreakDropped DEF One
  <2>2. letters' = letters
    BY <1>9 DEF BreaksOff
  <2>3. QED
    BY <1>5, <1>6, <1>7, <2>1, <2>2 DEF MailedOf
<1>10. QED
  BY <1>8, <1>9

(* Whoever never saved settings gets a letter with each notice.            *)
LEMMA UntouchedIsLettered ==
  ASSUME Formed, Remembered, NEW j \in Jobs, NEW p \in Due(j), NEW n, Notice(p) = n,
         past.saves[n.user] = 0
  PROVE  Lettered(p, n)
<1>1. p \in Payloads /\ TrueCopy(p.user, p.off, p.saves)
  BY DuePayloads DEF Remembered
<1>2. n.user = p.user /\ n.user \in Users /\ p.saves \in Nat
  BY <1>1 DEF Notice, Payloads
<1>3. p.saves = 0
  BY <1>1, <1>2 DEF TrueCopy
<1>4. p.off = {}
  BY <1>1, <1>2, <1>3 DEF TrueCopy, Remembered
<1>5. QED
  BY <1>4 DEF Lettered, EmailEnabled

LEMMA SavesGrow ==
  ASSUME Formed, [Next]_vars, NEW u \in Users, past'.saves[u] = 0
  PROVE  past.saves[u] = 0
<1>1. past.saves[u] \in Nat
  BY DEF Formed, Typed
<1>2. past'.saves[u] = past.saves[u] \/ past'.saves[u] = past.saves[u] + 1
  BY StepSaves
<1>3. QED
  BY <1>1, <1>2

PostedFor(n) ==
  /\ MailedOf(n) <= Created(n)
  /\ past.saves[n.user] = 0 => MailedOf(n) = Created(n)

LEMMA MailedNat ==
  ASSUME Formed, NEW n
  PROVE  /\ MailedOf(n) \in Nat /\ Copies(n, letters) \in Nat /\ Copies(n, past.dropped) \in Nat
         /\ Cardinality(UnderWay(n)) \in Nat
<1>1. Copies(n, letters) \in Nat /\ Copies(n, past.dropped) \in Nat
  BY CopiesNat DEF Formed, Typed
<1>2. Cardinality(UnderWay(n)) \in Nat
  BY UnderWayMembers
<1>3. QED
  BY <1>1, <1>2 DEF MailedOf

(* The row is committed: the letter is under way, unless turned off.       *)
LEMMA CommitRowPosted ==
  ASSUME Formed, Remembered, [Next]_vars, NEW j \in Jobs, CommitRow(j), NEW n \in Notices,
         PostedFor(n)
  PROVE  PostedFor(n)'
<1>1. PICK p : p = Head(job[j].todo)
  OBVIOUS
<1>2. p \in Due(j)
  BY <1>1, AtNotice DEF Due, DueOf, CommitRow
<1>3. \A k \in Jobs : k # j => job'[k] = job[k]
  BY DEF CommitRow, Become, Formed, Typed
<1>4. ~ AtLetter(job[j], n) /\ (AtLetter(job'[j], n) <=> Lettered(p, n))
  BY <1>1, AfterCommitRow DEF AtLetter
<1>5. PICK c, d : c = Cardinality(UnderWay(n)) /\ d = Cardinality(UnderWay(n)')
  OBVIOUS
<1>6. d = c + (IF Lettered(p, n) THEN 1 ELSE 0)
  BY <1>3, <1>4, <1>5, UnderWayChange, UnderWayMembers
<1>7. letters' = letters /\ past' = past
  BY DEF CommitRow
<1>8. MailedOf(n)' = MailedOf(n) + (IF Lettered(p, n) THEN 1 ELSE 0)
  BY <1>5, <1>6, <1>7, MailedNat DEF MailedOf
<1>9. Created(n)' = Created(n) + (IF Notice(p) = n THEN 1 ELSE 0)
  BY <1>1, CommitRowCreated DEF RowCommitted
<1>10. Lettered(p, n) => Notice(p) = n
  BY DEF Lettered
<1>11. past.saves[n.user] = 0 /\ Notice(p) = n => Lettered(p, n)
  BY <1>2, UntouchedIsLettered
<1>12. MailedOf(n) \in Nat /\ Created(n) \in Nat
  BY MailedNat, CreatedNat
<1>13. QED
  BY <1>7, <1>8, <1>9, <1>10, <1>11, <1>12 DEF PostedFor

LEMMA CommitBatchPosted ==
  ASSUME Formed, Remembered, [Next]_vars, NEW j \in Jobs, CommitBatch(j), NEW n \in Notices,
         PostedFor(n)
  PROVE  PostedFor(n)'
<1>1. \A k \in Jobs : k # j => job'[k] = job[k]
  BY DEF CommitBatch, Become, Finish, Formed, Typed
<1>2. job[j].step # "letter" /\ job'[j].step # "letter"
  BY AfterCommitBatch DEF Idle
<1>3. Cardinality(UnderWay(n)') = Cardinality(UnderWay(n))
  BY <1>1, <1>2, UnderWayChange DEF AtLetter
<1>4. past' = past
  BY DEF CommitBatch
<1>5. PICK some \in BOOLEAN : some <=> \E p \in job[j].batch : Lettered(p, n)
  OBVIOUS
<1>6. PICK any \in BOOLEAN : any <=> \E p \in job[j].batch : Notice(p) = n
  OBVIOUS
<1>7. Copies(n, letters') = Copies(n, letters) + (IF some THEN 1 ELSE 0)
  BY <1>5, CommitBatchLetters DEF One
<1>8. MailedOf(n)' = MailedOf(n) + (IF some THEN 1 ELSE 0)
  BY <1>3, <1>4, <1>7, MailedNat DEF MailedOf
<1>9. Created(n)' = Created(n) + (IF any THEN 1 ELSE 0)
  BY <1>6, CommitBatchCreated DEF BatchCommitted
<1>10. some => any
  BY <1>5, <1>6 DEF Lettered
<1>11. past.saves[n.user] = 0 /\ any => some
  <2>1. \A p \in job[j].batch : p \in Due(j)
    BY DEF Due, DueOf
  <2>2. QED
    BY <1>5, <1>6, <2>1, UntouchedIsLettered
<1>12. MailedOf(n) \in Nat /\ Created(n) \in Nat
  BY MailedNat, CreatedNat
<1>13. QED
  BY <1>4, <1>8, <1>9, <1>10, <1>11, <1>12 DEF PostedFor

(* All other steps write no row, no letter, and lose none.                 *)
LEMMA OtherPosted ==
  ASSUME Formed, [Next]_vars, NEW n,
         ~ \E j \in Jobs : \/ CommitRow(j) \/ CommitBatch(j) \/ CommitLetter(j)
                           \/ BreaksOff(j) /\ job[j].step = "letter"
  PROVE  MailedOf(n)' = MailedOf(n) /\ Created(n)' = Created(n)
<1>1. letters' = letters /\ past'.dropped = past.dropped
  BY Frame, StepHistory
<1>2. Created(n)' = Created(n)
  BY StepCreated
<1>3. Cardinality(UnderWay(n)') = Cardinality(UnderWay(n))
  <2>1. CASE job' = job
    <3>1. UnderWay(n)' = UnderWay(n)
      BY <2>1 DEF UnderWay
    <3>2. QED
      BY <3>1
  <2>2. ASSUME NEW j \in Jobs, Acts(j), \A k \in Jobs : k # j => job'[k] = job[k]
        PROVE  Cardinality(UnderWay(n)') = Cardinality(UnderWay(n))
    <3>1. job'[j].step # "letter" /\ job[j].step # "letter"
      BY <2>2, LetterSteps
    <3>2. QED
      BY <2>2, <3>1, UnderWayChange DEF AtLetter
  <2>3. QED
    BY <2>1, <2>2, OneActs
<1>4. QED
  BY <1>1, <1>2, <1>3 DEF MailedOf

LEMMA InitPosted == Init => Posted
<1> SUFFICES ASSUME Init PROVE Posted
  OBVIOUS
<1>1. \A n : Created(n) = 0 /\ Copies(n, letters) = 0 /\ Copies(n, past.dropped) = 0
  BY EmptyIsBag DEF Init, Created
<1>2. \A j \in Jobs : job[j].step # "letter"
  BY DEF Init, Idle
<1>3. \A n : UnderWay(n) = {}
  BY <1>2 DEF UnderWay
<1>4. \A n : MailedOf(n) = 0
  BY <1>1, <1>3, FS_EmptySet DEF MailedOf
<1>5. QED
  BY <1>1, <1>4 DEF Posted

LEMMA StepPosted ==
  ASSUME Formed, Remembered, Posted, [Next]_vars
  PROVE  Posted'
<1>1. ASSUME NEW n \in Notices PROVE PostedFor(n)'
  <2>1. PostedFor(n)
    BY DEF Posted, PostedFor
  <2>2. n.user \in Users
    BY DEF Notices
  <2>3. past'.saves[n.user] = 0 => past.saves[n.user] = 0
    BY <2>2, SavesGrow
  <2>4. CASE MailedOf(n)' = MailedOf(n) /\ Created(n)' = Created(n)
    BY <2>1, <2>3, <2>4 DEF PostedFor
  <2>5. ASSUME NEW j \in Jobs, CommitRow(j) PROVE PostedFor(n)'
    BY <2>1, <2>5, CommitRowPosted
  <2>6. ASSUME NEW j \in Jobs, CommitBatch(j) PROVE PostedFor(n)'
    BY <2>1, <2>6, CommitBatchPosted
  <2>7. ASSUME NEW j \in Jobs, CommitLetter(j) \/ BreaksOff(j), job[j].step = "letter"
        PROVE  PostedFor(n)'
    <3>1. MailedOf(n)' = MailedOf(n)
      BY <2>7, LetterEnds
    <3>2. rows' = rows /\ past'.gone = past.gone
      BY <2>7 DEF CommitLetter, BreaksOff, Formed, Typed
    <3>3. Created(n)' = Created(n)
      BY <3>2 DEF Created
    <3>4. QED
      BY <2>4, <3>1, <3>3
  <2>8. \A j \in Jobs : CommitLetter(j) => job[j].step = "letter"
    BY DEF CommitLetter
  <2>9. QED
    BY <2>4, <2>5, <2>6, <2>7, <2>8, OtherPosted
<1>2. QED
  BY <1>1 DEF Posted, PostedFor

(* For every number of users and handlers: no letter without its row, and  *)
(* for whoever never touched the settings a letter with every row, unless  *)
(* the handler breaks off between the two commits.                         *)
THEOREM LettersAlwaysComeWithRows == Spec => []LettersComeWithRows
<1>1. Init => Formed /\ Remembered /\ Posted
  BY InitFormed, InitRemembered, InitPosted
<1>2. (Formed /\ Remembered /\ Posted) /\ [Next]_vars => (Formed /\ Remembered /\ Posted)'
  BY StepFormed, StepRemembered, StepPosted
<1>3. Formed /\ Remembered /\ Posted => LettersComeWithRows
  <2>1. ASSUME Formed
        PROVE  \A n \in DOMAIN rows \cup DOMAIN letters \cup DOMAIN past.gone : n \in Notices
    BY <2>1, BagMember DEF Formed, Typed
  <2>2. QED
    BY <2>1 DEF Posted, MailedOf, LettersComeWithRows
<1>4. QED
  BY <1>1, <1>2, <1>3, PTL DEF Spec

-----------------------------------------------------------------------------
(* Warnings.                                                               *)

LEMMA StepMarks ==
  ASSUME Formed, [Next]_vars
  PROVE  /\ past'.laps = past.laps \/ \E j \in Jobs : QueryBidders(j)
         /\ past'.warned = past.warned \/ \E j \in Jobs : SetFlag(j)
         /\ past'.late = past.late \/ \E j \in Jobs : complete_auction(j)
<1>1. past \in [gone : NoticeBags, dropped : NoticeBags, saves : [Users -> Nat], bids : Nat,
                warnings : Nat, subs : 0 .. MaxSubs, laps : Nat, warned : SUBSET Users,
            late : Nat]
  BY DEF Formed, Typed
<1>2. CASE past' = past
  BY <1>2
<1>3. CASE delete_notification
  BY <1>1, <1>3 DEF delete_notification
<1>4. ASSUME NEW j \in Jobs,
             \/ place_bid(j) \/ WakeToWarn(j)
             \/ update_notification_settings(j) \/ subscribe(j) \/ BreaksOff(j)
      PROVE  past'.laps = past.laps /\ past'.warned = past.warned /\ past'.late = past.late
  <2>1. CASE place_bid(j)
    BY <1>1, <2>1 DEF place_bid
  <2>2. CASE WakeToWarn(j)
    BY <1>1, <2>2 DEF WakeToWarn
  <2>3. CASE update_notification_settings(j)
    BY <1>1, <2>3 DEF update_notification_settings
  <2>4. CASE subscribe(j)
    BY <1>1, <2>4 DEF subscribe
  <2>5. CASE BreaksOff(j)
    BY <1>1, <2>5 DEF BreaksOff
  <2>6. QED
    BY <1>4, <2>1, <2>2, <2>3, <2>4, <2>5
<1>5. ASSUME NEW j \in Jobs, QueryBidders(j)
      PROVE  past'.warned = past.warned /\ past'.late = past.late
  BY <1>1, <1>5 DEF QueryBidders
<1>6. ASSUME NEW j \in Jobs, SetFlag(j)
      PROVE  past'.laps = past.laps /\ past'.late = past.late
  BY <1>1, <1>6 DEF SetFlag
<1>a. ASSUME NEW j \in Jobs, complete_auction(j)
      PROVE  past'.laps = past.laps /\ past'.warned = past.warned
  BY <1>1, <1>a DEF complete_auction
<1>7. QED
  BY <1>a, <1>2, <1>3, <1>4, <1>5, <1>6, Frame

AboutToWarn(q, u) == q.op = "warn" /\ q.step = "batch" /\ \E p \in q.batch : p.user = u

LEMMA WarnsMembers ==
  ASSUME NEW u
  PROVE  /\ \A j \in Jobs : j \in Warns(u) <=> AboutToWarn(job[j], u)
         /\ Warns(u) \subseteq Jobs
         /\ IsFiniteSet(Warns(u)) /\ Cardinality(Warns(u)) \in Nat
<1>1. Warns(u) \subseteq Jobs
  BY DEF Warns
<1>2. IsFiniteSet(Warns(u))
  BY <1>1, JobsAssumption, FS_Subset
<1>3. Cardinality(Warns(u)) \in Nat
  BY <1>2, FS_CardinalityType
<1>4. QED
  BY <1>1, <1>2, <1>3 DEF Warns, AboutToWarn

LEMMA WarnsNext ==
  ASSUME NEW u
  PROVE  /\ \A j \in Jobs : j \in Warns(u)' <=> AboutToWarn(job'[j], u)
         /\ Warns(u)' \subseteq Jobs
BY DEF Warns, AboutToWarn

LEMMA OnlyQueryWarns ==
  ASSUME Formed, NEW j \in Jobs, Acts(j), job'[j].op = "warn", job'[j].step = "batch"
  PROVE  QueryBidders(j)
<1>1. Idle.step = "idle"
  BY DEF Idle
<1>2. ~ (place_bid(j) \/ buy_now(j) \/ create_auction(j) \/ WakeToSettle(j) \/ complete_auction(j))
  BY <1>1, AfterBid, AfterBuy, AfterCreate, AfterTick, AfterSettle
<1>3. ~ (WakeToWarn(j) \/ QuerySubscribers(j))
  BY <1>1, AfterWake, AfterQuerySubscribers
<1>4. ~ (Look(j) \/ CommitRow(j) \/ CommitLetter(j) \/ CommitBatch(j))
  BY <1>1, AfterLook, AfterCommitRow, AfterCommitLetter, AfterCommitBatch
<1>5. ~ (StartSettings(j) \/ StartSubscribe(j) \/ StartUnsubscribe(j) \/ Ends(j))
  BY <1>1, AfterStartSettings, AfterSubscribe, AfterEnd
<1>6. QED
  BY <1>2, <1>3, <1>4, <1>5 DEF Acts, Ends

(* Only a warning's commit writes warnings, and it is one of Warns.        *)
LEMMA StepWarningRows ==
  ASSUME Formed, [Next]_vars, NEW u \in Users
  PROVE  \/ Copies(Warning(u), rows') <= Copies(Warning(u), rows)
         \/ /\ Copies(Warning(u), rows') = Copies(Warning(u), rows) + 1
            /\ \E j \in Warns(u) : CommitBatch(j)
<1>1. Copies(Warning(u), rows) \in Nat
  BY CreatedNat
<1>2. CASE rows' = rows
  BY <1>1, <1>2
<1>3. CASE delete_notification
  <2>1. PICK m : \A n : Copies(n, rows') = Copies(n, rows) - One(n = m)
    BY <1>3, DeleteRows
  <2>2. QED
    BY <1>1, <2>1 DEF One
<1>4. ASSUME NEW j \in Jobs, CommitRow(j)
      PROVE  Copies(Warning(u), rows') <= Copies(Warning(u), rows)
  <2>1. Notice(Head(job[j].todo)) # Warning(u)
    BY <1>4, AtNotice DEF CommitRow, Notice, Warning, OneByOne
  <2>2. Copies(Warning(u), rows')
          = Copies(Warning(u), rows) + (IF Notice(Head(job[j].todo)) = Warning(u) THEN 1 ELSE 0)
    BY <1>4, CommitRowRows DEF One
  <2>3. QED
    BY <1>1, <2>1, <2>2
<1>5. ASSUME NEW j \in Jobs, CommitBatch(j)
      PROVE  \/ Copies(Warning(u), rows') <= Copies(Warning(u), rows)
             \/ /\ Copies(Warning(u), rows') = Copies(Warning(u), rows) + 1
                /\ j \in Warns(u)
  <2>1. PICK any \in BOOLEAN : any <=> \E p \in job[j].batch : Notice(p) = Warning(u)
    OBVIOUS
  <2>2. Copies(Warning(u), rows') = Copies(Warning(u), rows) + (IF any THEN 1 ELSE 0)
    BY <1>5, <2>1, CommitBatchRows DEF One
  <2>3. ASSUME any PROVE j \in Warns(u)
    <3>1. PICK p \in job[j].batch : Notice(p) = Warning(u)
      BY <2>1, <2>3
    <3>2. p.user = u /\ p.type = "AUCTION_ENDING"
      BY <3>1 DEF Notice, Warning
    <3>3. job[j].op = "warn" /\ job[j].step = "batch"
      BY <1>5, <3>1, <3>2, AfterCommitBatch DEF Formed, Shaped, SettledTypes
    <3>4. QED
      BY <3>1, <3>2, <3>3 DEF Warns
  <2>4. QED
    BY <1>1, <2>2, <2>3
<1>6. QED
  BY <1>2, <1>3, <1>4, <1>5, Frame

LEMMA InitWarnings == Init => Warnings
<1> SUFFICES ASSUME Init, NEW u \in Users
             PROVE  Copies(Warning(u), rows) + Cardinality(Warns(u)) <= 1 + past.laps
  BY DEF Warnings
<1>1. Copies(Warning(u), rows) = 0 /\ past.laps = 0
  BY EmptyIsBag DEF Init
<1>2. Warns(u) = {}
  BY DEF Init, Idle, Warns
<1>3. QED
  BY <1>1, <1>2, FS_EmptySet

LEMMA StepWarnings ==
  ASSUME Formed, Warnings, [Next]_vars
  PROVE  Warnings'
<1> SUFFICES ASSUME NEW u \in Users
             PROVE  Copies(Warning(u), rows') + Cardinality(Warns(u)') <= 1 + past'.laps
  BY DEF Warnings, Warning
<1>1. PICK S, T, c, d : /\ S = Warns(u) /\ T = Warns(u)'
                        /\ c = Copies(Warning(u), rows) /\ d = Copies(Warning(u), rows')
  OBVIOUS
<1>2. /\ S \subseteq Jobs /\ T \subseteq Jobs /\ IsFiniteSet(S) /\ Cardinality(S) \in Nat
      /\ \A k \in Jobs : k \in S <=> AboutToWarn(job[k], u)
      /\ \A k \in Jobs : k \in T <=> AboutToWarn(job'[k], u)
  BY <1>1, WarnsMembers, WarnsNext
<1>3. c \in Nat /\ d \in Nat /\ past.laps \in Nat /\ past'.laps \in Nat
  BY <1>1, CopiesNat, StepRows, StepPast DEF Formed, Typed, PastTyped
<1>4. c + Cardinality(S) <= 1 + past.laps
  BY <1>1 DEF Warnings
<1>5. ASSUME NEW j \in Jobs, QueryBidders(j)
      PROVE  d + Cardinality(T) <= 1 + past'.laps
  <2>1. d = c /\ \A k \in Jobs : k # j => job'[k] = job[k]
    BY <1>1, <1>5 DEF QueryBidders, Become, Formed, Typed
  <2>2. j \notin S
    BY <1>2, <1>5, AfterQueryBidders DEF AboutToWarn
  <2>3. CASE j \in T
    <3>1. T = S \cup {j}
      BY <1>2, <2>1, <2>3
    <3>2. Cardinality(T) = Cardinality(S) + 1
      BY <1>2, <2>2, <3>1, FS_AddElement
    <3>3. u \notin AlreadyNotified
      <4>1. PICK p \in job'[j].batch : p.user = u
        BY <1>2, <2>3 DEF AboutToWarn
      <4>2. PICK v \in UsersToWarn \ AlreadyNotified : p = Payload(v, "AUCTION_ENDING", 0, 0)
        BY <1>5, <4>1, AfterQueryBidders
      <4>3. QED
        BY <4>1, <4>2 DEF Payload
    <3>4. c = 0
      BY <1>1, <1>3, <3>3 DEF AlreadyNotified
    <3>5. PICK rivals : /\ rivals = {k \in Jobs \ {j} : job[k].op = "warn" /\ job[k].step = "batch"}
                        /\ past' = [past EXCEPT !.laps = IF rivals = {} THEN @ ELSE @ + 1]
      BY <1>5 DEF QueryBidders
    <3>6. CASE rivals = {}
      <4>1. S = {}
        BY <1>2, <2>2, <3>5, <3>6 DEF AboutToWarn
      <4>2. Cardinality(T) = 1
        BY <3>2, <4>1, FS_EmptySet
      <4>3. QED
        BY <1>3, <2>1, <3>4, <4>2
    <3>7. CASE rivals # {}
      <4>1. past'.laps = past.laps + 1
        BY <3>5, <3>7 DEF Formed, Typed
      <4>2. QED
        BY <1>2, <1>3, <1>4, <2>1, <3>2, <4>1
    <3>8. QED
      BY <3>6, <3>7
  <2>4. CASE j \notin T
    <3>1. T = S
      BY <1>2, <2>1, <2>2, <2>4
    <3>2. past'.laps >= past.laps
      <4>1. PICK rivals : past' = [past EXCEPT !.laps = IF rivals = {} THEN @ ELSE @ + 1]
        BY <1>5 DEF QueryBidders
      <4>2. past'.laps = past.laps \/ past'.laps = past.laps + 1
        BY <4>1 DEF Formed, Typed
      <4>3. QED
        BY <1>3, <4>2
    <3>3. QED
      BY <1>2, <1>3, <1>4, <2>1, <3>1, <3>2
  <2>5. QED
    BY <2>3, <2>4
<1>6. ASSUME \A j \in Jobs : ~ QueryBidders(j)
      PROVE  d + Cardinality(T) <= 1 + past'.laps
  <2>1. past'.laps = past.laps
    BY <1>6, StepMarks
  <2>2. T \subseteq S
    <3>1. ASSUME NEW k \in T PROVE k \in S
      <4>1. job'[k] = job[k] \/ Acts(k)
        BY <1>2, OneActs
      <4>2. job'[k].op = "warn" /\ job'[k].step = "batch"
        BY <1>2, <3>1 DEF AboutToWarn
      <4>3. job'[k] = job[k]
        BY <1>2, <1>6, <4>1, <4>2, OnlyQueryWarns
      <4>4. QED
        BY <1>2, <3>1, <4>3
    <3>2. QED
      BY <3>1
  <2>3. Cardinality(T) \in Nat /\ Cardinality(T) <= Cardinality(S)
    BY <1>2, <2>2, FS_Subset, FS_CardinalityType
  <2>4. CASE d <= c
    BY <1>2, <1>3, <1>4, <2>1, <2>3, <2>4
  <2>5. CASE d = c + 1 /\ \E j \in S : CommitBatch(j)
    <3>1. PICK j \in S : CommitBatch(j)
      BY <2>5
    <3>2. j \notin T
      BY <1>2, <3>1, AfterCommitBatch DEF AboutToWarn, Idle
    <3>3. /\ IsFiniteSet(S \ {j}) /\ Cardinality(S \ {j}) = Cardinality(S) - 1
      BY <1>2, <3>1, FS_RemoveElement
    <3>4. Cardinality(T) <= Cardinality(S) - 1
      BY <2>2, <3>2, <3>3, FS_Subset
    <3>5. QED
      BY <1>2, <1>3, <1>4, <2>1, <2>3, <2>5, <3>4
  <2>6. QED
    BY <1>1, <2>4, <2>5, StepWarningRows
<1>7. QED
  BY <1>1, <1>5, <1>6

(* What the flag vouches for.                                              *)
LEMMA CreatedStays ==
  ASSUME Formed, [Next]_vars, NEW u, Warned(u)
  PROVE  Warned(u)'
<1>1. Created(Warning(u)) \in Nat /\ Created(Warning(u)) > 0
  BY CreatedNat DEF Warned
<1>2. PICK n : n = Warning(u)
  OBVIOUS
<1>3. Created(n)' \in Nat /\ Created(n)' >= Created(n)
  BY CreatedGrows
<1>4. Created(n)' > 0
  BY <1>1, <1>2, <1>3
<1>5. QED
  BY <1>2, <1>4 DEF Warned, Created, Warning

(* The notices of a warning's batch.                                       *)
LEMMA WarnedByBatch ==
  ASSUME Formed, NEW j \in Jobs, CommitBatch(j), job[j].op = "warn", NEW p \in job[j].batch
  PROVE  Warned(p.user)'
<1>1. PICK u, n : u = p.user /\ n = Notice(p)
  OBVIOUS
<1>2. n = Warning(u)
  BY <1>1 DEF Formed, Shaped, Notice, Warning
<1>3. Created(n)' = Created(n) + 1
  <2>1. \E q \in job[j].batch : Notice(q) = n
    BY <1>1
  <2>2. QED
    BY <2>1, CommitBatchCreated DEF BatchCommitted
<1>4. Created(n)' > 0
  BY <1>3, CreatedNat
<1>5. Warned(u)'
  BY <1>2, <1>4 DEF Warned, Created, Warning
<1>6. QED
  BY <1>1, <1>5

LEMMA AudienceSteps ==
  ASSUME Formed, NEW j \in Jobs, Acts(j), job'[j].op = "warn", job'[j].step \in {"batch", "flag"}
  PROVE  QueryBidders(j) \/ CommitBatch(j)
<1>1. Idle.step = "idle"
  BY DEF Idle
<1>2. ~ (place_bid(j) \/ buy_now(j) \/ create_auction(j) \/ WakeToSettle(j) \/ complete_auction(j))
  BY <1>1, AfterBid, AfterBuy, AfterCreate, AfterTick, AfterSettle
<1>3. ~ (WakeToWarn(j) \/ QuerySubscribers(j))
  BY <1>1, AfterWake, AfterQuerySubscribers
<1>4. ~ (Look(j) \/ CommitRow(j) \/ CommitLetter(j))
  BY <1>1, AfterLook, AfterCommitRow, AfterCommitLetter
<1>5. ~ (StartSettings(j) \/ StartSubscribe(j) \/ StartUnsubscribe(j) \/ Ends(j))
  BY <1>1, AfterStartSettings, AfterSubscribe, AfterEnd
<1>6. QED
  BY <1>2, <1>3, <1>4, <1>5 DEF Acts, Ends

LEMMA InitAudiences == Init => Audiences
BY DEF Init, Idle, Audiences

LEMMA StepAudiences ==
  ASSUME Formed, Audiences, [Next]_vars
  PROVE  Audiences'
<1>1. ASSUME NEW u \in past'.warned
      PROVE  Warned(u)'
  <2>1. CASE u \in past.warned
    BY <2>1, CreatedStays DEF Audiences
  <2>2. CASE u \notin past.warned
    <3>1. PICK j \in Jobs : SetFlag(j)
      BY <1>1, <2>2, StepMarks
    <3>2. u \in job[j].audience
      BY <1>1, <2>2, <3>1 DEF SetFlag, Formed, Typed
    <3>3. job[j].step = "flag" /\ job[j].op = "warn" /\ job[j].batch = {}
      BY <3>1 DEF SetFlag, Formed, Shaped
    <3>4. Warned(u)
      BY <3>2, <3>3 DEF Audiences
    <3>5. QED
      BY <3>4, CreatedStays
  <2>3. QED
    BY <2>1, <2>2
<1>2. ASSUME NEW k \in Jobs, job'[k].op = "warn", job'[k].step \in {"batch", "flag"},
             NEW u \in job'[k].audience
      PROVE  Warned(u)' \/ \E p \in job'[k].batch : p.user = u
  <2>1. CASE job'[k] = job[k]
    <3>1. Warned(u) \/ \E p \in job[k].batch : p.user = u
      BY <1>2, <2>1 DEF Audiences
    <3>2. QED
      BY <2>1, <3>1, CreatedStays
  <2>2. CASE QueryBidders(k)
    <3>1. u \in auction.bidders /\ u \in Users
      BY <1>2, <2>2, AfterQueryBidders DEF Formed, Typed
    <3>2. CASE u \in AlreadyNotified
      <4>1. Copies(Warning(u), rows) > 0
        BY <3>2 DEF AlreadyNotified
      <4>2. Warned(u)
        BY <4>1, CreatedNat DEF Warned, Created
      <4>3. QED
        BY <4>2, CreatedStays
    <3>3. CASE u \notin AlreadyNotified
      <4>1. Payload(u, "AUCTION_ENDING", 0, 0) \in job'[k].batch
        BY <2>2, <3>1, <3>3, AfterQueryBidders DEF UsersToWarn
      <4>2. Payload(u, "AUCTION_ENDING", 0, 0).user = u
        BY DEF Payload
      <4>3. QED
        BY <4>1, <4>2
    <3>4. QED
      BY <3>2, <3>3
  <2>3. CASE CommitBatch(k)
    <3>1. /\ job[k].op = "warn" /\ job[k].step = "batch" /\ u \in job[k].audience
      BY <1>2, <2>3, AfterCommitBatch DEF Idle
    <3>2. Warned(u) \/ \E p \in job[k].batch : p.user = u
      BY <3>1 DEF Audiences
    <3>3. QED
      BY <2>3, <3>1, <3>2, CreatedStays, WarnedByBatch
  <2>4. QED
    BY <1>2, <2>1, <2>2, <2>3, AudienceSteps, OneActs
<1>3. QED
  BY <1>1, <1>2 DEF Audiences

-----------------------------------------------------------------------------
(* New lots.                                                               *)

LEMMA PostSteps ==
  ASSUME Formed, NEW j \in Jobs, Acts(j), job'[j].op = "post"
  PROVE  \/ create_auction(j)
         \/ QuerySubscribers(j) /\ job[j].op = "post" /\ job'[j].sub = job[j].sub
<1>1. Idle.op = "idle"
  BY DEF Idle
<1>2. ~ (place_bid(j) \/ buy_now(j) \/ WakeToSettle(j) \/ complete_auction(j) \/ WakeToWarn(j)
         \/ QueryBidders(j))
  BY <1>1, AfterBid, AfterBuy, AfterTick, AfterSettle, AfterWake, AfterQueryBidders
<1>3. ~ (Look(j) \/ CommitRow(j) \/ CommitLetter(j) \/ CommitBatch(j))
  BY <1>1, AfterLook, AfterCommitRow, AfterCommitLetter, AfterCommitBatch
<1>4. ~ (StartSettings(j) \/ StartSubscribe(j) \/ StartUnsubscribe(j) \/ Ends(j))
  BY <1>1, AfterStartSettings, AfterSubscribe, AfterEnd
<1>5. create_auction(j) \/ QuerySubscribers(j)
  BY <1>2, <1>3, <1>4 DEF Acts, Ends
<1>6. QED
  BY <1>1, <1>5, AfterQuerySubscribers

(* Only the handler of a lot writes its notices, and then it is done.      *)
LEMMA StepNewLotRows ==
  ASSUME Formed, [Next]_vars, NEW u \in Users, NEW l
  PROVE  \/ Created(NewLot(u, l))' = Created(NewLot(u, l))
         \/ /\ Created(NewLot(u, l))' = Created(NewLot(u, l)) + 1
            /\ \E j \in Jobs : /\ job[j].op = "post" /\ job[j].sub = l
                               /\ job'[j] = Idle /\ lots' = lots
                               /\ \A k \in Jobs : k # j => job'[k] = job[k]
<1>1. PICK n : n = NewLot(u, l)
  OBVIOUS
<1>2. Created(n) \in Nat
  BY CreatedNat
<1>3. CASE \A m : Created(m)' = Created(m)
  BY <1>3
<1>4. ASSUME NEW j \in Jobs, CommitRow(j)
      PROVE  Created(n)' = Created(n)
  <2>1. Notice(Head(job[j].todo)) # n
    BY <1>1, <1>4, AtNotice DEF CommitRow, Notice, NewLot, OneByOne
  <2>2. QED
    BY <1>2, <1>4, <2>1, CommitRowCreated DEF RowCommitted
<1>5. ASSUME NEW j \in Jobs, CommitBatch(j)
      PROVE  \/ Created(n)' = Created(n)
             \/ /\ Created(n)' = Created(n) + 1
                /\ job[j].op = "post" /\ job[j].sub = l
                /\ job'[j] = Idle /\ lots' = lots
                /\ \A k \in Jobs : k # j => job'[k] = job[k]
  <2>1. CASE \E p \in job[j].batch : Notice(p) = n
    <3>1. PICK p \in job[j].batch : Notice(p) = n
      BY <2>1
    <3>2. p.type = "NEW_LOT" /\ p.lot = l
      BY <1>1, <3>1 DEF Notice, NewLot
    <3>3. job[j].op \in {"post", "settle", "warn"}
      BY <1>5, AfterCommitBatch
    <3>4. job[j].op = "post" /\ job[j].sub = l
      BY <3>1, <3>2, <3>3 DEF Formed, Shaped, SettledTypes
    <3>5. job'[j] = Idle
      BY <1>5, <3>4, AfterCommitBatch
    <3>6. lots' = lots /\ \A k \in Jobs : k # j => job'[k] = job[k]
      BY <1>5 DEF CommitBatch, Become, Finish, Formed, Typed
    <3>7. Created(n)' = Created(n) + 1
      BY <1>5, <2>1, CommitBatchCreated DEF BatchCommitted
    <3>8. QED
      BY <3>4, <3>5, <3>6, <3>7
  <2>2. CASE ~ \E p \in job[j].batch : Notice(p) = n
    BY <1>2, <1>5, <2>2, CommitBatchCreated DEF BatchCommitted
  <2>3. QED
    BY <2>1, <2>2
<1>6. \/ Created(n)' = Created(n)
      \/ /\ Created(n)' = Created(n) + 1
         /\ \E j \in Jobs : /\ job[j].op = "post" /\ job[j].sub = l
                            /\ job'[j] = Idle /\ lots' = lots
                            /\ \A k \in Jobs : k # j => job'[k] = job[k]
  BY <1>3, <1>4, <1>5, StepCreated
<1>7. Created(NewLot(u, l))' = Created(n)'
  BY <1>1 DEF Created, NewLot
<1>8. QED
  BY <1>1, <1>6, <1>7

LEMMA InitNewLots == Init => NewLots
<1> SUFFICES ASSUME Init PROVE NewLots
  OBVIOUS
<1>1. \A n : Created(n) = 0
  BY EmptyIsBag DEF Init, Created
<1>2. \A j \in Jobs : job[j].op # "post"
  BY DEF Init, Idle
<1>3. QED
  BY <1>1, <1>2 DEF NewLots

LEMMA StepNewLots ==
  ASSUME Formed, NewLots, [Next]_vars
  PROVE  NewLots'
<1>1. lots \in 0 .. MaxLots /\ lots' \in 0 .. MaxLots /\ lots' >= lots /\ MaxLots \in Nat
  BY StepAuction, BoundsAssumption DEF Formed, Typed
<1>2. ASSUME NEW u \in Users, NEW l \in 1 .. MaxLots
      PROVE  Created(NewLot(u, l))' <= IF l <= lots' THEN 1 ELSE 0
  <2>1. Created(NewLot(u, l)) \in Nat
    BY CreatedNat
  <2>2. Created(NewLot(u, l)) <= IF l <= lots THEN 1 ELSE 0
    BY DEF NewLots
  <2>3. CASE Created(NewLot(u, l))' = Created(NewLot(u, l))
    BY <1>1, <2>1, <2>2, <2>3
  <2>4. CASE /\ Created(NewLot(u, l))' = Created(NewLot(u, l)) + 1
             /\ \E j \in Jobs : job[j].op = "post" /\ job[j].sub = l
    <3>1. Created(NewLot(u, l)) = 0 /\ l <= lots
      BY <2>4 DEF NewLots
    <3>2. QED
      BY <1>1, <2>4, <3>1
  <2>5. QED
    BY <2>3, <2>4, StepNewLotRows
<1>3. ASSUME NEW k \in Jobs, job'[k].op = "post", NEW l, l = job'[k].sub
      PROVE  l <= lots' /\ \A u \in Users : Created(NewLot(u, l))' = 0
  <2>2. CASE job[k].op = "post" /\ job[k].sub = l
    <3>1. l \in 1 .. MaxLots /\ l <= lots
      BY <2>2 DEF Formed, Shaped, NewLots
    <3>2. ASSUME NEW u \in Users PROVE Created(NewLot(u, l))' = 0
      <4>1. Created(NewLot(u, l)) = 0
        BY <2>2 DEF NewLots
      <4>2. ASSUME NEW j \in Jobs, job[j].op = "post", job[j].sub = l, job'[j] = Idle
            PROVE  FALSE
        <5>1. j = k
          BY <2>2, <4>2 DEF NewLots
        <5>2. QED
          BY <1>3, <4>2, <5>1 DEF Idle
      <4>3. QED
        BY <4>1, <4>2, StepNewLotRows
    <3>3. QED
      BY <1>1, <3>1, <3>2
  <2>3. CASE create_auction(k)
    <3>1. l = lots + 1 /\ lots' = lots + 1 /\ lots < MaxLots
      BY <1>3, <2>3, AfterCreate DEF create_auction
    <3>2. l \in 1 .. MaxLots /\ ~ (l <= lots)
      BY <1>1, <3>1
    <3>3. ASSUME NEW u \in Users PROVE Created(NewLot(u, l))' = 0
      <4>1. Created(NewLot(u, l)) = 0
        BY <3>2, CreatedNat DEF NewLots
      <4>2. lots' # lots
        BY <1>1, <3>1
      <4>3. QED
        BY <4>1, <4>2, StepNewLotRows
    <3>4. QED
      BY <1>1, <3>1, <3>3
  <2>4. QED
    BY <1>3, <2>2, <2>3, PostSteps, OneActs
<1>4. ASSUME NEW j \in Jobs, NEW k \in Jobs, job'[j].op = "post", job'[k].op = "post",
             job'[k].sub = job'[j].sub
      PROVE  k = j
  <2>1. \A i \in Jobs : job[i].op = "post" => job[i].sub <= lots /\ job[i].sub \in Nat
    BY DEF NewLots, Formed, Shaped
  <2>2. \A i \in Jobs : job'[i].op = "post" =>
          \/ create_auction(i)
          \/ job[i].op = "post" /\ job'[i].sub = job[i].sub
    BY PostSteps, OneActs
  <2>3. CASE create_auction(j) \/ create_auction(k)
    <3>1. ASSUME NEW i \in Jobs, NEW h \in Jobs, create_auction(i), job'[h].op = "post",
                 job'[h].sub = job'[i].sub, h # i
          PROVE  FALSE
      <4>1. job'[h] = job[h]
        BY <3>1 DEF create_auction, Become, Formed, Typed
      <4>2. job'[i].sub = lots + 1
        BY <3>1, AfterCreate
      <4>3. QED
        BY <1>1, <2>1, <3>1, <4>1, <4>2
    <3>2. QED
      BY <1>4, <2>3, <3>1
  <2>4. CASE ~ (create_auction(j) \/ create_auction(k))
    BY <1>4, <2>2, <2>4 DEF NewLots
  <2>5. QED
    BY <2>3, <2>4
<1>5. \A u \in Users, l \in 1 .. MaxLots :
        Created(NewLot(u, l))' <= IF l <= lots' THEN 1 ELSE 0
  BY <1>2
<1>6. ASSUME NEW j \in Jobs, job'[j].op = "post"
      PROVE  /\ job'[j].sub <= lots'
             /\ \A u \in Users : Copies(NewLot(u, job'[j].sub), rows')
                                   + Copies(NewLot(u, job'[j].sub), past'.gone) = 0
  <2>1. PICK l : l = job'[j].sub
    OBVIOUS
  <2>2. l <= lots' /\ \A u \in Users : Created(NewLot(u, l))' = 0
    BY <1>3, <1>6, <2>1
  <2>3. \A u \in Users : Created(NewLot(u, l))' = Copies(NewLot(u, l), rows')
                                                 + Copies(NewLot(u, l), past'.gone)
    BY DEF Created, NewLot
  <2>4. QED
    BY <2>1, <2>2, <2>3
<1>7. \A u \in Users, l \in 1 .. MaxLots :
        Copies(NewLot(u, l), rows') + Copies(NewLot(u, l), past'.gone)
          <= IF l <= lots' THEN 1 ELSE 0
  BY <1>5 DEF Created, NewLot
<1>8. QED
  BY <1>4, <1>6, <1>7 DEF NewLots, Created, NewLot

-----------------------------------------------------------------------------
(* The result.                                                             *)

LEMMA SettleSteps ==
  ASSUME Formed, NEW j \in Jobs, Acts(j), job'[j].op = "settle", job'[j].step = "batch"
  PROVE  complete_auction(j)
<1>1. Idle.op = "idle"
  BY DEF Idle
<1>2. ~ (place_bid(j) \/ buy_now(j) \/ create_auction(j) \/ WakeToSettle(j) \/ WakeToWarn(j)
         \/ QueryBidders(j))
  BY AfterBid, AfterBuy, AfterCreate, AfterTick, AfterWake, AfterQueryBidders
<1>3. ~ (QuerySubscribers(j) \/ Look(j) \/ CommitRow(j) \/ CommitLetter(j) \/ CommitBatch(j))
  BY <1>1, AfterQuerySubscribers, AfterLook, AfterCommitRow, AfterCommitLetter, AfterCommitBatch
<1>4. ~ (StartSettings(j) \/ StartSubscribe(j) \/ StartUnsubscribe(j) \/ Ends(j))
  BY <1>1, AfterStartSettings, AfterSubscribe, AfterEnd
<1>5. QED
  BY <1>2, <1>3, <1>4 DEF Acts, Ends

LEMMA BuySteps ==
  ASSUME Formed, NEW j \in Jobs, Acts(j), job'[j].op = "buy", job'[j].step = "row"
  PROVE  buy_now(j)
<1>1. Idle.op = "idle"
  BY DEF Idle
<1>2. ~ (place_bid(j) \/ create_auction(j) \/ WakeToSettle(j) \/ complete_auction(j)
         \/ WakeToWarn(j) \/ QueryBidders(j))
  BY <1>1, AfterBid, AfterCreate, AfterTick, AfterSettle, AfterWake, AfterQueryBidders
<1>3. ~ (QuerySubscribers(j) \/ CommitRow(j) \/ CommitLetter(j) \/ CommitBatch(j))
  BY <1>1, AfterQuerySubscribers, AfterCommitRow, AfterCommitLetter, AfterCommitBatch
<1>4. ~ Look(j)
  BY AfterLook DEF Look, Formed, Shaped
<1>5. ~ (StartSettings(j) \/ StartSubscribe(j) \/ StartUnsubscribe(j) \/ Ends(j))
  BY <1>1, AfterStartSettings, AfterSubscribe, AfterEnd
<1>6. QED
  BY <1>2, <1>3, <1>4, <1>5 DEF Acts, Ends

(* Nobody bids once it is over.                                            *)
LEMMA LeaderIsFinal ==
  ASSUME Formed, [Next]_vars
  PROVE  \/ /\ auction'.leader = auction.leader /\ auction'.bidders = auction.bidders
            /\ auction'.active => auction.active
         \/ auction.active /\ \E j \in Jobs : place_bid(j)
<1>1. auction \in [leader : Users \cup {NoUser}, bidders : SUBSET Users,
                   active : BOOLEAN, warned : BOOLEAN]
  BY DEF Formed, Typed
<1>2. \A j \in Jobs : place_bid(j) => auction.active
  BY DEF place_bid
<1>3. \A j \in Jobs : buy_now(j) \/ complete_auction(j) => auction' = [auction EXCEPT !.active = FALSE]
  BY DEF buy_now, complete_auction
<1>4. \A j \in Jobs : SetFlag(j) => auction' = [auction EXCEPT !.warned = TRUE]
  BY DEF SetFlag
<1>5. \/ auction' = auction
      \/ auction' = [auction EXCEPT !.active = FALSE]
      \/ auction' = [auction EXCEPT !.warned = TRUE]
      \/ \E j \in Jobs : place_bid(j)
  BY <1>3, <1>4, Frame
<1>6. QED
  BY <1>1, <1>2, <1>5

(* How it ended is written by those about to tell it.                      *)
Commits(j, n) ==
  \/ CommitRow(j)
  \/ CommitBatch(j) /\ j \in Settling /\ \E p \in job[j].batch : Notice(p) = n

LEMMA StepResultRows ==
  ASSUME Formed, [Next]_vars, NEW u \in Users, NEW type \in SettledTypes
  PROVE  \/ Created(Result(u, type))' = Created(Result(u, type))
         \/ /\ Created(Result(u, type))' = Created(Result(u, type)) + 1
            /\ \E j \in Telling : /\ Commits(j, Result(u, type))
                                  /\ CommitRow(j) => type = "AUCTION_SOLD"
<1>1. PICK n : n = Result(u, type)
  OBVIOUS
<1>2. Created(n) \in Nat
  BY CreatedNat
<1>3. CASE \A m : Created(m)' = Created(m)
  BY <1>3
<1>4. ASSUME NEW j \in Jobs, CommitRow(j)
      PROVE  \/ Created(n)' = Created(n)
             \/ Created(n)' = Created(n) + 1 /\ j \in Telling /\ type = "AUCTION_SOLD"
  <2>1. CASE Notice(Head(job[j].todo)) # n
    BY <1>2, <1>4, <2>1, CommitRowCreated DEF RowCommitted
  <2>2. CASE Notice(Head(job[j].todo)) = n
    <3>1. Created(n)' = Created(n) + 1
      BY <1>4, <2>2, CommitRowCreated DEF RowCommitted
    <3>2. Head(job[j].todo).type = type
      BY <1>1, <2>2 DEF Notice, Result
    <3>3. job[j].todo # <<>> /\ job[j].todo \in Seq(Payloads) /\ Shaped(job[j]) /\ job[j].step = "row"
      BY <1>4 DEF CommitRow, Formed, Typed, JobRows, Shaped
    <3>4. 1 \in DOMAIN job[j].todo /\ job[j].todo[1].type = type
      BY <3>2, <3>3, Todo
    <3>5. type = "AUCTION_SOLD"
      BY <3>3, <3>4 DEF Shaped, OneByOne, SettledTypes
    <3>6. job[j].op = "buy"
      BY <3>3, <3>4, <3>5 DEF Shaped
    <3>7. QED
      BY <3>1, <3>3, <3>5, <3>6 DEF Telling
  <2>3. QED
    BY <2>1, <2>2
<1>5. ASSUME NEW j \in Jobs, CommitBatch(j)
      PROVE  \/ Created(n)' = Created(n)
             \/ /\ Created(n)' = Created(n) + 1
                /\ j \in Settling /\ \E p \in job[j].batch : Notice(p) = n
  <2>1. CASE \E p \in job[j].batch : Notice(p) = n
    <3>1. PICK p \in job[j].batch : Notice(p) = n
      BY <2>1
    <3>2. p.type \in SettledTypes
      BY <1>1, <3>1 DEF Notice, Result
    <3>3. job[j].op \in {"post", "settle", "warn"} /\ job[j].step = "batch"
      BY <1>5, AfterCommitBatch
    <3>4. job[j].op = "settle"
      BY <3>1, <3>2, <3>3 DEF Formed, Shaped, SettledTypes
    <3>5. Created(n)' = Created(n) + 1
      BY <1>5, <2>1, CommitBatchCreated DEF BatchCommitted
    <3>6. QED
      BY <2>1, <3>3, <3>4, <3>5 DEF Settling
  <2>2. CASE ~ \E p \in job[j].batch : Notice(p) = n
    BY <1>2, <1>5, <2>2, CommitBatchCreated DEF BatchCommitted
  <2>3. QED
    BY <2>1, <2>2
<1>6. ~ \E j \in Jobs : CommitRow(j) /\ job[j].step = "batch"
  BY DEF CommitRow
<1>7. \/ Created(n)' = Created(n)
      \/ /\ Created(n)' = Created(n) + 1
         /\ \E j \in Telling : Commits(j, n) /\ (CommitRow(j) => type = "AUCTION_SOLD")
  BY <1>3, <1>4, <1>5, <1>6, StepCreated DEF Commits, Settling, Telling
<1>8. Created(Result(u, type))' = Created(n)'
  BY <1>1 DEF Created, Result
<1>9. QED
  BY <1>1, <1>7, <1>8

LEMMA InitResults == Init => Results /\ Tellings
<1> SUFFICES ASSUME Init PROVE Results /\ Tellings
  OBVIOUS
<1>1. \A n : Created(n) = 0
  BY EmptyIsBag DEF Init, Created
<1>2. Settling = {} /\ Telling = {}
  BY DEF Init, Idle, Settling, Telling
<1>3. Cardinality(Telling) = 0 /\ Endings = 0
  BY <1>2, FS_EmptySet DEF Init, Endings
<1>4. QED
  BY <1>1, <1>2, <1>3 DEF Results, NoResults, Tellings

(* What the settlement is about to tell.                                   *)
LEMMA SettlementTells ==
  ASSUME Formed, NEW j \in Jobs, complete_auction(j), job'[j].op = "settle",
         NEW u \in Users, NEW type \in ResultTypes
  PROVE  (\E p \in job'[j].batch : Notice(p) = Result(u, type))
            <=> u \in auction.bidders /\ type = ResultFor(u)
<1>1. PICK B : B = job'[j].batch
  OBVIOUS
<1>2. B = {Payload(v, ResultFor(v), 0, 0) : v \in auction.bidders}
          \cup {Payload(Seller, "AUCTION_SOLD", 0, 0)}
  BY <1>1, AfterSettle DEF Told, Idle
<1>3. \A v : Notice(Payload(v, ResultFor(v), 0, 0)) = Result(v, ResultFor(v))
  BY DEF Notice, Payload, Result
<1>4. Notice(Payload(Seller, "AUCTION_SOLD", 0, 0)) # Result(u, type)
  BY DEF Notice, Payload, Result, ResultTypes
<1>5. \A v : Result(v, ResultFor(v)) = Result(u, type) <=> v = u /\ type = ResultFor(v)
  BY DEF Result
<1>6. (\E p \in B : Notice(p) = Result(u, type))
        <=> \E v \in auction.bidders : Result(v, ResultFor(v)) = Result(u, type)
  BY <1>2, <1>3, <1>4
<1>7. QED
  BY <1>1, <1>5, <1>6

LEMMA StepResults ==
  ASSUME Formed, Results, [Next]_vars
  PROVE  Results'
<1>1. \A u \in Users, type \in ResultTypes :
        Created(Result(u, type)) \in Nat /\ Created(Result(u, type))' \in Nat
  BY CreatedNat, CreatedGrows DEF Created, Result
<1>2. ResultTypes \subseteq SettledTypes /\ "AUCTION_SOLD" \notin ResultTypes
  BY DEF ResultTypes, SettledTypes
<1>3. \A k \in Jobs : job'[k].op = "settle" /\ job'[k].step = "batch"
                        => job'[k] = job[k] \/ complete_auction(k)
  BY SettleSteps, OneActs
<1>4. ASSUME NEW u \in Users, NEW type \in ResultTypes
      PROVE  \/ Created(Result(u, type))' = Created(Result(u, type))
             \/ /\ Created(Result(u, type))' = Created(Result(u, type)) + 1
                /\ u \in auction.bidders /\ type = ResultFor(u)
                /\ \E j \in Settling : CommitBatch(j)
  BY <1>2, StepResultRows DEF Commits, Results
<1>5. CASE auction.active
  <2>1. NoResults /\ Settling = {}
    BY <1>5 DEF Results
  <2>2. NoResults'
    BY <1>4, <2>1 DEF NoResults, Created, Result
  <2>3. \A k \in Jobs : complete_auction(k) => ~ auction'.active
    BY DEF complete_auction, Formed, Typed
  <2>4. \A k \in Settling' : complete_auction(k) /\ job'[k].op = "settle"
    BY <1>3, <2>1 DEF Settling
  <2>5. auction'.active => Settling' = {}
    BY <2>3, <2>4 DEF Settling
  <2>6. ASSUME NEW k \in Settling', NEW u \in Users, NEW type \in ResultTypes
        PROVE  (\E p \in job'[k].batch : Notice(p) = Result(u, type))
                 <=> u \in auction'.bidders /\ type = ResultFor(u)'
    <3>1. k \in Jobs /\ complete_auction(k) /\ job'[k].op = "settle"
      BY <2>4 DEF Settling
    <3>2. auction'.bidders = auction.bidders /\ auction'.leader = auction.leader
      BY <3>1 DEF complete_auction, Formed, Typed
    <3>3. QED
      BY <3>1, <3>2, SettlementTells DEF ResultFor
  <2>7. QED
    BY <2>2, <2>5, <2>6 DEF Results, Result
<1>6. CASE ~ auction.active
  <2>1. /\ auction'.leader = auction.leader /\ auction'.bidders = auction.bidders
        /\ ~ auction'.active
    BY <1>6, LeaderIsFinal, StepAuction DEF AuctionFormed
  <2>2. \A u \in Users : ResultFor(u)' = ResultFor(u)
    BY <2>1 DEF ResultFor
  <2>3. ASSUME AllResults
        PROVE  AllResults'
    <3>1. ASSUME NEW u \in Users, NEW type \in ResultTypes
          PROVE  Created(Result(u, type))' > 0 <=> u \in auction'.bidders /\ type = ResultFor(u)'
      <4>1. PICK c, d : c = Created(Result(u, type)) /\ d = Created(Result(u, type))'
        OBVIOUS
      <4>2. c \in Nat /\ d \in Nat
        BY <1>1, <4>1
      <4>3. c > 0 <=> u \in auction.bidders /\ type = ResultFor(u)
        BY <2>3, <4>1 DEF AllResults
      <4>4. d = c \/ (d = c + 1 /\ u \in auction.bidders /\ type = ResultFor(u))
        BY <1>4, <4>1
      <4>5. d > 0 <=> u \in auction.bidders /\ type = ResultFor(u)
        BY <4>2, <4>3, <4>4
      <4>6. QED
        BY <2>1, <2>2, <4>1, <4>5
    <3>2. QED
      BY <3>1 DEF AllResults, Created, Result
  <2>4. ASSUME NoResults /\ \E j \in Settling : CommitBatch(j)
        PROVE  AllResults'
    <3>1. PICK j \in Settling : CommitBatch(j)
      BY <2>4
    <3>2. ASSUME NEW u \in Users, NEW type \in ResultTypes
          PROVE  Created(Result(u, type))' > 0 <=> u \in auction'.bidders /\ type = ResultFor(u)'
      <4>1. PICK n : n = Result(u, type)
        OBVIOUS
      <4>2. Created(n) = 0
        BY <2>4, <4>1 DEF NoResults
      <4>3. (\E p \in job[j].batch : Notice(p) = n) <=> u \in auction.bidders /\ type = ResultFor(u)
        BY <3>1, <4>1 DEF Results
      <4>4. Created(n)' = 0 + (IF \E p \in job[j].batch : Notice(p) = n THEN 1 ELSE 0)
        BY <3>1, <4>2, CommitBatchCreated DEF BatchCommitted, Settling
      <4>5. Created(n)' > 0 <=> u \in auction.bidders /\ type = ResultFor(u)
        BY <4>3, <4>4
      <4>6. Created(Result(u, type))' = Created(n)'
        BY <4>1 DEF Created, Result
      <4>7. QED
        BY <2>1, <2>2, <4>5, <4>6
    <3>3. QED
      BY <3>2 DEF AllResults, Created, Result
  <2>5. ASSUME NoResults /\ ~ \E j \in Settling : CommitBatch(j)
        PROVE  NoResults'
    <3>1. ASSUME NEW u \in Users, NEW type \in ResultTypes
          PROVE  Created(Result(u, type))' = 0
      <4>1. Created(Result(u, type)) = 0
        BY <2>5 DEF NoResults
      <4>2. Created(Result(u, type))' = Created(Result(u, type))
        BY <1>4, <2>5
      <4>3. QED
        BY <4>1, <4>2
    <3>2. QED
      BY <3>1 DEF NoResults, Created, Result
  <2>6. NoResults' \/ AllResults'
    BY <2>3, <2>4, <2>5 DEF Results
  <2>7. ASSUME NEW k \in Settling', NEW u \in Users, NEW type \in ResultTypes
        PROVE  (\E p \in job'[k].batch : Notice(p) = Result(u, type))
                 <=> u \in auction'.bidders /\ type = ResultFor(u)'
    <3>1. k \in Jobs /\ job'[k].op = "settle" /\ job'[k].step = "batch"
      BY DEF Settling
    <3>2. CASE job'[k] = job[k]
      <4>1. k \in Settling
        BY <3>1, <3>2 DEF Settling
      <4>2. (\E p \in job[k].batch : Notice(p) = Result(u, type))
              <=> u \in auction.bidders /\ type = ResultFor(u)
        BY <4>1 DEF Results
      <4>3. QED
        BY <2>1, <2>2, <3>2, <4>2
    <3>3. CASE complete_auction(k)
      BY <2>1, <2>2, <3>1, <3>3, SettlementTells
    <3>4. QED
      BY <1>3, <3>1, <3>2, <3>3
  <2>8. QED
    BY <2>1, <2>6, <2>7 DEF Results, Result
<1>7. QED
  BY <1>5, <1>6

AboutToTell(q) ==
  \/ q.op = "settle" /\ q.step = "batch"
  \/ q.op = "buy" /\ q.step = "row"

LEMMA TellingMembers ==
  /\ \A j \in Jobs : j \in Telling <=> AboutToTell(job[j])
  /\ Telling \subseteq Jobs
  /\ IsFiniteSet(Telling) /\ Cardinality(Telling) \in Nat
<1>1. Telling \subseteq Jobs
  BY DEF Telling
<1>2. IsFiniteSet(Telling)
  BY <1>1, JobsAssumption, FS_Subset
<1>3. Cardinality(Telling) \in Nat
  BY <1>2, FS_CardinalityType
<1>4. QED
  BY <1>1, <1>2, <1>3 DEF Telling, AboutToTell

(* An ending adds one who tells it.                                        *)
LEMMA StepEndings ==
  ASSUME Formed, [Next]_vars
  PROVE  /\ Endings \in Nat
         /\ \/ /\ Endings' = Endings
               /\ \A j \in Jobs : ~ buy_now(j) /\ ~ complete_auction(j)
            \/ /\ Endings' = Endings + 1 /\ rows' = rows /\ past'.gone = past.gone
               /\ \E j \in Jobs : \A k \in Jobs : k # j => job'[k] = job[k]
<1>1. /\ auction.active \in BOOLEAN /\ past.late \in Nat
      /\ auction \in [leader : Users \cup {NoUser}, bidders : SUBSET Users,
                      active : BOOLEAN, warned : BOOLEAN]
  BY DEF Formed, Typed
<1>2. Endings \in Nat
  BY <1>1 DEF Endings
<1>3. ASSUME NEW j \in Jobs, buy_now(j) \/ complete_auction(j)
      PROVE  /\ Endings' = Endings + 1 /\ rows' = rows /\ past'.gone = past.gone
             /\ \A k \in Jobs : k # j => job'[k] = job[k]
  <2>1. auction'.active = FALSE
    BY <1>1, <1>3 DEF buy_now, complete_auction
  <2>2. past'.late = past.late + (IF auction.active THEN 0 ELSE 1)
    <3>1. CASE buy_now(j)
      BY <1>1, <3>1 DEF buy_now
    <3>2. CASE complete_auction(j)
      BY <1>1, <3>2 DEF complete_auction, Formed, Typed
    <3>3. QED
      BY <1>3, <3>1, <3>2
  <2>3. Endings' = Endings + 1
    BY <1>1, <2>1, <2>2 DEF Endings
  <2>4. rows' = rows /\ past'.gone = past.gone
    BY <1>3 DEF buy_now, complete_auction, Formed, Typed
  <2>5. \A k \in Jobs : k # j => job'[k] = job[k]
    BY <1>3 DEF buy_now, complete_auction, Become, Finish, Formed, Typed
  <2>6. QED
    BY <2>3, <2>4, <2>5
<1>4. ASSUME \A j \in Jobs : ~ buy_now(j) /\ ~ complete_auction(j)
      PROVE  Endings' = Endings
  <2>1. past'.late = past.late
    BY <1>4, StepMarks
  <2>2. \/ auction' = auction
        \/ \E j \in Jobs : place_bid(j) \/ SetFlag(j)
    BY <1>4, Frame
  <2>3. auction'.active = auction.active
    BY <1>1, <2>2 DEF place_bid, SetFlag
  <2>4. QED
    BY <2>1, <2>3 DEF Endings
<1>5. QED
  BY <1>2, <1>3, <1>4

LEMMA StepTellings ==
  ASSUME Formed, Tellings, [Next]_vars
  PROVE  Tellings'
<1> SUFFICES ASSUME NEW u \in Users, NEW type \in SettledTypes
             PROVE  Created(Result(u, type))' + Cardinality(Telling)' <= Endings'
  BY DEF Tellings, Result, Created
<1>1. PICK S, T, c, d : /\ S = Telling /\ T = Telling'
                        /\ c = Created(Result(u, type)) /\ d = Created(Result(u, type))'
  OBVIOUS
<1>2. /\ S \subseteq Jobs /\ T \subseteq Jobs /\ IsFiniteSet(S) /\ Cardinality(S) \in Nat
      /\ \A k \in Jobs : k \in S <=> AboutToTell(job[k])
      /\ \A k \in Jobs : k \in T <=> AboutToTell(job'[k])
  BY <1>1, TellingMembers DEF Telling, AboutToTell
<1>3. c \in Nat /\ d \in Nat /\ Endings \in Nat
  BY <1>1, CreatedNat, CreatedGrows, StepEndings DEF Created, Result
<1>4. c + Cardinality(S) <= Endings
  BY <1>1 DEF Tellings
<1>5. CASE /\ Endings' = Endings + 1 /\ rows' = rows /\ past'.gone = past.gone
           /\ \E j \in Jobs : \A k \in Jobs : k # j => job'[k] = job[k]
  <2>1. PICK j \in Jobs : \A k \in Jobs : k # j => job'[k] = job[k]
    BY <1>5
  <2>2. d = c
    BY <1>1, <1>5 DEF Created, Result
  <2>3. T \subseteq S \cup {j}
    BY <1>2, <2>1
  <2>4. IsFiniteSet(S \cup {j}) /\ Cardinality(S \cup {j}) <= Cardinality(S) + 1
    <3>1. CASE j \in S
      <4>1. S \cup {j} = S
        BY <3>1
      <4>2. Cardinality(S \cup {j}) = Cardinality(S) /\ IsFiniteSet(S \cup {j})
        BY <1>2, <4>1
      <4>3. QED
        BY <1>2, <4>2
    <3>2. CASE j \notin S
      <4>1. IsFiniteSet(S \cup {j}) /\ Cardinality(S \cup {j}) = Cardinality(S) + 1
        BY <1>2, <3>2, FS_AddElement
      <4>2. QED
        BY <1>2, <4>1
    <3>3. QED
      BY <3>1, <3>2
  <2>5. Cardinality(T) \in Nat /\ Cardinality(T) <= Cardinality(S \cup {j})
    BY <2>3, <2>4, FS_Subset, FS_CardinalityType
  <2>6. Cardinality(S \cup {j}) \in Nat
    BY <2>4, FS_CardinalityType
  <2>7. QED
    BY <1>1, <1>2, <1>3, <1>4, <1>5, <2>2, <2>4, <2>5, <2>6
<1>6. CASE Endings' = Endings /\ \A j \in Jobs : ~ buy_now(j) /\ ~ complete_auction(j)
  <2>1. T \subseteq S
    <3>1. ASSUME NEW k \in T PROVE k \in S
      <4>1. job'[k] = job[k] \/ Acts(k)
        BY <1>2, OneActs
      <4>2. AboutToTell(job'[k])
        BY <1>2, <3>1
      <4>3. job'[k] = job[k]
        BY <1>2, <1>6, <4>1, <4>2, SettleSteps, BuySteps DEF AboutToTell
      <4>4. QED
        BY <1>2, <3>1, <4>3
    <3>2. QED
      BY <3>1
  <2>2. Cardinality(T) \in Nat /\ Cardinality(T) <= Cardinality(S)
    BY <1>2, <2>1, FS_Subset, FS_CardinalityType
  <2>3. CASE d = c
    BY <1>1, <1>2, <1>3, <1>4, <1>6, <2>2, <2>3
  <2>4. CASE d = c + 1 /\ \E j \in S : Commits(j, Result(u, type))
    <3>1. PICK j \in S : Commits(j, Result(u, type))
      BY <2>4
    <3>2. j \in Jobs /\ (CommitRow(j) \/ (CommitBatch(j) /\ j \in Settling))
      BY <1>2, <3>1 DEF Commits
    <3>3. j \notin T
      <4>1. CASE CommitRow(j)
        BY <1>2, <3>2, <4>1, AfterCommitRow DEF AboutToTell
      <4>2. CASE CommitBatch(j) /\ j \in Settling
        <5>1. job'[j] = Idle
          BY <3>2, <4>2, AfterCommitBatch DEF Settling
        <5>2. QED
          BY <1>2, <3>2, <5>1 DEF AboutToTell, Idle
      <4>3. QED
        BY <3>2, <4>1, <4>2
    <3>4. IsFiniteSet(S \ {j}) /\ Cardinality(S \ {j}) = Cardinality(S) - 1
      BY <1>2, <3>1, FS_RemoveElement
    <3>5. Cardinality(T) <= Cardinality(S) - 1
      BY <2>1, <3>3, <3>4, FS_Subset
    <3>6. QED
      BY <1>1, <1>2, <1>3, <1>4, <1>6, <2>2, <2>4, <3>5
  <2>5. QED
    BY <1>1, <2>3, <2>4, StepResultRows
<1>7. QED
  BY <1>5, <1>6, StepEndings

-----------------------------------------------------------------------------
(* Nobody is told twice, and nobody is missed.                             *)

ToldInv == Formed /\ Warnings /\ NewLots /\ Results /\ Tellings /\ Audiences

LEMMA AlwaysToldInv == Spec => []ToldInv
<1>1. Init => ToldInv
  BY InitFormed, InitWarnings, InitNewLots, InitResults, InitAudiences DEF ToldInv
<1>2. ToldInv /\ [Next]_vars => ToldInv'
  BY StepFormed, StepWarnings, StepNewLots, StepResults, StepTellings, StepAudiences DEF ToldInv
<1>3. QED
  BY <1>1, <1>2, PTL DEF Spec

(* For every number of users and handlers: nobody is warned again but      *)
(* after deleting the warning or a lap of two timers, nor told how the lot *)
(* ended but once and once for each timer that settles it on a copy from   *)
(* before its end, nor of a new lot twice.                                 *)
THEOREM NobodyToldTwice == Spec => []ToldOnce
<1>1. ToldInv => ToldOnce
  <2> SUFFICES ASSUME ToldInv, NEW u \in Users
               PROVE  /\ Created(Warning(u)) <= 1 + Copies(Warning(u), past.gone) + past.laps
                      /\ Created(Result(u, "AUCTION_WON")) + Created(Result(u, "AUCTION_LOST"))
                           <= 1 + past.late
                      /\ Created(Result(u, "AUCTION_SOLD")) <= 1 + past.late
                      /\ \A l \in 1 .. lots : Created(NewLot(u, l)) <= 1
    BY DEF ToldOnce, Warning, Result, NewLot
  <2>1. Formed /\ Warnings /\ NewLots /\ Results /\ Tellings
    BY DEF ToldInv
  <2>2. Created(Warning(u)) <= 1 + Copies(Warning(u), past.gone) + past.laps
    <3>1. /\ Copies(Warning(u), rows) \in Nat /\ Copies(Warning(u), past.gone) \in Nat
          /\ Cardinality(Warns(u)) \in Nat /\ past.laps \in Nat
      BY <2>1, CreatedNat, WarnsMembers DEF Formed, Typed
    <3>2. Copies(Warning(u), rows) + Cardinality(Warns(u)) <= 1 + past.laps
      BY <2>1 DEF Warnings
    <3>3. QED
      BY <3>1, <3>2 DEF Created
  <2>3. /\ Created(Result(u, "AUCTION_WON")) + Created(Result(u, "AUCTION_LOST")) <= 1 + past.late
        /\ Created(Result(u, "AUCTION_SOLD")) <= 1 + past.late
    <3>1. PICK won, lost, sold, k : /\ won = Created(Result(u, "AUCTION_WON"))
                                    /\ lost = Created(Result(u, "AUCTION_LOST"))
                                    /\ sold = Created(Result(u, "AUCTION_SOLD"))
                                    /\ k = Cardinality(Telling)
      OBVIOUS
    <3>2. won \in Nat /\ lost \in Nat /\ sold \in Nat /\ k \in Nat
      BY <2>1, <3>1, CreatedNat, TellingMembers
    <3>3. past.late \in Nat /\ Endings \in Nat /\ Endings <= 1 + past.late
      BY <2>1 DEF Formed, Typed, Endings
    <3>4. won + k <= Endings /\ lost + k <= Endings /\ sold + k <= Endings
      BY <2>1, <3>1 DEF Tellings, SettledTypes
    <3>5. won = 0 \/ lost = 0
      <4>1. CASE NoResults
        BY <3>1, <4>1 DEF NoResults, ResultTypes
      <4>2. CASE AllResults
        <5>1. ~ (won > 0 /\ lost > 0)
          BY <3>1, <4>2 DEF AllResults, ResultTypes
        <5>2. QED
          BY <3>2, <5>1
      <4>3. QED
        BY <2>1, <4>1, <4>2 DEF Results
    <3>6. won + lost <= 1 + past.late /\ sold <= 1 + past.late
      BY <3>2, <3>3, <3>4, <3>5
    <3>7. QED
      BY <3>1, <3>6
  <2>4. ASSUME NEW l \in 1 .. lots PROVE Created(NewLot(u, l)) <= 1
    <3>1. l \in 1 .. MaxLots /\ l <= lots
      BY <2>1, BoundsAssumption DEF Formed, Typed
    <3>2. QED
      BY <2>1, <3>1 DEF NewLots
  <2>5. QED
    BY <2>2, <2>3, <2>4
<1>2. QED
  BY <1>1, AlwaysToldInv, PTL

(* For every number of users and handlers: once the flag stops the timers, *)
(* all whom they found have been warned; a result reaches all bidders or   *)
(* none, and one has won.                                                  *)
THEOREM NobodyIsMissed == Spec => []NobodyMissed
<1>1. ToldInv => NobodyMissed
  <2> DEFINE told(type) == {u \in Users : Created(Result(u, type)) > 0}
  <2> SUFFICES ASSUME ToldInv
               PROVE  /\ past.warned \subseteq told("AUCTION_ENDING")
                      /\ told("AUCTION_WON") # {} \/ told("AUCTION_LOST") # {} =>
                           /\ told("AUCTION_WON") = {auction.leader}
                           /\ told("AUCTION_LOST") = auction.bidders \ {auction.leader}
    BY DEF NobodyMissed, Result
  <2>1. Formed /\ Results /\ Audiences
    BY DEF ToldInv
  <2>2. past.warned \subseteq told("AUCTION_ENDING")
    <3>1. past.warned \subseteq Users
      BY <2>1 DEF Formed, Typed
    <3>2. \A u \in past.warned : Created(Result(u, "AUCTION_ENDING")) > 0
      BY <2>1 DEF Audiences, Warned, Warning, Result
    <3>3. QED
      BY <3>1, <3>2
  <2>3. ASSUME told("AUCTION_WON") # {} \/ told("AUCTION_LOST") # {}
        PROVE  /\ told("AUCTION_WON") = {auction.leader}
               /\ told("AUCTION_LOST") = auction.bidders \ {auction.leader}
    <3>1. AllResults
      <4>1. ~ NoResults
        BY <2>3 DEF NoResults, ResultTypes
      <4>2. QED
        BY <2>1, <4>1 DEF Results
    <3>2. auction.bidders \subseteq Users
      BY <2>1 DEF Formed, Typed
    <3>3. told("AUCTION_WON") = auction.bidders \cap {auction.leader}
      BY <3>1, <3>2 DEF AllResults, ResultTypes, ResultFor
    <3>4. told("AUCTION_LOST") = auction.bidders \ {auction.leader}
      BY <3>1, <3>2 DEF AllResults, ResultTypes, ResultFor
    <3>5. auction.bidders # {}
      BY <2>3, <3>3, <3>4
    <3>6. auction.leader \in auction.bidders
      BY <2>1, <3>5 DEF Formed, Leads
    <3>7. QED
      BY <3>3, <3>4, <3>6
  <2>4. QED
    BY <2>2, <2>3
<1>2. QED
  BY <1>1, AlwaysToldInv, PTL
=============================================================================
