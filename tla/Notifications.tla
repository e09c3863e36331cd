----------------------------- MODULE Notifications -----------------------------
(***************************************************************************)
(* Who is told what: the rows and letters that handlers write after what   *)
(* they tell about is committed, for one auction and one seller's          *)
(* subscribers, while readers empty their inbox and change their settings. *)
(*                                                                         *)
(* notify_user commits the row, pushes it to the sockets, and commits the  *)
(* letter in a transaction of its own; notify_many commits all its rows    *)
(* and letters at once.  Both decide about the letter on a copy of the     *)
(* recipient that their session has read before.                           *)
(***************************************************************************)
EXTENDS Integers, Sequences, FiniteSetsExt, Bags

CONSTANTS
  Users,
  Seller,
  NoUser,
  Jobs,           \* handlers under way at once
  Workloads,      \* the kinds of handler that run together in an instance
  Wishes,        \* settings a user may ask for, as sets of flags turned off
  MaxBids,        \* bound: bids
  MaxLots,        \* bound: new lots posted
  MaxWarnings,    \* bound: timers that warn
  MaxSaves,       \* bound: changes of settings
  MaxSubs         \* bound: subscriptions

ASSUME SellerAssumption == Seller \in Users /\ NoUser \notin Users
ASSUME JobsAssumption == IsFiniteSet(Jobs)
ASSUME BoundsAssumption == {MaxBids, MaxLots, MaxWarnings, MaxSaves, MaxSubs} \subseteq Nat

(* _EMAIL_OPT_OUT_FLAG *)
Types == {"BID_OUTBID", "AUCTION_WON", "AUCTION_ENDING", "AUCTION_SOLD", "BID_PLACED",
          "AUCTION_LOST", "NEW_LOT"}

OptOutFlag(type) ==
  CASE type = "BID_OUTBID" -> "notify_outbid"
    [] type = "AUCTION_WON" -> "notify_winning"
    [] type = "AUCTION_ENDING" -> "notify_ending"
    [] type = "AUCTION_SOLD" -> "notify_sold"
    [] type = "BID_PLACED" -> "notify_bid_received"
    [] type = "AUCTION_LOST" -> "notify_lost"
    [] type = "NEW_LOT" -> "email_notifications"

Flags == {"email_notifications"} \cup {OptOutFlag(t) : t \in Types}

ASSUME WishesAssumption == Wishes \subseteq SUBSET Flags

VARIABLES
  kinds,          \* the workload of this behaviour
  auction,        \* leader, bidders, is_active and ending_soon_notified
  lots,           \* new lots the seller has posted; 0 is the auction
  subs,           \* the subscriptions of each user to the seller, by row id
  muted,          \* the flags each user has turned off
  rows,           \* notifications, as a bag: what they are about is all we need
  unread,         \* those of them that are not read
  letters,        \* email_outbox, likewise
  job,            \* what each handler is doing
  past            \* history, see Init

vars == <<kinds, auction, lots, subs, muted, rows, unread, letters, job, past>>

(* A notice someone is to get.  via: the subscription it is due to.  off   *)
(* and saves: the recipient's settings as read, and their version.         *)
Payload(u, type, lot, via) ==
  [user |-> u, type |-> type, lot |-> lot, via |-> via, off |-> muted[u], saves |-> past.saves[u]]

Notice(p) == [user |-> p.user, type |-> p.type, lot |-> p.lot]

Copies(n, bag) == IF n \in DOMAIN bag THEN bag[n] ELSE 0

BagOf(P) ==
  [n \in {Notice(p) : p \in P} |-> Cardinality({p \in P : Notice(p) = n})]

(* todo: notices one by one (notify_user); batch: all at once.  audience:  *)
(* the bidders a warning has found.  by, off, saves, ask: who asks, and    *)
(* the settings read and asked for.  sub: the subscription in question.    *)
Idle == [op |-> "idle", step |-> "idle", todo |-> <<>>, batch |-> {}, audience |-> {},
         by |-> NoUser, off |-> {}, saves |-> 0, ask |-> {}, sub |-> 0]

Become(j, new) == job' = [job EXCEPT ![j] = new]
Finish(j) == Become(j, Idle)

(* gone: rows deleted.  dropped: letters lost between the two commits of   *)
(* notify_user.  saves: changes of settings.  laps: warnings that looked   *)
(* for earlier ones while another was about to commit.  warned: those whom *)
(* the timers that set the flag have found.  late: settlements of a lot    *)
(* that had ended since the timer read it.                                 *)
Init ==
  /\ kinds \in Workloads
  /\ \E B \in SUBSET (Users \ {Seller}), l \in Users \cup {NoUser} :
       /\ IF B = {} THEN l = NoUser ELSE l \in B
       /\ auction = [leader |-> l, bidders |-> B, active |-> TRUE, warned |-> FALSE]
  /\ lots = 0
  /\ subs = [u \in Users |-> {}]
  /\ muted = [u \in Users |-> {}]
  /\ rows = EmptyBag /\ unread = EmptyBag /\ letters = EmptyBag
  /\ job = [j \in Jobs |-> Idle]
  /\ past = [gone |-> EmptyBag, dropped |-> EmptyBag, saves |-> [u \in Users |-> 0],
             bids |-> 0, warnings |-> 0, subs |-> 0, laps |-> 0, warned |-> {},
             late |-> 0]

Starts(j, op) == op \in kinds /\ job[j] = Idle

-----------------------------------------------------------------------------
(* notify_user and notify_many.                                            *)

(* _email_enabled, on the copy.                                            *)
EmailEnabledByType(type, off) == OptOutFlag(type) \notin off     \* mutant
EmailEnabled(type, off) ==
  "email_notifications" \notin off /\ OptOutFlag(type) \notin off

Mailed(P) == BagOf({p \in P : EmailEnabled(p.type, p.off)})

Insert(P) ==
  /\ rows' = rows (+) BagOf(P)
  /\ unread' = unread (+) BagOf(P)

(* notify_user: the recipient is read just before, except by buy_now, ...  *)
Look(j) ==
  LET p == Head(job[j].todo)
  IN  /\ job[j].step = "look"
      /\ Become(j, [job[j] EXCEPT !.step = "row",
                                  !.todo[1] = Payload(p.user, p.type, p.lot, p.via)])
      /\ UNCHANGED <<kinds, auction, lots, subs, muted, rows, unread, letters, past>>

(* ... the row is committed, ...                                           *)
CommitRow(j) ==
  /\ job[j].step = "row"
  /\ Insert({Head(job[j].todo)})
  /\ Become(j, [job[j] EXCEPT !.step = "letter"])
  /\ UNCHANGED <<kinds, auction, lots, subs, muted, letters, past>>

(* ... and, the sockets served, the letter in a second commit.             *)
LetterCommittedByNext(todo) == Len(todo) > 1                     \* mutant
LetterCommitted(todo) == TRUE

CommitLetter(j) ==
  LET todo == job[j].todo
  IN  /\ job[j].step = "letter"
      /\ letters' = IF LetterCommitted(todo) THEN letters (+) Mailed({Head(todo)}) ELSE letters
      /\ IF Len(todo) = 1
         THEN Finish(j)
         ELSE Become(j, [job[j] EXCEPT !.step = "look", !.todo = Tail(todo)])
      /\ UNCHANGED <<kinds, auction, lots, subs, muted, rows, unread, past>>

(* notify_many: all rows and letters in one commit, or none.               *)
CommitBatch(j) ==
  /\ job[j].step = "batch"
  /\ Insert(job[j].batch)
  /\ letters' = letters (+) Mailed(job[j].batch)
  /\ IF job[j].op = "warn"
     THEN Become(j, [job[j] EXCEPT !.step = "flag", !.batch = {}])
     ELSE Finish(j)
  /\ UNCHANGED <<kinds, auction, lots, subs, muted, past>>

-----------------------------------------------------------------------------
(* What is told: a bid, a purchase, a new lot.                             *)

(* The bid is committed, with the flag of the warning taken back where it  *)
(* extends the deadline; then the bidder it outbids and the seller hear.   *)
place_bid(j) ==
  \E u \in Users \ {Seller}, extended \in BOOLEAN :
    LET outbid == IF auction.leader = NoUser THEN <<>>
                  ELSE <<Payload(auction.leader, "BID_OUTBID", 0, 0)>>
    IN  /\ Starts(j, "bid")
        /\ auction.active /\ auction.leader # u /\ past.bids < MaxBids
        /\ auction' = [auction EXCEPT !.leader = u, !.bidders = @ \cup {u},
                                       !.warned = @ /\ ~ extended]
        /\ past' = [past EXCEPT !.bids = @ + 1]
        /\ Become(j, [Idle EXCEPT !.op = "bid", !.step = "look",
                                  !.todo = outbid \o <<Payload(Seller, "BID_PLACED", 0, 0)>>])
        /\ UNCHANGED <<kinds, lots, subs, muted, rows, unread, letters>>

(* A BIN lot has no bidders: only its seller hears, read with the locks.   *)
buy_now(j) ==
  /\ Starts(j, "buy")
  /\ auction.active /\ auction.bidders = {}
  /\ auction' = [auction EXCEPT !.active = FALSE]
  /\ Become(j, [Idle EXCEPT !.op = "buy", !.step = "row",
                            !.todo = <<Payload(Seller, "AUCTION_SOLD", 0, 0)>>])
  /\ UNCHANGED <<kinds, lots, subs, muted, rows, unread, letters, past>>

create_auction(j) ==
  /\ Starts(j, "post")
  /\ lots < MaxLots
  /\ lots' = lots + 1
  /\ Become(j, [Idle EXCEPT !.op = "post", !.step = "query", !.sub = lots + 1])
  /\ UNCHANGED <<kinds, auction, subs, muted, rows, unread, letters, past>>

(* A join with subscriptions: a user for each row of theirs.               *)
QuerySubscribers(j) ==
  LET P == UNION {{Payload(u, "NEW_LOT", job[j].sub, s) : s \in subs[u]} : u \in Users}
  IN  /\ job[j].op = "post" /\ job[j].step = "query"
      /\ IF P = {} THEN Finish(j)
         ELSE Become(j, [job[j] EXCEPT !.step = "batch", !.batch = P])
      /\ UNCHANGED <<kinds, auction, lots, subs, muted, rows, unread, letters, past>>

-----------------------------------------------------------------------------
(* What is told: the warning and the result.                               *)

(* A timer that is due reads the lot, ...                                  *)
WakeToSettle(j) ==
  /\ Starts(j, "settle")
  /\ auction.active
  /\ Become(j, [Idle EXCEPT !.op = "settle", !.step = "due"])
  /\ UNCHANGED <<kinds, auction, lots, subs, muted, rows, unread, letters, past>>

ResultFor(u) == IF u = auction.leader THEN "AUCTION_WON" ELSE "AUCTION_LOST"

Told == auction.bidders

(* ... and complete_auction locks the row but goes by that copy of it, so  *)
(* it settles, and tells, also where the lot has ended since.  It builds   *)
(* the notices with the settlement and sends them after its commit.        *)
complete_auction(j) ==
  /\ job[j].step = "due"
  /\ auction' = [auction EXCEPT !.active = FALSE]
  /\ past' = [past EXCEPT !.late = IF auction.active THEN @ ELSE @ + 1]
  /\ IF auction.bidders = {} THEN Finish(j)
     ELSE Become(j, [Idle EXCEPT !.op = "settle", !.step = "batch",
            !.batch = {Payload(u, ResultFor(u), 0, 0) : u \in Told}
                      \cup {Payload(Seller, "AUCTION_SOLD", 0, 0)}])
  /\ UNCHANGED <<kinds, lots, subs, muted, rows, unread, letters>>

WakeToWarn(j) ==
  /\ Starts(j, "warn")
  /\ auction.active /\ ~ auction.warned
  /\ past.warnings < MaxWarnings
  /\ past' = [past EXCEPT !.warnings = @ + 1]
  /\ Become(j, [Idle EXCEPT !.op = "warn", !.step = "query"])
  /\ UNCHANGED <<kinds, auction, lots, subs, muted, rows, unread, letters>>

Warning(u) == [user |-> u, type |-> "AUCTION_ENDING", lot |-> 0]

(* notify_auction_ending_soon: whoever has such a row is skipped.          *)
AlreadyNotifiedNever == {}                                       \* mutant
AlreadyNotified == {u \in Users : Copies(Warning(u), rows) > 0}

UsersOutbid == auction.bidders \ {auction.leader}                \* mutant
UsersToWarn == auction.bidders

QueryBidders(j) ==
  LET pending == UsersToWarn \ AlreadyNotified
      rivals == {k \in Jobs \ {j} : job[k].op = "warn" /\ job[k].step = "batch"}
  IN  /\ job[j].op = "warn" /\ job[j].step = "query"
      /\ Become(j, [job[j] EXCEPT
           !.step = IF pending = {} THEN "flag" ELSE "batch",
           !.batch = {Payload(u, "AUCTION_ENDING", 0, 0) : u \in pending},
           !.audience = auction.bidders])
      /\ past' = [past EXCEPT !.laps = IF rivals = {} THEN @ ELSE @ + 1]
      /\ UNCHANGED <<kinds, auction, lots, subs, muted, rows, unread, letters>>

(* Only then is the flag set that stops further timers.                    *)
SetFlag(j) ==
  /\ job[j].step = "flag"
  /\ auction' = [auction EXCEPT !.warned = TRUE]
  /\ past' = [past EXCEPT !.warned = @ \cup job[j].audience]
  /\ Finish(j)
  /\ UNCHANGED <<kinds, lots, subs, muted, rows, unread, letters>>

(* A handler breaks off anywhere and its session rolls back; a timer also  *)
(* where the deadline has moved since.                                     *)
BreaksOff(j) ==
  /\ job[j] # Idle
  /\ past' = IF job[j].step = "letter"
             THEN [past EXCEPT !.dropped = @ (+) Mailed({Head(job[j].todo)})]
             ELSE past
  /\ Finish(j)
  /\ UNCHANGED <<kinds, auction, lots, subs, muted, rows, unread, letters>>

-----------------------------------------------------------------------------
(* Readers: settings, subscriptions, the inbox.                            *)

Saves == MapThenSumSet(LAMBDA u : past.saves[u], Users)

StartSettings(j) ==
  \E u \in Users, ask \in Wishes :
    /\ Starts(j, "settings")
    /\ Saves < MaxSaves
    /\ Become(j, [Idle EXCEPT !.op = "settings", !.step = "save", !.by = u,
                              !.off = muted[u], !.saves = past.saves[u], !.ask = ask])
    /\ UNCHANGED <<kinds, auction, lots, subs, muted, rows, unread, letters, past>>

(* The UPDATE names the columns that differ from the session's copy.       *)
Written(now, copy, ask) == (now \cup (ask \ copy)) \ (copy \ ask)

update_notification_settings(j) ==
  LET q == job[j]
  IN  /\ q.step = "save"
      /\ Saves < MaxSaves
      /\ muted' = [muted EXCEPT ![q.by] = Written(@, q.off, q.ask)]
      /\ past' = [past EXCEPT !.saves[q.by] = @ + 1]
      /\ Finish(j)
      /\ UNCHANGED <<kinds, auction, lots, subs, rows, unread, letters>>

(* No step where the row is there already.                                 *)
StartSubscribe(j) ==
  \E u \in Users \ {Seller} :
    /\ Starts(j, "subscribe")
    /\ subs[u] = {}
    /\ Become(j, [Idle EXCEPT !.op = "subscribe", !.step = "insert", !.by = u])
    /\ UNCHANGED <<kinds, auction, lots, subs, muted, rows, unread, letters, past>>

(* uq_subscription_pair: the loser of a race rolls back and says the same. *)
PairIsNew(u) == subs[u] = {}

subscribe(j) ==
  LET u == job[j].by
  IN  /\ job[j].step = "insert"
      /\ past.subs < MaxSubs
      /\ IF PairIsNew(u)
         THEN /\ subs' = [subs EXCEPT ![u] = @ \cup {past.subs + 1}]
              /\ past' = [past EXCEPT !.subs = @ + 1]
         ELSE UNCHANGED <<subs, past>>
      /\ Finish(j)
      /\ UNCHANGED <<kinds, auction, lots, muted, rows, unread, letters>>

StartUnsubscribe(j) ==
  \E u \in Users : \E s \in subs[u] :
    /\ Starts(j, "subscribe")
    /\ Become(j, [Idle EXCEPT !.op = "subscribe", !.step = "erase", !.by = u, !.sub = s])
    /\ UNCHANGED <<kinds, auction, lots, subs, muted, rows, unread, letters, past>>

(* By primary key: a newer subscription of the pair stays.                 *)
unsubscribe(j) ==
  /\ job[j].step = "erase"
  /\ subs' = [subs EXCEPT ![job[j].by] = @ \ {job[j].sub}]
  /\ Finish(j)
  /\ UNCHANGED <<kinds, auction, lots, muted, rows, unread, letters, past>>

mark_notification_read ==
  /\ "inbox" \in kinds
  /\ \E n \in DOMAIN unread : unread' = unread (-) SetToBag({n})
  /\ UNCHANGED <<kinds, auction, lots, subs, muted, rows, letters, job, past>>

UnreadBut(u) == [n \in {m \in DOMAIN unread : m.user # u} |-> unread[n]]

mark_all_read ==
  /\ "inbox" \in kinds
  /\ \E u \in Users : unread' = UnreadBut(u)
  /\ UNCHANGED <<kinds, auction, lots, subs, muted, rows, letters, job, past>>

(* Of the rows alike, a read or an unread one goes.                        *)
UnreadKept(n, read) == unread                                    \* mutant
UnreadLeft(n, read) == IF read THEN unread ELSE unread (-) SetToBag({n})

HasSuch(n, read) ==
  IF read THEN Copies(n, unread) < Copies(n, rows) ELSE n \in DOMAIN unread

delete_notification ==
  /\ "inbox" \in kinds
  /\ \E n \in DOMAIN rows, read \in BOOLEAN :
       /\ HasSuch(n, read)
       /\ rows' = rows (-) SetToBag({n})
       /\ unread' = UnreadLeft(n, read)
       /\ past' = [past EXCEPT !.gone = @ (+) SetToBag({n})]
  /\ UNCHANGED <<kinds, auction, lots, subs, muted, letters, job>>

-----------------------------------------------------------------------------
Next ==
  \/ mark_notification_read \/ mark_all_read \/ delete_notification
  \/ \E j \in Jobs :
       \/ place_bid(j) \/ buy_now(j) \/ create_auction(j)
       \/ WakeToSettle(j) \/ complete_auction(j) \/ WakeToWarn(j) \/ QueryBidders(j)
       \/ QuerySubscribers(j) \/ Look(j) \/ CommitRow(j) \/ CommitLetter(j) \/ CommitBatch(j) \/ SetFlag(j)
       \/ StartSettings(j) \/ update_notification_settings(j)
       \/ StartSubscribe(j) \/ subscribe(j) \/ StartUnsubscribe(j) \/ unsubscribe(j)
       \/ BreaksOff(j)

Spec == Init /\ [][Next]_vars

-----------------------------------------------------------------------------
(* Properties.                                                             *)

Notices == [user : Users, type : Types, lot : 0 .. MaxLots]
Steps == {"idle", "look", "row", "letter", "query", "batch", "flag", "due", "save",
          "insert", "erase"}

(* The types; and the badge never counts rows that are gone.               *)
TypeOK ==
  /\ auction.leader \in auction.bidders \cup {NoUser} /\ auction.bidders \subseteq Users
  /\ \A b \in {rows, unread, letters, past.gone, past.dropped} :
       IsABag(b) /\ DOMAIN b \subseteq Notices
  /\ \A n \in DOMAIN unread : unread[n] <= Copies(n, rows)
  /\ muted \in [Users -> SUBSET Flags]
  /\ subs \in [Users -> SUBSET (1 .. MaxSubs)]
  /\ \A j \in Jobs : /\ job[j].step \in Steps
                     /\ job[j].step \in {"look", "row", "letter"} <=> job[j].todo # <<>>

Created(n) == Copies(n, rows) + Copies(n, past.gone)

(* Letters of a row that is committed and that are not yet.                *)
UnderWay(n) ==
  {j \in Jobs : /\ job[j].step = "letter" /\ Notice(Head(job[j].todo)) = n
                /\ EmailEnabled(n.type, Head(job[j].todo).off)}

(* No letter without its row; and whoever has not touched the settings     *)
(* gets one with every row, unless the handler breaks off between the two  *)
(* commits of notify_user.                                                 *)
LettersComeWithRows ==
  \A n \in DOMAIN rows \cup DOMAIN letters \cup DOMAIN past.gone :
    LET mailed == Copies(n, letters) + Copies(n, past.dropped) + Cardinality(UnderWay(n))
    IN  /\ mailed <= Created(n)
        /\ past.saves[n.user] = 0 => mailed = Created(n)

(* Handlers that read u before the settings last changed.                  *)
ReadBefore(u) ==
  {j \in Jobs : \E p \in job[j].batch \cup {job[j].todo[i] : i \in DOMAIN job[j].todo} :
                  p.user = u /\ p.saves < past.saves[u]}

(* Settings take hold.  Saved ones are those asked for, unless another save *)
(* of the same user came between the read and the UPDATE; and letters that *)
(* are turned off stop, but for those of a handler that had read the       *)
(* recipient before the change.                                            *)
SettingsTakeHold ==
  [][/\ \A u \in Users : past'.saves[u] > past.saves[u] =>
          \E j \in Jobs : /\ job[j].step = "save" /\ job[j].by = u
                          /\ job'[j] = Idle
                          /\ muted'[u] = job[j].ask \/ job[j].saves < past.saves[u]
     /\ \A n \in DOMAIN letters' :
          Copies(n, letters') > Copies(n, letters)
            => \/ {"email_notifications", OptOutFlag(n.type)} \cap muted[n.user] = {}
               \/ ReadBefore(n.user) # {}]_vars

(* Nobody is told twice.  A bidder is warned again only after deleting the *)
(* warning, or when two timers looked for it before either had committed;  *)
(* of the result bidders and seller hear again only from a timer that had  *)
(* read the lot before it ended; of a new lot one hears once, however      *)
(* often one subscribes.                                                   *)
ToldOnce ==
  \A u \in Users :
    LET told(type, lot) == Created([user |-> u, type |-> type, lot |-> lot])
    IN  /\ told("AUCTION_ENDING", 0) <= 1 + Copies(Warning(u), past.gone) + past.laps
        /\ told("AUCTION_WON", 0) + told("AUCTION_LOST", 0) <= 1 + past.late
        /\ told("AUCTION_SOLD", 0) <= 1 + past.late
        /\ \A l \in 1 .. lots : told("NEW_LOT", l) <= 1

(* Nobody is missed, whatever fails and is tried again.  Once the flag     *)
(* stops the timers, everyone who had bid when the last of them looked has *)
(* been warned.  The result reaches all bidders or none, and one has won.  *)
NobodyMissed ==
  LET told(type) == {u \in Users : Created([user |-> u, type |-> type, lot |-> 0]) > 0}
  IN  /\ past.warned \subseteq told("AUCTION_ENDING")
      /\ told("AUCTION_WON") # {} \/ told("AUCTION_LOST") # {} =>
           /\ told("AUCTION_WON") = {auction.leader}
           /\ told("AUCTION_LOST") = auction.bidders \ {auction.leader}
=============================================================================
