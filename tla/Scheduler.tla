------------------------------ MODULE Scheduler ------------------------------
(***************************************************************************)
(* The timers of the auctions: each process of the cluster keeps, in the   *)
(* dicts of auction_scheduler, up to two asyncio tasks per lot, one that   *)
(* settles it at its deadline and one that warns its bidders Lead before.  *)
(* Requests arm and cancel them after (a purchase: before) their commit,   *)
(* processes stop and start, and an advisory lock elects the one that arms *)
(* every active lot.                                                       *)
(*                                                                         *)
(* A step runs from one await to the next that matters: a task reads the   *)
(* lot in one step and commits in a later one, on what it read; a request  *)
(* commits in one step and reaches the dicts in a later one.  What is said *)
(* and paid is left to Market and RowLocks.                                *)
(***************************************************************************)
EXTENDS Integers, FiniteSets

CONSTANTS
  Workers,        \* processes of the cluster
  NoWorker,
  Lots,
  Durations,      \* duration_minutes / extend_minutes a request may name
  Lead,           \* ENDING_SOON_LEAD
  Window,         \* ANTISNIPING_WINDOW
  Extend,         \* ANTISNIPING_EXTEND
  MaxExtensions,  \* bound, and MAX_ANTISNIPING_EXTENSIONS
  Horizon,        \* bound: the clock stops and deadlines end here
  MaxDeletions,   \* bound: warnings of a lot its reader deletes
  Faults,         \* what may go wrong, see Fault
  MaxFaults       \* bound: how often

FaultKinds == {"leader stops", "follower stops", "connection drops", "ping times out",
               "purchase fails", "settlement fails", "warning fails"}

ASSUME WorkersAssumption == NoWorker \notin Workers
ASSUME TimesAssumption ==
  /\ Durations \subseteq Nat \ {0}
  /\ Lead \in Nat /\ Window \in Nat /\ Extend \in Nat
  /\ Window <= Extend /\ Extend < Lead
ASSUME LimitsAssumption ==
  /\ MaxExtensions \in Nat /\ Horizon \in Nat /\ MaxDeletions \in Nat /\ MaxFaults \in Nat
  /\ Faults \subseteq FaultKinds

VARIABLES
  now,
  state,                 \* of a lot: "absent" | "open" | "closed" | "deleted"
  auction_type, end_time, extensions_count, has_bids,
  ending_soon_notified,
  warnings,              \* history: AUCTION_ENDING rows of one bidder inserted ...
  deleted,               \* history: ... and deleted by him; the others are alike
  settled,               \* history: times the settlement paid the seller
  up,                    \* process is running
  tasks,                 \* its asyncio tasks
  pending,               \* its requests between their commit and the dicts
  conn,                  \* its _leader_connection: "none" | "live" | "dead"
  lock,                  \* the process whose backend holds the advisory lock
  faults                 \* history: what went wrong so far

lots == <<state, auction_type, end_time, extensions_count, has_bids,
          ending_soon_notified, warnings, deleted, settled>>
election == <<conn, lock>>
vars == <<now, lots, up, tasks, pending, election, faults>>

(* slot: the dict maps the lot to this task.  phase: "sleeping" until at,  *)
(* "reading" the lot done and the transaction begun, "telling" bidders it  *)
(* found not to be warned, or "committed" with its follow-up outstanding.  *)
Task == [lot : Lots, kind : {"complete", "warn"}, at : 0 .. Horizon,
         phase : {"sleeping", "reading", "telling", "committed"}, slot : BOOLEAN]

(* A request's outstanding call, on its own copy of the lot.               *)
Call == [call : {"schedule", "cancel", "purchase"}, lot : Lots,
         at : 0 .. Horizon, notified : BOOLEAN]

Fault(kind) ==
  /\ kind \in Faults
  /\ faults < MaxFaults
  /\ faults' = faults + 1

-----------------------------------------------------------------------------
(* The dicts.                                                              *)

OpenLots == {l \in Lots : state[l] = "open"}

Sleeping(l, kind, at) ==
  [lot |-> l, kind |-> kind, at |-> at, phase |-> "sleeping", slot |-> TRUE]

(* cancel_auction pops the lots' tasks and cancels them at their await.    *)
CancelledPopOnly(T, S) ==                                        \* mutant
  {[t EXCEPT !.slot = t.slot /\ t.lot \notin S] : t \in T}
Cancelled(T, S) == {t \in T : ~ (t.slot /\ t.lot \in S)}

(* The tasks for a copy of a lot: no warning once given, or too late.      *)
FreshUnlessNotified(l, end, notified) ==                         \* mutant
  IF notified THEN {}
  ELSE {t \in {Sleeping(l, "complete", end), Sleeping(l, "warn", end - Lead)} :
          t.kind = "warn" => t.at > now}
Fresh(l, end, notified) ==
  {Sleeping(l, "complete", end)} \cup
  (IF notified \/ end - Lead <= now THEN {} ELSE {Sleeping(l, "warn", end - Lead)})

(* _arm_*: a new task takes the slot and its occupant is cancelled.        *)
Armed(T, new) ==
  {t \in T : ~ \E n \in new : t.slot /\ t.lot = n.lot /\ t.kind = n.kind} \cup new

schedule_auction(T, l, end, notified) ==
  Armed(Cancelled(T, {l}), Fresh(l, end, notified))

ScheduleActiveInTime(T) ==                                       \* mutant
  Cancelled(T, OpenLots) \cup
  UNION {Fresh(l, end_time[l], ending_soon_notified[l]) :
           l \in {k \in OpenLots : end_time[k] > now}}
schedule_active_auctions(T) ==
  Cancelled(T, OpenLots) \cup
  UNION {Fresh(l, end_time[l], ending_soon_notified[l]) : l \in OpenLots}

-----------------------------------------------------------------------------
(* Requests: one step to the commit, one more to the dicts.                *)

Init ==
  /\ now = 0
  /\ state = [l \in Lots |-> "absent"]
  /\ auction_type = [l \in Lots |-> "bid"]
  /\ end_time = [l \in Lots |-> 0]
  /\ extensions_count = [l \in Lots |-> 0]
  /\ has_bids = [l \in Lots |-> FALSE]
  /\ ending_soon_notified = [l \in Lots |-> FALSE]
  /\ warnings = [l \in Lots |-> 0]
  /\ deleted = [l \in Lots |-> 0]
  /\ settled = [l \in Lots |-> 0]
  /\ up = [w \in Workers |-> FALSE]
  /\ tasks = [w \in Workers |-> {}]
  /\ pending = [w \in Workers |-> {}]
  /\ conn = [w \in Workers |-> "none"]
  /\ lock = NoWorker
  /\ faults = 0

Tick ==
  /\ now < Horizon
  /\ now' = now + 1
  /\ UNCHANGED <<lots, up, tasks, pending, election, faults>>

(* A purchase holds the lot's row lock from its cancel to its commit.      *)
Unlocked(l) ==
  \A w \in Workers : \A c \in pending[w] : ~ (c.lot = l /\ c.call = "purchase")

Serving(w, l) == up[w] /\ state[l] = "open" /\ Unlocked(l)

CallFor(call, l, end, notified) ==
  [call |-> call, lot |-> l, at |-> end, notified |-> notified]

Owe(w, c) == pending' = [pending EXCEPT ![w] = @ \cup {c}]

CreateAuction(w, l, type, d) ==
  /\ up[w]
  /\ state[l] = "absent"
  /\ now + d <= Horizon
  /\ state' = [state EXCEPT ![l] = "open"]
  /\ auction_type' = [auction_type EXCEPT ![l] = type]
  /\ end_time' = [end_time EXCEPT ![l] = now + d]
  /\ Owe(w, CallFor("schedule", l, now + d, FALSE))
  /\ UNCHANGED <<now, extensions_count, has_bids, ending_soon_notified,
                 warnings, deleted, settled, up, tasks, election, faults>>

(* A bid in the closing window extends the deadline and resets the flag.   *)
Sniping(l) ==
  /\ 0 < end_time[l] - now /\ end_time[l] - now < Window
  /\ extensions_count[l] < MaxExtensions

PlaceBid(w, l) ==
  /\ Serving(w, l)
  /\ auction_type[l] = "bid"
  /\ now <= end_time[l]
  /\ has_bids' = [has_bids EXCEPT ![l] = TRUE]
  /\ IF Sniping(l)
     THEN /\ now + Extend <= Horizon
          /\ end_time' = [end_time EXCEPT ![l] = now + Extend]
          /\ extensions_count' = [extensions_count EXCEPT ![l] = @ + 1]
          /\ ending_soon_notified' = [ending_soon_notified EXCEPT ![l] = FALSE]
          /\ Owe(w, CallFor("schedule", l, now + Extend, FALSE))
     ELSE UNCHANGED <<end_time, extensions_count, ending_soon_notified, pending>>
  /\ UNCHANGED <<now, state, auction_type, warnings, deleted, settled, up, tasks, election, faults>>

UpdateAuction(w, l, minutes) ==
  /\ Serving(w, l)
  /\ ~ has_bids[l]
  /\ end_time[l] + minutes <= Horizon
  /\ end_time' = [end_time EXCEPT ![l] = @ + minutes]
  /\ Owe(w, CallFor("schedule", l, end_time[l] + minutes, ending_soon_notified[l]))
  /\ UNCHANGED <<now, state, auction_type, extensions_count, has_bids,
                 ending_soon_notified, warnings, deleted, settled, up, tasks, election, faults>>

DeleteAuction(w, l) ==
  /\ Serving(w, l)
  /\ ~ has_bids[l]
  /\ state' = [state EXCEPT ![l] = "deleted"]
  /\ Owe(w, CallFor("cancel", l, 0, FALSE))
  /\ UNCHANGED <<now, auction_type, end_time, extensions_count, has_bids,
                 ending_soon_notified, warnings, deleted, settled, up, tasks, election, faults>>

(* A reader deletes the warning, whatever the tasks are doing.             *)
DeleteWarning(w, l) ==
  /\ up[w]
  /\ deleted[l] < warnings[l] /\ deleted[l] < MaxDeletions
  /\ deleted' = [deleted EXCEPT ![l] = @ + 1]
  /\ UNCHANGED <<now, state, auction_type, end_time, extensions_count, has_bids,
                 ending_soon_notified, warnings, settled, up, tasks, pending, election, faults>>

(* The calls a create, an extending bid, a PATCH or a DELETE still owed.   *)
Schedule(w, c) ==
  /\ c.call = "schedule"
  /\ tasks' = [tasks EXCEPT ![w] = schedule_auction(@, c.lot, c.at, c.notified)]
  /\ pending' = [pending EXCEPT ![w] = @ \ {c}]
  /\ UNCHANGED <<now, lots, up, election, faults>>

Cancel(w, c) ==
  /\ c.call = "cancel"
  /\ tasks' = [tasks EXCEPT ![w] = Cancelled(@, {c.lot})]
  /\ pending' = [pending EXCEPT ![w] = @ \ {c}]
  /\ UNCHANGED <<now, lots, up, election, faults>>

(* buy_now cancels the timers first and commits afterwards.                *)
BuyNow(w, l) ==
  /\ Serving(w, l)
  /\ auction_type[l] = "bin"
  /\ now <= end_time[l]
  /\ tasks' = [tasks EXCEPT ![w] = Cancelled(@, {l})]
  /\ Owe(w, CallFor("purchase", l, now, FALSE))
  /\ UNCHANGED <<now, lots, up, election, faults>>

BuyCommit(w, c) ==
  /\ c.call = "purchase"
  /\ state' = [state EXCEPT ![c.lot] = "closed"]
  /\ end_time' = [end_time EXCEPT ![c.lot] = c.at]
  /\ pending' = [pending EXCEPT ![w] = @ \ {c}]
  /\ UNCHANGED <<now, auction_type, extensions_count, has_bids, ending_soon_notified,
                 warnings, deleted, settled, up, tasks, election, faults>>

BuyFails(w, c) ==
  /\ c.call = "purchase"
  /\ Fault("purchase fails")
  /\ pending' = [pending EXCEPT ![w] = @ \ {c}]
  /\ UNCHANGED <<now, lots, up, tasks, election>>

-----------------------------------------------------------------------------
(* The tasks.                                                              *)

Exit(w, t) == tasks' = [tasks EXCEPT ![w] = @ \ {t}]
Phase(w, t, phase) == tasks' = [tasks EXCEPT ![w] = (@ \ {t}) \cup {[t EXCEPT !.phase = phase]}]

(* _wait_and_complete: a closed lot is left alone, a moved deadline is     *)
(* waited for, a due lot is settled on the copy read here.                 *)
WakeToComplete(w, t) ==
  /\ t.kind = "complete" /\ t.phase = "sleeping" /\ t.at <= now
  /\ IF state[t.lot] # "open" THEN Exit(w, t)
     ELSE IF end_time[t.lot] > now
     THEN tasks' = [tasks EXCEPT ![w] =
            Armed(@ \ {t}, Fresh(t.lot, end_time[t.lot], ending_soon_notified[t.lot]))]
     ELSE Phase(w, t, "reading")
  /\ UNCHANGED <<now, lots, up, pending, election, faults>>

(* complete_auction up to its commit.  Its own check of is_active is of    *)
(* the copy, so only a lot that was deleted meanwhile is not settled.      *)
Settle(w, t) ==
  /\ t.kind = "complete" /\ t.phase = "reading"
  /\ Unlocked(t.lot)
  /\ IF state[t.lot] = "deleted"
     THEN Exit(w, t) /\ UNCHANGED <<state, settled>>
     ELSE /\ state' = [state EXCEPT ![t.lot] = "closed"]
          /\ settled' = [settled EXCEPT ![t.lot] = @ + (IF has_bids[t.lot] THEN 1 ELSE 0)]
          /\ Phase(w, t, "committed")
  /\ UNCHANGED <<now, auction_type, end_time, extensions_count, has_bids,
                 ending_soon_notified, warnings, deleted, up, pending, election, faults>>

(* Any exception is logged and rolled back, and the task ends.             *)
SettleFails(w, t) ==
  /\ t.kind = "complete" /\ t.phase = "reading"
  /\ Fault("settlement fails")
  /\ Exit(w, t)
  /\ UNCHANGED <<now, lots, up, pending, election>>

(* The broadcast and the notifications of a settlement.                    *)
Announce(w, t) ==
  /\ t.kind = "complete" /\ t.phase = "committed"
  /\ Exit(w, t)
  /\ UNCHANGED <<now, lots, up, pending, election, faults>>

(* _wait_and_notify_ending_soon does not look at the deadline again.       *)
WakeToWarn(w, t) ==
  /\ t.kind = "warn" /\ t.phase = "sleeping" /\ t.at <= now
  /\ IF state[t.lot] # "open" \/ ending_soon_notified[t.lot]
     THEN Exit(w, t)
     ELSE Phase(w, t, "reading")
  /\ UNCHANGED <<now, lots, up, pending, election, faults>>

(* notify_auction_ending_soon reads the bidders and who of them has the    *)
(* row, ...                                                                *)
RecipientsAlways(l) == has_bids[l]                               \* mutant
Recipients(l) == has_bids[l] /\ warnings[l] = deleted[l]
ReadBidders(w, t) ==
  /\ t.kind = "warn" /\ t.phase = "reading"
  /\ Phase(w, t, IF Recipients(t.lot) THEN "telling" ELSE "committed")
  /\ UNCHANGED <<now, lots, up, pending, election, faults>>

(* ... and inserts what it found missing, in a transaction of its own that *)
(* waits for the lot it refers to.                                         *)
Warn(w, t) ==
  /\ t.kind = "warn" /\ t.phase = "telling"
  /\ Unlocked(t.lot)
  /\ warnings' = [warnings EXCEPT ![t.lot] = @ + 1]
  /\ Phase(w, t, "committed")
  /\ UNCHANGED <<now, state, auction_type, end_time, extensions_count, has_bids,
                 ending_soon_notified, deleted, settled, up, pending, election, faults>>

SetNotified(w, t) ==
  /\ t.kind = "warn" /\ t.phase = "committed"
  /\ Unlocked(t.lot)
  /\ ending_soon_notified' = [ending_soon_notified EXCEPT ![t.lot] = TRUE]
  /\ Exit(w, t)
  /\ UNCHANGED <<now, state, auction_type, end_time, extensions_count, has_bids,
                 warnings, deleted, settled, up, pending, election, faults>>

WarnFails(w, t) ==
  /\ t.kind = "warn" /\ t.phase # "sleeping"
  /\ Fault("warning fails")
  /\ Exit(w, t)
  /\ UNCHANGED <<now, lots, up, pending, election>>

-----------------------------------------------------------------------------
(* Processes and the election.                                             *)

(* pg_try_advisory_lock on some connection of the pool: the lock is free,  *)
(* or this very connection left it behind.                                 *)
ClaimableAlways(w) == TRUE                                       \* mutant
Claimable(w) == lock \in {NoWorker, w}

Claim(w) ==
  /\ Claimable(w)
  /\ conn' = [conn EXCEPT ![w] = "live"]
  /\ lock' = w

(* lifespan: the one that gets the lock arms everything.                   *)
Start(w) ==
  /\ ~ up[w]
  /\ up' = [up EXCEPT ![w] = TRUE]
  /\ IF Claimable(w)
     THEN Claim(w) /\ tasks' = [tasks EXCEPT ![w] = schedule_active_auctions({})]
     ELSE UNCHANGED <<election, tasks>>
  /\ UNCHANGED <<now, lots, pending, faults>>

(* A crash, or a shutdown that cancels every task.  The backend goes with  *)
(* the process and the lock with the backend.                              *)
Stop(w) ==
  /\ up[w]
  /\ IF lock = w THEN Fault("leader stops") ELSE Fault("follower stops")
  /\ up' = [up EXCEPT ![w] = FALSE]
  /\ tasks' = [tasks EXCEPT ![w] = {}]
  /\ pending' = [pending EXCEPT ![w] = {}]
  /\ conn' = [conn EXCEPT ![w] = "none"]
  /\ lock' = IF lock = w THEN NoWorker ELSE lock
  /\ UNCHANGED <<now, lots>>

(* The leader's backend goes away under it; its next ping will tell.       *)
ConnectionDrops(w) ==
  /\ conn[w] = "live"
  /\ Fault("connection drops")
  /\ conn' = [conn EXCEPT ![w] = "dead"]
  /\ lock' = NoWorker
  /\ UNCHANGED <<now, lots, up, tasks, pending>>

(* A follower's heartbeat: promoted, it arms everything.                   *)
Promote(w) ==
  /\ up[w] /\ conn[w] = "none"
  /\ Claim(w)
  /\ tasks' = [tasks EXCEPT ![w] = schedule_active_auctions(@)]
  /\ UNCHANGED <<now, lots, up, pending, faults>>

(* A leader whose ping fails steps down and tries to claim again in the    *)
(* same tick, which arms nothing either way; its timers stay.              *)
StepDown(w) ==
  /\ \/ Claim(w)
     \/ conn' = [conn EXCEPT ![w] = "none"] /\ UNCHANGED lock
  /\ UNCHANGED <<now, lots, up, tasks, pending>>

PingFails(w) ==
  /\ conn[w] = "dead"
  /\ StepDown(w)
  /\ UNCHANGED faults

(* The ping times out on a backend that lives on: closing the connection   *)
(* returns it to the pool with the lock still held.                        *)
PingTimesOut(w) ==
  /\ conn[w] = "live"
  /\ Fault("ping times out")
  /\ StepDown(w)

-----------------------------------------------------------------------------

(* What a process gets done on its own: its event loop runs.               *)
Run(w) ==
  \/ \E c \in pending[w] : Schedule(w, c) \/ Cancel(w, c) \/ BuyCommit(w, c)
  \/ \E t \in tasks[w] :
        \/ WakeToComplete(w, t) \/ Settle(w, t) \/ Announce(w, t)
        \/ WakeToWarn(w, t) \/ ReadBidders(w, t) \/ Warn(w, t) \/ SetNotified(w, t)
  \/ Promote(w) \/ PingFails(w)

Requested(w, l) ==
  \/ \E type \in {"bid", "bin"}, d \in Durations : CreateAuction(w, l, type, d)
  \/ PlaceBid(w, l) \/ DeleteAuction(w, l) \/ BuyNow(w, l) \/ DeleteWarning(w, l)
  \/ \E m \in Durations : UpdateAuction(w, l, m)

GoesWrong(w) ==
  \/ \E c \in pending[w] : BuyFails(w, c)
  \/ \E t \in tasks[w] : SettleFails(w, t) \/ WarnFails(w, t)
  \/ Stop(w) \/ ConnectionDrops(w) \/ PingTimesOut(w)

Next ==
  \/ Tick
  \/ \E w \in Workers : Start(w) \/ Run(w) \/ GoesWrong(w)
  \/ \E w \in Workers, l \in Lots : Requested(w, l)

(* Time passes and event loops run.  No request has to come, and nothing   *)
(* here restarts a process that stopped.                                   *)
Fairness ==
  /\ WF_vars(Tick)
  /\ \A w \in Workers : WF_vars(Run(w))

Spec == Init /\ [][Next]_vars /\ Fairness

-----------------------------------------------------------------------------
(* Properties.                                                             *)

(* No orphans: a sleeping task is the one in its lot's slot, so that       *)
(* cancel_auction and shutdown_scheduler reach it, and a slot has one.     *)
EveryTaskIsReachable ==
  \A w \in Workers : \A t \in tasks[w] :
    /\ t.phase = "sleeping" => t.slot
    /\ \A v \in tasks[w] : v.lot = t.lot /\ v.kind = t.kind /\ v.slot /\ t.slot => v = t

(* The types, and that the dicts hold every task they should.              *)
TypeOK ==
  /\ now \in 0 .. Horizon
  /\ state \in [Lots -> {"absent", "open", "closed", "deleted"}]
  /\ auction_type \in [Lots -> {"bid", "bin"}]
  /\ end_time \in [Lots -> 0 .. Horizon]
  /\ extensions_count \in [Lots -> 0 .. MaxExtensions]
  /\ has_bids \in [Lots -> BOOLEAN]
  /\ ending_soon_notified \in [Lots -> BOOLEAN]
  /\ warnings \in [Lots -> Nat]
  /\ deleted \in [Lots -> 0 .. MaxDeletions]
  /\ settled \in [Lots -> Nat]
  /\ up \in [Workers -> BOOLEAN]
  /\ tasks \in [Workers -> SUBSET Task]
  /\ pending \in [Workers -> SUBSET Call]
  /\ conn \in [Workers -> {"none", "live", "dead"}]
  /\ lock \in Workers \cup {NoWorker}
  /\ faults \in 0 .. MaxFaults
  /\ EveryTaskIsReachable

(* In one process no lot is settled twice, although the tick trusts a copy *)
(* of the lot: whoever closes or moves the lot cancels it.  And nobody has *)
(* two warnings of a lot, although the fan-out looks for the row in one    *)
(* step and inserts it in a later one: he is warned again only after he    *)
(* deleted the row that told of it.                                        *)
FiresOnce == \A l \in Lots : settled[l] <= 1 /\ warnings[l] <= 1 + deleted[l]

(* An open lot is never forgotten: in some running process a task will     *)
(* look at it by its deadline, or a request still owes the call that arms  *)
(* one, or a process is about to take the lead and arm them all.           *)
Watched(l) ==
  \E w \in Workers :
    \/ \E t \in tasks[w] : t.lot = l /\ t.kind = "complete" /\ t.at <= end_time[l]
    \/ \E c \in pending[w] : c.lot = l /\ c.call \in {"schedule", "purchase"}

EveryOpenLotIsWatched ==
  \A l \in OpenLots : Watched(l) \/ \E w \in Workers : conn[w] = "none" /\ Claimable(w)

(* As long as some process is running, or is started again, every lot is   *)
(* closed in the end, through stops and changes of leader.                 *)
EveryLotCloses ==
  \A l \in Lots : []<>(\E w \in Workers : up[w]) => (state[l] = "open" ~> state[l] # "open")

(* At most one process believes to be the leader over a live connection,   *)
(* and it has the lock.                                                    *)
LeaderHasLock == \A w \in Workers : conn[w] = "live" => lock = w
=============================================================================
