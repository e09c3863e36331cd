--------------------------- MODULE SchedulerProofs ---------------------------
(***************************************************************************)
(* Proofs about Scheduler, for any number of processes, lots and faults:   *)
(* the dicts hold every task they should, at most one process leads over a *)
(* live connection, a process pays for a lot once, and, as long as no      *)
(* follower is restarted, no open lot is forgotten.                        *)
(***************************************************************************)
EXTENDS Scheduler, FiniteSetTheorems, TLAPS

-----------------------------------------------------------------------------
(* The dicts.                                                              *)

(* Every task is in its slot, which holds one.                             *)
Tidy(T) ==
  /\ T \in SUBSET Task
  /\ \A t \in T : t.slot
  /\ \A t, v \in T : v.lot = t.lot /\ v.kind = t.kind => v = t

Fields ==
  /\ now \in 0 .. Horizon
  /\ state \in [Lots -> {"absent", "open", "closed", "deleted"}]
  /\ auction_type \in [Lots -> {"bid", "bin"}]
  /\ end_time \in [Lots -> 0 .. Horizon]
  /\ extensions_count \in [Lots -> 0 .. MaxExtensions]
  /\ has_bids \in [Lots -> BOOLEAN]
  /\ ending_soon_notified \in [Lots -> BOOLEAN]
  /\ warnings \in [Lots -> Nat]
  /\ deleted \in [Lots -> 0 .. MaxDeletions]
  /\ settled \in [Lots -> Nat]
  /\ up \in [Workers -> BOOLEAN]
  /\ tasks \in [Workers -> SUBSET Task]
  /\ pending \in [Workers -> SUBSET Call]
  /\ conn \in [Workers -> {"none", "live", "dead"}]
  /\ lock \in Workers \cup {NoWorker}
  /\ faults \in 0 .. MaxFaults

TidyInv == Fields /\ \A w \in Workers : Tidy(tasks[w])

LEMMA SleepingType ==
  ASSUME NEW l \in Lots, NEW kind \in {"complete", "warn"}, NEW at \in 0 .. Horizon
  PROVE  Sleeping(l, kind, at) \in Task
BY DEF Sleeping, Task

LEMMA SleepingFields ==
  ASSUME NEW l, NEW kind, NEW at
  PROVE  LET t == Sleeping(l, kind, at)
         IN  /\ t.lot = l /\ t.kind = kind /\ t.at = at
             /\ t.phase = "sleeping" /\ t.slot
BY DEF Sleeping

LEMMA TidyFresh ==
  ASSUME Fields, NEW l \in Lots, NEW end \in 0 .. Horizon, NEW notified \in BOOLEAN
  PROVE  /\ Tidy(Fresh(l, end, notified))
         /\ Sleeping(l, "complete", end) \in Fresh(l, end, notified)
         /\ \A t \in Fresh(l, end, notified) : t.lot = l /\ t.phase = "sleeping"
<1> DEFINE c == Sleeping(l, "complete", end)
           d == Sleeping(l, "warn", end - Lead)
<1>1. c \in Task
  BY SleepingType
<1>2. \/ Fresh(l, end, notified) = {c}
      \/ Fresh(l, end, notified) = {c, d} /\ end - Lead > now
  BY LimitsAssumption, TimesAssumption DEF Fresh, Fields
<1>3. end - Lead > now => d \in Task
  <2>1. end - Lead > now => end - Lead \in 0 .. Horizon
    BY TimesAssumption, LimitsAssumption DEF Fields
  <2>2. QED
    BY <2>1, SleepingType
<1>4. /\ c.lot = l /\ c.kind = "complete" /\ c.slot /\ c.phase = "sleeping"
      /\ d.lot = l /\ d.kind = "warn" /\ d.slot /\ d.phase = "sleeping"
  BY SleepingFields
<1> HIDE DEF c, d
<1>5. CASE Fresh(l, end, notified) = {c}
  BY <1>1, <1>4, <1>5 DEF Tidy, c
<1>6. CASE Fresh(l, end, notified) = {c, d} /\ end - Lead > now
  BY <1>1, <1>3, <1>4, <1>6 DEF Tidy, c
<1>7. QED
  BY <1>2, <1>5, <1>6

LEMMA TidySubset ==
  ASSUME NEW T, Tidy(T), NEW R \in SUBSET T
  PROVE  Tidy(R)
BY DEF Tidy

LEMMA TidyArmed ==
  ASSUME NEW T, Tidy(T), NEW new, Tidy(new)
  PROVE  Tidy(Armed(T, new)) /\ new \subseteq Armed(T, new)
BY DEF Tidy, Armed

LEMMA TidyCancelled ==
  ASSUME NEW T, Tidy(T), NEW S
  PROVE  Tidy(Cancelled(T, S)) /\ Cancelled(T, S) \in SUBSET T
BY DEF Tidy, Cancelled

LEMMA TidySchedule ==
  ASSUME Fields, NEW T, Tidy(T),
         NEW l \in Lots, NEW end \in 0 .. Horizon, NEW notified \in BOOLEAN
  PROVE  Tidy(schedule_auction(T, l, end, notified))
BY TidyFresh, TidyCancelled, TidyArmed DEF schedule_auction

LEMMA TidyActive ==
  ASSUME Fields, NEW T, Tidy(T)
  PROVE  Tidy(schedule_active_auctions(T))
<1> DEFINE F(l) == Fresh(l, end_time[l], ending_soon_notified[l])
           C == Cancelled(T, OpenLots)
           A == schedule_active_auctions(T)
<1>1. Tidy(C) /\ \A t \in C : t.lot \notin OpenLots
  <2>1. \A t \in C : t.lot \notin OpenLots
    BY DEF Cancelled, Tidy
  <2>2. QED
    BY <2>1, TidyCancelled
<1>2. ASSUME NEW l \in OpenLots
      PROVE  Tidy(F(l)) /\ \A t \in F(l) : t.lot = l
  <2>1. l \in Lots /\ end_time[l] \in 0 .. Horizon /\ ending_soon_notified[l] \in BOOLEAN
    BY DEF OpenLots, Fields
  <2>2. QED
    BY <2>1, TidyFresh
<1>3. A = C \cup UNION {F(l) : l \in OpenLots}
  BY DEF schedule_active_auctions
<1> HIDE DEF F, C, A
<1>4. \A t \in A : t \in C \/ (t.lot \in OpenLots /\ t \in F(t.lot))
  BY <1>2, <1>3
<1>5. A \in SUBSET Task /\ \A t \in A : t.slot
  BY <1>1, <1>2, <1>4 DEF Tidy
<1>6. ASSUME NEW t \in A, NEW v \in A, v.lot = t.lot, v.kind = t.kind
      PROVE  v = t
  <2>1. CASE t \in C
    BY <1>1, <1>4, <1>6, <2>1 DEF Tidy
  <2>2. CASE t.lot \in OpenLots /\ t \in F(t.lot)
    BY <1>1, <1>2, <1>4, <1>6, <2>2 DEF Tidy
  <2>3. QED
    BY <1>4, <2>1, <2>2
<1>7. QED
  BY <1>5, <1>6 DEF Tidy, A

LEMMA TidyPhase ==
  ASSUME NEW T, Tidy(T), NEW t \in T, NEW phase \in {"sleeping", "reading", "telling", "committed"}
  PROVE  Tidy((T \ {t}) \cup {[t EXCEPT !.phase = phase]})
<1> DEFINE v == [t EXCEPT !.phase = phase]
<1>1. v \in Task /\ v.lot = t.lot /\ v.kind = t.kind /\ v.slot = t.slot
  BY DEF Tidy, Task
<1> HIDE DEF v
<1>2. QED
  BY <1>1 DEF Tidy, v

LEMMA TidyExit ==
  ASSUME TidyInv, NEW w \in Workers, NEW t, Exit(w, t)
  PROVE  /\ tasks' \in [Workers -> SUBSET Task]
         /\ \A v \in Workers : Tidy(tasks'[v]) /\ tasks'[v] \subseteq tasks[v]
<1>1. Tidy(tasks[w] \ {t})
  BY TidySubset DEF TidyInv
<1>2. tasks' = [tasks EXCEPT ![w] = tasks[w] \ {t}]
  BY DEF Exit
<1>3. QED
  BY <1>1, <1>2 DEF TidyInv, Fields, Tidy

(* One process's dicts change, and stay tidy.                              *)
LEMMA TidyOne ==
  ASSUME TidyInv, NEW w \in Workers, NEW T, Tidy(T), tasks' = [tasks EXCEPT ![w] = T]
  PROVE  /\ tasks' \in [Workers -> SUBSET Task]
         /\ \A v \in Workers : Tidy(tasks'[v])
BY DEF TidyInv, Fields, Tidy

LEMMA TidySame ==
  ASSUME TidyInv, UNCHANGED tasks
  PROVE  /\ tasks' \in [Workers -> SUBSET Task]
         /\ \A v \in Workers : Tidy(tasks'[v])
BY DEF TidyInv, Fields, Tidy

LEMMA TidyPhased ==
  ASSUME TidyInv, NEW w \in Workers, NEW t \in tasks[w],
         NEW phase \in {"sleeping", "reading", "telling", "committed"}, Phase(w, t, phase)
  PROVE  /\ tasks' \in [Workers -> SUBSET Task]
         /\ \A v \in Workers : Tidy(tasks'[v])
<1>1. Tidy(tasks[w])
  BY DEF TidyInv
<1> DEFINE T == (tasks[w] \ {t}) \cup {[t EXCEPT !.phase = phase]}
<1>2. Tidy(T)
  BY <1>1, TidyPhase
<1>3. tasks' = [tasks EXCEPT ![w] = T]
  BY DEF Phase
<1> HIDE DEF T
<1>4. QED
  BY <1>2, <1>3, TidyOne

(* A request that owes a call.                                             *)
LEMMA OweType ==
  ASSUME Fields, NEW w \in Workers, NEW c \in Call, Owe(w, c)
  PROVE  pending' \in [Workers -> SUBSET Call]
BY DEF Owe, Fields

LEMMA CallForType ==
  ASSUME NEW call \in {"schedule", "cancel", "purchase"}, NEW l \in Lots,
         NEW end \in 0 .. Horizon, NEW notified \in BOOLEAN
  PROVE  CallFor(call, l, end, notified) \in Call
BY DEF CallFor, Call

LEMMA FaultType ==
  ASSUME Fields, NEW kind, Fault(kind)
  PROVE  faults' \in 0 .. MaxFaults
BY LimitsAssumption DEF Fault, Fields

LEMMA CallFields ==
  ASSUME Fields, NEW w \in Workers, NEW c \in pending[w]
  PROVE  /\ c \in Call /\ c.lot \in Lots /\ c.at \in 0 .. Horizon /\ c.notified \in BOOLEAN
         /\ c.call \in {"schedule", "cancel", "purchase"}
BY DEF Fields, Call

LEMMA TaskFields ==
  ASSUME Fields, NEW w \in Workers, NEW t \in tasks[w]
  PROVE  /\ t \in Task /\ t.lot \in Lots /\ t.at \in 0 .. Horizon
         /\ t.kind \in {"complete", "warn"}
         /\ t.phase \in {"sleeping", "reading", "telling", "committed"}
BY DEF Fields, Task

-----------------------------------------------------------------------------
(* Step by step: the requests, ...                                         *)

LEMMA TidyRequested ==
  ASSUME TidyInv, NEW w \in Workers, NEW l \in Lots, Requested(w, l)
  PROVE  TidyInv'
<1>0. Fields /\ Tidy(tasks[w])
  BY DEF TidyInv
<1>1. ASSUME NEW type \in {"bid", "bin"}, NEW d \in Durations, CreateAuction(w, l, type, d)
      PROVE  TidyInv'
  <2>1. now + d \in 0 .. Horizon
    BY <1>0, <1>1, TimesAssumption, LimitsAssumption DEF CreateAuction, Fields
  <2>2. pending' \in [Workers -> SUBSET Call]
    BY <1>0, <1>1, <2>1, CallForType, OweType DEF CreateAuction
  <2>3. QED
    BY <1>0, <1>1, <2>1, <2>2, TidySame DEF CreateAuction, TidyInv, Fields, election
<1>2. CASE PlaceBid(w, l)
  <2>1. CASE Sniping(l)
    <3>1. now + Extend \in 0 .. Horizon /\ extensions_count[l] + 1 \in 0 .. MaxExtensions
      BY <1>0, <1>2, <2>1, TimesAssumption, LimitsAssumption DEF PlaceBid, Fields, Sniping
    <3>2. pending' \in [Workers -> SUBSET Call]
      BY <1>0, <1>2, <2>1, <3>1, CallForType, OweType DEF PlaceBid
    <3>3. QED
      BY <1>0, <1>2, <2>1, <3>1, <3>2, TidySame DEF PlaceBid, TidyInv, Fields, election
  <2>2. CASE ~ Sniping(l)
    BY <1>0, <1>2, <2>2, TidySame DEF PlaceBid, TidyInv, Fields, election
  <2>3. QED
    BY <2>1, <2>2
<1>3. CASE DeleteAuction(w, l)
  <2>1. 0 \in 0 .. Horizon
    BY LimitsAssumption
  <2>2. pending' \in [Workers -> SUBSET Call]
    BY <1>0, <1>3, <2>1, CallForType, OweType DEF DeleteAuction
  <2>3. QED
    BY <1>0, <1>3, <2>2, TidySame DEF DeleteAuction, TidyInv, Fields, election
<1>4. CASE BuyNow(w, l)
  <2>1. Tidy(Cancelled(tasks[w], {l}))
    BY <1>0, TidyCancelled
  <2>2. tasks' = [tasks EXCEPT ![w] = Cancelled(tasks[w], {l})]
    BY <1>4 DEF BuyNow
  <2>3. /\ tasks' \in [Workers -> SUBSET Task]
        /\ \A v \in Workers : Tidy(tasks'[v])
    BY <2>1, <2>2, TidyOne
  <2>4. now \in 0 .. Horizon
    BY <1>0 DEF Fields
  <2>5. pending' \in [Workers -> SUBSET Call]
    BY <1>0, <1>4, <2>4, CallForType, OweType DEF BuyNow
  <2>6. QED
    BY <1>0, <1>4, <2>3, <2>5 DEF BuyNow, TidyInv, Fields, lots, election
<1>5. ASSUME NEW m \in Durations, UpdateAuction(w, l, m)
      PROVE  TidyInv'
  <2>1. end_time[l] + m \in 0 .. Horizon
    BY <1>0, <1>5, TimesAssumption, LimitsAssumption DEF UpdateAuction, Fields
  <2>2. ending_soon_notified[l] \in BOOLEAN
    BY <1>0 DEF Fields
  <2>3. pending' \in [Workers -> SUBSET Call]
    BY <1>0, <1>5, <2>1, <2>2, CallForType, OweType DEF UpdateAuction
  <2>4. QED
    BY <1>0, <1>5, <2>1, <2>3, TidySame DEF UpdateAuction, TidyInv, Fields, election
<1>6. CASE DeleteWarning(w, l)
  <2>1. deleted[l] + 1 \in 0 .. MaxDeletions
    BY <1>0, <1>6, LimitsAssumption DEF DeleteWarning, Fields
  <2>2. QED
    BY <1>0, <1>6, <2>1, TidySame DEF DeleteWarning, TidyInv, Fields, election
<1>7. QED
  BY <1>1, <1>2, <1>3, <1>4, <1>5, <1>6 DEF Requested

(* ... what a process owes and what its tasks do, ...                      *)
LEMMA TidyRun ==
  ASSUME TidyInv, NEW w \in Workers, Run(w)
  PROVE  TidyInv'
<1>0. Fields /\ Tidy(tasks[w])
  BY DEF TidyInv
<1>1. ASSUME NEW c \in pending[w], Schedule(w, c)
      PROVE  TidyInv'
  <2> DEFINE T == schedule_auction(tasks[w], c.lot, c.at, c.notified)
  <2>1. Tidy(T)
    BY <1>0, CallFields, TidySchedule
  <2>2. tasks' = [tasks EXCEPT ![w] = T]
    BY <1>1 DEF Schedule
  <2> HIDE DEF T
  <2>3. /\ tasks' \in [Workers -> SUBSET Task]
        /\ \A v \in Workers : Tidy(tasks'[v])
    BY <2>1, <2>2, TidyOne
  <2>4. QED
    BY <1>0, <1>1, <2>3 DEF Schedule, TidyInv, Fields, lots, election
<1>2. ASSUME NEW c \in pending[w], Cancel(w, c)
      PROVE  TidyInv'
  <2> DEFINE T == Cancelled(tasks[w], {c.lot})
  <2>1. Tidy(T)
    BY <1>0, TidyCancelled
  <2>2. tasks' = [tasks EXCEPT ![w] = T]
    BY <1>2 DEF Cancel
  <2> HIDE DEF T
  <2>3. /\ tasks' \in [Workers -> SUBSET Task]
        /\ \A v \in Workers : Tidy(tasks'[v])
    BY <2>1, <2>2, TidyOne
  <2>4. QED
    BY <1>0, <1>2, <2>3 DEF Cancel, TidyInv, Fields, lots, election
<1>3. ASSUME NEW c \in pending[w], BuyCommit(w, c)
      PROVE  TidyInv'
  BY <1>0, <1>3, CallFields, TidySame DEF BuyCommit, TidyInv, Fields, election
<1>4. ASSUME NEW t \in tasks[w], WakeToComplete(w, t)
      PROVE  TidyInv'
  <2>1. /\ tasks' \in [Workers -> SUBSET Task]
        /\ \A v \in Workers : Tidy(tasks'[v])
    <3>1. CASE state[t.lot] # "open"
      BY <1>0, <1>4, <3>1, TidyExit DEF WakeToComplete
    <3>2. CASE state[t.lot] = "open" /\ end_time[t.lot] > now
      <4> DEFINE F == Fresh(t.lot, end_time[t.lot], ending_soon_notified[t.lot])
                 R == tasks[w] \ {t}
      <4>1. /\ t.lot \in Lots /\ end_time[t.lot] \in 0 .. Horizon
            /\ ending_soon_notified[t.lot] \in BOOLEAN
        BY <1>0, TaskFields DEF Fields
      <4>2. Tidy(F)
        BY <1>0, <4>1, TidyFresh
      <4>3. Tidy(R)
        BY <1>0, TidySubset
      <4>4. tasks' = [tasks EXCEPT ![w] = Armed(R, F)]
        BY <1>4, <3>2 DEF WakeToComplete
      <4> HIDE DEF F, R
      <4>5. Tidy(Armed(R, F))
        BY <4>2, <4>3, TidyArmed
      <4>6. QED
        BY <4>4, <4>5, TidyOne
    <3>3. CASE state[t.lot] = "open" /\ ~ (end_time[t.lot] > now)
      BY <1>4, <3>3, TidyPhased DEF WakeToComplete
    <3>4. QED
      BY <3>1, <3>2, <3>3
  <2>2. QED
    BY <1>0, <1>4, <2>1 DEF WakeToComplete, TidyInv, Fields, lots, election
<1>5. ASSUME NEW t \in tasks[w], Settle(w, t)
      PROVE  TidyInv'
  <2>1. /\ tasks' \in [Workers -> SUBSET Task]
        /\ \A v \in Workers : Tidy(tasks'[v])
    BY <1>5, TidyExit, TidyPhased DEF Settle
  <2>2. t.lot \in Lots
    BY <1>0, TaskFields
  <2>3. QED
    BY <1>0, <1>5, <2>1, <2>2 DEF Settle, TidyInv, Fields, election
<1>6. ASSUME NEW t \in tasks[w], Announce(w, t)
      PROVE  TidyInv'
  BY <1>0, <1>6, TidyExit DEF Announce, TidyInv, Fields, lots, election
<1>7. ASSUME NEW t \in tasks[w], WakeToWarn(w, t)
      PROVE  TidyInv'
  <2>1. /\ tasks' \in [Workers -> SUBSET Task]
        /\ \A v \in Workers : Tidy(tasks'[v])
    BY <1>7, TidyExit, TidyPhased DEF WakeToWarn
  <2>2. QED
    BY <1>0, <1>7, <2>1 DEF WakeToWarn, TidyInv, Fields, lots, election
<1>8. ASSUME NEW t \in tasks[w], Warn(w, t)
      PROVE  TidyInv'
  <2>1. /\ tasks' \in [Workers -> SUBSET Task]
        /\ \A v \in Workers : Tidy(tasks'[v])
    BY <1>8, TidyPhased DEF Warn
  <2>2. t.lot \in Lots
    BY <1>0, TaskFields
  <2>3. QED
    BY <1>0, <1>8, <2>1, <2>2 DEF Warn, TidyInv, Fields, election
<1>7a. ASSUME NEW t \in tasks[w], ReadBidders(w, t)
       PROVE  TidyInv'
  <2>1. /\ tasks' \in [Workers -> SUBSET Task]
        /\ \A v \in Workers : Tidy(tasks'[v])
    BY <1>7a, TidyPhased DEF ReadBidders
  <2>2. QED
    BY <1>0, <1>7a, <2>1 DEF ReadBidders, TidyInv, Fields, lots, election
<1>9. ASSUME NEW t \in tasks[w], SetNotified(w, t)
      PROVE  TidyInv'
  <2>1. /\ tasks' \in [Workers -> SUBSET Task]
        /\ \A v \in Workers : Tidy(tasks'[v])
    BY <1>9, TidyExit DEF SetNotified
  <2>2. t.lot \in Lots
    BY <1>0, TaskFields
  <2>3. QED
    BY <1>0, <1>9, <2>1, <2>2 DEF SetNotified, TidyInv, Fields, election
<1>10. CASE Promote(w)
  <2>1. Tidy(schedule_active_auctions(tasks[w]))
    BY <1>0, TidyActive
  <2>2. tasks' = [tasks EXCEPT ![w] = schedule_active_auctions(tasks[w])]
    BY <1>10 DEF Promote
  <2>3. /\ tasks' \in [Workers -> SUBSET Task]
        /\ \A v \in Workers : Tidy(tasks'[v])
    BY <2>1, <2>2, TidyOne
  <2>4. QED
    BY <1>0, <1>10, <2>3 DEF Promote, Claim, TidyInv, Fields, lots
<1>11. CASE PingFails(w)
  BY <1>0, <1>11, TidySame DEF PingFails, StepDown, Claim, TidyInv, Fields, lots
<1>12. QED
  BY <1>1, <1>2, <1>3, <1>4, <1>5, <1>6, <1>7, <1>8, <1>9, <1>10, <1>11, <1>7a DEF Run

(* ... and what goes wrong.                                                *)
LEMMA TidyGoesWrong ==
  ASSUME TidyInv, NEW w \in Workers, GoesWrong(w)
  PROVE  TidyInv'
<1>0. Fields /\ Tidy(tasks[w])
  BY DEF TidyInv
<1>1. ASSUME NEW c \in pending[w], BuyFails(w, c)
      PROVE  TidyInv'
  BY <1>0, <1>1, TidySame, FaultType DEF BuyFails, TidyInv, Fields, lots, election
<1>2. ASSUME NEW t \in tasks[w], SettleFails(w, t)
      PROVE  TidyInv'
  BY <1>0, <1>2, TidyExit, FaultType DEF SettleFails, TidyInv, Fields, lots, election
<1>3. ASSUME NEW t \in tasks[w], WarnFails(w, t)
      PROVE  TidyInv'
  BY <1>0, <1>3, TidyExit, FaultType DEF WarnFails, TidyInv, Fields, lots, election
<1>4. CASE Stop(w)
  <2>1. Tidy({})
    BY DEF Tidy
  <2>2. /\ tasks' \in [Workers -> SUBSET Task]
        /\ \A v \in Workers : Tidy(tasks'[v])
    BY <1>4, <2>1, TidyOne DEF Stop
  <2>3. faults' \in 0 .. MaxFaults
    BY <1>0, <1>4, FaultType DEF Stop
  <2>4. QED
    BY <1>0, <1>4, <2>2, <2>3 DEF Stop, TidyInv, Fields, lots
<1>5. CASE ConnectionDrops(w)
  BY <1>0, <1>5, TidySame, FaultType DEF ConnectionDrops, TidyInv, Fields, lots
<1>6. CASE PingTimesOut(w)
  BY <1>0, <1>6, TidySame, FaultType
     DEF PingTimesOut, StepDown, Claim, TidyInv, Fields, lots
<1>7. QED
  BY <1>1, <1>2, <1>3, <1>4, <1>5, <1>6 DEF GoesWrong

LEMMA StepTidy == TidyInv /\ [Next]_vars => TidyInv'
<1> SUFFICES ASSUME TidyInv, [Next]_vars PROVE TidyInv'
  OBVIOUS
<1>0. Fields
  BY DEF TidyInv
<1>1. CASE Tick
  <2>1. now' \in 0 .. Horizon
    BY <1>0, <1>1, LimitsAssumption DEF Tick, Fields
  <2>2. QED
    BY <1>0, <1>1, <2>1, TidySame DEF Tick, TidyInv, Fields, lots, election
<1>2. ASSUME NEW w \in Workers, Start(w)
      PROVE  TidyInv'
  <2>1. Tidy({})
    BY DEF Tidy
  <2>2. Tidy(schedule_active_auctions({}))
    BY <1>0, <2>1, TidyActive
  <2>3. /\ tasks' \in [Workers -> SUBSET Task]
        /\ \A v \in Workers : Tidy(tasks'[v])
    BY <1>2, <2>2, TidyOne, TidySame DEF Start
  <2>4. QED
    BY <1>0, <1>2, <2>3 DEF Start, Claim, TidyInv, Fields, lots, election
<1>3. CASE UNCHANGED vars
  BY <1>0, <1>3, TidySame DEF vars, TidyInv, Fields, lots, election
<1>4. QED
  BY <1>1, <1>2, <1>3, TidyRun, TidyGoesWrong, TidyRequested DEF Next

LEMMA InitTidy == Init => TidyInv
<1>1. 0 \in 0 .. Horizon /\ 0 \in 0 .. MaxExtensions /\ 0 \in 0 .. MaxFaults /\ 0 \in 0 .. MaxDeletions
  BY LimitsAssumption
<1>2. QED
  BY <1>1 DEF Init, TidyInv, Fields, Tidy

LEMMA TidyHolds == Spec => []TidyInv
BY InitTidy, StepTidy, PTL DEF Spec

(* Whatever stops, fails or moves, a sleeping task is the one in the slot  *)
(* of its lot, so that cancel_auction and shutdown_scheduler reach it.     *)
THEOREM TasksAreReachable == Spec => []TypeOK
<1>1. TidyInv => TypeOK
  BY DEF TidyInv, Fields, Tidy, TypeOK, EveryTaskIsReachable
<1>2. QED
  BY <1>1, TidyHolds, PTL

-----------------------------------------------------------------------------
(* The election.                                                           *)

(* Only these steps touch the connections and the lock.                    *)
LEMMA ElectionMoves ==
  ASSUME [Next]_vars
  PROVE  \/ UNCHANGED election
         \/ \E w \in Workers : Claimable(w) /\ Claim(w) /\ (Start(w) \/ Promote(w))
         \/ \E w \in Workers : PingFails(w) \/ PingTimesOut(w)
         \/ \E w \in Workers : Stop(w) \/ ConnectionDrops(w)
<1>1. CASE Tick
  BY <1>1 DEF Tick
<1>2. ASSUME NEW w \in Workers, Start(w)
      PROVE  UNCHANGED election \/ (Claimable(w) /\ Claim(w) /\ Start(w))
  BY <1>2 DEF Start, election
<1>3. ASSUME NEW w \in Workers, Run(w)
      PROVE  \/ UNCHANGED election
             \/ Claimable(w) /\ Claim(w) /\ Promote(w)
             \/ PingFails(w)
  <2>1. ASSUME NEW c \in pending[w], Schedule(w, c) \/ Cancel(w, c) \/ BuyCommit(w, c)
        PROVE  UNCHANGED election
    BY <2>1 DEF Schedule, Cancel, BuyCommit
  <2>2. ASSUME NEW t \in tasks[w],
               \/ WakeToComplete(w, t) \/ Settle(w, t) \/ Announce(w, t)
               \/ WakeToWarn(w, t) \/ ReadBidders(w, t) \/ Warn(w, t) \/ SetNotified(w, t)
        PROVE  UNCHANGED election
    BY <2>2 DEF WakeToComplete, Settle, Announce, WakeToWarn, ReadBidders, Warn, SetNotified
  <2>3. CASE Promote(w)
    BY <2>3 DEF Promote, Claim
  <2>4. QED
    BY <1>3, <2>1, <2>2, <2>3 DEF Run
<1>4. ASSUME NEW w \in Workers, GoesWrong(w)
      PROVE  UNCHANGED election \/ Stop(w) \/ ConnectionDrops(w) \/ PingTimesOut(w)
  BY <1>4 DEF GoesWrong, BuyFails, SettleFails, WarnFails
<1>5. ASSUME NEW w \in Workers, NEW l \in Lots, Requested(w, l)
      PROVE  UNCHANGED election
  BY <1>5 DEF Requested, CreateAuction, PlaceBid, DeleteAuction, BuyNow, UpdateAuction,
     DeleteWarning
<1>6. CASE UNCHANGED vars
  BY <1>6 DEF vars
<1>7. QED
  BY <1>1, <1>2, <1>3, <1>4, <1>5, <1>6 DEF Next

LEMMA StepLeader == TidyInv /\ LeaderHasLock /\ [Next]_vars => LeaderHasLock'
<1> SUFFICES ASSUME TidyInv, LeaderHasLock, [Next]_vars PROVE LeaderHasLock'
  OBVIOUS
<1>1. conn \in [Workers -> {"none", "live", "dead"}] /\ lock \in Workers \cup {NoWorker}
  BY DEF TidyInv, Fields
<1>2. CASE UNCHANGED election
  BY <1>2 DEF election, LeaderHasLock
<1>3. ASSUME NEW w \in Workers, Claimable(w), Claim(w)
      PROVE  LeaderHasLock'
  BY <1>1, <1>3, WorkersAssumption DEF Claimable, Claim, LeaderHasLock
<1>4. ASSUME NEW w \in Workers, PingFails(w) \/ PingTimesOut(w)
      PROVE  LeaderHasLock'
  <2>1. CASE Claim(w)
    BY <1>1, <2>1, WorkersAssumption DEF Claimable, Claim, LeaderHasLock
  <2>2. CASE conn' = [conn EXCEPT ![w] = "none"] /\ UNCHANGED lock
    BY <1>1, <2>2 DEF LeaderHasLock
  <2>3. QED
    BY <1>4, <2>1, <2>2 DEF PingFails, PingTimesOut, StepDown
<1>5. ASSUME NEW w \in Workers, Stop(w) \/ ConnectionDrops(w)
      PROVE  LeaderHasLock'
  <2>1. CASE Stop(w)
    BY <1>1, <2>1 DEF Stop, LeaderHasLock
  <2>2. CASE ConnectionDrops(w)
    BY <1>1, <2>2 DEF ConnectionDrops, LeaderHasLock
  <2>3. QED
    BY <1>5, <2>1, <2>2
<1>6. QED
  BY ElectionMoves, <1>2, <1>3, <1>4, <1>5

LEMMA InitLeader == Init => LeaderHasLock
BY DEF Init, LeaderHasLock

(* Two processes never both believe to lead over a live connection, and    *)
(* the one that does has the advisory lock, whatever stops or drops.       *)
THEOREM OneLeader == Spec => []LeaderHasLock
BY InitTidy, StepTidy, InitLeader, StepLeader, PTL DEF Spec

-----------------------------------------------------------------------------
(* Settlements.                                                            *)

Settling(l) ==
  {w \in Workers : \E t \in tasks[w] : t.lot = l /\ t.kind = "complete" /\ t.phase = "reading"}

(* A process that settles a lot has no other settlement of it under way,   *)
(* and none can begin once the lot is closed.                              *)
Paid(l) ==
  /\ state[l] \in {"absent", "open"} => settled[l] = 0
  /\ settled[l] + Cardinality(Settling(l)) <= Cardinality(Workers)

PaidInv == TidyInv /\ \A l \in Lots : Paid(l)

(* New tasks sleep.                                                        *)
LEMMA FreshSleep ==
  ASSUME NEW l, NEW end, NEW notified
  PROVE  \A t \in Fresh(l, end, notified) : t.phase = "sleeping" /\ t.lot = l
BY DEF Fresh, Sleeping

LEMMA ScheduleSleep ==
  ASSUME NEW T, NEW l, NEW end, NEW notified
  PROVE  \A t \in schedule_auction(T, l, end, notified) : t \in T \/ t.phase = "sleeping"
BY FreshSleep DEF schedule_auction, Armed, Cancelled

LEMMA ActiveSleep ==
  ASSUME NEW T
  PROVE  \A t \in schedule_active_auctions(T) : t \in T \/ t.phase = "sleeping"
<1> SUFFICES ASSUME NEW t \in schedule_active_auctions(T), t \notin T
             PROVE  t.phase = "sleeping"
  OBVIOUS
<1>1. t \notin Cancelled(T, OpenLots)
  BY DEF Cancelled
<1>2. PICK l \in OpenLots : t \in Fresh(l, end_time[l], ending_soon_notified[l])
  BY <1>1 DEF schedule_active_auctions
<1>3. QED
  BY <1>2, FreshSleep

(* No settlement begins in this step.                                      *)
NoneBegins ==
  \A w \in Workers : \A t \in tasks'[w] :
    t.kind = "complete" /\ t.phase = "reading" => t \in tasks[w]

Quiet(l) ==
  /\ settled'[l] = settled[l]
  /\ state[l] \in {"closed", "deleted"} => state'[l] \in {"closed", "deleted"}
  /\ state[l] = "open" \/ Settling(l)' \subseteq Settling(l)

LEMMA NoneBeginsQuiet ==
  ASSUME NoneBegins, NEW l
  PROVE  Settling(l)' \subseteq Settling(l)
BY DEF NoneBegins, Settling

LEMMA TasksStay ==
  ASSUME UNCHANGED tasks
  PROVE  NoneBegins
BY DEF NoneBegins

LEMMA TasksBecome ==
  ASSUME TidyInv, NEW w \in Workers, NEW T, tasks' = [tasks EXCEPT ![w] = T],
         \A t \in T : t.kind = "complete" /\ t.phase = "reading" => t \in tasks[w]
  PROVE  NoneBegins
BY DEF NoneBegins, TidyInv, Fields

LEMMA ExitBegins ==
  ASSUME TidyInv, NEW w \in Workers, NEW t, Exit(w, t)
  PROVE  NoneBegins
BY DEF Exit, NoneBegins, TidyInv, Fields

LEMMA PhaseBegins ==
  ASSUME TidyInv, NEW w \in Workers, NEW t \in tasks[w], NEW phase,
         phase = "committed" \/ t.kind = "warn", Phase(w, t, phase)
  PROVE  NoneBegins
<1> DEFINE v == [t EXCEPT !.phase = phase]
           T == (tasks[w] \ {t}) \cup {v}
<1>1. v.kind = t.kind /\ v.phase = phase
  <2>1. t \in Task
    BY TaskFields DEF TidyInv
  <2>2. QED
    BY <2>1 DEF Task
<1>2. tasks' = [tasks EXCEPT ![w] = T]
  BY DEF Phase
<1> HIDE DEF v
<1>3. \A u \in T : u.kind = "complete" /\ u.phase = "reading" => u \in tasks[w]
  BY <1>1
<1> HIDE DEF T
<1>4. QED
  BY <1>2, <1>3, TasksBecome

LEMMA QuietRequested ==
  ASSUME TidyInv, NEW w \in Workers, NEW k \in Lots, Requested(w, k), NEW l \in Lots
  PROVE  Quiet(l)
<1>0. Fields
  BY DEF TidyInv
<1>1. ASSUME NEW type, NEW d, CreateAuction(w, k, type, d)
      PROVE  Quiet(l)
  BY <1>0, <1>1, TasksStay, NoneBeginsQuiet DEF CreateAuction, Quiet, Fields
<1>2. CASE PlaceBid(w, k)
  BY <1>0, <1>2, TasksStay, NoneBeginsQuiet DEF PlaceBid, Quiet, Fields
<1>3. CASE DeleteAuction(w, k)
  BY <1>0, <1>3, TasksStay, NoneBeginsQuiet DEF DeleteAuction, Quiet, Fields
<1>4. CASE BuyNow(w, k)
  <2>1. tasks' = [tasks EXCEPT ![w] = Cancelled(tasks[w], {k})]
    BY <1>4 DEF BuyNow
  <2>2. NoneBegins
    BY <2>1, TasksBecome DEF Cancelled
  <2>3. QED
    BY <1>0, <1>4, <2>2, NoneBeginsQuiet DEF BuyNow, Quiet, lots
<1>5. ASSUME NEW m, UpdateAuction(w, k, m)
      PROVE  Quiet(l)
  BY <1>0, <1>5, TasksStay, NoneBeginsQuiet DEF UpdateAuction, Quiet, Fields
<1>6. CASE DeleteWarning(w, k)
  BY <1>0, <1>6, TasksStay, NoneBeginsQuiet DEF DeleteWarning, Quiet, Fields
<1>7. QED
  BY <1>1, <1>2, <1>3, <1>4, <1>5, <1>6 DEF Requested

LEMMA QuietRun ==
  ASSUME TidyInv, NEW w \in Workers, Run(w), NEW l \in Lots
  PROVE  Quiet(l) \/ \E t \in tasks[w] : t.lot = l /\ Settle(w, t)
<1>0. Fields
  BY DEF TidyInv
<1>1. ASSUME NEW c \in pending[w], Schedule(w, c)
      PROVE  Quiet(l)
  <2> DEFINE T == schedule_auction(tasks[w], c.lot, c.at, c.notified)
  <2>1. tasks' = [tasks EXCEPT ![w] = T]
    BY <1>1 DEF Schedule
  <2>2. \A t \in T : t \in tasks[w] \/ t.phase = "sleeping"
    BY ScheduleSleep
  <2> HIDE DEF T
  <2>3. NoneBegins
    BY <2>1, <2>2, TasksBecome
  <2>4. QED
    BY <1>1, <2>3, NoneBeginsQuiet DEF Schedule, Quiet, lots
<1>2. ASSUME NEW c \in pending[w], Cancel(w, c)
      PROVE  Quiet(l)
  <2>1. tasks' = [tasks EXCEPT ![w] = Cancelled(tasks[w], {c.lot})]
    BY <1>2 DEF Cancel
  <2>2. NoneBegins
    BY <2>1, TasksBecome DEF Cancelled
  <2>3. QED
    BY <1>2, <2>2, NoneBeginsQuiet DEF Cancel, Quiet, lots
<1>3. ASSUME NEW c \in pending[w], BuyCommit(w, c)
      PROVE  Quiet(l)
  BY <1>0, <1>3, TasksStay, NoneBeginsQuiet DEF BuyCommit, Quiet, Fields
<1>4. ASSUME NEW t \in tasks[w], WakeToComplete(w, t)
      PROVE  Quiet(l)
  <2>1. CASE state[t.lot] # "open"
    BY <1>4, <2>1, ExitBegins, NoneBeginsQuiet DEF WakeToComplete, Quiet, lots
  <2>2. CASE state[t.lot] = "open" /\ end_time[t.lot] > now
    <3> DEFINE F == Fresh(t.lot, end_time[t.lot], ending_soon_notified[t.lot])
               A == Armed(tasks[w] \ {t}, F)
    <3>1. tasks' = [tasks EXCEPT ![w] = A]
      BY <1>4, <2>2 DEF WakeToComplete
    <3>2. \A v \in F : v.phase = "sleeping"
      BY FreshSleep
    <3> HIDE DEF F
    <3>3. \A v \in A : v \in tasks[w] \/ v.phase = "sleeping"
      BY <3>2 DEF Armed
    <3> HIDE DEF A
    <3>4. NoneBegins
      BY <3>1, <3>3, TasksBecome
    <3>5. QED
      BY <1>4, <3>4, NoneBeginsQuiet DEF WakeToComplete, Quiet, lots
  <2>3. CASE state[t.lot] = "open" /\ ~ (end_time[t.lot] > now)
    <3> DEFINE r == [t EXCEPT !.phase = "reading"]
    <3>1. r.lot = t.lot
      <4>1. t \in Task
        BY <1>0, TaskFields
      <4>2. QED
        BY <4>1 DEF Task
    <3>2. tasks' = [tasks EXCEPT ![w] = (tasks[w] \ {t}) \cup {r}]
      BY <1>4, <2>3 DEF WakeToComplete, Phase
    <3> HIDE DEF r
    <3>3. l # t.lot => Settling(l)' \subseteq Settling(l)
      BY <1>0, <3>1, <3>2 DEF Settling, Fields
    <3>4. QED
      BY <1>4, <2>3, <3>3 DEF WakeToComplete, Quiet, lots
  <2>4. QED
    BY <2>1, <2>2, <2>3
<1>5. ASSUME NEW t \in tasks[w], Settle(w, t), t.lot # l
      PROVE  Quiet(l)
  <2>1. NoneBegins
    BY <1>5, ExitBegins, PhaseBegins DEF Settle
  <2>2. QED
    BY <1>0, <1>5, <2>1, NoneBeginsQuiet DEF Settle, Quiet, Fields
<1>6. ASSUME NEW t \in tasks[w], Announce(w, t)
      PROVE  Quiet(l)
  BY <1>6, ExitBegins, NoneBeginsQuiet DEF Announce, Quiet, lots
<1>7. ASSUME NEW t \in tasks[w], WakeToWarn(w, t)
      PROVE  Quiet(l)
  BY <1>7, ExitBegins, PhaseBegins, NoneBeginsQuiet DEF WakeToWarn, Quiet, lots
<1>8. ASSUME NEW t \in tasks[w], Warn(w, t)
      PROVE  Quiet(l)
  BY <1>8, PhaseBegins, NoneBeginsQuiet DEF Warn, Quiet
<1>7a. ASSUME NEW t \in tasks[w], ReadBidders(w, t)
       PROVE  Quiet(l)
  BY <1>7a, PhaseBegins, NoneBeginsQuiet DEF ReadBidders, Quiet, lots
<1>9. ASSUME NEW t \in tasks[w], SetNotified(w, t)
      PROVE  Quiet(l)
  BY <1>9, ExitBegins, NoneBeginsQuiet DEF SetNotified, Quiet
<1>10. CASE Promote(w)
  <2> DEFINE T == schedule_active_auctions(tasks[w])
  <2>1. tasks' = [tasks EXCEPT ![w] = T]
    BY <1>10 DEF Promote
  <2>2. \A t \in T : t \in tasks[w] \/ t.phase = "sleeping"
    BY ActiveSleep
  <2> HIDE DEF T
  <2>3. NoneBegins
    BY <2>1, <2>2, TasksBecome
  <2>4. QED
    BY <1>10, <2>3, NoneBeginsQuiet DEF Promote, Quiet, lots
<1>11. CASE PingFails(w)
  BY <1>11, TasksStay, NoneBeginsQuiet DEF PingFails, StepDown, Quiet, lots
<1>12. QED
  BY <1>1, <1>2, <1>3, <1>4, <1>5, <1>6, <1>7, <1>8, <1>9, <1>10, <1>11, <1>7a DEF Run

LEMMA QuietGoesWrong ==
  ASSUME TidyInv, NEW w \in Workers, GoesWrong(w), NEW l \in Lots
  PROVE  Quiet(l)
<1>1. ASSUME NEW c \in pending[w], BuyFails(w, c)
      PROVE  Quiet(l)
  BY <1>1, TasksStay, NoneBeginsQuiet DEF BuyFails, Quiet, lots
<1>2. ASSUME NEW t \in tasks[w], SettleFails(w, t) \/ WarnFails(w, t)
      PROVE  Quiet(l)
  BY <1>2, ExitBegins, NoneBeginsQuiet DEF SettleFails, WarnFails, Quiet, lots
<1>3. CASE Stop(w)
  <2>1. NoneBegins
    BY <1>3 DEF Stop, NoneBegins, TidyInv, Fields
  <2>2. QED
    BY <1>3, <2>1, NoneBeginsQuiet DEF Stop, Quiet, lots
<1>4. CASE ConnectionDrops(w) \/ PingTimesOut(w)
  BY <1>4, TasksStay, NoneBeginsQuiet DEF ConnectionDrops, PingTimesOut, StepDown, Quiet, lots
<1>5. QED
  BY <1>1, <1>2, <1>3, <1>4 DEF GoesWrong

(* A lot is settled, or nobody settles it and, unless it is open, no       *)
(* process starts to.                                                      *)
LEMMA SettlementMoves ==
  ASSUME TidyInv, [Next]_vars, NEW l \in Lots
  PROVE  Quiet(l) \/ \E w \in Workers : \E t \in tasks[w] : t.lot = l /\ Settle(w, t)
<1>1. CASE Tick
  BY <1>1, TasksStay, NoneBeginsQuiet DEF Tick, Quiet, lots
<1>2. ASSUME NEW w \in Workers, Start(w)
      PROVE  Quiet(l)
  <2>1. NoneBegins
    <3>1. CASE UNCHANGED tasks
      BY <3>1, TasksStay
    <3>2. CASE tasks' = [tasks EXCEPT ![w] = schedule_active_auctions({})]
      <4> DEFINE T == schedule_active_auctions({})
      <4>1. \A t \in T : t \in {} \/ t.phase = "sleeping"
        BY ActiveSleep
      <4> HIDE DEF T
      <4>2. \A t \in T : t.phase = "sleeping"
        BY <4>1
      <4>3. tasks' = [tasks EXCEPT ![w] = T]
        BY <3>2 DEF T
      <4>4. QED
        BY <4>2, <4>3, TasksBecome
    <3>3. QED
      BY <1>2, <3>1, <3>2 DEF Start
  <2>2. QED
    BY <1>2, <2>1, NoneBeginsQuiet DEF Start, Quiet, lots
<1>3. CASE UNCHANGED vars
  BY <1>3, TasksStay, NoneBeginsQuiet DEF vars, Quiet, lots
<1>4. QED
  BY <1>1, <1>2, <1>3, QuietRun, QuietGoesWrong, QuietRequested DEF Next

(* The process that settles has no other settlement of the lot under way.  *)
LEMMA SettlingLeft ==
  ASSUME TidyInv, NEW w \in Workers, NEW t \in tasks[w], Settle(w, t)
  PROVE  /\ w \in Settling(t.lot)
         /\ Settling(t.lot)' \subseteq Settling(t.lot) \ {w}
<1>0. t.kind = "complete" /\ t.phase = "reading" /\ Tidy(tasks[w]) /\ Fields /\ t \in Task
  BY TaskFields DEF Settle, TidyInv
<1>1. w \in Settling(t.lot)
  BY <1>0 DEF Settling
<1>2. NoneBegins
  BY ExitBegins, PhaseBegins DEF Settle
<1>3. t \notin tasks'[w]
  <2>1. CASE Exit(w, t)
    BY <1>0, <2>1 DEF Exit, Fields
  <2>2. CASE Phase(w, t, "committed")
    <3>1. [t EXCEPT !.phase = "committed"] # t
      BY <1>0 DEF Task
    <3>2. QED
      BY <1>0, <2>2, <3>1 DEF Phase, Fields
  <2>3. QED
    BY <2>1, <2>2 DEF Settle
<1>4. w \notin Settling(t.lot)'
  BY <1>0, <1>2, <1>3 DEF Settling, NoneBegins, Tidy
<1>5. QED
  BY <1>1, <1>2, <1>4, NoneBeginsQuiet

LEMMA StepPaid ==
  ASSUME IsFiniteSet(Workers), PaidInv, [Next]_vars
  PROVE  PaidInv'
<1>0. TidyInv /\ TidyInv'
  BY StepTidy DEF PaidInv
<1>a. /\ settled \in [Lots -> Nat] /\ settled' \in [Lots -> Nat]
      /\ state \in [Lots -> {"absent", "open", "closed", "deleted"}]
      /\ state' \in [Lots -> {"absent", "open", "closed", "deleted"}]
  BY <1>0 DEF TidyInv, Fields
<1> SUFFICES ASSUME NEW l \in Lots
             PROVE  Paid(l)'
  BY <1>0 DEF PaidInv
<1>1. /\ IsFiniteSet(Settling(l)) /\ Cardinality(Settling(l)) \in Nat
      /\ IsFiniteSet(Settling(l)') /\ Cardinality(Settling(l)') \in Nat
      /\ Cardinality(Settling(l)') <= Cardinality(Workers)
      /\ Cardinality(Workers) \in Nat
  <2>1. Settling(l) \in SUBSET Workers /\ Settling(l)' \in SUBSET Workers
    BY DEF Settling
  <2>2. QED
    BY <2>1, FS_Subset, FS_CardinalityType
<1>2. Paid(l)
  BY DEF PaidInv
<1>3. CASE Quiet(l)
  <2>1. settled'[l] = settled[l]
    BY <1>3 DEF Quiet
  <2>2. CASE state[l] \in {"absent", "open"}
    <3>1. settled'[l] = 0
      BY <1>2, <2>1, <2>2 DEF Paid
    <3>2. QED
      BY <1>1, <3>1 DEF Paid
  <2>3. CASE state[l] \notin {"absent", "open"}
    <3>1. state[l] \in {"closed", "deleted"} /\ state'[l] \in {"closed", "deleted"}
      BY <1>a, <1>3, <2>3 DEF Quiet
    <3>2. Settling(l)' \subseteq Settling(l)
      BY <1>3, <2>3 DEF Quiet
    <3>3. Cardinality(Settling(l)') <= Cardinality(Settling(l))
      BY <1>1, <3>2, FS_Subset
    <3>4. settled[l] \in Nat
      BY <1>a
    <3>5. settled'[l] + Cardinality(Settling(l)') <= Cardinality(Workers)
      BY <1>1, <1>2, <2>1, <3>3, <3>4 DEF Paid
    <3>6. QED
      BY <3>1, <3>5 DEF Paid
  <2>4. QED
    BY <2>2, <2>3
<1>4. ASSUME NEW w \in Workers, NEW t \in tasks[w], t.lot = l, Settle(w, t)
      PROVE  Paid(l)'
  <2>1. w \in Settling(l) /\ Settling(l)' \subseteq Settling(l) \ {w}
    BY <1>0, <1>4, SettlingLeft
  <2>2. Cardinality(Settling(l)') <= Cardinality(Settling(l)) - 1
    <3>1. /\ IsFiniteSet(Settling(l) \ {w})
          /\ Cardinality(Settling(l) \ {w}) = Cardinality(Settling(l)) - 1
      BY <1>1, <2>1, FS_RemoveElement
    <3>2. QED
      BY <2>1, <3>1, FS_Subset
  <2>3. CASE state[l] = "deleted"
    <3>1. state'[l] = "deleted" /\ settled'[l] = settled[l]
      BY <1>4, <2>3 DEF Settle
    <3>2. QED
      BY <1>1, <1>2, <1>a, <2>2, <3>1 DEF Paid
  <2>4. CASE state[l] # "deleted"
    <3>1. state'[l] = "closed"
      BY <1>a, <1>4, <2>4 DEF Settle
    <3>2. settled'[l] \in Nat /\ settled[l] \in Nat /\ settled'[l] <= settled[l] + 1
      BY <1>a, <1>4, <2>4 DEF Settle
    <3>3. QED
      BY <1>1, <1>2, <2>2, <3>1, <3>2 DEF Paid
  <2>5. QED
    BY <2>3, <2>4
<1>5. QED
  BY <1>0, <1>3, <1>4, SettlementMoves

LEMMA InitPaid == IsFiniteSet(Workers) /\ Init => PaidInv
<1> SUFFICES ASSUME IsFiniteSet(Workers), Init PROVE PaidInv
  OBVIOUS
<1>1. TidyInv
  BY InitTidy
<1>2. ASSUME NEW l \in Lots
      PROVE  Paid(l)
  <2>1. Settling(l) = {} /\ settled[l] = 0
    BY <1>2 DEF Init, Settling
  <2>2. Cardinality(Settling(l)) = 0 /\ Cardinality(Workers) \in Nat
    BY <2>1, FS_EmptySet, FS_CardinalityType
  <2>3. QED
    BY <2>1, <2>2 DEF Paid
<1>3. QED
  BY <1>1, <1>2 DEF PaidInv

(* A process pays a lot's seller once at most: what pays twice is a second *)
(* process that read the lot before the first one closed it.               *)
THEOREM SettledOncePerProcess ==
  IsFiniteSet(Workers) => (Spec => [](\A l \in Lots : settled[l] <= Cardinality(Workers)))
<1> SUFFICES ASSUME IsFiniteSet(Workers)
             PROVE  Spec => [](\A l \in Lots : settled[l] <= Cardinality(Workers))
  OBVIOUS
<1>1. PaidInv => \A l \in Lots : settled[l] <= Cardinality(Workers)
  <2> SUFFICES ASSUME PaidInv, NEW l \in Lots
               PROVE  settled[l] <= Cardinality(Workers)
    OBVIOUS
  <2>1. Settling(l) \in SUBSET Workers
    BY DEF Settling
  <2>2. Cardinality(Settling(l)) \in Nat /\ Cardinality(Workers) \in Nat
    BY <2>1, FS_Subset, FS_CardinalityType
  <2>3. settled[l] \in Nat
    BY DEF PaidInv, TidyInv, Fields
  <2>4. QED
    BY <2>2, <2>3 DEF PaidInv, Paid
<1>2. PaidInv /\ [Next]_vars => PaidInv'
  BY StepPaid
<1>3. Init => PaidInv
  BY InitPaid
<1>4. QED
  BY <1>1, <1>2, <1>3, PTL DEF Spec

(* The rows of a warning are inserted by a task that is telling, and       *)
(* deleted by readers.                                                     *)
LEMMA WarningsMove ==
  ASSUME [Next]_vars
  PROVE  \/ UNCHANGED <<warnings, deleted>>
         \/ \E w \in Workers : \E t \in tasks[w] : Warn(w, t)
         \/ \E w \in Workers, l \in Lots : DeleteWarning(w, l)
<1>1. ASSUME NEW w \in Workers, Run(w)
      PROVE  UNCHANGED <<warnings, deleted>> \/ \E t \in tasks[w] : Warn(w, t)
  BY <1>1 DEF Run, Schedule, Cancel, BuyCommit, WakeToComplete, Settle, Announce,
              WakeToWarn, ReadBidders, SetNotified, Promote, PingFails, StepDown, lots
<1>2. ASSUME NEW w \in Workers, Start(w) \/ GoesWrong(w)
      PROVE  UNCHANGED <<warnings, deleted>>
  BY <1>2 DEF Start, GoesWrong, BuyFails, SettleFails, WarnFails, Stop, ConnectionDrops,
              PingTimesOut, StepDown, lots
<1>3. ASSUME NEW w \in Workers, NEW l \in Lots, Requested(w, l)
      PROVE  UNCHANGED <<warnings, deleted>> \/ DeleteWarning(w, l)
  BY <1>3 DEF Requested, CreateAuction, PlaceBid, DeleteAuction, BuyNow, UpdateAuction, lots
<1>4. CASE Tick \/ UNCHANGED vars
  BY <1>4 DEF Tick, vars, lots
<1>5. QED
  BY <1>1, <1>2, <1>3, <1>4 DEF Next

(* No task begins to tell in this step.                                    *)
TellersStay ==
  \A w \in Workers : \A t \in tasks'[w] : t.phase = "telling" => t \in tasks[w]

LEMMA TellersSame ==
  ASSUME UNCHANGED tasks
  PROVE  TellersStay
BY DEF TellersStay

LEMMA TellersBecome ==
  ASSUME TidyInv, NEW w \in Workers, NEW T, tasks' = [tasks EXCEPT ![w] = T],
         \A t \in T : t \in tasks[w] \/ t.phase = "sleeping"
  PROVE  TellersStay
BY DEF TellersStay, TidyInv, Fields

LEMMA TellersExit ==
  ASSUME TidyInv, NEW w \in Workers, NEW t, Exit(w, t)
  PROVE  TellersStay
BY DEF Exit, TellersStay, TidyInv, Fields

LEMMA TellersPhase ==
  ASSUME TidyInv, NEW w \in Workers, NEW t \in tasks[w], NEW phase,
         phase # "telling", Phase(w, t, phase)
  PROVE  TellersStay
<1>1. PICK v : v = [t EXCEPT !.phase = phase]
  OBVIOUS
<1>2. v.phase = phase
  <2>1. t \in Task
    BY TaskFields DEF TidyInv
  <2>2. QED
    BY <1>1, <2>1 DEF Task
<1>3. tasks' = [tasks EXCEPT ![w] = (tasks[w] \ {t}) \cup {v}]
  BY <1>1 DEF Phase
<1>4. QED
  BY <1>2, <1>3 DEF TellersStay, TidyInv, Fields

LEMMA TellersRun ==
  ASSUME TidyInv, NEW w \in Workers, Run(w)
  PROVE  TellersStay \/ \E t \in tasks[w] : ReadBidders(w, t)
<1>1. ASSUME NEW c \in pending[w], Schedule(w, c)
      PROVE  TellersStay
  <2>1. PICK T : T = schedule_auction(tasks[w], c.lot, c.at, c.notified)
    OBVIOUS
  <2>2. \A t \in T : t \in tasks[w] \/ t.phase = "sleeping"
    BY <2>1, ScheduleSleep
  <2>3. tasks' = [tasks EXCEPT ![w] = T]
    BY <1>1, <2>1 DEF Schedule
  <2>4. QED
    BY <2>2, <2>3, TellersBecome
<1>2. ASSUME NEW c \in pending[w], Cancel(w, c)
      PROVE  TellersStay
  <2>1. tasks' = [tasks EXCEPT ![w] = Cancelled(tasks[w], {c.lot})]
    BY <1>2 DEF Cancel
  <2>2. \A t \in Cancelled(tasks[w], {c.lot}) : t \in tasks[w]
    BY DEF Cancelled
  <2>3. QED
    BY <2>1, <2>2, TellersBecome
<1>3. ASSUME NEW t \in tasks[w], WakeToComplete(w, t)
      PROVE  TellersStay
  <2>1. CASE state[t.lot] = "open" /\ end_time[t.lot] > now
    <3>1. PICK F : F = Fresh(t.lot, end_time[t.lot], ending_soon_notified[t.lot])
      OBVIOUS
    <3>2. \A v \in F : v.phase = "sleeping"
      BY <3>1, FreshSleep
    <3>3. PICK A : A = Armed(tasks[w] \ {t}, F)
      OBVIOUS
    <3>4. \A v \in A : v \in tasks[w] \/ v.phase = "sleeping"
      BY <3>2, <3>3 DEF Armed
    <3>5. tasks' = [tasks EXCEPT ![w] = A]
      BY <1>3, <2>1, <3>1, <3>3 DEF WakeToComplete
    <3>6. QED
      BY <3>4, <3>5, TellersBecome
  <2>2. QED
    BY <1>3, <2>1, TellersExit, TellersPhase DEF WakeToComplete
<1>4. ASSUME NEW t \in tasks[w], Settle(w, t) \/ Announce(w, t) \/ SetNotified(w, t)
      PROVE  TellersStay
  BY <1>4, TellersExit, TellersPhase DEF Settle, Announce, SetNotified
<1>5. ASSUME NEW t \in tasks[w], WakeToWarn(w, t) \/ Warn(w, t)
      PROVE  TellersStay
  BY <1>5, TellersExit, TellersPhase DEF WakeToWarn, Warn
<1>6. CASE Promote(w)
  <2>1. PICK T : T = schedule_active_auctions(tasks[w])
    OBVIOUS
  <2>2. \A t \in T : t \in tasks[w] \/ t.phase = "sleeping"
    BY <2>1, ActiveSleep
  <2>3. tasks' = [tasks EXCEPT ![w] = T]
    BY <1>6, <2>1 DEF Promote
  <2>4. QED
    BY <2>2, <2>3, TellersBecome
<1>7. ASSUME PingFails(w) \/ \E c \in pending[w] : BuyCommit(w, c)
      PROVE  TellersStay
  BY <1>7, TellersSame DEF PingFails, StepDown, BuyCommit
<1>8. QED
  BY <1>1, <1>2, <1>3, <1>4, <1>5, <1>6, <1>7 DEF Run

LEMMA TellersMove ==
  ASSUME TidyInv, [Next]_vars
  PROVE  TellersStay \/ \E w \in Workers : \E t \in tasks[w] : ReadBidders(w, t)
<1>1. ASSUME NEW w \in Workers, Start(w)
      PROVE  TellersStay
  <2>1. PICK T : T = schedule_active_auctions({})
    OBVIOUS
  <2>2. \A t \in T : t \in {} \/ t.phase = "sleeping"
    BY <2>1, ActiveSleep
  <2>3. \A t \in T : t \in tasks[w] \/ t.phase = "sleeping"
    BY <2>2
  <2>4. UNCHANGED tasks \/ tasks' = [tasks EXCEPT ![w] = T]
    BY <1>1, <2>1 DEF Start
  <2>5. QED
    BY <2>3, <2>4, TellersSame, TellersBecome
<1>2. ASSUME NEW w \in Workers, GoesWrong(w)
      PROVE  TellersStay
  <2>1. CASE Stop(w)
    BY <2>1 DEF Stop, TellersStay, TidyInv, Fields
  <2>2. ASSUME NEW t \in tasks[w], SettleFails(w, t) \/ WarnFails(w, t)
        PROVE  TellersStay
    BY <2>2, TellersExit DEF SettleFails, WarnFails
  <2>3. QED
    BY <1>2, <2>1, <2>2, TellersSame DEF GoesWrong, BuyFails, ConnectionDrops, PingTimesOut,
       StepDown
<1>3. ASSUME NEW w \in Workers, NEW l \in Lots, Requested(w, l)
      PROVE  TellersStay
  <2>1. CASE BuyNow(w, l)
    <3>1. tasks' = [tasks EXCEPT ![w] = Cancelled(tasks[w], {l})]
      BY <2>1 DEF BuyNow
    <3>2. \A t \in Cancelled(tasks[w], {l}) : t \in tasks[w]
      BY DEF Cancelled
    <3>3. QED
      BY <3>1, <3>2, TellersBecome
  <2>2. QED
    BY <1>3, <2>1, TellersSame DEF Requested, CreateAuction, PlaceBid, DeleteAuction,
       UpdateAuction, DeleteWarning
<1>4. CASE Tick \/ UNCHANGED vars
  BY <1>4, TellersSame DEF Tick, vars
<1>5. QED
  BY <1>1, <1>2, <1>3, <1>4, TellersRun DEF Next

(* Who is about to tell a bidder still has nobody told: in one process the *)
(* slot keeps a second fan-out of the lot away.                            *)
OneFanOut ==
  /\ \A l \in Lots : warnings[l] <= 1 + deleted[l]
  /\ \A w \in Workers : \A t \in tasks[w] :
       t.phase = "telling" => t.kind = "warn" /\ warnings[t.lot] = deleted[t.lot]

LEMMA StepOneFanOut ==
  ASSUME TidyInv, OneFanOut, [Next]_vars, \A v, w \in Workers : v = w
  PROVE  OneFanOut'
<1>0. Fields
  BY DEF TidyInv
<1>1. ASSUME NEW w \in Workers, NEW t \in tasks[w], Warn(w, t)
      PROVE  OneFanOut'
  <2>0. /\ t \in Task /\ t.lot \in Lots
        /\ warnings \in [Lots -> Nat] /\ deleted \in [Lots -> 0 .. MaxDeletions]
    BY <1>0, TaskFields DEF Fields
  <2>1. /\ t.kind = "warn" /\ t.phase = "telling" /\ deleted' = deleted
        /\ warnings' = [warnings EXCEPT ![t.lot] = @ + 1]
    BY <1>1 DEF Warn
  <2>2. warnings[t.lot] = deleted[t.lot]
    BY <2>1 DEF OneFanOut
  <2>3. ASSUME NEW l \in Lots
        PROVE  warnings'[l] <= 1 + deleted'[l]
    BY <2>0, <2>1, <2>2 DEF OneFanOut
  <2>4. TellersStay
    BY <1>1, TellersPhase DEF Warn
  <2>5. t \notin tasks'[w]
    <3>1. [t EXCEPT !.phase = "committed"] # t
      BY <2>0, <2>1 DEF Task
    <3>2. QED
      BY <1>0, <1>1, <3>1 DEF Warn, Phase, Fields
  <2>6. ASSUME NEW v \in Workers, NEW u \in tasks'[v], u.phase = "telling"
        PROVE  u.kind = "warn" /\ warnings'[u.lot] = deleted'[u.lot]
    <3>1. u \in tasks[w] /\ u # t /\ u.kind = "warn" /\ warnings[u.lot] = deleted[u.lot]
      BY <2>4, <2>5, <2>6 DEF TellersStay, OneFanOut
    <3>2. u.lot # t.lot
      BY <2>1, <3>1 DEF TidyInv, Tidy
    <3>3. QED
      BY <2>0, <2>1, <3>1, <3>2
  <2>7. QED
    BY <2>3, <2>6 DEF OneFanOut
<1>2. ASSUME NEW w \in Workers, NEW k \in Lots, DeleteWarning(w, k)
      PROVE  OneFanOut'
  <2>0. warnings \in [Lots -> Nat] /\ deleted \in [Lots -> 0 .. MaxDeletions]
    BY <1>0 DEF Fields
  <2>1. /\ tasks' = tasks /\ warnings' = warnings /\ deleted[k] < warnings[k]
        /\ deleted' = [deleted EXCEPT ![k] = @ + 1]
    BY <1>2 DEF DeleteWarning
  <2>2. ASSUME NEW l \in Lots
        PROVE  warnings'[l] <= 1 + deleted'[l]
    BY <2>0, <2>1 DEF OneFanOut
  <2>3. ASSUME NEW v \in Workers, NEW u \in tasks'[v], u.phase = "telling"
        PROVE  u.kind = "warn" /\ warnings'[u.lot] = deleted'[u.lot]
    <3>1. u.lot \in Lots /\ u.kind = "warn" /\ warnings[u.lot] = deleted[u.lot]
      BY <1>0, <2>1, <2>3, TaskFields DEF OneFanOut
    <3>2. u.lot # k
      BY <2>0, <2>1, <3>1
    <3>3. QED
      BY <2>0, <2>1, <3>1, <3>2
  <2>4. QED
    BY <2>2, <2>3 DEF OneFanOut
<1>3. ASSUME NEW w \in Workers, NEW t \in tasks[w], ReadBidders(w, t)
      PROVE  OneFanOut'
  <2>1. PICK phase : phase = IF Recipients(t.lot) THEN "telling" ELSE "committed"
    OBVIOUS
  <2>2. PICK v : v = [t EXCEPT !.phase = phase]
    OBVIOUS
  <2>3. v.lot = t.lot /\ v.kind = t.kind /\ v.phase = phase
    <3>1. t \in Task
      BY <1>0, TaskFields
    <3>2. QED
      BY <2>2, <3>1 DEF Task
  <2>4. tasks' = [tasks EXCEPT ![w] = (tasks[w] \ {t}) \cup {v}]
    BY <1>3, <2>1, <2>2 DEF ReadBidders, Phase
  <2>5. v.phase = "telling" => v.kind = "warn" /\ warnings[v.lot] = deleted[v.lot]
    BY <1>3, <2>1, <2>3 DEF ReadBidders, Recipients
  <2>6. warnings' = warnings /\ deleted' = deleted
    BY <1>3 DEF ReadBidders, lots
  <2>7. \A x \in Workers : \A u \in tasks'[x] : u \in tasks[x] \/ u = v
    BY <1>0, <2>4 DEF Fields
  <2>8. QED
    BY <2>5, <2>6, <2>7 DEF OneFanOut
<1>4. CASE UNCHANGED <<warnings, deleted>> /\ TellersStay
  BY <1>4 DEF OneFanOut, TellersStay
<1>5. QED
  BY <1>1, <1>2, <1>3, <1>4, WarningsMove, TellersMove

(* In one process a lot is settled once, and nobody has two warnings of a  *)
(* lot, however requests, deletions, failures and restarts fall between    *)
(* its awaits: he is warned again only after he deleted the row.           *)
THEOREM FiresOnceInOneProcess ==
  IsFiniteSet(Workers) /\ Cardinality(Workers) <= 1 => (Spec => []FiresOnce)
<1> SUFFICES ASSUME IsFiniteSet(Workers), Cardinality(Workers) <= 1
             PROVE  Spec => []FiresOnce
  OBVIOUS
<1> DEFINE SettledOnce == \A l \in Lots : settled[l] <= Cardinality(Workers)
<1>1. Spec => []SettledOnce
  BY SettledOncePerProcess
<1>2. Init => TidyInv /\ OneFanOut
  BY InitTidy DEF Init, OneFanOut
<1>3. \A v, w \in Workers : v = w
  <2> SUFFICES ASSUME NEW v \in Workers, NEW w \in Workers, v # w
               PROVE  FALSE
    OBVIOUS
  <2>1. IsFiniteSet({v, w}) /\ Cardinality({v, w}) = 2
    <3>1. IsFiniteSet({w}) /\ Cardinality({w}) = 1
      BY FS_Singleton
    <3>2. IsFiniteSet({w} \cup {v}) /\ Cardinality({w} \cup {v}) = Cardinality({w}) + 1
      BY <3>1, FS_AddElement
    <3>3. {w} \cup {v} = {v, w}
      OBVIOUS
    <3>4. QED
      BY <3>1, <3>2, <3>3
  <2>2. Cardinality({v, w}) <= Cardinality(Workers)
    BY FS_Subset
  <2>3. Cardinality(Workers) \in Nat
    BY FS_CardinalityType
  <2>4. QED
    BY <2>1, <2>2, <2>3
<1>4. TidyInv /\ OneFanOut /\ [Next]_vars => TidyInv' /\ OneFanOut'
  BY <1>3, StepTidy, StepOneFanOut
<1>5. TidyInv /\ OneFanOut /\ SettledOnce => FiresOnce
  <2> SUFFICES ASSUME TidyInv, OneFanOut, SettledOnce, NEW l \in Lots
               PROVE  settled[l] <= 1 /\ warnings[l] <= 1 + deleted[l]
    BY DEF FiresOnce
  <2>1. settled[l] \in Nat /\ Cardinality(Workers) \in Nat
    BY FS_CardinalityType DEF TidyInv, Fields
  <2>2. QED
    BY <2>1 DEF OneFanOut
<1> HIDE DEF SettledOnce
<1>6. QED
  BY <1>1, <1>2, <1>4, <1>5, PTL DEF Spec

-----------------------------------------------------------------------------
(* No open lot is forgotten.                                               *)

(* As long as requests and settlements go through and no follower stops,   *)
(* and no leader is lost while another still takes itself for one.         *)
LeadersFail ==
  /\ Faults \subseteq {"leader stops", "connection drops", "ping times out", "warning fails"}
  /\ \/ ~ {"leader stops", "connection drops"} \subseteq Faults
     \/ MaxFaults <= 1

Over(l) == state[l] \in {"closed", "deleted"}

(* What a request owes is not more than what the lot needs.                *)
Owed(c) ==
  /\ state[c.lot] # "absent"
  /\ c.call = "schedule" /\ state[c.lot] = "open" => c.at <= end_time[c.lot]
  /\ c.call = "cancel" => Over(c.lot)

(* A leader that has lost its connection unnoticed lost it to the one      *)
(* fault there is, or leaders do not stop; it may take the lead again      *)
(* without arming anything, so everything must still be watched.           *)
AllWatched == \A l \in OpenLots : Watched(l)

Outdated ==
  (\E w \in Workers : conn[w] = "dead") =>
    "connection drops" \in Faults /\ faults >= 1 /\ AllWatched

WatchInv ==
  /\ TidyInv /\ LeaderHasLock /\ EveryOpenLotIsWatched /\ Outdated
  /\ \A w \in Workers : \A c \in pending[w] : Owed(c)
  /\ \A w \in Workers : \A t \in tasks[w] :
       t.kind = "complete" /\ t.phase = "committed" => Over(t.lot)

(* The rows of a lot only move forward.                                    *)
Onward(l) ==
  /\ state[l] # "absent" => state'[l] # "absent"
  /\ Over(l) => state'[l] \in {"closed", "deleted"}
  /\ state[l] # "absent" /\ state'[l] = "open" =>
       state[l] = "open" /\ end_time'[l] >= end_time[l]

LEMMA OnwardSame ==
  ASSUME TidyInv, NEW l \in Lots, state'[l] = state[l], end_time'[l] = end_time[l]
  PROVE  Onward(l)
BY DEF Onward, Over, TidyInv, Fields

LEMMA OnwardRun ==
  ASSUME TidyInv, NEW w \in Workers, Run(w), NEW l \in Lots
  PROVE  Onward(l)
<1>0. Fields
  BY DEF TidyInv
<1>1. ASSUME NEW c \in pending[w], BuyCommit(w, c)
      PROVE  Onward(l)
  <2>1. CASE c.lot = l
    BY <1>0, <1>1, <2>1 DEF BuyCommit, Onward, Fields
  <2>2. CASE c.lot # l
    BY <1>0, <1>1, <2>2, OnwardSame DEF BuyCommit, Fields
  <2>3. QED
    BY <2>1, <2>2
<1>2. ASSUME NEW t \in tasks[w], Settle(w, t)
      PROVE  Onward(l)
  BY <1>0, <1>2 DEF Settle, Onward, Over, Fields
<1>3. ASSUME NEW c \in pending[w], Schedule(w, c) \/ Cancel(w, c)
      PROVE  Onward(l)
  BY <1>3, OnwardSame DEF Schedule, Cancel, lots
<1>4. ASSUME NEW t \in tasks[w],
             \/ WakeToComplete(w, t) \/ Announce(w, t)
             \/ WakeToWarn(w, t) \/ ReadBidders(w, t) \/ Warn(w, t) \/ SetNotified(w, t)
      PROVE  Onward(l)
  BY <1>4, OnwardSame DEF WakeToComplete, Announce, WakeToWarn, ReadBidders, Warn, SetNotified, lots
<1>5. CASE Promote(w) \/ PingFails(w)
  BY <1>5, OnwardSame DEF Promote, PingFails, StepDown, lots
<1>6. QED
  BY <1>1, <1>2, <1>3, <1>4, <1>5 DEF Run

LEMMA OnwardRequested ==
  ASSUME TidyInv, NEW w \in Workers, NEW k \in Lots, Requested(w, k), NEW l \in Lots
  PROVE  Onward(l)
<1>0. Fields
  BY DEF TidyInv
<1>1. ASSUME NEW type, NEW d, CreateAuction(w, k, type, d)
      PROVE  Onward(l)
  BY <1>0, <1>1 DEF CreateAuction, Onward, Over, Fields
<1>2. CASE PlaceBid(w, k)
  <2>1. CASE Sniping(k)
    <3>1. now + Extend >= end_time[k]
      BY <1>0, <2>1, TimesAssumption DEF Sniping, Fields
    <3>2. QED
      BY <1>0, <1>2, <2>1, <3>1 DEF PlaceBid, Onward, Over, Fields
  <2>2. CASE ~ Sniping(k)
    BY <1>2, <2>2, OnwardSame DEF PlaceBid
  <2>3. QED
    BY <2>1, <2>2
<1>3. CASE DeleteAuction(w, k)
  BY <1>0, <1>3 DEF DeleteAuction, Serving, Onward, Over, Fields
<1>4. CASE BuyNow(w, k)
  BY <1>4, OnwardSame DEF BuyNow, lots
<1>5. ASSUME NEW m \in Durations, UpdateAuction(w, k, m)
      PROVE  Onward(l)
  <2>1. end_time[k] + m >= end_time[k]
    BY <1>0, TimesAssumption DEF Fields
  <2>2. QED
    BY <1>0, <1>5, <2>1 DEF UpdateAuction, Onward, Over, Fields
<1>6. CASE DeleteWarning(w, k)
  BY <1>6, OnwardSame DEF DeleteWarning
<1>7. QED
  BY <1>1, <1>2, <1>3, <1>4, <1>5, <1>6 DEF Requested

LEMMA LotOnward ==
  ASSUME TidyInv, [Next]_vars, NEW l \in Lots
  PROVE  Onward(l)
<1>1. CASE Tick \/ UNCHANGED vars
  BY <1>1, OnwardSame DEF Tick, vars, lots
<1>2. ASSUME NEW w \in Workers, Start(w)
      PROVE  Onward(l)
  BY <1>2, OnwardSame DEF Start, lots
<1>3. ASSUME NEW w \in Workers, GoesWrong(w)
      PROVE  Onward(l)
  BY <1>3, OnwardSame DEF GoesWrong, BuyFails, SettleFails, WarnFails, Stop,
     ConnectionDrops, PingTimesOut, StepDown, lots
<1>4. QED
  BY <1>1, <1>2, <1>3, OnwardRun, OnwardRequested DEF Next

(* What was owed stays right, and only a request owes more.                *)
LEMMA StillOwed ==
  ASSUME TidyInv, [Next]_vars, NEW w \in Workers, NEW c \in pending[w], Owed(c)
  PROVE  Owed(c)'
<1>1. c.lot \in Lots /\ c.at \in 0 .. Horizon
  BY CallFields DEF TidyInv
<1>2. Onward(c.lot)
  BY <1>1, LotOnward
<1>3. end_time[c.lot] \in 0 .. Horizon /\ end_time'[c.lot] \in 0 .. Horizon
  BY <1>1, StepTidy DEF TidyInv, Fields
<1>4. QED
  BY <1>1, <1>2, <1>3 DEF Owed, Onward, Over

LEMMA OweOwed ==
  ASSUME TidyInv, [Next]_vars, \A w \in Workers : \A c \in pending[w] : Owed(c),
         NEW w \in Workers, NEW c, Owe(w, c), Owed(c)'
  PROVE  (\A v \in Workers : \A d \in pending[v] : Owed(d))'
BY StillOwed DEF Owe, TidyInv, Fields

LEMMA FewerOwed ==
  ASSUME TidyInv, [Next]_vars, \A w \in Workers : \A c \in pending[w] : Owed(c),
         \A w \in Workers : pending'[w] \subseteq pending[w]
  PROVE  (\A v \in Workers : \A d \in pending[v] : Owed(d))'
BY StillOwed

LEMMA StepOwed ==
  ASSUME TidyInv, [Next]_vars, \A w \in Workers : \A c \in pending[w] : Owed(c)
  PROVE  (\A w \in Workers : \A c \in pending[w] : Owed(c))'
<1>0. Fields
  BY DEF TidyInv
<1>1. CASE UNCHANGED pending
  BY <1>1, FewerOwed
<1>2. ASSUME NEW w \in Workers, NEW S, S \subseteq pending[w],
             pending' = [pending EXCEPT ![w] = S]
      PROVE  \A v \in Workers : pending'[v] \subseteq pending[v]
  BY <1>0, <1>2 DEF Fields
<1>3. ASSUME NEW w \in Workers, NEW l \in Lots, Requested(w, l)
      PROVE  (\A v \in Workers : \A c \in pending[v] : Owed(c))'
  <2>1. ASSUME NEW type, NEW d \in Durations, CreateAuction(w, l, type, d)
        PROVE  (\A v \in Workers : \A c \in pending[v] : Owed(c))'
    <3>0. PICK c : c = CallFor("schedule", l, now + d, FALSE)
      OBVIOUS
    <3>1. c.lot = l /\ c.call = "schedule" /\ c.at = now + d /\ c.at <= now + d
      BY <1>0, <3>0, TimesAssumption DEF CallFor, Fields
    <3>2. Owe(w, c) /\ state'[l] = "open" /\ end_time'[l] = now + d
      BY <1>0, <3>0, <2>1 DEF CreateAuction, Fields
    <3>3. Owed(c)'
      BY <3>1, <3>2 DEF Owed
    <3>4. QED
      BY <3>2, <3>3, OweOwed
  <2>2. CASE PlaceBid(w, l)
    <3>1. CASE Sniping(l)
      <4>0. PICK c : c = CallFor("schedule", l, now + Extend, FALSE)
        OBVIOUS
      <4>1. c.lot = l /\ c.call = "schedule" /\ c.at = now + Extend /\ c.at <= now + Extend
        BY <1>0, <4>0, TimesAssumption DEF CallFor, Fields
      <4>2. Owe(w, c) /\ state'[l] = "open" /\ end_time'[l] = now + Extend
        BY <1>0, <4>0, <2>2, <3>1 DEF PlaceBid, Serving, Fields
      <4>3. Owed(c)'
        BY <4>1, <4>2 DEF Owed
      <4>4. QED
        BY <4>2, <4>3, OweOwed
    <3>2. QED
      BY <1>1, <2>2, <3>1 DEF PlaceBid
  <2>3. CASE DeleteAuction(w, l)
    <3>0. PICK c : c = CallFor("cancel", l, 0, FALSE)
      OBVIOUS
    <3>1. c.lot = l /\ c.call = "cancel"
      BY <3>0 DEF CallFor
    <3>2. Owe(w, c) /\ state'[l] = "deleted"
      BY <1>0, <3>0, <2>3 DEF DeleteAuction, Fields
    <3>3. Owed(c)'
      BY <3>1, <3>2 DEF Owed, Over
    <3>4. QED
      BY <3>2, <3>3, OweOwed
  <2>4. CASE BuyNow(w, l)
    <3>0. PICK c : c = CallFor("purchase", l, now, FALSE)
      OBVIOUS
    <3>1. c.lot = l /\ c.call = "purchase"
      BY <3>0 DEF CallFor
    <3>2. Owe(w, c) /\ state'[l] = "open"
      BY <1>0, <3>0, <2>4 DEF BuyNow, Serving, lots
    <3>3. Owed(c)'
      BY <3>1, <3>2 DEF Owed
    <3>4. QED
      BY <3>2, <3>3, OweOwed
  <2>5. ASSUME NEW m \in Durations, UpdateAuction(w, l, m)
        PROVE  (\A v \in Workers : \A c \in pending[v] : Owed(c))'
    <3>0. PICK c : c = CallFor("schedule", l, end_time[l] + m, ending_soon_notified[l])
      OBVIOUS
    <3>1. /\ c.lot = l /\ c.call = "schedule" /\ c.at = end_time[l] + m
          /\ c.at <= end_time[l] + m
      BY <1>0, <3>0, TimesAssumption DEF CallFor, Fields
    <3>2. Owe(w, c) /\ state'[l] = "open" /\ end_time'[l] = end_time[l] + m
      BY <1>0, <3>0, <2>5 DEF UpdateAuction, Serving, Fields
    <3>3. Owed(c)'
      BY <3>1, <3>2 DEF Owed
    <3>4. QED
      BY <3>2, <3>3, OweOwed
  <2>6. CASE DeleteWarning(w, l)
    BY <1>1, <2>6 DEF DeleteWarning
  <2>7. QED
    BY <1>3, <2>1, <2>2, <2>3, <2>4, <2>5, <2>6 DEF Requested
<1>4. ASSUME NEW w \in Workers, Run(w)
      PROVE  (\A v \in Workers : \A c \in pending[v] : Owed(c))'
  <2>1. ASSUME NEW c \in pending[w], Schedule(w, c) \/ Cancel(w, c) \/ BuyCommit(w, c)
        PROVE  (\A v \in Workers : \A d \in pending[v] : Owed(d))'
    <3>1. pending' = [pending EXCEPT ![w] = pending[w] \ {c}]
      BY <2>1 DEF Schedule, Cancel, BuyCommit
    <3>2. PICK S : S = pending[w] \ {c}
      OBVIOUS
    <3>3. \A v \in Workers : pending'[v] \subseteq pending[v]
      BY <1>2, <3>1, <3>2
    <3>4. QED
      BY <3>3, FewerOwed
  <2>2. ASSUME NEW t \in tasks[w],
               \/ WakeToComplete(w, t) \/ Settle(w, t) \/ Announce(w, t)
               \/ WakeToWarn(w, t) \/ ReadBidders(w, t) \/ Warn(w, t) \/ SetNotified(w, t)
        PROVE  (\A v \in Workers : \A d \in pending[v] : Owed(d))'
    <3>1. pending' = pending
      BY <2>2 DEF WakeToComplete, Settle, Announce, WakeToWarn, ReadBidders, Warn, SetNotified
    <3>2. QED
      BY <1>1, <3>1
  <2>3. CASE Promote(w) \/ PingFails(w)
    BY <1>1, <2>3 DEF Promote, PingFails, StepDown
  <2>4. QED
    BY <1>4, <2>1, <2>2, <2>3 DEF Run
<1>5. ASSUME NEW w \in Workers, GoesWrong(w)
      PROVE  (\A v \in Workers : \A c \in pending[v] : Owed(c))'
  <2>1. ASSUME NEW c \in pending[w], BuyFails(w, c)
        PROVE  (\A v \in Workers : \A d \in pending[v] : Owed(d))'
    <3>1. pending' = [pending EXCEPT ![w] = pending[w] \ {c}]
      BY <2>1 DEF BuyFails
    <3>2. PICK S : S = pending[w] \ {c}
      OBVIOUS
    <3>3. \A v \in Workers : pending'[v] \subseteq pending[v]
      BY <1>2, <3>1, <3>2
    <3>4. QED
      BY <3>3, FewerOwed
  <2>2. CASE Stop(w)
    BY <1>2, <2>2, FewerOwed DEF Stop
  <2>3. ASSUME NEW t \in tasks[w], SettleFails(w, t) \/ WarnFails(w, t)
        PROVE  pending' = pending
    BY <2>3 DEF SettleFails, WarnFails
  <2>4. CASE ConnectionDrops(w) \/ PingTimesOut(w)
    BY <1>1, <2>4 DEF ConnectionDrops, PingTimesOut, StepDown
  <2>5. QED
    BY <1>1, <1>5, <2>1, <2>2, <2>3, <2>4 DEF GoesWrong
<1>6. QED
  BY <1>1, <1>3, <1>4, <1>5 DEF Next, Tick, Start, vars

(* A settlement with its follow-up outstanding has closed its lot.         *)
Landed ==
  \A w \in Workers : \A t \in tasks[w] :
    t.kind = "complete" /\ t.phase = "committed" => Over(t.lot)

LEMMA OverStays ==
  ASSUME TidyInv, [Next]_vars, NEW w \in Workers, NEW t \in tasks[w], Over(t.lot)
  PROVE  Over(t.lot)'
<1>1. t.lot \in Lots
  BY TaskFields DEF TidyInv
<1>2. QED
  BY <1>1, LotOnward DEF Onward, Over

LEMMA LandedBecome ==
  ASSUME TidyInv, [Next]_vars, Landed, NEW w \in Workers, NEW T,
         tasks' = [tasks EXCEPT ![w] = T],
         \A t \in T : t.kind = "complete" /\ t.phase = "committed" => t \in tasks[w]
  PROVE  Landed'
<1>1. \A v \in Workers : \A t \in tasks'[v] :
        t.kind = "complete" /\ t.phase = "committed" => t \in tasks[v]
  BY DEF TidyInv, Fields
<1>2. QED
  BY <1>1, OverStays DEF Landed

LEMMA LandedSame ==
  ASSUME TidyInv, [Next]_vars, Landed, UNCHANGED tasks
  PROVE  Landed'
BY OverStays DEF Landed

LEMMA LandedExit ==
  ASSUME TidyInv, [Next]_vars, Landed, NEW w \in Workers, NEW t, Exit(w, t)
  PROVE  Landed'
<1>1. tasks' = [tasks EXCEPT ![w] = tasks[w] \ {t}]
  BY DEF Exit
<1>2. \A v \in tasks[w] \ {t} : v \in tasks[w]
  OBVIOUS
<1>3. QED
  BY <1>1, <1>2, LandedBecome

LEMMA LandedPhase ==
  ASSUME TidyInv, [Next]_vars, Landed, NEW w \in Workers, NEW t \in tasks[w], NEW phase,
         phase # "committed" \/ t.kind = "warn", Phase(w, t, phase)
  PROVE  Landed'
<1> DEFINE v == [t EXCEPT !.phase = phase]
           T == (tasks[w] \ {t}) \cup {v}
<1>1. v.kind = t.kind /\ v.phase = phase
  <2>1. t \in Task
    BY TaskFields DEF TidyInv
  <2>2. QED
    BY <2>1 DEF Task
<1>2. tasks' = [tasks EXCEPT ![w] = T]
  BY DEF Phase
<1> HIDE DEF v
<1>3. \A u \in T : u.kind = "complete" /\ u.phase = "committed" => u \in tasks[w]
  BY <1>1
<1> HIDE DEF T
<1>4. QED
  BY <1>2, <1>3, LandedBecome

LEMMA LandedSettle ==
  ASSUME TidyInv, [Next]_vars, Landed, NEW w \in Workers, NEW t \in tasks[w], Settle(w, t)
  PROVE  Landed'
<1>1. CASE state[t.lot] = "deleted"
  BY <1>1, LandedExit DEF Settle
<1>2. CASE state[t.lot] # "deleted"
  <2>0. t \in Task /\ t.lot \in Lots
    BY TaskFields DEF TidyInv
  <2>1. PICK v : v = [t EXCEPT !.phase = "committed"]
    OBVIOUS
  <2>2. v.lot = t.lot
    BY <2>0, <2>1 DEF Task
  <2>3. Over(v.lot)'
    BY <1>2, <2>0, <2>2 DEF Settle, Over, TidyInv, Fields
  <2>4. tasks' = [tasks EXCEPT ![w] = (tasks[w] \ {t}) \cup {v}]
    BY <1>2, <2>1 DEF Settle, Phase
  <2>5. \A x \in Workers : \A u \in tasks'[x] : u \in tasks[x] \/ u = v
    BY <2>4 DEF TidyInv, Fields
  <2>6. QED
    BY <2>3, <2>5, OverStays DEF Landed
<1>3. QED
  BY <1>1, <1>2

LEMMA StepLanded ==
  ASSUME TidyInv, [Next]_vars, Landed
  PROVE  Landed'
<1>1. CASE UNCHANGED tasks
  BY <1>1, LandedSame
<1>2. ASSUME NEW w \in Workers, NEW T, tasks' = [tasks EXCEPT ![w] = T],
             \A t \in T : t \in tasks[w] \/ t.phase = "sleeping"
      PROVE  Landed'
  BY <1>2, LandedBecome
<1>3. ASSUME NEW w \in Workers, Start(w)
      PROVE  Landed'
  <2>1. CASE tasks' = [tasks EXCEPT ![w] = schedule_active_auctions({})]
    <3> DEFINE T == schedule_active_auctions({})
    <3>1. \A t \in T : t \in {} \/ t.phase = "sleeping"
      BY ActiveSleep
    <3> HIDE DEF T
    <3>2. \A t \in T : t \in tasks[w] \/ t.phase = "sleeping"
      BY <3>1
    <3>3. tasks' = [tasks EXCEPT ![w] = T]
      BY <2>1 DEF T
    <3>4. QED
      BY <1>2, <3>2, <3>3
  <2>2. QED
    BY <1>1, <1>3, <2>1 DEF Start
<1>4. ASSUME NEW w \in Workers, Run(w)
      PROVE  Landed'
  <2>1. ASSUME NEW c \in pending[w], Schedule(w, c)
        PROVE  Landed'
    <3> DEFINE T == schedule_auction(tasks[w], c.lot, c.at, c.notified)
    <3>1. \A t \in T : t \in tasks[w] \/ t.phase = "sleeping"
      BY ScheduleSleep
    <3> HIDE DEF T
    <3>2. tasks' = [tasks EXCEPT ![w] = T]
      BY <2>1 DEF T, Schedule
    <3>3. QED
      BY <1>2, <3>1, <3>2
  <2>2. ASSUME NEW c \in pending[w], Cancel(w, c)
        PROVE  Landed'
    <3>1. \A t \in Cancelled(tasks[w], {c.lot}) : t \in tasks[w]
      BY DEF Cancelled
    <3>2. tasks' = [tasks EXCEPT ![w] = Cancelled(tasks[w], {c.lot})]
      BY <2>2 DEF Cancel
    <3>3. QED
      BY <1>2, <3>1, <3>2
  <2>3. ASSUME NEW c \in pending[w], BuyCommit(w, c)
        PROVE  Landed'
    BY <1>1, <2>3 DEF BuyCommit
  <2>4. ASSUME NEW t \in tasks[w], WakeToComplete(w, t)
        PROVE  Landed'
    <3>1. CASE state[t.lot] # "open"
      BY <2>4, <3>1, LandedExit DEF WakeToComplete
    <3>2. CASE state[t.lot] = "open" /\ end_time[t.lot] > now
      <4> DEFINE F == Fresh(t.lot, end_time[t.lot], ending_soon_notified[t.lot])
                 A == Armed(tasks[w] \ {t}, F)
      <4>1. tasks' = [tasks EXCEPT ![w] = A]
        BY <2>4, <3>2 DEF WakeToComplete
      <4>2. \A v \in F : v.phase = "sleeping"
        BY FreshSleep
      <4> HIDE DEF F
      <4>3. \A v \in A : v \in tasks[w] \/ v.phase = "sleeping"
        BY <4>2 DEF Armed
      <4> HIDE DEF A
      <4>4. QED
        BY <1>2, <4>1, <4>3
    <3>3. CASE state[t.lot] = "open" /\ ~ (end_time[t.lot] > now)
      BY <2>4, <3>3, LandedPhase DEF WakeToComplete
    <3>4. QED
      BY <3>1, <3>2, <3>3
  <2>5. ASSUME NEW t \in tasks[w], Settle(w, t)
        PROVE  Landed'
    BY <2>5, LandedSettle
  <2>6. ASSUME NEW t \in tasks[w], Announce(w, t) \/ SetNotified(w, t)
        PROVE  Landed'
    BY <2>6, LandedExit DEF Announce, SetNotified
  <2>7. ASSUME NEW t \in tasks[w], WakeToWarn(w, t) \/ ReadBidders(w, t) \/ Warn(w, t)
        PROVE  Landed'
    <3>1. t.kind = "warn"
      BY <2>7 DEF WakeToWarn, ReadBidders, Warn
    <3>2. Exit(w, t) \/ \E phase : Phase(w, t, phase)
      BY <2>7 DEF WakeToWarn, ReadBidders, Warn
    <3>3. QED
      BY <3>1, <3>2, LandedExit, LandedPhase
  <2>8. CASE Promote(w)
    <3> DEFINE T == schedule_active_auctions(tasks[w])
    <3>1. \A t \in T : t \in tasks[w] \/ t.phase = "sleeping"
      BY ActiveSleep
    <3> HIDE DEF T
    <3>2. tasks' = [tasks EXCEPT ![w] = T]
      BY <2>8 DEF T, Promote
    <3>3. QED
      BY <1>2, <3>1, <3>2
  <2>9. CASE PingFails(w)
    BY <1>1, <2>9 DEF PingFails, StepDown
  <2>10. QED
    BY <1>4, <2>1, <2>2, <2>3, <2>4, <2>5, <2>6, <2>7, <2>8, <2>9 DEF Run
<1>5. ASSUME NEW w \in Workers, GoesWrong(w)
      PROVE  Landed'
  <2>1. ASSUME NEW t \in tasks[w], SettleFails(w, t) \/ WarnFails(w, t)
        PROVE  Landed'
    BY <2>1, LandedExit DEF SettleFails, WarnFails
  <2>2. CASE Stop(w)
    <3>1. PICK T : T = {}
      OBVIOUS
    <3>2. \A t \in T : t \in tasks[w] \/ t.phase = "sleeping"
      BY <3>1
    <3>3. tasks' = [tasks EXCEPT ![w] = T]
      BY <2>2, <3>1 DEF Stop
    <3>4. QED
      BY <1>2, <3>2, <3>3
  <2>3. QED
    BY <1>1, <1>5, <2>1, <2>2 DEF GoesWrong, BuyFails, ConnectionDrops, PingTimesOut, StepDown
<1>6. ASSUME NEW w \in Workers, NEW l \in Lots, Requested(w, l)
      PROVE  Landed'
  <2>1. CASE BuyNow(w, l)
    <3>1. \A t \in Cancelled(tasks[w], {l}) : t \in tasks[w]
      BY DEF Cancelled
    <3>2. tasks' = [tasks EXCEPT ![w] = Cancelled(tasks[w], {l})]
      BY <2>1 DEF BuyNow
    <3>3. QED
      BY <1>2, <3>1, <3>2
  <2>2. QED
    BY <1>1, <1>6, <2>1 DEF Requested, CreateAuction, PlaceBid, DeleteAuction, UpdateAuction,
       DeleteWarning
<1>7. QED
  BY <1>1, <1>3, <1>4, <1>5, <1>6 DEF Next, Tick, vars

-----------------------------------------------------------------------------
(* A watched lot stays watched.                                            *)

(* A task among T looks at the lot by the time e.                          *)
Reaches(T, l, e) == \E t \in T : t.lot = l /\ t.kind = "complete" /\ t.at <= e

(* A request still owes the call that arms the lot or closes it.           *)
Arms(C, l) == \E c \in C : c.lot = l /\ c.call \in {"schedule", "purchase"}

LEMMA WatchedIs ==
  ASSUME NEW l
  PROVE  Watched(l) <=> \E w \in Workers : Reaches(tasks[w], l, end_time[l]) \/ Arms(pending[w], l)
BY DEF Watched, Reaches, Arms

LEMMA ReachFresh ==
  ASSUME NEW l, NEW end \in Int, NEW notified
  PROVE  Reaches(Fresh(l, end, notified), l, end)
<1>1. Sleeping(l, "complete", end) \in Fresh(l, end, notified)
  BY DEF Fresh
<1>2. LET t == Sleeping(l, "complete", end)
      IN  t.lot = l /\ t.kind = "complete" /\ t.at <= end
  BY DEF Sleeping
<1>3. QED
  BY <1>1, <1>2 DEF Reaches

LEMMA ReachCancelled ==
  ASSUME NEW T, NEW S, NEW l, NEW e, l \notin S, Reaches(T, l, e)
  PROVE  Reaches(Cancelled(T, S), l, e)
BY DEF Reaches, Cancelled

LEMMA ReachArmed ==
  ASSUME NEW T, NEW new, NEW l, NEW e,
         \/ Reaches(new, l, e)
         \/ Reaches(T, l, e) /\ \A n \in new : n.lot # l
  PROVE  Reaches(Armed(T, new), l, e)
BY DEF Reaches, Armed

LEMMA ReachSchedule ==
  ASSUME NEW T, NEW l, NEW end, NEW notified, NEW k, NEW e, l # k, Reaches(T, k, e)
  PROVE  Reaches(schedule_auction(T, l, end, notified), k, e)
<1>1. Reaches(Cancelled(T, {l}), k, e)
  BY ReachCancelled
<1>2. \A n \in Fresh(l, end, notified) : n.lot # k
  BY FreshSleep
<1>3. QED
  BY <1>1, <1>2, ReachArmed DEF schedule_auction

LEMMA ReachScheduled ==
  ASSUME NEW T, NEW l, NEW end \in Int, NEW notified
  PROVE  Reaches(schedule_auction(T, l, end, notified), l, end)
BY ReachFresh, ReachArmed DEF schedule_auction

LEMMA ReachActive ==
  ASSUME Fields, NEW T, NEW l \in OpenLots
  PROVE  Reaches(schedule_active_auctions(T), l, end_time[l])
<1>1. end_time[l] \in Int
  BY DEF OpenLots, Fields
<1>2. Reaches(Fresh(l, end_time[l], ending_soon_notified[l]), l, end_time[l])
  BY <1>1, ReachFresh
<1>3. \A t \in Fresh(l, end_time[l], ending_soon_notified[l]) :
        t \in schedule_active_auctions(T)
  BY DEF schedule_active_auctions
<1>4. QED
  BY <1>2, <1>3 DEF Reaches

LEMMA ReachWithout ==
  ASSUME NEW T, NEW l, NEW e, Reaches(T, l, e), NEW t, t.lot # l \/ t.kind = "warn"
  PROVE  Reaches(T \ {t}, l, e)
BY DEF Reaches

LEMMA ReachMore ==
  ASSUME NEW T, NEW R, T \subseteq R, NEW l, NEW e, Reaches(T, l, e)
  PROVE  Reaches(R, l, e)
BY DEF Reaches

LEMMA ReachLater ==
  ASSUME Fields, NEW w \in Workers, NEW l \in Lots, Reaches(tasks[w], l, end_time[l]),
         end_time'[l] >= end_time[l], end_time'[l] \in Int
  PROVE  Reaches(tasks[w], l, end_time'[l])
<1>1. \A t \in tasks[w] : t.at \in Int
  BY DEF Fields, Task
<1>2. end_time[l] \in Int
  BY DEF Fields
<1>3. QED
  BY <1>1, <1>2 DEF Reaches

(* Tasks of one process change.                                            *)
LEMMA TasksWatch ==
  ASSUME TidyInv, NEW l, Watched(l), end_time'[l] = end_time[l],
         NEW w \in Workers, NEW T, tasks' = [tasks EXCEPT ![w] = T],
         Reaches(tasks[w], l, end_time[l]) => Reaches(T, l, end_time[l]),
         \A v \in Workers : Arms(pending[v], l) => Arms(pending'[v], l) \/ Reaches(T, l, end_time[l])
  PROVE  Watched(l)'
<1>1. \A v \in Workers : tasks'[v] = IF v = w THEN T ELSE tasks[v]
  BY DEF TidyInv, Fields
<1>2. PICK v \in Workers : Reaches(tasks[v], l, end_time[l]) \/ Arms(pending[v], l)
  BY WatchedIs
<1>3. \E x \in Workers : Reaches(tasks'[x], l, end_time'[l]) \/ Arms(pending'[x], l)
  <2>1. CASE Reaches(tasks[v], l, end_time[l])
    <3>1. CASE v = w
      BY <1>1, <2>1, <3>1
    <3>2. CASE v # w
      BY <1>1, <2>1, <3>2
    <3>3. QED
      BY <3>1, <3>2
  <2>2. CASE Arms(pending[v], l)
    BY <1>1, <2>2
  <2>3. QED
    BY <1>2, <2>1, <2>2
<1>4. QED
  BY <1>3 DEF Watched, Reaches, Arms

LEMMA SameWatch ==
  ASSUME NEW l, Watched(l), UNCHANGED tasks, end_time'[l] = end_time[l],
         \A v \in Workers : Arms(pending[v], l) => Arms(pending'[v], l)
  PROVE  Watched(l)'
<1>1. PICK v \in Workers : Reaches(tasks[v], l, end_time[l]) \/ Arms(pending[v], l)
  BY WatchedIs
<1>2. Reaches(tasks'[v], l, end_time'[l]) \/ Arms(pending'[v], l)
  BY <1>1
<1>3. QED
  BY <1>2 DEF Watched, Reaches, Arms

(* A call made is not owed any more; those about other lots are.           *)
LEMMA OtherArms ==
  ASSUME Fields, NEW w \in Workers, NEW c, pending' = [pending EXCEPT ![w] = @ \ {c}],
         NEW l, c.lot # l \/ c.call = "cancel", NEW v \in Workers, Arms(pending[v], l)
  PROVE  Arms(pending'[v], l)
BY DEF Arms, Fields

LEMMA OwesMore ==
  ASSUME Fields, NEW w \in Workers, NEW c, Owe(w, c), NEW l, NEW v \in Workers,
         Arms(pending[v], l)
  PROVE  Arms(pending'[v], l)
BY DEF Arms, Owe, Fields

WatchBase == TidyInv /\ Landed /\ \A w \in Workers : \A c \in pending[w] : Owed(c)

LEMMA WatchRun ==
  ASSUME WatchBase, NEW w \in Workers, Run(w), NEW l \in Lots,
         state[l] = "open", state'[l] = "open", Watched(l)
  PROVE  Watched(l)'
<1>0. Fields /\ TidyInv /\ end_time[l] \in Int
  BY DEF WatchBase, TidyInv, Fields
<1>1. ASSUME NEW c \in pending[w], Schedule(w, c)
      PROVE  Watched(l)'
  <2> DEFINE T == schedule_auction(tasks[w], c.lot, c.at, c.notified)
  <2>1. tasks' = [tasks EXCEPT ![w] = T] /\ end_time' = end_time
    BY <1>1 DEF Schedule, lots
  <2>2. c.at \in Int /\ Owed(c) /\ c.call = "schedule"
    BY <1>0, <1>1, CallFields DEF WatchBase, Schedule
  <2>3. CASE c.lot = l
    <3>1. Reaches(T, l, c.at)
      BY <2>2, <2>3, ReachScheduled
    <3>2. c.at <= end_time[l]
      BY <2>2, <2>3 DEF Owed
    <3>3. Tidy(T)
      BY <1>0, CallFields, TidySchedule DEF TidyInv
    <3>4. \A t \in T : t.at \in Int
      BY <3>3 DEF Tidy, Task
    <3> HIDE DEF T
    <3>5. Reaches(T, l, end_time[l])
      BY <1>0, <2>2, <3>1, <3>2, <3>4 DEF Reaches
    <3>6. QED
      BY <1>0, <2>1, <3>5, TasksWatch
  <2>4. CASE c.lot # l
    <3>1. Reaches(tasks[w], l, end_time[l]) => Reaches(T, l, end_time[l])
      BY <2>4, ReachSchedule
    <3>2. \A v \in Workers : Arms(pending[v], l) => Arms(pending'[v], l)
      BY <1>0, <1>1, <2>4, OtherArms DEF Schedule
    <3> HIDE DEF T
    <3>3. QED
      BY <1>0, <2>1, <3>1, <3>2, TasksWatch
  <2>5. QED
    BY <2>3, <2>4
<1>2. ASSUME NEW c \in pending[w], Cancel(w, c)
      PROVE  Watched(l)'
  <2> DEFINE T == Cancelled(tasks[w], {c.lot})
  <2>1. tasks' = [tasks EXCEPT ![w] = T] /\ end_time' = end_time
    BY <1>2 DEF Cancel, lots
  <2>2. c.lot # l /\ c.call = "cancel"
    BY <1>2 DEF Cancel, WatchBase, Owed, Over
  <2>3. Reaches(tasks[w], l, end_time[l]) => Reaches(T, l, end_time[l])
    BY <2>2, ReachCancelled
  <2>4. \A v \in Workers : Arms(pending[v], l) => Arms(pending'[v], l)
    BY <1>0, <1>2, <2>2, OtherArms DEF Cancel
  <2> HIDE DEF T
  <2>5. QED
    BY <1>0, <2>1, <2>3, <2>4, TasksWatch
<1>3. ASSUME NEW c \in pending[w], BuyCommit(w, c)
      PROVE  Watched(l)'
  <2>1. c.lot # l
    BY <1>0, <1>3 DEF BuyCommit, Fields
  <2>2. UNCHANGED tasks /\ end_time'[l] = end_time[l]
    BY <1>0, <1>3, <2>1, CallFields DEF BuyCommit, Fields
  <2>3. \A v \in Workers : Arms(pending[v], l) => Arms(pending'[v], l)
    BY <1>0, <1>3, <2>1, OtherArms DEF BuyCommit
  <2>4. QED
    BY <2>2, <2>3, SameWatch
<1>4. ASSUME NEW T, tasks' = [tasks EXCEPT ![w] = T], end_time' = end_time, pending' = pending,
             Reaches(tasks[w], l, end_time[l]) => Reaches(T, l, end_time[l])
      PROVE  Watched(l)'
  BY <1>0, <1>4, TasksWatch
<1>5. ASSUME NEW t, Exit(w, t), end_time' = end_time, pending' = pending,
             t.lot # l \/ t.kind = "warn"
      PROVE  Watched(l)'
  <2>1. tasks' = [tasks EXCEPT ![w] = tasks[w] \ {t}]
    BY <1>5 DEF Exit
  <2>2. Reaches(tasks[w], l, end_time[l]) => Reaches(tasks[w] \ {t}, l, end_time[l])
    BY <1>5, ReachWithout
  <2>3. QED
    BY <1>4, <1>5, <2>1, <2>2
<1>6. ASSUME NEW t \in tasks[w], NEW phase, Phase(w, t, phase),
             end_time' = end_time, pending' = pending
      PROVE  Watched(l)'
  <2> DEFINE r == [t EXCEPT !.phase = phase]
             T == (tasks[w] \ {t}) \cup {r}
  <2>1. tasks' = [tasks EXCEPT ![w] = T]
    BY <1>6 DEF Phase
  <2>2. r.lot = t.lot /\ r.kind = t.kind /\ r.at = t.at
    <3>1. t \in Task
      BY <1>0, TaskFields
    <3>2. QED
      BY <3>1 DEF Task
  <2> HIDE DEF r
  <2>3. Reaches(tasks[w], l, end_time[l]) => Reaches(T, l, end_time[l])
    BY <2>2 DEF Reaches
  <2> HIDE DEF T
  <2>4. QED
    BY <1>4, <1>6, <2>1, <2>3
<1>7. ASSUME NEW t \in tasks[w], WakeToComplete(w, t)
      PROVE  Watched(l)'
  <2>0. end_time' = end_time /\ pending' = pending
    BY <1>7 DEF WakeToComplete, lots
  <2>1. CASE state[t.lot] # "open"
    BY <1>5, <1>7, <2>0, <2>1 DEF WakeToComplete
  <2>2. CASE state[t.lot] = "open" /\ end_time[t.lot] > now
    <3> DEFINE F == Fresh(t.lot, end_time[t.lot], ending_soon_notified[t.lot])
               A == Armed(tasks[w] \ {t}, F)
    <3>1. tasks' = [tasks EXCEPT ![w] = A]
      BY <1>7, <2>2 DEF WakeToComplete
    <3>2. CASE t.lot = l
      <4>1. Reaches(F, l, end_time[l])
        BY <1>0, <3>2, ReachFresh
      <4> HIDE DEF F
      <4>2. Reaches(A, l, end_time[l])
        BY <4>1, ReachArmed
      <4> HIDE DEF A
      <4>3. QED
        BY <1>4, <2>0, <3>1, <4>2
    <3>3. CASE t.lot # l
      <4>1. \A n \in F : n.lot # l
        BY <3>3, FreshSleep
      <4> HIDE DEF F
      <4>2. Reaches(tasks[w], l, end_time[l]) => Reaches(A, l, end_time[l])
        BY <3>3, <4>1, ReachWithout, ReachArmed
      <4> HIDE DEF A
      <4>3. QED
        BY <1>4, <2>0, <3>1, <4>2
    <3>4. QED
      BY <3>2, <3>3
  <2>3. CASE state[t.lot] = "open" /\ ~ (end_time[t.lot] > now)
    BY <1>6, <1>7, <2>0, <2>3 DEF WakeToComplete
  <2>4. QED
    BY <2>1, <2>2, <2>3
<1>8. ASSUME NEW t \in tasks[w], Settle(w, t)
      PROVE  Watched(l)'
  <2>1. end_time' = end_time /\ pending' = pending
    BY <1>8 DEF Settle
  <2>2. state[t.lot] = "deleted" => t.lot # l
    OBVIOUS
  <2>3. QED
    BY <1>5, <1>6, <1>8, <2>1, <2>2 DEF Settle
<1>9. ASSUME NEW t \in tasks[w], Announce(w, t)
      PROVE  Watched(l)'
  <2>1. t.lot # l
    BY <1>9 DEF Announce, WatchBase, Landed, Over
  <2>2. QED
    BY <1>5, <1>9, <2>1 DEF Announce, lots
<1>10. ASSUME NEW t \in tasks[w], WakeToWarn(w, t) \/ ReadBidders(w, t) \/ Warn(w, t) \/ SetNotified(w, t)
       PROVE  Watched(l)'
  BY <1>5, <1>6, <1>10 DEF WakeToWarn, ReadBidders, Warn, SetNotified, lots
<1>11. CASE Promote(w)
  <2> DEFINE T == schedule_active_auctions(tasks[w])
  <2>1. tasks' = [tasks EXCEPT ![w] = T] /\ end_time' = end_time /\ pending' = pending
    BY <1>11 DEF Promote, lots
  <2>2. Reaches(T, l, end_time[l])
    BY <1>0, ReachActive DEF OpenLots
  <2> HIDE DEF T
  <2>3. QED
    BY <1>4, <2>1, <2>2
<1>12. CASE PingFails(w)
  BY <1>12, SameWatch DEF PingFails, StepDown, lots
<1>13. QED
  BY <1>1, <1>2, <1>3, <1>7, <1>8, <1>9, <1>10, <1>11, <1>12 DEF Run

LEMMA WatchRequested ==
  ASSUME WatchBase, NEW w \in Workers, NEW k \in Lots, Requested(w, k), NEW l \in Lots,
         state'[l] = "open", state[l] = "open" => Watched(l)
  PROVE  Watched(l)'
<1>0. Fields /\ TidyInv
  BY DEF WatchBase, TidyInv
<1>1. ASSUME NEW c, Owe(w, c), c.lot = l, c.call \in {"schedule", "purchase"}
      PROVE  Watched(l)'
  <2>1. c \in pending'[w]
    BY <1>0, <1>1 DEF Owe, Fields
  <2>2. QED
    BY <1>1, <2>1 DEF Watched
<1>2. ASSUME NEW c, Owe(w, c), state[l] = "open", end_time'[l] = end_time[l], UNCHANGED tasks
      PROVE  Watched(l)'
  <2>1. \A v \in Workers : Arms(pending[v], l) => Arms(pending'[v], l)
    BY <1>0, <1>2, OwesMore
  <2>2. QED
    BY <1>2, <2>1, SameWatch
<1>3. ASSUME NEW call \in {"schedule", "purchase"}, NEW end, NEW notified,
             Owe(w, CallFor(call, l, end, notified))
      PROVE  Watched(l)'
  BY <1>1, <1>3 DEF CallFor
<1>4. ASSUME NEW type, NEW d, CreateAuction(w, k, type, d)
      PROVE  Watched(l)'
  <2>1. CASE k = l
    BY <1>3, <1>4, <2>1 DEF CreateAuction
  <2>2. CASE k # l
    <3>1. state[l] = "open" /\ end_time'[l] = end_time[l]
      BY <1>0, <1>4, <2>2 DEF CreateAuction, Fields
    <3>2. QED
      BY <1>2, <1>4, <3>1 DEF CreateAuction
  <2>3. QED
    BY <2>1, <2>2
<1>5. CASE PlaceBid(w, k)
  <2>1. state[l] = "open"
    BY <1>5 DEF PlaceBid
  <2>2. CASE Sniping(k)
    <3>1. CASE k = l
      BY <1>3, <1>5, <2>2, <3>1 DEF PlaceBid
    <3>2. CASE k # l
      <4>1. end_time'[l] = end_time[l]
        BY <1>0, <1>5, <2>2, <3>2 DEF PlaceBid, Fields
      <4>2. QED
        BY <1>2, <1>5, <2>1, <2>2, <4>1 DEF PlaceBid
    <3>3. QED
      BY <3>1, <3>2
  <2>3. CASE ~ Sniping(k)
    BY <1>5, <2>1, <2>3, SameWatch DEF PlaceBid
  <2>4. QED
    BY <2>2, <2>3
<1>6. CASE DeleteAuction(w, k)
  <2>1. state[l] = "open" /\ end_time' = end_time
    BY <1>0, <1>6 DEF DeleteAuction, Fields
  <2>2. QED
    BY <1>2, <1>6, <2>1 DEF DeleteAuction
<1>7. CASE BuyNow(w, k)
  <2>1. CASE k = l
    BY <1>3, <1>7, <2>1 DEF BuyNow
  <2>2. CASE k # l
    <3> DEFINE T == Cancelled(tasks[w], {k})
    <3>1. tasks' = [tasks EXCEPT ![w] = T] /\ end_time' = end_time /\ state[l] = "open"
      BY <1>7 DEF BuyNow, lots
    <3>2. Reaches(tasks[w], l, end_time[l]) => Reaches(T, l, end_time[l])
      BY <2>2, ReachCancelled
    <3>3. \A v \in Workers : Arms(pending[v], l) => Arms(pending'[v], l)
      BY <1>0, <1>7, OwesMore DEF BuyNow
    <3> HIDE DEF T
    <3>4. QED
      BY <1>0, <3>1, <3>2, <3>3, TasksWatch
  <2>3. QED
    BY <2>1, <2>2
<1>8. ASSUME NEW m, UpdateAuction(w, k, m)
      PROVE  Watched(l)'
  <2>1. CASE k = l
    BY <1>3, <1>8, <2>1 DEF UpdateAuction
  <2>2. CASE k # l
    <3>1. state[l] = "open" /\ end_time'[l] = end_time[l]
      BY <1>0, <1>8, <2>2 DEF UpdateAuction, Fields
    <3>2. QED
      BY <1>2, <1>8, <3>1 DEF UpdateAuction
  <2>3. QED
    BY <2>1, <2>2
<1>9. CASE DeleteWarning(w, k)
  BY <1>9, SameWatch DEF DeleteWarning
<1>10. QED
  BY <1>4, <1>5, <1>6, <1>7, <1>8, <1>9 DEF Requested

(* Of the faults allowed, only a leader that stops takes tasks with it.    *)
LEMMA WatchGoesWrong ==
  ASSUME WatchBase, LeadersFail, NEW w \in Workers, GoesWrong(w), ~ Stop(w), NEW l \in Lots,
         state'[l] = "open", Watched(l)
  PROVE  Watched(l)'
<1>0. Fields /\ TidyInv
  BY DEF WatchBase, TidyInv
<1>1. ASSUME NEW t \in tasks[w], WarnFails(w, t)
      PROVE  Watched(l)'
  <2>1. tasks' = [tasks EXCEPT ![w] = tasks[w] \ {t}] /\ end_time' = end_time
        /\ pending' = pending /\ t.kind = "warn"
    BY <1>1 DEF WarnFails, Exit, lots
  <2>2. Reaches(tasks[w], l, end_time[l]) => Reaches(tasks[w] \ {t}, l, end_time[l])
    BY <2>1, ReachWithout
  <2>3. QED
    BY <1>0, <2>1, <2>2, TasksWatch
<1>2. CASE ConnectionDrops(w) \/ PingTimesOut(w)
  BY <1>2, SameWatch DEF ConnectionDrops, PingTimesOut, StepDown, lots
<1>3. \A c \in pending[w] : ~ BuyFails(w, c)
  BY DEF LeadersFail, BuyFails, Fault
<1>4. \A t \in tasks[w] : ~ SettleFails(w, t)
  BY DEF LeadersFail, SettleFails, Fault
<1>5. QED
  BY <1>1, <1>2, <1>3, <1>4 DEF GoesWrong

(* Only a request opens a lot.                                             *)
LEMMA NothingOpens ==
  ASSUME Fields, NEW w \in Workers, Run(w), NEW l \in Lots, state'[l] = "open"
  PROVE  state[l] = "open"
<1>1. ASSUME NEW c \in pending[w], BuyCommit(w, c)
      PROVE  state[l] = "open"
  BY <1>1 DEF BuyCommit, Fields
<1>2. ASSUME NEW t \in tasks[w], Settle(w, t)
      PROVE  state[l] = "open"
  BY <1>2 DEF Settle, Fields
<1>3. QED
  BY <1>1, <1>2 DEF Run, Schedule, Cancel, WakeToComplete, Announce, WakeToWarn, ReadBidders, Warn,
     SetNotified, Promote, PingFails, StepDown, lots

(* In a step in which no leader stops, watched lots stay watched and a new *)
(* one is.                                                                 *)
LEMMA StillWatched ==
  ASSUME WatchBase, LeadersFail, [Next]_vars, \A w \in Workers : ~ Stop(w),
         NEW l \in Lots, state'[l] = "open", state[l] = "open" => Watched(l)
  PROVE  Watched(l)'
<1>0. Fields /\ TidyInv
  BY DEF WatchBase, TidyInv
<1>1. CASE Tick \/ UNCHANGED vars
  BY <1>1, SameWatch DEF Tick, vars, lots
<1>2. ASSUME NEW w \in Workers, Start(w)
      PROVE  Watched(l)'
  <2>1. state[l] = "open" /\ end_time' = end_time /\ pending' = pending
    BY <1>2 DEF Start, lots
  <2>2. CASE Claimable(w)
    <3> DEFINE T == schedule_active_auctions({})
    <3>1. tasks' = [tasks EXCEPT ![w] = T]
      BY <1>2, <2>2 DEF Start
    <3>2. Reaches(T, l, end_time[l])
      BY <1>0, <2>1, ReachActive DEF OpenLots
    <3> HIDE DEF T
    <3>3. QED
      BY <1>0, <2>1, <3>1, <3>2, TasksWatch
  <2>3. CASE ~ Claimable(w)
    BY <1>2, <2>1, <2>3, SameWatch DEF Start
  <2>4. QED
    BY <2>2, <2>3
<1>3. ASSUME NEW w \in Workers, Run(w)
      PROVE  Watched(l)'
  <2>1. state[l] = "open"
    BY <1>0, <1>3, NothingOpens
  <2>2. QED
    BY <1>3, <2>1, WatchRun
<1>4. ASSUME NEW w \in Workers, GoesWrong(w)
      PROVE  Watched(l)'
  <2>1. state' = state
    BY <1>4 DEF GoesWrong, BuyFails, SettleFails, WarnFails, Stop, ConnectionDrops,
       PingTimesOut, StepDown, lots
  <2>2. QED
    BY <1>4, <2>1, WatchGoesWrong
<1>5. QED
  BY <1>1, <1>2, <1>3, <1>4, WatchRequested DEF Next

LEMMA FaultsGrow ==
  ASSUME Fields, [Next]_vars
  PROVE  faults' >= faults
<1>1. ASSUME NEW w \in Workers, Run(w)
      PROVE  faults' = faults
  BY <1>1 DEF Run, Schedule, Cancel, BuyCommit, WakeToComplete, Settle, Announce,
              WakeToWarn, ReadBidders, Warn, SetNotified, Promote, PingFails
<1>2. ASSUME NEW w \in Workers, NEW l \in Lots, Requested(w, l)
      PROVE  faults' = faults
  BY <1>2 DEF Requested, CreateAuction, PlaceBid, DeleteAuction, BuyNow, UpdateAuction,
     DeleteWarning
<1>3. ASSUME NEW w \in Workers, GoesWrong(w)
      PROVE  faults' = faults + 1
  BY <1>3 DEF GoesWrong, BuyFails, SettleFails, WarnFails, Stop, ConnectionDrops,
              PingTimesOut, Fault
<1>4. ASSUME NEW w \in Workers, Start(w)
      PROVE  faults' = faults
  BY <1>4 DEF Start
<1>5. ASSUME Tick \/ UNCHANGED vars
      PROVE  faults' = faults
  BY <1>5 DEF Tick, vars
<1>6. faults \in Nat
  BY DEF Fields
<1>7. QED
  BY <1>1, <1>2, <1>3, <1>4, <1>5, <1>6 DEF Next

(* As long as some process leads over a live connection every open lot is  *)
(* watched: nobody else could claim the lock.                              *)
LEMMA LedIsWatched ==
  ASSUME WatchInv, NEW w \in Workers, conn[w] = "live"
  PROVE  AllWatched
BY WorkersAssumption DEF WatchInv, LeaderHasLock, EveryOpenLotIsWatched, Claimable, AllWatched

LEMMA OutdatedStays ==
  ASSUME Fields, Fields', [Next]_vars, Outdated, AllWatched => AllWatched',
         \A w \in Workers : conn'[w] = "dead" => conn[w] = "dead"
  PROVE  Outdated'
<1>1. faults' >= faults /\ faults \in Nat /\ faults' \in Nat
  BY FaultsGrow DEF Fields
<1>2. faults >= 1 => faults' >= 1
  BY <1>1
<1>3. QED
  BY <1>2 DEF Outdated

LEMMA WatchStop ==
  ASSUME WatchInv, LeadersFail, NEW w \in Workers, Stop(w)
  PROVE  EveryOpenLotIsWatched' /\ Outdated'
<1>0. Fields
  BY DEF WatchInv, TidyInv
<1>1. "leader stops" \in Faults /\ faults < MaxFaults
  BY DEF Stop, Fault, LeadersFail
<1>2. conn' = [conn EXCEPT ![w] = "none"] /\ lock' = NoWorker
  BY <1>1 DEF Stop, Fault, LeadersFail
<1>3. EveryOpenLotIsWatched'
  BY <1>0, <1>2 DEF EveryOpenLotIsWatched, Claimable, Fields
<1>4. \A v \in Workers : conn[v] # "dead"
  <2> SUFFICES ASSUME \E v \in Workers : conn[v] = "dead" PROVE FALSE
    OBVIOUS
  <2>1. "connection drops" \in Faults
    BY DEF WatchInv, Outdated
  <2>2. MaxFaults <= 1
    BY <1>1, <2>1 DEF LeadersFail
  <2>3. faults >= 1
    BY DEF WatchInv, Outdated
  <2>4. faults \in Nat /\ MaxFaults \in Nat
    BY <1>0, LimitsAssumption DEF Fields
  <2>5. faults < MaxFaults
    BY <1>1
  <2>6. QED
    BY <2>2, <2>3, <2>4, <2>5
<1>5. \A v \in Workers : conn'[v] # "dead"
  BY <1>0, <1>2, <1>4 DEF Fields
<1>6. QED
  BY <1>3, <1>5 DEF Outdated

LEMMA WatchClaim ==
  ASSUME WatchInv, NEW w \in Workers, Claimable(w), Start(w) \/ Promote(w)
  PROVE  \A l \in OpenLots' : Watched(l)'
<1>0. Fields
  BY DEF WatchInv, TidyInv
<1> TAKE l \in OpenLots'
<1>1. PICK S : tasks' = [tasks EXCEPT ![w] = schedule_active_auctions(S)]
  BY DEF Start, Promote
<1>2. l \in OpenLots /\ end_time' = end_time
  BY DEF Start, Promote, lots, OpenLots
<1>3. Reaches(schedule_active_auctions(S), l, end_time[l])
  BY <1>0, <1>2, ReachActive
<1>4. tasks'[w] = schedule_active_auctions(S)
  BY <1>0, <1>1 DEF Fields
<1>5. Reaches(tasks'[w], l, end_time'[l])
  BY <1>2, <1>3, <1>4
<1>6. QED
  BY <1>5 DEF Watched, Reaches

LEMMA StepWatch ==
  ASSUME WatchInv, LeadersFail, [Next]_vars
  PROVE  WatchInv'
<1>0. WatchBase /\ TidyInv /\ Fields /\ LeaderHasLock /\ Landed /\ Outdated
  BY DEF WatchInv, WatchBase, TidyInv, Landed
<1>1. /\ TidyInv' /\ LeaderHasLock' /\ Landed' /\ Fields'
      /\ (\A w \in Workers : \A c \in pending[w] : Owed(c))'
  BY <1>0, StepTidy, StepLeader, StepLanded, StepOwed DEF WatchBase, TidyInv
<1>2. EveryOpenLotIsWatched' /\ Outdated'
  <2>1. CASE \E w \in Workers : Stop(w)
    BY <2>1, WatchStop
  <2>2. CASE \A w \in Workers : ~ Stop(w)
    <3>1. ASSUME NEW l \in OpenLots', l \in OpenLots => Watched(l)
          PROVE  Watched(l)'
      BY <1>0, <2>2, <3>1, StillWatched DEF OpenLots
    <3>2. AllWatched => AllWatched'
      BY <3>1 DEF AllWatched
    <3>3. AllWatched' => EveryOpenLotIsWatched'
      BY DEF EveryOpenLotIsWatched, AllWatched
    <3>4. (\A w \in Workers : conn'[w] = "dead" => conn[w] = "dead") => Outdated'
      BY <1>0, <1>1, <3>2, OutdatedStays
    <3>5. CASE UNCHANGED election
      <4>1. EveryOpenLotIsWatched'
        <5> SUFFICES ASSUME NEW l \in OpenLots', ~ Watched(l)'
                     PROVE  \E w \in Workers : conn'[w] = "none" /\ Claimable(w)'
          BY DEF EveryOpenLotIsWatched
        <5>1. l \in OpenLots /\ ~ Watched(l)
          BY <3>1
        <5>2. QED
          BY <3>5, <5>1 DEF WatchInv, EveryOpenLotIsWatched, Claimable, election
      <4>2. Outdated'
        BY <3>4, <3>5 DEF election
      <4>3. QED
        BY <4>1, <4>2
    <3>6. ASSUME NEW w \in Workers, Claimable(w), Claim(w), Start(w) \/ Promote(w)
          PROVE  EveryOpenLotIsWatched' /\ Outdated'
      <4>1. AllWatched'
        BY <3>6, WatchClaim DEF AllWatched
      <4>2. \A v \in Workers : conn'[v] = "dead" => conn[v] = "dead"
        BY <1>0, <3>6 DEF Claim, Fields
      <4>3. QED
        BY <3>3, <3>4, <4>1, <4>2
    <3>7. ASSUME NEW w \in Workers, PingFails(w) \/ PingTimesOut(w)
          PROVE  EveryOpenLotIsWatched' /\ Outdated'
      <4>1. AllWatched
        BY <1>0, <3>7, LedIsWatched DEF PingFails, PingTimesOut, Outdated
      <4>2. \A v \in Workers : conn'[v] = "dead" => conn[v] = "dead"
        BY <1>0, <3>7 DEF PingFails, PingTimesOut, StepDown, Claim, Fields
      <4>3. QED
        BY <3>2, <3>3, <3>4, <4>1, <4>2
    <3>8. ASSUME NEW w \in Workers, ConnectionDrops(w)
          PROVE  EveryOpenLotIsWatched' /\ Outdated'
      <4>1. AllWatched'
        BY <3>2, <3>8, LedIsWatched DEF ConnectionDrops
      <4>2. "connection drops" \in Faults
        BY <3>8 DEF ConnectionDrops, Fault
      <4>3. faults' = faults + 1
        BY <3>8 DEF ConnectionDrops, Fault
      <4>4. faults' >= 1
        <5>1. faults \in Nat
          BY <1>0 DEF Fields
        <5>2. QED
          BY <4>3, <5>1
      <4>5. QED
        BY <3>3, <4>1, <4>2, <4>4 DEF Outdated
    <3>9. QED
      BY <2>2, <3>5, <3>6, <3>7, <3>8, ElectionMoves
  <2>3. QED
    BY <2>1, <2>2
<1>3. QED
  BY <1>1, <1>2 DEF WatchInv, Landed

LEMMA InitWatch == Init => WatchInv
<1> SUFFICES ASSUME Init PROVE WatchInv
  OBVIOUS
<1>1. TidyInv /\ LeaderHasLock
  BY InitTidy, InitLeader
<1>2. OpenLots = {}
  BY DEF Init, OpenLots
<1>3. QED
  BY <1>1, <1>2 DEF WatchInv, Init, EveryOpenLotIsWatched, Outdated

(* Through restarts of leaders, dropped connections and timed-out pings an *)
(* open lot is always watched: a task will look at it by its deadline, or  *)
(* a request still owes the call that arms one, or a process that will     *)
(* claim the lead is about to arm them all.  (A follower that is restarted *)
(* takes its tasks with it, and so would a leader while another that lost  *)
(* its connection can still take the lead back without arming anything.)   *)
THEOREM OpenLotsAreWatched ==
  LeadersFail => (Spec => []EveryOpenLotIsWatched)
<1> SUFFICES ASSUME LeadersFail
             PROVE  Spec => []EveryOpenLotIsWatched
  OBVIOUS
<1>1. WatchInv /\ [Next]_vars => WatchInv'
  BY StepWatch
<1>2. WatchInv => EveryOpenLotIsWatched
  BY DEF WatchInv
<1>3. QED
  BY <1>1, <1>2, InitWatch, PTL DEF Spec
=============================================================================
