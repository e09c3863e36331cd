-------------------------- MODULE EmailOutboxProofs --------------------------
(***************************************************************************)
(* Proofs about EmailOutbox, for every number of workers, rows, attempts   *)
(* and faults: a row is locked by one worker and owed as long as it is,    *)
(* so a letter goes out again only after a lost outcome, is given up       *)
(* exactly at its limit, and the workers implement Letters.                *)
(***************************************************************************)
EXTENDS EmailOutbox, SumsProofs

Busy(w) == worker[w].step \in {"send", "sent", "refused"}

(* A worker at work on a row has it for itself, and the row is owed.       *)
LockedRowsOwed ==
  \A w \in Workers : Busy(w) => worker[w].todo # {} /\ status[Current(w)] = "pending"
OneLockPerRow ==
  \A w, v \in Workers : Busy(w) /\ Busy(v) /\ Current(w) = Current(v) => w = v

(* The outcome of the last send is recorded, or about to be.               *)
AboutToRecord(m) == \E w \in Workers : worker[w].step = "sent" /\ Current(w) = m
SendsAccounted ==
  \A m \in Mails :
    /\ delivered[m] <= losses[m] + 1
    /\ status[m] # "sent" /\ ~ AboutToRecord(m) => delivered[m] <= losses[m]
    /\ status[m] = "sent" \/ AboutToRecord(m) => delivered[m] > 0

(* A row is given up exactly when its attempts are used up, no matter how  *)
(* many workers counted them.                                              *)
DeadLetterAtLimit ==
  \A m \in Mails : status[m] = "failed" <=> attempts[m] = MaxAttempts

LossesCounted == \A m \in Mails : losses[m] <= faults

OutboxInv ==
  /\ TypeOK /\ LossesCounted
  /\ LockedRowsOwed /\ OneLockPerRow
  /\ SendsAccounted /\ DeadLetterAtLimit

Steps == {"idle", "claim", "send", "sent", "refused"}
WorkerStates == [step : Steps, todo : SUBSET Mails, seen : [Mails -> 0 .. MaxAttempts]]

(* How a step of one worker shows in the others: it stays at its row, or   *)
(* leaves it.                                                              *)
StaysAt(w, s) ==
  /\ worker' \in [Workers -> WorkerStates]
  /\ \A v \in Workers :
       /\ Current(v)' = Current(v) /\ worker'[v].todo = worker[v].todo
       /\ worker'[v].step = IF v = w THEN s ELSE worker[v].step

Leaves(w) ==
  /\ worker' \in [Workers -> WorkerStates]
  /\ ~ Busy(w)' /\ worker'[w].step # "sent"
  /\ \A v \in Workers \ {w} :
       worker'[v] = worker[v] /\ Current(v)' = Current(v) /\ (Busy(v)' <=> Busy(v))

-----------------------------------------------------------------------------
(* Operators.                                                              *)

(* The row a worker is at is the oldest of those it still has to do.       *)
LEMMA CurrentInTodo ==
  ASSUME TypeOK, NEW w \in Workers, worker[w].todo # {}
  PROVE  Current(w) \in worker[w].todo /\ Current(w) \in Mails
<1>1. worker[w].todo \in SUBSET Mails /\ worker[w].todo \in SUBSET Nat
  <2>1. worker \in [Workers -> WorkerStates]
    BY DEF TypeOK, WorkerStates, Steps
  <2>2. worker[w].todo \in SUBSET Mails
    BY <2>1 DEF WorkerStates
  <2>3. Mails \subseteq Nat
    BY BoundsAssumption DEF Mails
  <2>4. QED
    BY <2>2, <2>3
<1>2. \E m \in worker[w].todo : \A k \in worker[w].todo : m <= k
  BY <1>1, LeastNat
<1>3. QED
  BY <1>1, <1>2 DEF Current

(* A new step of a worker moves no worker to another row.                  *)
LEMMA BecomeFrame ==
  ASSUME TypeOK, NEW w \in Workers, NEW s \in Steps, Become(w, s)
  PROVE  StaysAt(w, s)
<1>1. worker \in [Workers -> WorkerStates]
  BY DEF TypeOK, WorkerStates, Steps
<1>2. worker' \in [Workers -> WorkerStates]
  BY <1>1 DEF Become, WorkerStates
<1>3. \A v \in Workers : /\ worker'[v].todo = worker[v].todo
                         /\ worker'[v].step = IF v = w THEN s ELSE worker[v].step
  BY <1>1 DEF Become, WorkerStates
<1>4. QED
  BY <1>2, <1>3 DEF Current, StaysAt

(* A worker that turns from its row leaves the others as they were.        *)
LEMMA LeavesFrame ==
  ASSUME TypeOK, NEW w \in Workers, NEW s \in WorkerStates, s.step \in {"idle", "claim"},
         worker' = [worker EXCEPT ![w] = s]
  PROVE  Leaves(w)
<1>1. worker \in [Workers -> WorkerStates]
  BY DEF TypeOK, WorkerStates, Steps
<1>2. /\ worker' \in [Workers -> WorkerStates]
      /\ worker'[w].step \in {"idle", "claim"}
      /\ \A v \in Workers \ {w} : worker'[v] = worker[v]
  BY <1>1
<1>3. QED
  BY <1>2 DEF Busy, Current, Leaves

LEMMA IdleLeaves ==
  ASSUME TypeOK, NEW w \in Workers, worker' = [worker EXCEPT ![w] = Idle]
  PROVE  Leaves(w)
<1>1. Idle \in WorkerStates /\ Idle.step = "idle"
  BY BoundsAssumption DEF Idle, NoAttempts, WorkerStates, Steps
<1>2. QED
  BY <1>1, LeavesFrame

LEMMA DoneLeaves ==
  ASSUME TypeOK, NEW w \in Workers, Done(w)
  PROVE  Leaves(w)
<1> DEFINE s == [worker[w] EXCEPT !.step = "claim", !.todo = @ \ {Current(w)}]
<1>1. worker \in [Workers -> WorkerStates]
  BY DEF TypeOK, WorkerStates, Steps
<1>2. worker' = [worker EXCEPT ![w] = s]
  BY <1>1 DEF Done, WorkerStates
<1>3. s \in WorkerStates /\ s.step = "claim"
  BY <1>1 DEF WorkerStates, Steps
<1>4. QED
  BY <1>2, <1>3, LeavesFrame

LEMMA BackoffType ==
  ASSUME NEW a \in Nat
  PROVE  backoff_for_attempt(a) \in Nat
BY DEF backoff_for_attempt, BackoffByAttempt

-----------------------------------------------------------------------------
(* Locks.                                                                  *)

(* Who leaves a row may settle it: nobody else is at it.                   *)
LEMMA LeavingKeepsLocks ==
  ASSUME OutboxInv, NEW w \in Workers, Leaves(w),
         \/ status' = status
         \/ Busy(w) /\ \A m \in Mails \ {Current(w)} : status'[m] = status[m]
  PROVE  LockedRowsOwed' /\ OneLockPerRow'
<1>1. \A v \in Workers : Busy(v)' =>
         v # w /\ Busy(v) /\ Current(v)' = Current(v) /\ worker'[v].todo = worker[v].todo
  BY DEF Leaves
<1>2. \A v \in Workers : Busy(v) => Current(v) \in Mails
  BY CurrentInTodo DEF OutboxInv, LockedRowsOwed
<1>3. \A v \in Workers : Busy(v)' => status'[Current(v)] = status[Current(v)]
  BY <1>1, <1>2 DEF OutboxInv, OneLockPerRow
<1>4. LockedRowsOwed'
  BY <1>1, <1>3 DEF OutboxInv, LockedRowsOwed
<1>5. OneLockPerRow'
  BY <1>1 DEF OutboxInv, OneLockPerRow
<1>6. QED
  BY <1>4, <1>5

(* A worker at its row goes on with it, or takes one nobody is at.         *)
LEMMA StayingKeepsLocks ==
  ASSUME OutboxInv, NEW w \in Workers, NEW s \in Steps, StaysAt(w, s), status' = status,
         \/ Busy(w)
         \/ worker[w].todo # {} /\ Claimable(Current(w))
  PROVE  LockedRowsOwed' /\ OneLockPerRow'
<1>1. \A v \in Workers : /\ Current(v)' = Current(v) /\ worker'[v].todo = worker[v].todo
                         /\ v # w => (Busy(v)' <=> Busy(v))
  BY DEF StaysAt, Busy
<1>2. worker[w].todo # {} /\ status[Current(w)] = "pending"
  BY DEF OutboxInv, LockedRowsOwed, Claimable
<1>3. \A v \in Workers \ {w} : Busy(v) => Current(v) # Current(w)
  BY DEF OutboxInv, OneLockPerRow, Claimable, Locked, Busy
<1>4. LockedRowsOwed'
  BY <1>1, <1>2 DEF OutboxInv, LockedRowsOwed
<1>5. OneLockPerRow'
  BY <1>1, <1>3 DEF OutboxInv, OneLockPerRow
<1>6. QED
  BY <1>4, <1>5

(* Whose send is about to be recorded.                                     *)
LEMMA RecordingAfterLeaving ==
  ASSUME OutboxInv, NEW w \in Workers, Leaves(w), NEW m \in Mails
  PROVE  /\ m # Current(w) \/ worker[w].step # "sent" => (AboutToRecord(m)' <=> AboutToRecord(m))
         /\ Busy(w) /\ m = Current(w) => ~ AboutToRecord(m)'
<1>1. AboutToRecord(m)' <=>
        \E v \in Workers \ {w} : worker[v].step = "sent" /\ Current(v) = m
  BY DEF Leaves, AboutToRecord
<1>2. \A v \in Workers : worker[v].step = "sent" => Busy(v)
  BY DEF Busy
<1>3. m # Current(w) \/ worker[w].step # "sent" => (AboutToRecord(m)' <=> AboutToRecord(m))
  BY <1>1 DEF AboutToRecord
<1>4. Busy(w) /\ m = Current(w) => ~ AboutToRecord(m)'
  BY <1>1, <1>2 DEF OutboxInv, OneLockPerRow
<1>5. QED
  BY <1>3, <1>4

LEMMA RecordingAfterStaying ==
  ASSUME OutboxInv, NEW w \in Workers, NEW s \in Steps, StaysAt(w, s),
         worker[w].step # "sent", NEW m \in Mails
  PROVE  AboutToRecord(m)' <=> AboutToRecord(m) \/ (s = "sent" /\ m = Current(w))
BY DEF StaysAt, AboutToRecord

-----------------------------------------------------------------------------
(* The invariant is kept, action by action.                                *)

LEMMA InitOutboxInv == Init => OutboxInv
<1> SUFFICES ASSUME Init PROVE OutboxInv
  OBVIOUS
<1>1. \A w \in Workers : worker[w].step = "idle"
  BY DEF Init, Idle
<1>2. TypeOK /\ LossesCounted /\ DeadLetterAtLimit
  BY BoundsAssumption DEF Init, TypeOK, LossesCounted, DeadLetterAtLimit, Idle, NoAttempts
<1>3. LockedRowsOwed /\ OneLockPerRow
  BY <1>1 DEF LockedRowsOwed, OneLockPerRow, Busy
<1>4. SendsAccounted
  BY <1>1 DEF Init, SendsAccounted, AboutToRecord
<1>5. QED
  BY <1>2, <1>3, <1>4 DEF OutboxInv

LEMMA TickKeeps == ASSUME OutboxInv, Tick PROVE OutboxInv'
<1>1. now' \in 0 .. Horizon
  BY BoundsAssumption DEF OutboxInv, TypeOK, Tick
<1>2. TypeOK'
  BY <1>1 DEF OutboxInv, TypeOK, Tick, row
<1>3. QED
  BY <1>2 DEF OutboxInv, Tick, row, LossesCounted, LockedRowsOwed, OneLockPerRow, Busy, Current,
              SendsAccounted, AboutToRecord, DeadLetterAtLimit

LEMMA EnqueueKeeps == ASSUME OutboxInv, NEW m \in Mails, enqueue_email(m) PROVE OutboxInv'
<1>1. TypeOK'
  BY BoundsAssumption DEF OutboxInv, TypeOK, enqueue_email
<1>2. /\ UNCHANGED <<worker, delivered, losses, faults, attempts>>
      /\ status[m] = "none" /\ status'[m] = "pending"
      /\ \A k \in Mails \ {m} : status'[k] = status[k]
  BY DEF OutboxInv, TypeOK, enqueue_email
<1>3. LossesCounted' /\ OneLockPerRow'
  <2>1. LossesCounted'
    BY <1>2 DEF OutboxInv, LossesCounted
  <2>2. \A w \in Workers : (Busy(w)' <=> Busy(w)) /\ Current(w)' = Current(w)
    BY <1>2 DEF Busy, Current
  <2>3. QED
    BY <2>1, <2>2 DEF OutboxInv, OneLockPerRow
<1>4. LockedRowsOwed'
  <2>1. \A w \in Workers : worker[w].todo # {} => Current(w) \in Mails
    BY CurrentInTodo DEF OutboxInv
  <2>2. QED
    BY <1>2, <2>1 DEF OutboxInv, LockedRowsOwed, Busy, Current
<1>5. SendsAccounted'
  <2>1. \A k \in Mails : AboutToRecord(k)' <=> AboutToRecord(k)
    BY <1>2 DEF AboutToRecord, Current
  <2>2. QED
    BY <1>2, <2>1 DEF OutboxInv, SendsAccounted
<1>6. DeadLetterAtLimit'
  BY <1>2 DEF OutboxInv, DeadLetterAtLimit
<1>7. QED
  BY <1>1, <1>3, <1>4, <1>5, <1>6 DEF OutboxInv

(* A worker leaves its row, or none, with nothing written.                 *)
LEMMA LeavingKeeps ==
  ASSUME OutboxInv, NEW w \in Workers, Leaves(w), worker[w].step # "sent",
         UNCHANGED <<now, row, delivered, losses>>,
         faults' = faults \/ Fault
  PROVE  OutboxInv'
<1>1. TypeOK'
  BY BoundsAssumption DEF OutboxInv, TypeOK, row, Leaves, WorkerStates, Steps, Fault
<1>2. LossesCounted'
  BY DEF OutboxInv, TypeOK, LossesCounted, Fault
<1>3. LockedRowsOwed' /\ OneLockPerRow'
  BY LeavingKeepsLocks DEF row
<1>4. SendsAccounted'
  BY RecordingAfterLeaving DEF OutboxInv, SendsAccounted, row
<1>5. DeadLetterAtLimit'
  BY DEF OutboxInv, DeadLetterAtLimit, row
<1>6. QED
  BY <1>1, <1>2, <1>3, <1>4, <1>5 DEF OutboxInv

LEMMA SelectBatchKeeps ==
  ASSUME OutboxInv, NEW w \in Workers, SelectBatch(w)
  PROVE  OutboxInv'
<1> DEFINE s == [step |-> "claim",
                 todo |-> {m \in Due : Cardinality({k \in Due : k < m}) < BatchSize},
                 seen |-> attempts]
<1>1. s \in WorkerStates
  BY DEF OutboxInv, TypeOK, WorkerStates, Steps, Due
<1>2. Leaves(w)
  BY <1>1, LeavesFrame DEF SelectBatch, OutboxInv
<1>3. QED
  BY <1>2, LeavingKeeps DEF SelectBatch

LEMMA ClaimKeeps ==
  ASSUME OutboxInv, NEW w \in Workers, Claim(w)
  PROVE  OutboxInv'
<1>1. CASE Claimable(Current(w))
  <2>1. StaysAt(w, "send")
    BY <1>1, BecomeFrame DEF Claim, OutboxInv, Steps
  <2>2. LockedRowsOwed' /\ OneLockPerRow'
    BY <1>1, <2>1, StayingKeepsLocks DEF Claim, row, Steps
  <2>3. TypeOK' /\ LossesCounted' /\ DeadLetterAtLimit'
    BY <2>1 DEF Claim, row, OutboxInv, TypeOK, LossesCounted, DeadLetterAtLimit, StaysAt,
                WorkerStates, Steps
  <2>4. SendsAccounted'
    BY <2>1, RecordingAfterStaying DEF Claim, row, OutboxInv, SendsAccounted, Steps
  <2>5. QED
    BY <2>2, <2>3, <2>4 DEF OutboxInv
<1>2. CASE ~ Claimable(Current(w))
  BY <1>2, DoneLeaves, LeavingKeeps DEF Claim, OutboxInv
<1>3. QED
  BY <1>1, <1>2

(* Before its send a letter is not about to be recorded.                   *)
LEMMA AtSend ==
  ASSUME OutboxInv, NEW w \in Workers, Busy(w)
  PROVE  /\ Current(w) \in Mails /\ status[Current(w)] = "pending"
         /\ worker[w].step # "sent" => ~ AboutToRecord(Current(w))
<1>1. \A v \in Workers : worker[v].step = "sent" => Busy(v)
  BY DEF Busy
<1>2. Current(w) \in Mails
  BY CurrentInTodo DEF OutboxInv, LockedRowsOwed
<1>3. QED
  BY <1>1, <1>2 DEF OutboxInv, LockedRowsOwed, OneLockPerRow, AboutToRecord

LEMMA SendKeeps ==
  ASSUME OutboxInv, NEW w \in Workers, SendSucceeds(w) \/ SendFails(w) \/ SendMisreported(w)
  PROVE  OutboxInv'
<1>1. Busy(w) /\ worker[w].step # "sent" /\ UNCHANGED <<now, row>>
  BY DEF SendSucceeds, SendFails, SendMisreported, Busy
<1>2. PICK c \in Mails : c = Current(w) /\ status[c] = "pending" /\ ~ AboutToRecord(c)
  BY <1>1, AtSend
<1>3. PICK s \in {"sent", "refused"} :
         /\ StaysAt(w, s)
         /\ IF s = "sent" THEN SendSucceeds(w) ELSE SendFails(w) \/ SendMisreported(w)
  BY BecomeFrame DEF SendSucceeds, SendFails, SendMisreported, OutboxInv, Steps
<1>4. LockedRowsOwed' /\ OneLockPerRow'
  BY <1>1, <1>3, StayingKeepsLocks DEF row, Steps
<1>5. /\ delivered \in [Mails -> Nat] /\ losses \in [Mails -> Nat] /\ faults \in Nat
      /\ delivered[c] <= losses[c] /\ losses[c] <= faults
  BY <1>2, BoundsAssumption DEF OutboxInv, SendsAccounted, TypeOK, LossesCounted
<1>6. /\ delivered' \in [Mails -> Nat] /\ losses' \in [Mails -> 0 .. MaxFaults]
      /\ faults' \in 0 .. MaxFaults
      /\ \A m \in Mails \ {c} : delivered'[m] = delivered[m] /\ losses'[m] = losses[m]
      /\ delivered'[c] <= losses'[c] + (IF s = "sent" THEN 1 ELSE 0)
      /\ s = "sent" => delivered'[c] > 0
      /\ LossesCounted'
  <2>1. CASE SendSucceeds(w)
    <3>1. UNCHANGED <<losses, faults>> /\ delivered' = [delivered EXCEPT ![c] = @ + 1]
      BY <1>2, <2>1 DEF SendSucceeds
    <3>2. LossesCounted' /\ losses' \in [Mails -> 0 .. MaxFaults] /\ faults' \in 0 .. MaxFaults
      BY <3>1 DEF OutboxInv, TypeOK, LossesCounted
    <3>3. s = "sent"
      <4>1. StaysAt(w, "sent")
        BY <2>1, BecomeFrame DEF SendSucceeds, OutboxInv, Steps
      <4>2. QED
        BY <1>3, <4>1 DEF StaysAt
    <3>4. QED
      BY <1>2, <1>5, <3>1, <3>2, <3>3
  <2>2. CASE SendFails(w)
    BY <1>2, <1>3, <1>5, <2>2 DEF SendFails, SendSucceeds, Become, OutboxInv, TypeOK, LossesCounted,
                                  StaysAt, WorkerStates
  <2>3. CASE SendMisreported(w)
    <3>1. faults' = faults + 1 /\ faults' \in 0 .. MaxFaults
      BY <2>3, BoundsAssumption DEF SendMisreported, Fault, OutboxInv, TypeOK
    <3>2. /\ losses' = [losses EXCEPT ![c] = @ + 1]
          /\ delivered' = [delivered EXCEPT ![c] = @ + 1]
      BY <1>2, <2>3 DEF SendMisreported
    <3>3. \A m \in Mails : losses'[m] <= faults' /\ losses'[m] \in Nat
      BY <1>5, <3>1, <3>2 DEF OutboxInv, LossesCounted
    <3>4. losses' \in [Mails -> 0 .. MaxFaults]
      <4>1. \A m \in Mails : losses'[m] \in 0 .. MaxFaults
        BY <3>1, <3>3, BoundsAssumption
      <4>2. QED
        BY <1>5, <3>2, <4>1
    <3>5. s # "sent"
      BY <2>3, <1>3, <1>5, <3>1 DEF SendSucceeds
    <3>6. QED
      BY <1>2, <1>5, <3>1, <3>2, <3>3, <3>4, <3>5 DEF LossesCounted
  <2>4. QED
    BY <1>3, <2>1, <2>2, <2>3
<1>7. TypeOK'
  BY <1>1, <1>3, <1>6 DEF OutboxInv, TypeOK, row, StaysAt, WorkerStates, Steps
<1>8. SendsAccounted'
  <2>1. \A m \in Mails : AboutToRecord(m)' <=> AboutToRecord(m) \/ (s = "sent" /\ m = c)
    BY <1>1, <1>2, <1>3, RecordingAfterStaying DEF Steps
  <2>2. ASSUME NEW m \in Mails \ {c}
        PROVE  /\ delivered'[m] = delivered[m] /\ losses'[m] = losses[m]
               /\ status'[m] = status[m] /\ (AboutToRecord(m)' <=> AboutToRecord(m))
    BY <1>1, <1>6, <2>1 DEF row
  <2>3. /\ delivered'[c] <= losses'[c] + 1
        /\ ~ AboutToRecord(c)' => delivered'[c] <= losses'[c]
        /\ AboutToRecord(c)' => delivered'[c] > 0
        /\ status'[c] = "pending"
    <3>1. losses'[c] \in Nat /\ delivered'[c] \in Nat
      BY <1>2, <1>6, BoundsAssumption
    <3>2. AboutToRecord(c)' <=> s = "sent"
      BY <1>2, <2>1
    <3>3. QED
      BY <1>1, <1>2, <1>6, <3>1, <3>2 DEF row
  <2>4. QED
    BY <2>2, <2>3 DEF OutboxInv, SendsAccounted
<1>9. DeadLetterAtLimit'
  BY <1>1 DEF OutboxInv, DeadLetterAtLimit, row
<1>10. QED
  BY <1>4, <1>6, <1>7, <1>8, <1>9 DEF OutboxInv

LEMMA CommitSentKeeps ==
  ASSUME OutboxInv, NEW w \in Workers, CommitSent(w)
  PROVE  OutboxInv'
<1> DEFINE c == Current(w)
<1>1. Busy(w) /\ worker[w].step = "sent" /\ Leaves(w)
      /\ UNCHANGED <<now, attempts, next_attempt_at, delivered, losses, faults>>
  BY DoneLeaves DEF CommitSent, Busy, OutboxInv
<1>2. c \in Mails /\ status[c] = "pending" /\ AboutToRecord(c)
  BY <1>1, AtSend DEF AboutToRecord
<1>3. /\ status' \in [Mails -> {"none", "pending", "sent", "failed"}]
      /\ status'[c] = "sent" /\ \A m \in Mails \ {c} : status'[m] = status[m]
  BY <1>2 DEF CommitSent, OutboxInv, TypeOK
<1>4. LockedRowsOwed' /\ OneLockPerRow'
  BY <1>1, <1>3, LeavingKeepsLocks
<1>5. TypeOK' /\ LossesCounted'
  BY <1>1, <1>3 DEF OutboxInv, TypeOK, LossesCounted, Leaves, WorkerStates, Steps
<1>6. SendsAccounted'
  BY <1>1, <1>2, <1>3, RecordingAfterLeaving DEF OutboxInv, SendsAccounted
<1>7. DeadLetterAtLimit'
  BY <1>1, <1>2, <1>3 DEF OutboxInv, DeadLetterAtLimit
<1>8. QED
  BY <1>4, <1>5, <1>6, <1>7 DEF OutboxInv

LEMMA CommitRefusedKeeps ==
  ASSUME OutboxInv, NEW w \in Workers, CommitRefused(w)
  PROVE  OutboxInv'
<1> DEFINE c == Current(w)
<1>1. Busy(w) /\ worker[w].step = "refused" /\ Leaves(w)
      /\ UNCHANGED <<now, delivered, losses, faults>>
  BY DoneLeaves DEF CommitRefused, Busy, OutboxInv
<1>2. c \in Mails /\ status[c] = "pending" /\ ~ AboutToRecord(c)
  BY <1>1, AtSend
<1>3. attempts[c] \in 0 .. MaxAttempts /\ attempts[c] # MaxAttempts /\ now \in Nat
  BY <1>2, BoundsAssumption DEF OutboxInv, TypeOK, DeadLetterAtLimit
<1>4. attempts[c] + 1 \in 0 .. MaxAttempts
      /\ (Exhausted(attempts[c] + 1) <=> attempts[c] + 1 = MaxAttempts)
  BY <1>3, BoundsAssumption DEF Exhausted
<1>5. /\ attempts' \in [Mails -> 0 .. MaxAttempts]
      /\ attempts'[c] = attempts[c] + 1
      /\ \A m \in Mails \ {c} : attempts'[m] = attempts[m]
  BY <1>2, <1>4 DEF CommitRefused, OutboxInv, TypeOK
<1>6. /\ status' \in [Mails -> {"none", "pending", "sent", "failed"}]
      /\ status'[c] = IF Exhausted(attempts[c] + 1) THEN "failed" ELSE "pending"
      /\ \A m \in Mails \ {c} : status'[m] = status[m]
  BY <1>2 DEF CommitRefused, OutboxInv, TypeOK
<1>7. next_attempt_at' \in [Mails -> Nat]
  <2>1. now + backoff_for_attempt(attempts[c] + 1) \in Nat
    BY <1>3, BackoffType
  <2>2. QED
    BY <2>1 DEF CommitRefused, OutboxInv, TypeOK
<1>8. LockedRowsOwed' /\ OneLockPerRow'
  BY <1>1, <1>6, LeavingKeepsLocks
<1>9. TypeOK' /\ LossesCounted'
  BY <1>1, <1>5, <1>6, <1>7 DEF OutboxInv, TypeOK, LossesCounted, Leaves, WorkerStates, Steps
<1>10. SendsAccounted'
  <2>1. \A m \in Mails : AboutToRecord(m)' <=> AboutToRecord(m)
    BY <1>1, RecordingAfterLeaving
  <2>2. \A m \in Mails : status'[m] = "sent" <=> status[m] = "sent"
    BY <1>2, <1>6
  <2>3. QED
    BY <1>1, <2>1, <2>2 DEF OutboxInv, SendsAccounted
<1>11. DeadLetterAtLimit'
  BY <1>4, <1>5, <1>6 DEF OutboxInv, DeadLetterAtLimit
<1>12. QED
  BY <1>8, <1>9, <1>10, <1>11 DEF OutboxInv

LEMMA LoseKeeps ==
  ASSUME OutboxInv, NEW w \in Workers, Lose(w)
  PROVE  OutboxInv'
<1>1. Busy(w) /\ Leaves(w) /\ UNCHANGED <<now, row, delivered>>
  BY DoneLeaves, IdleLeaves DEF Lose, Busy, OutboxInv
<1>2. faults' = faults + 1 /\ faults' \in 0 .. MaxFaults /\ faults \in Nat
  BY BoundsAssumption DEF Lose, Fault, OutboxInv, TypeOK
<1>3. PICK c \in Mails : c = Current(w) /\ status[c] = "pending"
  BY <1>1, AtSend
<1>4. losses \in [Mails -> Nat] /\ delivered \in [Mails -> Nat]
  BY BoundsAssumption DEF OutboxInv, TypeOK
<1>5. CASE worker[w].step # "sent"
  <2>1. losses' = losses
    BY <1>4, <1>5 DEF Lose
  <2>2. QED
    BY <1>1, <1>5, <2>1, LeavingKeeps DEF Lose
<1>6. CASE worker[w].step = "sent"
  <2>1. losses' = [losses EXCEPT ![c] = @ + 1]
    BY <1>3, <1>6 DEF Lose
  <2>2. \A m \in Mails : losses'[m] <= faults' /\ losses'[m] \in Nat /\ losses'[m] >= losses[m]
    BY <1>2, <1>4, <2>1 DEF OutboxInv, LossesCounted
  <2>3. losses' \in [Mails -> 0 .. MaxFaults]
    <3>1. \A m \in Mails : losses'[m] \in 0 .. MaxFaults
      BY <1>2, <2>2, BoundsAssumption
    <3>2. QED
      BY <1>4, <2>1, <3>1
  <2>4. TypeOK' /\ LossesCounted'
    BY <1>1, <1>2, <2>2, <2>3 DEF OutboxInv, TypeOK, LossesCounted, Leaves, row, WorkerStates, Steps
  <2>5. LockedRowsOwed' /\ OneLockPerRow'
    BY <1>1, LeavingKeepsLocks DEF row
  <2>6. SendsAccounted'
    <3>1. ASSUME NEW m \in Mails \ {c}
          PROVE  /\ delivered'[m] = delivered[m] /\ losses'[m] = losses[m]
                 /\ status'[m] = status[m] /\ (AboutToRecord(m)' <=> AboutToRecord(m))
      BY <1>1, <1>3, <1>4, <2>1, RecordingAfterLeaving DEF row
    <3>2. /\ delivered'[c] <= losses'[c] /\ delivered'[c] <= losses'[c] + 1
          /\ status'[c] = "pending" /\ ~ AboutToRecord(c)'
      <4>1. ~ AboutToRecord(c)'
        BY <1>1, <1>3, RecordingAfterLeaving
      <4>2. delivered[c] <= losses[c] + 1 /\ losses'[c] = losses[c] + 1
        BY <1>3, <1>4, <2>1 DEF OutboxInv, SendsAccounted
      <4>3. QED
        BY <1>1, <1>3, <1>4, <4>1, <4>2 DEF row
    <3>3. QED
      BY <3>1, <3>2 DEF OutboxInv, SendsAccounted
  <2>7. DeadLetterAtLimit'
    BY <1>1 DEF OutboxInv, DeadLetterAtLimit, row
  <2>8. QED
    BY <2>4, <2>5, <2>6, <2>7 DEF OutboxInv
<1>7. QED
  BY <1>5, <1>6

LEMMA StepOutboxInv == OutboxInv /\ [Next]_vars => OutboxInv'
<1> SUFFICES ASSUME OutboxInv, [Next]_vars PROVE OutboxInv'
  OBVIOUS
<1>1. CASE UNCHANGED vars
  <2>1. TypeOK' /\ LossesCounted' /\ DeadLetterAtLimit'
    BY <1>1 DEF vars, row, OutboxInv, TypeOK, LossesCounted, DeadLetterAtLimit
  <2>2. LockedRowsOwed' /\ OneLockPerRow'
    <3>1. \A w \in Workers : (Busy(w)' <=> Busy(w)) /\ Current(w)' = Current(w)
      BY <1>1 DEF vars, Busy, Current
    <3>2. QED
      BY <1>1, <3>1 DEF vars, row, OutboxInv, LockedRowsOwed, OneLockPerRow
  <2>3. SendsAccounted'
    <3>1. \A m \in Mails : AboutToRecord(m)' <=> AboutToRecord(m)
      BY <1>1 DEF vars, AboutToRecord, Current
    <3>2. QED
      BY <1>1, <3>1 DEF vars, row, OutboxInv, SendsAccounted
  <2>4. QED
    BY <2>1, <2>2, <2>3 DEF OutboxInv
<1>2. ASSUME NEW w \in Workers, EndTick(w) PROVE OutboxInv'
  BY <1>2, IdleLeaves, LeavingKeeps DEF EndTick, OutboxInv
<1>3. ASSUME NEW w \in Workers, Run(w) \/ SendMisreported(w) \/ Lose(w) PROVE OutboxInv'
  BY <1>2, <1>3, SelectBatchKeeps, ClaimKeeps, SendKeeps, CommitSentKeeps, CommitRefusedKeeps,
     LoseKeeps DEF Run
<1>4. QED
  BY <1>1, <1>3, TickKeeps, EnqueueKeeps DEF Next

-----------------------------------------------------------------------------
(* The wait between two attempts.                                          *)

(* What a worker has yet to try was due, or it has been refused since the  *)
(* worker read its candidates.                                             *)
DueOrRefusedSince(w, m) ==
  next_attempt_at[m] <= now \/ worker[w].seen[m] < attempts[m]

CandidatesKnown ==
  \A w \in Workers :
    /\ \A m \in Mails : worker[w].seen[m] <= attempts[m]
    /\ \A m \in worker[w].todo : DueOrRefusedSince(w, m)

(* No step but the reading of candidates adds any.                         *)
NoNewCandidates ==
  \A v \in Workers :
    \/ /\ worker'[v].todo \subseteq worker[v].todo
       /\ worker'[v].seen = worker[v].seen
    \/ worker'[v] = Idle

LEMMA DoneAddsNone ==
  ASSUME TypeOK, NEW w \in Workers,
         \/ Done(w) \/ worker' = [worker EXCEPT ![w] = Idle]
         \/ \E s \in Steps : Become(w, s)
  PROVE  NoNewCandidates
<1>1. worker \in [Workers -> WorkerStates]
  BY DEF TypeOK, WorkerStates, Steps
<1>2. QED
  BY <1>1 DEF Done, Become, NoNewCandidates, WorkerStates

(* Without new candidates and with nobody refused, time may only pass.     *)
LEMMA CandidatesStayKnown ==
  ASSUME TypeOK, CandidatesKnown, NoNewCandidates,
         now' \in Nat, now <= now', attempts' = attempts, next_attempt_at' = next_attempt_at
  PROVE  CandidatesKnown'
<1> SUFFICES ASSUME NEW v \in Workers
             PROVE  /\ \A m \in Mails : worker'[v].seen[m] <= attempts'[m]
                    /\ \A m \in worker'[v].todo : DueOrRefusedSince(v, m)'
  BY DEF CandidatesKnown
<1>1. /\ now \in Nat /\ attempts \in [Mails -> Nat] /\ next_attempt_at \in [Mails -> Nat]
      /\ worker[v].todo \subseteq Mails
  BY BoundsAssumption DEF TypeOK
<1>2. CASE worker'[v] = Idle
  <2>1. worker'[v].todo = {} /\ \A m \in Mails : worker'[v].seen[m] = 0
    BY <1>2 DEF Idle, NoAttempts
  <2>2. QED
    BY <1>1, <2>1
<1>3. CASE worker'[v].todo \subseteq worker[v].todo /\ worker'[v].seen = worker[v].seen
  <2>1. \A m \in Mails : worker'[v].seen[m] <= attempts'[m]
    BY <1>3 DEF CandidatesKnown
  <2>2. ASSUME NEW m \in worker'[v].todo PROVE DueOrRefusedSince(v, m)'
    <3>1. m \in Mails /\ DueOrRefusedSince(v, m)
      BY <1>1, <1>3 DEF CandidatesKnown
    <3>2. QED
      BY <1>1, <1>3, <3>1 DEF DueOrRefusedSince
  <2>3. QED
    BY <2>1, <2>2
<1>4. QED
  BY <1>2, <1>3 DEF NoNewCandidates

LEMMA EnqueueKeepsCandidates ==
  ASSUME TypeOK, CandidatesKnown, NEW m \in Mails, enqueue_email(m)
  PROVE  CandidatesKnown'
<1>1. /\ now \in Nat /\ now' = now /\ worker' = worker /\ attempts' = attempts
      /\ next_attempt_at' = [next_attempt_at EXCEPT ![m] = now]
      /\ next_attempt_at \in [Mails -> Nat] /\ \A w \in Workers : worker[w].todo \subseteq Mails
  BY BoundsAssumption DEF TypeOK, enqueue_email
<1>2. \A w \in Workers : \A k \in worker[w].todo : DueOrRefusedSince(w, k)'
  BY <1>1 DEF CandidatesKnown, DueOrRefusedSince
<1>3. QED
  BY <1>1, <1>2 DEF CandidatesKnown

LEMMA SelectKeepsCandidates ==
  ASSUME TypeOK, CandidatesKnown, NEW w \in Workers, SelectBatch(w)
  PROVE  CandidatesKnown'
<1>1. /\ now' = now /\ attempts' = attempts /\ next_attempt_at' = next_attempt_at
      /\ \A v \in Workers \ {w} : worker'[v] = worker[v]
      /\ worker'[w].todo \subseteq Due /\ worker'[w].seen = attempts
      /\ attempts \in [Mails -> Nat]
  BY BoundsAssumption DEF SelectBatch, TypeOK, row
<1>2. \A v \in Workers \ {w} :
        /\ \A m \in Mails : worker'[v].seen[m] <= attempts'[m]
        /\ \A m \in worker'[v].todo : DueOrRefusedSince(v, m)'
  BY <1>1 DEF CandidatesKnown, DueOrRefusedSince
<1>3. \A m \in Mails : worker'[w].seen[m] <= attempts'[m]
  BY <1>1
<1>4. \A m \in worker'[w].todo : DueOrRefusedSince(w, m)'
  BY <1>1 DEF Due, DueOrRefusedSince
<1>5. QED
  BY <1>2, <1>3, <1>4 DEF CandidatesKnown

(* A failure sets the row back for everybody who had it on the list.       *)
LEMMA RefusedKeepsCandidates ==
  ASSUME OutboxInv, CandidatesKnown, NEW w \in Workers, CommitRefused(w)
  PROVE  CandidatesKnown'
<1>1. TypeOK /\ NoNewCandidates
  BY DoneAddsNone DEF CommitRefused, OutboxInv
<1>2. PICK c \in Mails : c = Current(w)
  BY AtSend DEF CommitRefused, Busy
<1>3. attempts \in [Mails -> Nat] /\ attempts' = [attempts EXCEPT ![c] = attempts[c] + 1]
  BY <1>1, <1>2, BoundsAssumption DEF CommitRefused, TypeOK
<1>4. /\ now' = now /\ next_attempt_at \in [Mails -> Nat]
      /\ \A m \in Mails \ {c} : next_attempt_at'[m] = next_attempt_at[m]
  BY <1>1, <1>2 DEF CommitRefused, TypeOK
<1>5. ASSUME NEW v \in Workers
      PROVE  /\ \A m \in Mails : worker'[v].seen[m] <= attempts'[m]
             /\ \A m \in worker'[v].todo : DueOrRefusedSince(v, m)'
  <2>1. CASE worker'[v] = Idle
    <3>1. worker'[v].todo = {} /\ \A m \in Mails : worker'[v].seen[m] = 0
      BY <2>1 DEF Idle, NoAttempts
    <3>2. \A m \in Mails : attempts'[m] \in Nat
      BY <1>3
    <3>3. QED
      BY <3>1, <3>2
  <2>2. CASE worker'[v].todo \subseteq worker[v].todo /\ worker'[v].seen = worker[v].seen
    <3>1. \A m \in Mails : /\ worker[v].seen[m] \in Nat
                           /\ worker[v].seen[m] <= attempts[m]
      BY <1>1, BoundsAssumption DEF TypeOK, CandidatesKnown
    <3>2. worker'[v].seen[c] < attempts'[c]
      BY <1>3, <2>2, <3>1
    <3>3. \A m \in Mails \ {c} : attempts'[m] = attempts[m]
      BY <1>3
    <3>4. ASSUME NEW m \in worker'[v].todo PROVE DueOrRefusedSince(v, m)'
      <4>1. m \in Mails /\ DueOrRefusedSince(v, m)
        BY <1>1, <2>2 DEF TypeOK, CandidatesKnown
      <4>2. QED
        BY <1>4, <2>2, <3>2, <3>3, <4>1 DEF DueOrRefusedSince
    <3>5. \A m \in Mails : worker'[v].seen[m] <= attempts'[m]
      <4>1. \A m \in Mails \ {c} : worker'[v].seen[m] <= attempts'[m]
        BY <2>2, <3>1, <3>3
      <4>2. worker'[v].seen[c] <= attempts'[c]
        BY <1>3, <2>2, <3>1
      <4>3. QED
        BY <4>1, <4>2
    <3>6. QED
      BY <3>4, <3>5
  <2>3. QED
    BY <1>1, <2>1, <2>2 DEF NoNewCandidates
<1>6. QED
  BY <1>5 DEF CandidatesKnown

LEMMA StepCandidates == OutboxInv /\ CandidatesKnown /\ [Next]_vars => CandidatesKnown'
<1> SUFFICES ASSUME OutboxInv, CandidatesKnown, [Next]_vars PROVE CandidatesKnown'
  OBVIOUS
<1>0. TypeOK /\ now \in Nat
  BY DEF OutboxInv, TypeOK
<1>1. CASE UNCHANGED vars \/ Tick
  <2>1. worker' = worker /\ attempts' = attempts /\ next_attempt_at' = next_attempt_at
    BY <1>1 DEF vars, row, Tick
  <2>2. now' \in Nat /\ now <= now'
    BY <1>0, <1>1 DEF vars, Tick, TypeOK
  <2>3. QED
    BY <1>0, <2>1, <2>2, CandidatesStayKnown DEF NoNewCandidates
<1>2. ASSUME NEW w \in Workers,
             \/ EndTick(w) \/ Claim(w) \/ SendSucceeds(w) \/ SendFails(w) \/ CommitSent(w)
             \/ SendMisreported(w) \/ Lose(w)
      PROVE  CandidatesKnown'
  <2>1. now' = now /\ attempts' = attempts /\ next_attempt_at' = next_attempt_at
    BY <1>2 DEF EndTick, Claim, SendSucceeds, SendFails, CommitSent, SendMisreported, Lose, row
  <2>2. \/ Done(w) \/ worker' = [worker EXCEPT ![w] = Idle]
        \/ \E s \in Steps : Become(w, s)
    BY <1>2 DEF EndTick, Claim, SendSucceeds, SendFails, CommitSent, SendMisreported, Lose, Steps
  <2>3. QED
    BY <1>0, <2>1, <2>2, DoneAddsNone, CandidatesStayKnown
<1>3. QED
  BY <1>0, <1>1, <1>2, EnqueueKeepsCandidates, SelectKeepsCandidates, RefusedKeepsCandidates
     DEF Next, Run

-----------------------------------------------------------------------------
(* Theorems.                                                               *)

LEMMA OutboxInvariant == Spec => []OutboxInv
BY InitOutboxInv, StepOutboxInv, PTL DEF Spec

(* Every variable keeps its type: no counter passes its limit.             *)
THEOREM OutboxTypeCorrect == Spec => []TypeOK
<1>1. OutboxInv => TypeOK
  BY DEF OutboxInv
<1>2. QED
  BY <1>1, OutboxInvariant, PTL

(* For every number of workers: a letter goes out again only after an      *)
(* outcome was lost, and one marked sent went out.                         *)
THEOREM OutboxSendsOnce == Spec => []NoNeedlessDuplicates
<1>1. OutboxInv => NoNeedlessDuplicates
  <2> SUFFICES ASSUME OutboxInv, NEW m \in Mails
               PROVE  /\ delivered[m] <= 1 + losses[m]
                      /\ status[m] = "sent" => delivered[m] > 0
    BY DEF NoNeedlessDuplicates
  <2>1. delivered[m] \in Nat /\ losses[m] \in Nat
    BY BoundsAssumption DEF OutboxInv, TypeOK
  <2>2. delivered[m] <= losses[m] + 1 /\ (status[m] = "sent" => delivered[m] > 0)
    BY DEF OutboxInv, SendsAccounted
  <2>3. QED
    BY <2>1, <2>2
<1>2. QED
  BY <1>1, OutboxInvariant, PTL

(* For every number of workers: a row is given up exactly at its limit.    *)
THEOREM OutboxDeadLetters == Spec => []DeadLetterAtLimit
<1>1. OutboxInv => DeadLetterAtLimit
  BY DEF OutboxInv
<1>2. QED
  BY <1>1, OutboxInvariant, PTL

(* For every number of workers: the wait before the next attempt is cut    *)
(* short only by a worker that read its candidates before the failure.     *)
THEOREM OutboxWaits == Spec => BackoffUnlessRaced
<1> DEFINE waits == \A w \in Workers : worker[w].step = "claim" /\ worker'[w].step = "send"
        => LET m == Current(w)
           IN  next_attempt_at[m] <= now \/ worker[w].seen[m] < attempts[m]
<1>1. Init => CandidatesKnown
  BY BoundsAssumption DEF Init, CandidatesKnown, Idle, NoAttempts
<1>2. OutboxInv /\ CandidatesKnown /\ [Next]_vars => [waits]_vars
  <2> SUFFICES ASSUME OutboxInv, CandidatesKnown, Next, NEW w \in Workers,
                      worker[w].step = "claim", worker'[w].step = "send"
               PROVE  DueOrRefusedSince(w, Current(w))
    BY DEF DueOrRefusedSince
  <2>1. worker \in [Workers -> WorkerStates]
    BY DEF OutboxInv, TypeOK, WorkerStates, Steps
  <2>2. \A v \in Workers : Run(v) \/ SendMisreported(v) \/ Lose(v)
          => \A u \in Workers \ {v} : worker'[u] = worker[u]
    BY <2>1 DEF Run, SelectBatch, EndTick, Claim, SendSucceeds, SendFails, CommitSent,
                CommitRefused, SendMisreported, Lose, Become, Done
  <2>3. Run(w) \/ SendMisreported(w) \/ Lose(w)
    BY <2>2 DEF Next, Tick, enqueue_email
  <2>4. worker[w].todo # {}
    BY <2>1, <2>3 DEF Run, SelectBatch, EndTick, Claim, SendSucceeds, SendFails, CommitSent,
                      CommitRefused, SendMisreported, Lose, WorkerStates, Idle
  <2>5. QED
    BY <2>4, CurrentInTodo DEF CandidatesKnown, OutboxInv
<1>3. QED
  BY <1>1, <1>2, OutboxInvariant, StepCandidates, PTL DEF Spec, BackoffUnlessRaced

(* One step of the workers is one step of Letters, or none.                *)
LEMMA StepPromise == OutboxInv /\ [Next]_vars => [Promise!LettersNext]_(Promise!letters)
<1> SUFFICES ASSUME OutboxInv, Next
             PROVE  Promise!LettersNext \/ UNCHANGED Promise!letters
  BY DEF vars, row, Promise!letters
<1> USE DEF Promise!letters
<1>1. ASSUME NEW m \in Mails, enqueue_email(m)
      PROVE  Promise!LettersNext
  BY <1>1 DEF enqueue_email, Promise!LettersNext, Promise!Write
<1>2. ASSUME NEW w \in Workers, Run(w) \/ SendMisreported(w) \/ Lose(w)
      PROVE  Promise!LettersNext \/ UNCHANGED Promise!letters
  <2>1. CASE SendSucceeds(w) \/ SendMisreported(w)
    <3>1. Busy(w)
      BY <2>1 DEF SendSucceeds, SendMisreported, Busy
    <3>2. PICK c \in Mails : c = Current(w) /\ status[c] = "pending"
      BY <3>1, AtSend
    <3>3. Promise!GoesOut(c)
      BY <2>1, <3>2 DEF SendSucceeds, SendMisreported, row, Promise!GoesOut, Promise!Owed
    <3>4. QED
      BY <3>3 DEF Promise!LettersNext
  <2>2. CASE CommitSent(w)
    <3>1. Busy(w) /\ AboutToRecord(Current(w))
      BY <2>2 DEF CommitSent, Busy, AboutToRecord
    <3>2. PICK c \in Mails : c = Current(w) /\ status[c] = "pending" /\ AboutToRecord(c)
      BY <3>1, AtSend
    <3>3. delivered[c] > 0
      BY <3>2 DEF OutboxInv, SendsAccounted
    <3>4. Promise!MarkSent(c)
      BY <2>2, <3>2, <3>3 DEF CommitSent, Promise!MarkSent, Promise!Owed
    <3>5. QED
      BY <3>4 DEF Promise!LettersNext
  <2>3. CASE CommitRefused(w)
    <3>1. Busy(w)
      BY <2>3 DEF CommitRefused, Busy
    <3>2. PICK c \in Mails : c = Current(w) /\ status[c] = "pending"
      BY <3>1, AtSend
    <3>3. attempts[c] \in Nat /\ status \in [Mails -> {"none", "pending", "sent", "failed"}]
      BY <3>2, BoundsAssumption DEF OutboxInv, TypeOK
    <3>4. attempts' = [attempts EXCEPT ![c] = @ + 1] /\ delivered' = delivered
      BY <2>3, <3>2 DEF CommitRefused
    <3>5. status' = [status EXCEPT ![c] = IF attempts[c] + 1 < MaxAttempts THEN @ ELSE "failed"]
      BY <2>3, <3>2, <3>3, BoundsAssumption DEF CommitRefused, Exhausted
    <3>6. Promise!Refuse(c)
      BY <3>2, <3>4, <3>5 DEF Promise!Refuse, Promise!Owed
    <3>7. QED
      BY <3>6 DEF Promise!LettersNext
  <2>4. CASE SelectBatch(w) \/ EndTick(w) \/ Claim(w) \/ SendFails(w) \/ Lose(w)
    BY <2>4 DEF SelectBatch, EndTick, Claim, SendFails, Lose, row
  <2>5. QED
    BY <1>2, <2>1, <2>2, <2>3, <2>4 DEF Run
<1>3. QED
  BY <1>1, <1>2 DEF Next, Tick, row

(* For every instance, the workers implement the safety part of Letters:   *)
(* whatever races, crashes or is lost, a letter goes out only while owed.  *)
THEOREM OutboxImplementsLetters == Spec => Promise!LettersSafety
<1>1. Init => Promise!LettersInit
  BY DEF Init, NoAttempts, Promise!LettersInit
<1>2. QED
  BY <1>1, StepPromise, OutboxInvariant, PTL DEF Spec, Promise!LettersSafety

=============================================================================
