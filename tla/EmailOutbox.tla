----------------------------- MODULE EmailOutbox -----------------------------
(***************************************************************************)
(* The email outbox: rows committed with the mutation they tell about, and *)
(* a worker in every process that claims due rows one by one with FOR      *)
(* UPDATE SKIP LOCKED, hands each to SMTP under that lock, and commits     *)
(* what came of it.  A crash or a failed commit forgets the outcome, so a  *)
(* letter may go out more than once.                                       *)
(*                                                                         *)
(* Times are in minutes; the clock jumps to the next moment a row is due.  *)
(***************************************************************************)
EXTENDS Integers, FiniteSets

CONSTANTS
  Workers,       \* processes, one outbox worker each
  NumMails,      \* rows, in the order of their created_at
  MaxAttempts,   \* max_attempts
  BatchSize,     \* WORKER_BATCH_SIZE
  Horizon,       \* bound: the clock stops here
  MaxFaults      \* bound: crashes, failed commits and misreported sends

Mails == 1 .. NumMails

ASSUME BoundsAssumption ==
  /\ NumMails \in Nat /\ Horizon \in Nat /\ MaxFaults \in Nat
  /\ MaxAttempts \in Nat \ {0} /\ BatchSize \in Nat \ {0}

VARIABLES
  now,
  status,            \* "none" | "pending" | "sent" | "failed"
  attempts,
  next_attempt_at,
  worker,            \* what each worker is doing
  delivered,         \* history: how often the letter reached the recipient
  losses,            \* history: ... and nobody recorded it
  faults             \* history: crashes, failed commits, misreported sends

row == <<status, attempts, next_attempt_at>>
vars == <<now, row, worker, delivered, losses, faults>>

(* todo: candidate ids still to try.  step: "idle" between ticks, "claim"  *)
(* the next one, "send" with its row locked, then "sent" or "refused" with *)
(* the commit outstanding.  seen: history, the attempts when todo was read.*)
NoAttempts == [m \in Mails |-> 0]

Idle == [step |-> "idle", todo |-> {}, seen |-> NoAttempts]

Current(w) == CHOOSE m \in worker[w].todo : \A k \in worker[w].todo : m <= k

Become(w, step) == worker' = [worker EXCEPT ![w].step = step]
Done(w) ==
  worker' = [worker EXCEPT ![w].step = "claim", ![w].todo = @ \ {Current(w)}]

-----------------------------------------------------------------------------
BackoffByAttempt == [a \in 1 .. 5 |-> CASE a = 1 -> 1 [] a = 2 -> 5 [] a = 3 -> 15
                                        [] a = 4 -> 60 [] a = 5 -> 360]

backoff_for_attempt(a) == IF a \in DOMAIN BackoffByAttempt THEN BackoffByAttempt[a] ELSE 360

Init ==
  /\ now = 0
  /\ status = [m \in Mails |-> "none"]
  /\ attempts = NoAttempts
  /\ next_attempt_at = [m \in Mails |-> 0]
  /\ worker = [w \in Workers |-> Idle]
  /\ delivered = [m \in Mails |-> 0]
  /\ losses = [m \in Mails |-> 0]
  /\ faults = 0

(* The clock jumps to the next due time.                                   *)
Tick ==
  /\ \E m \in Mails :
       /\ status[m] = "pending"
       /\ now < next_attempt_at[m] /\ next_attempt_at[m] <= Horizon
       /\ \A k \in Mails : status[k] = "pending" /\ now < next_attempt_at[k]
            => next_attempt_at[m] <= next_attempt_at[k]
       /\ now' = next_attempt_at[m]
  /\ UNCHANGED <<row, worker, delivered, losses, faults>>

enqueue_email(m) ==
  /\ status[m] = "none"
  /\ status' = [status EXCEPT ![m] = "pending"]
  /\ next_attempt_at' = [next_attempt_at EXCEPT ![m] = now]
  /\ UNCHANGED <<now, attempts, worker, delivered, losses, faults>>

-----------------------------------------------------------------------------
(* One tick of a worker.                                                   *)

DueAnyTime == {m \in Mails : status[m] = "pending"}             \* mutant
Due == {m \in Mails : status[m] = "pending" /\ next_attempt_at[m] <= now}

(* The candidates are read without a lock, oldest first.                   *)
SelectBatch(w) ==
  /\ worker[w].step = "idle"
  /\ Due # {}
  /\ worker' = [worker EXCEPT ![w] =
       [step |-> "claim",
        todo |-> {m \in Due : Cardinality({k \in Due : k < m}) < BatchSize},
        seen |-> attempts]]
  /\ UNCHANGED <<now, row, delivered, losses, faults>>

EndTick(w) ==
  /\ worker[w].step = "claim" /\ worker[w].todo = {}
  /\ worker' = [worker EXCEPT ![w] = Idle]
  /\ UNCHANGED <<now, row, delivered, losses, faults>>

Locked(m) ==
  \E w \in Workers : worker[w].step \in {"send", "sent", "refused"} /\ Current(w) = m

(* The claim checks the status again, not next_attempt_at.                 *)
ClaimableLocked(m) == status[m] = "pending"                      \* mutant
ClaimableSettled(m) == ~ Locked(m)                               \* mutant
Claimable(m) == status[m] = "pending" /\ ~ Locked(m)

Claim(w) ==
  /\ worker[w].step = "claim" /\ worker[w].todo # {}
  /\ IF Claimable(Current(w)) THEN Become(w, "send") ELSE Done(w)
  /\ UNCHANGED <<now, row, delivered, losses, faults>>

SendSucceeds(w) ==
  /\ worker[w].step = "send"
  /\ delivered' = [delivered EXCEPT ![Current(w)] = @ + 1]
  /\ Become(w, "sent")
  /\ UNCHANGED <<now, row, losses, faults>>

SendFails(w) ==
  /\ worker[w].step = "send"
  /\ Become(w, "refused")
  /\ UNCHANGED <<now, row, delivered, losses, faults>>

CommitSent(w) ==
  /\ worker[w].step = "sent"
  /\ status' = [status EXCEPT ![Current(w)] = "sent"]
  /\ Done(w)
  /\ UNCHANGED <<now, attempts, next_attempt_at, delivered, losses, faults>>

(* A failure is counted; the last one dead-letters the row.                *)
ExhaustedTooLate(a) == a > MaxAttempts                           \* mutant
Exhausted(a) == a >= MaxAttempts

CommitRefused(w) ==
  LET m == Current(w)
      a == attempts[m] + 1
  IN  /\ worker[w].step = "refused"
      /\ attempts' = [attempts EXCEPT ![m] = a]
      /\ IF Exhausted(a)
         THEN status' = [status EXCEPT ![m] = "failed"] /\ UNCHANGED next_attempt_at
         ELSE /\ next_attempt_at' = [next_attempt_at EXCEPT ![m] = now + backoff_for_attempt(a)]
              /\ UNCHANGED status
      /\ Done(w)
      /\ UNCHANGED <<now, delivered, losses, faults>>

-----------------------------------------------------------------------------
(* What a worker never learns.                                             *)

Fault == faults < MaxFaults /\ faults' = faults + 1

(* The server took the letter, the client saw an error.                    *)
SendMisreported(w) ==
  /\ worker[w].step = "send"
  /\ Fault
  /\ delivered' = [delivered EXCEPT ![Current(w)] = @ + 1]
  /\ losses' = [losses EXCEPT ![Current(w)] = @ + 1]
  /\ Become(w, "refused")
  /\ UNCHANGED <<now, row>>

(* The commit fails and rolls back, or the process dies with its tick.     *)
Lose(w) ==
  /\ worker[w].step \in {"send", "sent", "refused"}
  /\ Fault
  /\ losses' = [losses EXCEPT ![Current(w)] = @ + (IF worker[w].step = "sent" THEN 1 ELSE 0)]
  /\ Done(w) \/ worker' = [worker EXCEPT ![w] = Idle]
  /\ UNCHANGED <<now, row, delivered>>

-----------------------------------------------------------------------------
Run(w) ==
  \/ SelectBatch(w) \/ EndTick(w) \/ Claim(w)
  \/ SendSucceeds(w) \/ SendFails(w)
  \/ CommitSent(w) \/ CommitRefused(w)

Next ==
  \/ Tick
  \/ \E m \in Mails : enqueue_email(m)
  \/ \E w \in Workers : Run(w) \/ SendMisreported(w) \/ Lose(w)

(* Worker loops survive their errors, and SMTP answers or times out.       *)
Spec == Init /\ [][Next]_vars /\ WF_vars(Tick) /\ \A w \in Workers : WF_vars(Run(w))

-----------------------------------------------------------------------------
(* Properties.                                                             *)

TypeOK ==
  /\ now \in 0 .. Horizon
  /\ status \in [Mails -> {"none", "pending", "sent", "failed"}]
  /\ attempts \in [Mails -> 0 .. MaxAttempts]
  /\ next_attempt_at \in [Mails -> Nat]
  /\ worker \in [Workers -> [step : {"idle", "claim", "send", "sent", "refused"},
                             todo : SUBSET Mails,
                             seen : [Mails -> 0 .. MaxAttempts]]]
  /\ delivered \in [Mails -> Nat]
  /\ losses \in [Mails -> 0 .. MaxFaults]
  /\ faults \in 0 .. MaxFaults

(* At least once, and not more than that needs: a letter goes out again    *)
(* only when an outcome was lost, however many workers race for its row,   *)
(* and a row marked sent did go out.                                       *)
NoNeedlessDuplicates ==
  \A m \in Mails :
    /\ delivered[m] <= 1 + losses[m]
    /\ status[m] = "sent" => delivered[m] > 0

(* The wait of backoff_for_attempt is cut short only by a worker that read *)
(* its candidates before the failure it should wait out: the claim checks  *)
(* the status again but not next_attempt_at.  So a failure costs at most   *)
(* one early try per other worker.                                         *)
BackoffUnlessRaced ==
  [][\A w \in Workers : worker[w].step = "claim" /\ worker'[w].step = "send"
        => LET m == Current(w)
           IN  next_attempt_at[m] <= now \/ worker[w].seen[m] < attempts[m]]_vars

(* The workers keep the promise of Letters: every letter enqueued is sent  *)
(* or dead-lettered in the end, and goes out only while it is owed,        *)
(* however many workers race, crash or lose the outcome of a send.         *)
Promise == INSTANCE Letters WITH letter <- status, refusals <- attempts, reached <- delivered

KeepsPromise == Promise!LettersSpec
=============================================================================
