------------------------------- MODULE Letters -------------------------------
(***************************************************************************)
(* What the outbox promises whoever enqueues a letter, with no workers, no *)
(* locks, no clock and no faults: an owed letter goes out while it is owed *)
(* and never after, is called sent only once it went out, and is given up  *)
(* only after MaxAttempts refusals.                                        *)
(***************************************************************************)
EXTENDS Naturals

CONSTANTS
  Mails,
  MaxAttempts        \* max_attempts

VARIABLES
  letter,            \* "none" | "pending" | "sent" | "failed"
  refusals,          \* failed attempts recorded
  reached            \* how often it went out

letters == <<letter, refusals, reached>>

LettersInit ==
  /\ letter = [m \in Mails |-> "none"]
  /\ refusals = [m \in Mails |-> 0]
  /\ reached = [m \in Mails |-> 0]

Owed(m) == letter[m] = "pending"

Write(m) ==
  /\ letter[m] = "none"
  /\ letter' = [letter EXCEPT ![m] = "pending"]
  /\ UNCHANGED <<refusals, reached>>

GoesOut(m) ==
  /\ Owed(m)
  /\ reached' = [reached EXCEPT ![m] = @ + 1]
  /\ UNCHANGED <<letter, refusals>>

MarkSent(m) ==
  /\ Owed(m) /\ reached[m] > 0
  /\ letter' = [letter EXCEPT ![m] = "sent"]
  /\ UNCHANGED <<refusals, reached>>

Refuse(m) ==
  /\ Owed(m)
  /\ refusals' = [refusals EXCEPT ![m] = @ + 1]
  /\ letter' = [letter EXCEPT ![m] = IF refusals[m] + 1 < MaxAttempts THEN @ ELSE "failed"]
  /\ UNCHANGED reached

LettersNext == \E m \in Mails : Write(m) \/ GoesOut(m) \/ MarkSent(m) \/ Refuse(m)

LettersSafety == LettersInit /\ [][LettersNext]_letters

(* An owed letter is tried again and again: it does not stay owed.         *)
LettersSpec ==
  LettersSafety /\ \A m \in Mails : WF_letters(MarkSent(m) \/ Refuse(m))
==============================================================================
