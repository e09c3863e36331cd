------------------------------- MODULE Accounts -------------------------------
(***************************************************************************)
(* One account: registration, login with its lockout, and the two ways to  *)
(* rotate the password, as requests that interleave at their awaits.       *)
(*                                                                         *)
(* login, change_password and password_reset_confirm work under the lock   *)
(* of the users row; register, password_reset_request, verify_email and    *)
(* the handshake of a notification socket read it without.  A rotation     *)
(* bumps token_version, which ends every token and link that carries the   *)
(* old one, and closes the account's sockets that are registered in its    *)
(* own process.                                                            *)
(***************************************************************************)
EXTENDS Integers, FiniteSets

CONSTANTS
  Passwords,
  NoPassword,
  Requests,       \* requests under way at once
  NoRequest,
  Procs,          \* worker processes
  NoProc,
  Tiers,          \* _LOGIN_LOCKOUT_TIERS: <<failures, minutes>>
  Throttle,       \* PASSWORD_RESET_THROTTLE_SECONDS
  LinkTTL,        \* PASSWORD_RESET_TOKEN_TTL_HOURS
  Workloads,      \* the kinds of request that run together in an instance
  Horizon,        \* bound: the clock stops here
  MaxVersion,     \* bound: rotations
  MaxFailures,    \* bound: failed logins in a row
  MaxLetters,     \* bound: letters of each kind
  MaxSockets      \* bound: sockets open at once

Never == -1       \* NULL in a column that holds a time
NoFile == 0       \* NULL in avatar_url; files are numbered

(* More failures lock no shorter.                                          *)
ASSUME TiersAssumption ==
  /\ Tiers \subseteq (Nat \ {0}) \X (Nat \ {0})
  /\ \A s, t \in Tiers : s[1] <= t[1] => s[2] <= t[2]
ASSUME BoundsAssumption == MaxVersion \in Nat /\ MaxFailures \in Nat
ASSUME TimesAssumption == Throttle \in Nat \ {0} /\ LinkTTL \in Nat \ {0} /\ Horizon \in Nat
ASSUME NamesAssumption ==
  NoPassword \notin Passwords /\ NoRequest \notin Requests /\ NoProc \notin Procs

VARIABLES
  kinds,          \* the workload of this behaviour
  now,
  user,           \* the users row
  lock,           \* the request that holds its row lock
  request,        \* what each request is doing
  tokens,         \* the token_version of every access token issued
  links,          \* reset links mailed: token_version and expiry
  sockets,        \* open notification sockets, alike ones as one: process,
                  \* whether user_connections still has it, and history: see
                  \* Late; outlived a rotation committed in their process
  letters,        \* letters enqueued, by kind
  past            \* history, see Past

vars == <<kinds, now, user, lock, request, tokens, links, sockets, letters, past>>

(* signups, resends: rows inserted and letters sent again.  chosen: the    *)
(* password set last; rotations, resets: how often it was, and how often   *)
(* by a link.  streak: wrong passwords since the last right one,           *)
(* failed_at: the last of them.  mailed_at: the last reset letter,         *)
(* overlapped: two of them were under way at once.                         *)
NoPast == [signups |-> 0, resends |-> 0, chosen |-> NoPassword, rotations |-> 0,
           resets |-> 0, streak |-> 0, failed_at |-> Never, mailed_at |-> Never,
           overlapped |-> FALSE]

NoAccount == [exists |-> FALSE, password |-> NoPassword, modern |-> TRUE,
              token_version |-> 0, email_verified |-> FALSE,
              failed_login_count |-> 0, locked_until |-> Never,
              password_reset_sent_at |-> Never,
              upload_window_start |-> Never, upload_bytes_window |-> 0,
              avatar_url |-> NoFile]

(* proc: the process that serves it.  given, new: the passwords in the     *)
(* body.  claim: the version in the token or link.  at: the utcnow() it    *)
(* read.  row: its copy of the users row.                                  *)
Idle == [op |-> "idle", step |-> "idle", proc |-> NoProc, given |-> NoPassword,
         new |-> NoPassword, claim |-> 0, at |-> 0, row |-> NoAccount]

Ops == {"idle", "register", "login", "change", "forgot", "reset", "connect", "resend",
        "image", "avatar", "remove"}
Steps == {"idle", "waits", "locked", "closed", "writes", "refresh", "accepts",
          "removes", "stores", "saves"}

Become(r, step) == request' = [request EXCEPT ![r].step = step]
Finish(r) == request' = [request EXCEPT ![r] = Idle]

(* An account as it is before the first request: none, or one from before  *)
(* the migrations, with its SHA-256 hash and its email taken as verified.  *)
Grandfathered(p) ==
  [NoAccount EXCEPT !.exists = TRUE, !.password = p, !.modern = FALSE, !.email_verified = TRUE]

Init ==
  /\ kinds \in Workloads
  /\ now = 0
  /\ \/ user = NoAccount /\ past = NoPast
     \/ \E p \in Passwords : user = Grandfathered(p) /\ past = [NoPast EXCEPT !.chosen = p]
  /\ lock = NoRequest
  /\ request = [r \in Requests |-> Idle]
  /\ tokens = IF user.exists THEN {0} ELSE {}        \* an open session
  /\ links = {} /\ sockets = {}
  /\ letters = [verify |-> 0, reset |-> 0, changed |-> 0]

Tick ==
  /\ now < Horizon
  /\ now' = now + 1
  /\ UNCHANGED <<kinds, user, lock, request, tokens, links, sockets, letters, past>>

-----------------------------------------------------------------------------
(* Reading and locking the row.                                            *)

(* The row a request has read before it comes to its lock or its write;    *)
(* NoAccount where it has read none or makes no use of it.                 *)
ReadFirst(op) ==
  IF op \in {"change", "forgot", "image", "avatar", "remove"} THEN user ELSE NoAccount

Begin(r, op, step, proc, given, new, claim) ==
  /\ op \in kinds
  /\ request[r] = Idle
  /\ request' = [request EXCEPT ![r] =
       [op |-> op, step |-> step, proc |-> proc, given |-> given, new |-> new,
        claim |-> claim, at |-> IF op = "forgot" THEN now ELSE 0, row |-> ReadFirst(op)]]
  /\ UNCHANGED <<kinds, now, user, lock, tokens, links, sockets, letters, past>>

(* A write waits for the row lock, like a locking read.                    *)
Free == lock = NoRequest

(* SELECT ... FOR UPDATE: the row as it is once the lock is had, which     *)
(* takes populate_existing where the session has read it before.  login    *)
(* reads the clock after it.                                               *)
LockedCopyStale(r) ==                                            \* mutant
  IF request[r].op \in {"login", "reset"} THEN user ELSE request[r].row
LockedCopy(r) == user
GrantedAlways == TRUE                                            \* mutant
Granted == Free

Lock(r) ==
  /\ request[r].step = "waits"
  /\ Granted
  /\ lock' = r
  /\ request' = [request EXCEPT ![r].step = "locked", ![r].row = LockedCopy(r),
                               ![r].at = IF request[r].op = "login" THEN now ELSE @]
  /\ UNCHANGED <<kinds, now, user, tokens, links, sockets, letters, past>>

ReleaseAny(r) == lock' = NoRequest                               \* mutant
Release(r) == lock' = IF lock = r THEN NoRequest ELSE lock

(* get_current_user: the version in the token is the account's.            *)
Authentic(claim) == user.exists /\ claim \in tokens /\ claim = user.token_version

-----------------------------------------------------------------------------
(* Registration and the confirmation of the email address.                 *)

register(r) ==
  \E p \in Passwords : ~ user.exists /\ Begin(r, "register", "writes", NoProc, p, NoPassword, 0)

(* The letter and the row commit together: the loser of a race on the      *)
(* unique username or email has neither.  The token waits for a refresh.   *)
VerificationLetter(inserted) == IF inserted THEN 1 ELSE 0

RegisterCommits(r) ==
  LET inserted == ~ user.exists
  IN  /\ request[r].op = "register" /\ request[r].step = "writes"
      /\ Free
      /\ letters' = [letters EXCEPT !.verify = @ + VerificationLetter(inserted)]
      /\ IF inserted
         THEN /\ user' = [NoAccount EXCEPT !.exists = TRUE, !.password = request[r].given]
              /\ past' = [past EXCEPT !.chosen = request[r].given, !.signups = @ + 1]
              /\ Become(r, "refresh")
         ELSE /\ UNCHANGED <<user, past>>
              /\ Finish(r)
      /\ UNCHANGED <<kinds, now, lock, tokens, links, sockets>>

verify_email ==
  /\ letters.verify > 0
  /\ user.exists /\ ~ user.email_verified
  /\ Free
  /\ user' = [user EXCEPT !.email_verified = TRUE]
  /\ UNCHANGED <<kinds, now, lock, request, tokens, links, sockets, letters, past>>

resend_verification_email(r) ==
  \E v \in tokens :
    /\ Authentic(v) /\ ~ user.email_verified
    /\ letters.verify < MaxLetters
    /\ Begin(r, "resend", "writes", NoProc, NoPassword, NoPassword, v)

ResendCommits(r) ==
  /\ request[r].op = "resend"
  /\ letters' = [letters EXCEPT !.verify = @ + 1]
  /\ past' = [past EXCEPT !.resends = @ + 1]
  /\ Finish(r)
  /\ UNCHANGED <<kinds, now, user, lock, tokens, links, sockets>>

-----------------------------------------------------------------------------
(* Logging in.                                                             *)

(* How long count failures lock the account: the highest tier reached.     *)
TiersReachedLate(count) == {t \in Tiers : count > t[1]}          \* mutant
TiersReached(count) == {t \in Tiers : count >= t[1]}

lockout_for_failures(count) ==
  LET top == {t \in TiersReached(count) : \A s \in TiersReached(count) : s[1] <= t[1]}
  IN  IF top = {} THEN 0 ELSE (CHOOSE t \in top : TRUE)[2]

login(r) ==
  \E p \in Passwords : user.exists /\ Begin(r, "login", "waits", NoProc, p, NoPassword, 0)

LockedOut(r) == request[r].row.locked_until > request[r].at
Wrong(r) == request[r].given # request[r].row.password

LoginRefused(r) ==
  /\ request[r].op = "login" /\ request[r].step = "locked"
  /\ LockedOut(r)
  /\ Release(r) /\ Finish(r)
  /\ UNCHANGED <<kinds, now, user, tokens, links, sockets, letters, past>>

LoginFails(r) ==
  LET q == request[r]
      count == q.row.failed_login_count + 1
      wait == lockout_for_failures(count)
  IN  /\ q.op = "login" /\ q.step = "locked"
      /\ ~ LockedOut(r) /\ Wrong(r)
      /\ count <= MaxFailures
      /\ user' = [user EXCEPT !.failed_login_count = count,
                              !.locked_until = IF wait > 0 THEN q.at + wait ELSE @]
      /\ past' = [past EXCEPT !.streak = @ + 1, !.failed_at = q.at]
      /\ Release(r) /\ Finish(r)
      /\ UNCHANGED <<kinds, now, tokens, links, sockets, letters>>

(* The streak ends, and an old hash is replaced by one of the password     *)
(* just given.                                                             *)
LoginSucceeds(r) ==
  LET q == request[r]
  IN  /\ q.op = "login" /\ q.step = "locked"
      /\ ~ LockedOut(r) /\ ~ Wrong(r)
      /\ user' = [user EXCEPT !.failed_login_count = 0, !.locked_until = Never,
                              !.password = IF q.row.modern THEN @ ELSE q.given,
                              !.modern = TRUE]
      /\ past' = [past EXCEPT !.streak = 0]
      /\ Release(r)
      /\ Become(r, "refresh")
      /\ UNCHANGED <<kinds, now, tokens, links, sockets, letters>>

(* login and register read the row again for the token, after their commit *)
(* has let go of it.                                                       *)
FreshToken(r) ==
  /\ request[r].step = "refresh"
  /\ tokens' = tokens \cup {user.token_version}
  /\ Finish(r)
  /\ UNCHANGED <<kinds, now, user, lock, links, sockets, letters, past>>

-----------------------------------------------------------------------------
(* Rotating the password.                                                  *)

change_password(r) ==
  \E v \in tokens, given, new \in Passwords, p \in Procs :
    Authentic(v) /\ Begin(r, "change", "waits", p, given, new, v)

(* A reset letter is throttled on the copy the request has read.           *)
ThrottledNever(row) == FALSE                                     \* mutant
Throttled(row) ==
  row.password_reset_sent_at # Never /\ now - row.password_reset_sent_at < Throttle

password_reset_request(r) ==
  /\ user.exists
  /\ ~ Throttled(user)
  /\ letters.reset < MaxLetters
  /\ Begin(r, "forgot", "writes", NoProc, NoPassword, NoPassword, 0)

(* The link carries the version of that copy.                              *)
ResetRequestCommits(r) ==
  LET q == request[r]
  IN  /\ q.op = "forgot"
      /\ Free
      /\ user' = [user EXCEPT !.password_reset_sent_at = q.at]
      /\ links' = links \cup {[version |-> q.row.token_version, expires |-> q.at + LinkTTL]}
      /\ letters' = [letters EXCEPT !.reset = @ + 1]
      /\ past' = [past EXCEPT !.mailed_at = q.at,
           !.overlapped = @ \/ q.row.password_reset_sent_at # user.password_reset_sent_at]
      /\ Finish(r)
      /\ UNCHANGED <<kinds, now, lock, tokens, sockets>>

password_reset_confirm(r) ==
  \E l \in links, new \in Passwords, p \in Procs :
    now <= l.expires /\ Begin(r, "reset", "waits", p, NoPassword, new, l.version)

(* Checked on the locked row: the current password, or the link's version. *)
Proves(r) ==
  LET q == request[r]
  IN  IF q.op = "change" THEN q.given = q.row.password
      ELSE q.claim = q.row.token_version

RotationRefused(r) ==
  /\ request[r].op \in {"change", "reset"} /\ request[r].step = "locked"
  /\ ~ Proves(r)
  /\ Release(r) /\ Finish(r)
  /\ UNCHANGED <<kinds, now, user, tokens, links, sockets, letters, past>>

(* _invalidate_user_sessions closes the sockets registered in this         *)
(* process, and only then the row is committed.                            *)
SocketsLeftAll(p) == sockets                                     \* mutant
SocketsLeft(p) == {s \in sockets : s.proc # p \/ ~ s.registered}

CloseSockets(r) ==
  /\ request[r].op \in {"change", "reset"} /\ request[r].step = "locked"
  /\ Proves(r)
  /\ request[r].row.token_version < MaxVersion
  /\ sockets' = SocketsLeft(request[r].proc)
  /\ Become(r, "closed")
  /\ UNCHANGED <<kinds, now, user, lock, tokens, links, letters, past>>

NextVersion(version) == version + 1

(* The password, the version and the letter about a reset commit together. *)
(* change_password answers with a token of the new version.                *)
RotationCommits(r) ==
  LET q == request[r]
      next == NextVersion(q.row.token_version)
  IN  /\ q.step = "closed"
      /\ user' = [user EXCEPT !.password = q.new, !.modern = TRUE, !.token_version = next]
      /\ tokens' = IF q.op = "change" THEN tokens \cup {next} ELSE tokens
      /\ letters' = IF q.op = "reset" THEN [letters EXCEPT !.changed = @ + 1] ELSE letters
      /\ past' = [past EXCEPT !.chosen = q.new, !.rotations = @ + 1,
                              !.resets = IF q.op = "reset" THEN @ + 1 ELSE @]
      /\ sockets' = {[s EXCEPT !.outlived = @ \/ s.proc = q.proc] : s \in sockets}
      /\ Release(r) /\ Finish(r)
      /\ UNCHANGED <<kinds, now, links>>

-----------------------------------------------------------------------------
(* Notification sockets and failures.                                      *)

(* The handshake checks the version and then awaits accept().              *)
websocket_notifications(r) ==
  \E v \in tokens, p \in Procs :
    Authentic(v) /\ Begin(r, "connect", "accepts", p, NoPassword, NoPassword, v)

(* A rotation has closed this process's sockets and is about to commit.    *)
Late(q) == \E r \in Requests : request[r].step = "closed" /\ request[r].proc = q.proc

(* Nothing looks again at the version of the token, which may be an old    *)
(* one by now.                                                             *)
connect_user(r) ==
  LET q == request[r]
  IN  /\ q.step = "accepts"
      /\ Cardinality(sockets) < MaxSockets
      /\ sockets' = sockets \cup
           {[proc |-> q.proc, registered |-> TRUE, late |-> Late(q), outlived |-> FALSE]}
      /\ Finish(r)
      /\ UNCHANGED <<kinds, now, user, lock, tokens, links, letters, past>>

(* A fan-out takes a socket off user_connections while its handler is in   *)
(* the loop: a send that timed out, or a later list popped with the key.   *)
FanOutUnregisters ==
  /\ \E s \in sockets : sockets' = (sockets \ {s}) \cup {[s EXCEPT !.registered = FALSE]}
  /\ UNCHANGED <<kinds, now, user, lock, request, tokens, links, letters, past>>

Disconnect ==
  /\ \E s \in sockets : sockets' = sockets \ {s}
  /\ UNCHANGED <<kinds, now, user, lock, request, tokens, links, letters, past>>

(* A client that goes away, a lost connection, a failed commit: the        *)
(* session rolls back.                                                     *)
Abort(r) ==
  /\ request[r] # Idle
  /\ Release(r) /\ Finish(r)
  /\ UNCHANGED <<kinds, now, user, tokens, links, sockets, letters, past>>

-----------------------------------------------------------------------------
Next ==
  \/ Tick \/ verify_email \/ FanOutUnregisters \/ Disconnect
  \/ \E r \in Requests :
       \/ register(r) \/ RegisterCommits(r)
       \/ resend_verification_email(r) \/ ResendCommits(r)
       \/ login(r) \/ LoginRefused(r) \/ LoginFails(r) \/ LoginSucceeds(r) \/ FreshToken(r)
       \/ change_password(r) \/ password_reset_request(r) \/ ResetRequestCommits(r)
       \/ password_reset_confirm(r) \/ RotationRefused(r)
       \/ Lock(r) \/ CloseSockets(r) \/ RotationCommits(r)
       \/ websocket_notifications(r) \/ connect_user(r)
       \/ Abort(r)

Spec == Init /\ [][Next]_vars

-----------------------------------------------------------------------------
(* Properties.                                                             *)

RowsOfUser ==
  [exists : BOOLEAN, password : Passwords \cup {NoPassword}, modern : BOOLEAN,
   token_version : 0 .. MaxVersion, email_verified : BOOLEAN,
   failed_login_count : 0 .. MaxFailures, locked_until : Int,
   password_reset_sent_at : Never .. Horizon, upload_window_start : Never .. Horizon,
   upload_bytes_window : Nat, avatar_url : Nat]

RequestStates ==
  [op : Ops, step : Steps, proc : Procs \cup {NoProc},
   given : Passwords \cup {NoPassword}, new : Passwords \cup {NoPassword},
   claim : 0 .. MaxVersion, at : 0 .. Horizon, row : RowsOfUser]

History ==
  [signups : Nat, resends : Nat, chosen : Passwords \cup {NoPassword}, rotations : Nat,
   resets : Nat, streak : Nat, failed_at : Never .. Horizon, mailed_at : Never .. Horizon,
   overlapped : BOOLEAN]

(* The types, and who may hold the row lock: nobody but the request that   *)
(* is between its locking read and its commit.                             *)
TypeOK ==
  /\ \A r \in Requests : lock = r <=> request[r].step \in {"locked", "closed"}
  /\ kinds \in Workloads
  /\ now \in 0 .. Horizon
  /\ user \in RowsOfUser
  /\ lock \in Requests \cup {NoRequest}
  /\ request \in [Requests -> RequestStates]
  /\ tokens \subseteq 0 .. MaxVersion
  /\ links \subseteq [version : 0 .. MaxVersion, expires : Nat]
  /\ sockets \subseteq
       [proc : Procs, registered : BOOLEAN, late : BOOLEAN, outlived : BOOLEAN]
  /\ letters \in [verify : Nat, reset : Nat, changed : Nat]
  /\ past \in History

(* No update of the row is lost, whatever requests overlap: the password   *)
(* is the one set last (the rehash of a login does not bring an older one  *)
(* back), every rotation has its own version, and every failed login since *)
(* the last good one is counted.  Letters commit with the rows they tell   *)
(* about: a registration that loses the race mails no link, and each reset *)
(* is announced once, none in vain.                                        *)
NothingLost ==
  /\ user.password = past.chosen
  /\ user.token_version = past.rotations
  /\ user.failed_login_count = past.streak
  /\ letters.verify = past.signups + past.resends
  /\ letters.changed = past.resets

(* The lockout holds for concurrent attempts too: once count failures have *)
(* reached a tier, the next attempt is not even compared before the tier's *)
(* minutes have passed since the last failure.                             *)
FailuresAreSpaced ==
  [][past'.streak > past.streak =>
       \A t \in Tiers : user.failed_login_count >= t[1]
          => past'.failed_at >= past.failed_at + t[2]]_vars

(* Nobody replaces a password without the one it replaces or an unused     *)
(* link to it: what was proved before waiting for the row, or with a link  *)
(* another request has used meanwhile, does not count.                     *)
RotationsAreProved ==
  [][past'.rotations > past.rotations =>
       \E r \in Requests :
         /\ request[r].step = "closed" /\ request'[r] = Idle
         /\ IF request[r].op = "change" THEN request[r].given = user.password
            ELSE request[r].claim = user.token_version]_vars

(* Reset letters keep their distance unless two requests for one were      *)
(* under way at once: the throttle is read without a lock.                 *)
ResetLettersSpaced ==
  [][past'.mailed_at # past.mailed_at \/ letters'.reset > letters.reset =>
       past'.overlapped \/ past.mailed_at = Never
         \/ past'.mailed_at >= past.mailed_at + Throttle]_vars

(* A rotation ends the sockets of the account that its process can find:   *)
(* none of its process outlives it, unless a fan-out has taken it off the  *)
(* list, or it was accepted after the rotation had closed its sockets and  *)
(* before it committed.                                                    *)
RotationEndsSockets == \A s \in sockets : s.outlived => s.late \/ ~ s.registered
=============================================================================
