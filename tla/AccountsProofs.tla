---------------------------- MODULE AccountsProofs ----------------------------
(***************************************************************************)
(* Proofs about Accounts and Uploads, for every number of requests,        *)
(* processes and passwords, every table of lockout tiers, every quota and  *)
(* every size.  The first part is about Accounts alone: whoever holds the  *)
(* row lock works on the row as it is, so that no update is lost, failures *)
(* keep their distance, rotations are proved, and sockets end with them.   *)
(*                                                                         *)
(* The second is about Uploads, which writes the same row: it keeps what   *)
(* the first proves, and the avatar shown is the one on disk.  The number  *)
(* of an upload is its own, so no request removes what another has just    *)
(* written; until one breaks off or two overlap, the one that is on the    *)
(* avatar replaces the avatar there is.  And the quota: what is charged in *)
(* a window stays within it, so that twice as much bounds any such span.   *)
(***************************************************************************)
EXTENDS Uploads, SumsProofs

Locked(r) == request[r].step \in {"locked", "closed"}

(* What a rotation cannot end: see Late, and FanOutUnregisters.            *)
Beyond(s) == s.late \/ ~ s.registered

(* What each request may rely on: its copy of a row it has locked, the     *)
(* proof it gave before it closed the sockets, the throttle it has passed. *)
RequestGood(r) ==
  LET q == request[r]
  IN  /\ q.op \in {"forgot", "resend"} => q.step = "writes"
      /\ q.op = "register" => q.step \in {"writes", "refresh"}
      /\ q.step = "accepts" => q.op = "connect" /\ q.proc \in Procs
      /\ ~ user.exists => q.op \in {"idle", "register"}
      /\ q.op = "forgot" => \/ q.row.password_reset_sent_at = Never
                            \/ q.at - q.row.password_reset_sent_at >= Throttle
      /\ Locked(r) => q.row = user
      /\ q.step = "closed" =>
           /\ q.op \in {"change", "reset"} /\ Proves(r)
           /\ q.row.token_version < MaxVersion
           /\ \A s \in sockets : s.proc = q.proc => Beyond(s)

AccountFirst == ~ user.exists => user = NoAccount /\ links = {} /\ sockets = {}

(* The lock is set for at least as long as every tier reached asks.        *)
LockoutSet ==
  \A t \in Tiers : user.failed_login_count >= t[1] => user.locked_until >= past.failed_at + t[2]

ThrottleSet == past.overlapped \/ user.password_reset_sent_at = past.mailed_at

RowGood == AccountFirst /\ NothingLost /\ LockoutSet /\ ThrottleSet /\ RotationEndsSockets

AccountInv == TypeOK /\ RowGood /\ \A r \in Requests : RequestGood(r)

-----------------------------------------------------------------------------
(* Frames.                                                                 *)

LEMMA IdleTyped == Idle \in RequestStates /\ NoAccount \in RowsOfUser
BY BoundsAssumption, TimesAssumption
   DEF Idle, RequestStates, Ops, Steps, NoAccount, RowsOfUser, Never, NoFile

LEMMA FinishFrame ==
  ASSUME TypeOK, NEW r \in Requests, Finish(r)
  PROVE  /\ request' \in [Requests -> RequestStates]
         /\ request'[r] = Idle
         /\ \A q \in Requests \ {r} : request'[q] = request[q]
BY IdleTyped DEF TypeOK, Finish

LEMMA BecomeFrame ==
  ASSUME TypeOK, NEW r \in Requests, NEW s \in Steps, Become(r, s)
  PROVE  /\ request' \in [Requests -> RequestStates]
         /\ request'[r] = [request[r] EXCEPT !.step = s]
         /\ \A q \in Requests \ {r} : request'[q] = request[q]
<1>1. request \in [Requests -> RequestStates]
  BY DEF TypeOK
<1>2. [request[r] EXCEPT !.step = s] \in RequestStates
  BY <1>1 DEF RequestStates
<1>3. QED
  BY <1>1, <1>2 DEF Become

(* Nobody else holds what a request releases.                              *)
LEMMA ReleaseFrame ==
  ASSUME TypeOK, NEW r \in Requests, Release(r),
         \A q \in Requests \ {r} : request'[q] = request[q],
         request'[r].step \notin {"locked", "closed"}
  PROVE  /\ lock' \in Requests \cup {NoRequest}
         /\ \A q \in Requests : lock' = q <=> Locked(q)'
BY NamesAssumption DEF TypeOK, Release, Locked

LEMMA KeepFrame ==
  ASSUME TypeOK, NEW r \in Requests, lock' = lock,
         \A q \in Requests \ {r} : request'[q] = request[q],
         request'[r].step \in {"locked", "closed"} <=> Locked(r)
  PROVE  /\ lock' \in Requests \cup {NoRequest}
         /\ \A q \in Requests : lock' = q <=> Locked(q)'
BY DEF TypeOK, Locked

(* A request that does not move stays good if the row stays, or if it does *)
(* not hold it.                                                            *)
LEMMA OtherGood ==
  ASSUME NEW q \in Requests, RequestGood(q), request'[q] = request[q],
         user.exists => user'.exists,
         \/ ~ Locked(q)
         \/ /\ user' = user
            /\ \A s \in sockets' : s \in sockets \/ s.proc # request[q].proc \/ Beyond(s)
  PROVE  RequestGood(q)'
BY DEF RequestGood, Locked, Proves, Beyond

LEMMA IdleGood ==
  ASSUME NEW r \in Requests, request'[r] = Idle
  PROVE  RequestGood(r)'
BY DEF RequestGood, Locked, Idle

(* A step that leaves the row, the letters and the history alone.          *)
LEMMA QuietStep ==
  ASSUME AccountInv, TypeOK', UNCHANGED <<user, past, links, letters>>, sockets' \subseteq sockets,
         \A r \in Requests : RequestGood(r)'
  PROVE  AccountInv'
BY DEF AccountInv, RowGood, AccountFirst, NothingLost, LockoutSet, ThrottleSet,
       RotationEndsSockets

-----------------------------------------------------------------------------
(* Requests that begin, wait, or end without a write.                      *)

LEMMA BeginStep ==
  ASSUME AccountInv, NEW r \in Requests, NEW op \in Ops, NEW step \in Steps \ {"locked", "closed"},
         NEW proc \in Procs \cup {NoProc}, NEW given \in Passwords \cup {NoPassword},
         NEW new \in Passwords \cup {NoPassword}, NEW claim \in 0 .. MaxVersion,
         Begin(r, op, step, proc, given, new, claim),
         op \in {"register", "forgot", "resend"} => step = "writes",
         step = "accepts" => op = "connect" /\ proc \in Procs,
         ~ user.exists => op = "register",
         op = "forgot" => ~ Throttled(user)
  PROVE  AccountInv'
<1> DEFINE new_state == [op |-> op, step |-> step, proc |-> proc, given |-> given, new |-> new,
        claim |-> claim, at |-> IF op = "forgot" THEN now ELSE 0, row |-> ReadFirst(op)]
<1>1. TypeOK /\ now \in 0 .. Horizon /\ user \in RowsOfUser
  BY DEF AccountInv, TypeOK
<1>2. new_state \in RequestStates
  BY <1>1, IdleTyped, TimesAssumption DEF RequestStates, ReadFirst
<1>3. /\ request' = [request EXCEPT ![r] = new_state]
      /\ request \in [Requests -> RequestStates] /\ request[r] = Idle
      /\ UNCHANGED <<kinds, now, user, lock, tokens, links, sockets, letters, past>>
  BY <1>1 DEF Begin, TypeOK
<1>4. /\ request' \in [Requests -> RequestStates] /\ request'[r] = new_state
      /\ \A q \in Requests \ {r} : request'[q] = request[q]
  BY <1>2, <1>3
<1>5. ~ Locked(r) /\ request'[r].step \notin {"locked", "closed"}
  BY <1>3, <1>4 DEF Locked, Idle
<1>6. TypeOK'
  BY <1>1, <1>3, <1>4, <1>5, KeepFrame DEF TypeOK, Locked
<1>7. RequestGood(r)'
  <2>1. op = "forgot" => \/ user.password_reset_sent_at = Never
                         \/ now - user.password_reset_sent_at >= Throttle
    BY <1>1, TimesAssumption DEF Throttled, RowsOfUser, Never
  <2>2. op = "forgot" => ReadFirst(op) = user
    BY DEF ReadFirst
  <2>3. QED
    BY <1>3, <1>4, <1>5, <2>1, <2>2 DEF RequestGood, Locked
<1>8. \A q \in Requests \ {r} : RequestGood(q)'
  BY <1>3, <1>4, OtherGood DEF AccountInv
<1>9. QED
  BY <1>3, <1>6, <1>7, <1>8, QuietStep

LEMMA BeginSteps ==
  ASSUME AccountInv, NEW r \in Requests,
         \/ register(r) \/ resend_verification_email(r) \/ login(r) \/ change_password(r)
         \/ password_reset_request(r) \/ password_reset_confirm(r)
         \/ websocket_notifications(r)
  PROVE  AccountInv'
<1>1. tokens \subseteq 0 .. MaxVersion /\ \A l \in links : l.version \in 0 .. MaxVersion
  BY DEF AccountInv, TypeOK
<1>2. links # {} => user.exists
  BY DEF AccountInv, RowGood, AccountFirst
<1>3. 0 \in 0 .. MaxVersion
  BY BoundsAssumption
<1> USE DEF Ops, Steps
<1>4. CASE register(r)
  BY <1>3, <1>4, BeginStep DEF register
<1>5. CASE resend_verification_email(r)
  BY <1>1, <1>5, BeginStep DEF resend_verification_email, Authentic
<1>6. CASE login(r)
  BY <1>3, <1>6, BeginStep DEF login
<1>7. CASE change_password(r)
  BY <1>1, <1>7, BeginStep DEF change_password, Authentic
<1>8. CASE password_reset_request(r)
  BY <1>3, <1>8, BeginStep DEF password_reset_request
<1>9. CASE password_reset_confirm(r)
  BY <1>1, <1>2, <1>9, BeginStep DEF password_reset_confirm
<1>10. CASE websocket_notifications(r)
  BY <1>1, <1>10, BeginStep DEF websocket_notifications, Authentic
<1>11. QED
  BY <1>4, <1>5, <1>6, <1>7, <1>8, <1>9, <1>10

(* A request that ends and leaves everything but its lock as it was.       *)
LEMMA EndStep ==
  ASSUME AccountInv, NEW r \in Requests, Finish(r),
         Release(r) \/ (lock' = lock /\ ~ Locked(r)),
         UNCHANGED <<kinds, now, user, links, letters, past>>,
         tokens' \subseteq 0 .. MaxVersion, sockets' \subseteq sockets
  PROVE  AccountInv'
<1>1. TypeOK
  BY DEF AccountInv
<1>2. /\ request' \in [Requests -> RequestStates] /\ request'[r] = Idle
      /\ \A q \in Requests \ {r} : request'[q] = request[q]
  BY <1>1, FinishFrame
<1>3. request'[r].step \notin {"locked", "closed"}
  BY <1>2 DEF Idle
<1>4. /\ lock' \in Requests \cup {NoRequest}
      /\ \A q \in Requests : lock' = q <=> Locked(q)'
  BY <1>1, <1>2, <1>3, ReleaseFrame, KeepFrame
<1>5. TypeOK'
  BY <1>1, <1>2, <1>4 DEF TypeOK, Locked
<1>6. \A q \in Requests : RequestGood(q)'
  BY <1>2, OtherGood, IdleGood DEF AccountInv
<1>7. QED
  BY <1>5, <1>6, QuietStep

LEMMA EndSteps ==
  ASSUME AccountInv, NEW r \in Requests,
         LoginRefused(r) \/ FreshToken(r) \/ RotationRefused(r) \/ Abort(r)
  PROVE  AccountInv'
<1>1. TypeOK /\ tokens \subseteq 0 .. MaxVersion /\ user.token_version \in 0 .. MaxVersion
  BY DEF AccountInv, TypeOK, RowsOfUser
<1>2. CASE LoginRefused(r)
  BY <1>1, <1>2, EndStep DEF LoginRefused
<1>3. CASE FreshToken(r)
  BY <1>1, <1>3, EndStep DEF FreshToken, Locked
<1>4. CASE RotationRefused(r)
  BY <1>1, <1>4, EndStep DEF RotationRefused
<1>5. CASE Abort(r)
  BY <1>1, <1>5, EndStep DEF Abort
<1>6. QED
  BY <1>2, <1>3, <1>4, <1>5

LEMMA LockStep ==
  ASSUME AccountInv, NEW r \in Requests, Lock(r)
  PROVE  AccountInv'
<1>1. /\ TypeOK /\ user \in RowsOfUser /\ now \in 0 .. Horizon
      /\ request \in [Requests -> RequestStates] /\ RequestGood(r)
      /\ lock = NoRequest /\ lock' = r
      /\ UNCHANGED <<kinds, now, user, tokens, links, sockets, letters, past>>
  BY DEF AccountInv, TypeOK, Lock, Granted, Free
<1> DEFINE at == IF request[r].op = "login" THEN now ELSE request[r].at
           held == [request[r] EXCEPT !.step = "locked", !.row = user, !.at = at]
<1>2. held \in RequestStates
  <2>1. request[r] \in RequestStates
    BY <1>1
  <2>2. at \in 0 .. Horizon
    BY <1>1, <2>1 DEF RequestStates
  <2>3. "locked" \in Steps
    BY DEF Steps
  <2> HIDE DEF at
  <2>4. QED
    BY <1>1, <2>1, <2>2, <2>3 DEF RequestStates
<1>3. request' = [request EXCEPT ![r] = held]
  BY DEF Lock, LockedCopy
<1>4. /\ request' \in [Requests -> RequestStates] /\ request'[r] = held
      /\ \A q \in Requests \ {r} : request'[q] = request[q]
  BY <1>1, <1>2, <1>3
<1>5. held.step = "locked" /\ held.row = user /\ held.op = request[r].op /\ request[r].step = "waits"
  BY <1>1 DEF RequestStates, Lock
<1>6. \A q \in Requests : lock' = q <=> Locked(q)'
  BY <1>1, <1>4, <1>5, NamesAssumption DEF TypeOK, Locked
<1>7. TypeOK'
  BY <1>1, <1>4, <1>6 DEF TypeOK, Locked
<1>8. RequestGood(r)'
  BY <1>1, <1>4, <1>5 DEF RequestGood, Locked
<1>9. \A q \in Requests \ {r} : RequestGood(q)'
  BY <1>1, <1>4, OtherGood DEF AccountInv
<1>10. QED
  BY <1>1, <1>7, <1>8, <1>9, QuietStep

LEMMA CloseStep ==
  ASSUME AccountInv, NEW r \in Requests, CloseSockets(r)
  PROVE  AccountInv'
<1>1. /\ TypeOK /\ request \in [Requests -> RequestStates] /\ RequestGood(r)
      /\ lock' = lock /\ sockets' \subseteq sockets
      /\ \A s \in sockets' : s.proc # request[r].proc \/ Beyond(s)
      /\ request[r].op \in {"change", "reset"} /\ Proves(r) /\ Locked(r)
      /\ request[r].row.token_version < MaxVersion
      /\ UNCHANGED <<kinds, now, user, tokens, links, letters, past>>
  BY DEF AccountInv, TypeOK, CloseSockets, SocketsLeft, Locked, Beyond
<1>2. /\ request' \in [Requests -> RequestStates]
      /\ request'[r] = [request[r] EXCEPT !.step = "closed"]
      /\ \A q \in Requests \ {r} : request'[q] = request[q]
  BY <1>1, BecomeFrame DEF CloseSockets, Steps
<1>3. /\ request'[r].step = "closed"
      /\ request'[r].op = request[r].op /\ request'[r].row = request[r].row
      /\ request'[r].proc = request[r].proc /\ request'[r].given = request[r].given
      /\ request'[r].claim = request[r].claim
  BY <1>1, <1>2 DEF RequestStates
<1>4. TypeOK'
  BY <1>1, <1>2, <1>3, KeepFrame DEF TypeOK, Locked
<1>5. RequestGood(r)'
  BY <1>1, <1>3 DEF RequestGood, Locked, Proves
<1>6. \A q \in Requests \ {r} : RequestGood(q)'
  BY <1>1, <1>2, OtherGood DEF AccountInv
<1>7. QED
  BY <1>1, <1>4, <1>5, <1>6, QuietStep

-----------------------------------------------------------------------------
(* Logging in.                                                             *)

LEMMA Alone ==
  ASSUME TypeOK, NEW r \in Requests, Locked(r) \/ Free, NEW q \in Requests \ {r}
  PROVE  ~ Locked(q)
BY NamesAssumption DEF TypeOK, Locked, Free

(* The highest tier reached decides, and no tier reached asks for more.    *)
LEMMA LongestWait ==
  ASSUME NEW count \in Nat
  PROVE  /\ lockout_for_failures(count) \in Nat
         /\ \A t \in Tiers : count >= t[1] =>
              lockout_for_failures(count) >= t[2] /\ lockout_for_failures(count) > 0
<1> DEFINE reached == TiersReached(count)
           top == {t \in reached : \A s \in reached : s[1] <= t[1]}
<1>1. /\ reached \subseteq Tiers /\ \A t \in Tiers : t \in reached <=> count >= t[1]
      /\ \A t \in Tiers : t[1] \in Nat \ {0} /\ t[2] \in Nat \ {0}
  BY TiersAssumption DEF TiersReached
<1>2. lockout_for_failures(count) = IF top = {} THEN 0 ELSE (CHOOSE t \in top : TRUE)[2]
  BY DEF lockout_for_failures
<1>3. CASE reached = {}
  BY <1>1, <1>2, <1>3
<1>4. CASE reached # {}
  <2> DEFINE gaps == {count - t[1] : t \in reached}
  <2>1. gaps \in SUBSET Nat /\ gaps # {}
    BY <1>1, <1>4
  <2>2. PICK g \in gaps : \A h \in gaps : g <= h
    BY <2>1, LeastNat
  <2>3. PICK m \in reached : g = count - m[1]
    BY <2>2
  <2>4. m \in top
    <3>1. SUFFICES ASSUME NEW s \in reached PROVE s[1] <= m[1]
      OBVIOUS
    <3>2. count - m[1] <= count - s[1]
      BY <2>2, <2>3
    <3>3. QED
      BY <1>1, <3>2
  <2>5. PICK t \in top : lockout_for_failures(count) = t[2]
    BY <1>2, <2>4
  <2>6. \A s \in reached : s[2] <= t[2]
    BY <1>1, <2>5, TiersAssumption
  <2>7. QED
    BY <1>1, <2>5, <2>6
<1>5. QED
  BY <1>3, <1>4

LEMMA LoginFailsStep ==
  ASSUME AccountInv, NEW r \in Requests, LoginFails(r)
  PROVE  AccountInv' /\ \A t \in Tiers : user.failed_login_count >= t[1]
                          => past'.failed_at >= past.failed_at + t[2]
<1> DEFINE count == request[r].row.failed_login_count + 1
           wait == lockout_for_failures(count)
           until == IF wait > 0 THEN request[r].at + wait ELSE user.locked_until
<1>1. /\ TypeOK /\ user \in RowsOfUser /\ past \in History /\ letters' = letters
      /\ request \in [Requests -> RequestStates]
      /\ Locked(r) /\ request[r].row = user /\ request[r].at \in 0 .. Horizon
      /\ ~ LockedOut(r) /\ count <= MaxFailures
      /\ user.exists
  BY DEF AccountInv, TypeOK, LoginFails, RequestGood, Locked, RequestStates
<1>2. /\ user' = [user EXCEPT !.failed_login_count = count, !.locked_until = until]
      /\ past' = [past EXCEPT !.streak = @ + 1, !.failed_at = request[r].at]
      /\ Finish(r) /\ Release(r)
      /\ UNCHANGED <<kinds, now, tokens, links, sockets, letters>>
  BY DEF LoginFails
<1>3. /\ user.failed_login_count \in Nat /\ count \in 0 .. MaxFailures
      /\ past.failed_at \in Int /\ user.locked_until \in Int /\ past.streak \in Nat
  BY <1>1, BoundsAssumption, TimesAssumption DEF RowsOfUser, History, Never
<1>4. /\ wait \in Nat /\ until \in Int
      /\ \A t \in Tiers : count >= t[1] => until >= request[r].at + t[2]
  <2>1. /\ wait \in Nat
        /\ \A t \in Tiers : count >= t[1] => wait >= t[2] /\ wait > 0
    BY <1>3, LongestWait
  <2>2. request[r].at \in Nat /\ \A t \in Tiers : t[2] \in Nat
    BY <1>1, TimesAssumption, TiersAssumption
  <2>3. QED
    BY <1>3, <2>1, <2>2
<1>5. user' \in RowsOfUser /\ past' \in History
  <2>1. user' \in RowsOfUser
    BY <1>1, <1>2, <1>3, <1>4 DEF RowsOfUser
  <2>2. past.streak + 1 \in Nat /\ request[r].at \in Never .. Horizon
    BY <1>1, <1>3, TimesAssumption DEF Never
  <2>3. past' \in History
    BY <1>1, <1>2, <2>2 DEF History
  <2>4. QED
    BY <2>1, <2>3
<1>6. /\ request' \in [Requests -> RequestStates] /\ request'[r] = Idle
      /\ \A q \in Requests \ {r} : request'[q] = request[q]
  BY <1>1, <1>2, FinishFrame
<1>7. TypeOK'
  <2>1. /\ lock' \in Requests \cup {NoRequest}
        /\ \A q \in Requests : lock' = q <=> Locked(q)'
    BY <1>1, <1>2, <1>6, ReleaseFrame DEF Idle
  <2>2. QED
    BY <1>1, <1>2, <1>5, <1>6, <2>1 DEF TypeOK, Locked
<1>8. /\ user'.failed_login_count = count /\ user'.locked_until = until
      /\ user'.exists = user.exists /\ user'.password = user.password
      /\ user'.token_version = user.token_version
      /\ user'.password_reset_sent_at = user.password_reset_sent_at
      /\ past'.streak = past.streak + 1 /\ past'.failed_at = request[r].at
      /\ past'.chosen = past.chosen /\ past'.rotations = past.rotations
      /\ past'.signups = past.signups /\ past'.resends = past.resends
      /\ past'.resets = past.resets /\ past'.overlapped = past.overlapped
      /\ past'.mailed_at = past.mailed_at
  BY <1>1, <1>2 DEF RowsOfUser, History
<1>9. \A q \in Requests : RequestGood(q)'
  BY <1>1, <1>6, <1>8, OtherGood, IdleGood, Alone DEF AccountInv
<1>10. RowGood'
  BY <1>1, <1>2, <1>4, <1>8
     DEF AccountInv, RowGood, AccountFirst, NothingLost, LockoutSet, ThrottleSet,
         RotationEndsSockets
<1>11. ASSUME NEW t \in Tiers, user.failed_login_count >= t[1]
       PROVE  past'.failed_at >= past.failed_at + t[2]
  <2>1. user.locked_until >= past.failed_at + t[2]
    BY <1>11 DEF AccountInv, RowGood, LockoutSet
  <2>2. request[r].at \in Int /\ t[2] \in Int /\ ~ (user.locked_until > request[r].at)
    BY <1>1, TiersAssumption, TimesAssumption DEF LockedOut
  <2>3. QED
    BY <1>3, <1>8, <2>1, <2>2
<1>12. QED
  BY <1>7, <1>9, <1>10, <1>11 DEF AccountInv

LEMMA LoginSucceedsStep ==
  ASSUME AccountInv, NEW r \in Requests, LoginSucceeds(r)
  PROVE  AccountInv'
<1> DEFINE kept == IF user.modern THEN user.password ELSE request[r].given
<1>1. /\ TypeOK /\ user \in RowsOfUser /\ past \in History
      /\ request \in [Requests -> RequestStates]
      /\ Locked(r) /\ request[r].row = user /\ user.exists /\ request[r].op = "login"
      /\ request[r].given = user.password
  BY DEF AccountInv, TypeOK, LoginSucceeds, RequestGood, Locked, Wrong
<1>2. /\ user' = [user EXCEPT !.failed_login_count = 0, !.locked_until = Never,
                              !.password = kept, !.modern = TRUE]
      /\ past' = [past EXCEPT !.streak = 0]
      /\ Become(r, "refresh") /\ Release(r)
      /\ UNCHANGED <<kinds, now, tokens, links, sockets, letters>>
  BY <1>1 DEF LoginSucceeds
<1>3. kept = user.password
  BY <1>1
<1>4. user' \in RowsOfUser /\ past' \in History
  <2>1. 0 \in 0 .. MaxFailures /\ Never \in Int
    BY BoundsAssumption DEF Never
  <2>2. user' \in RowsOfUser
    BY <1>1, <1>2, <1>3, <2>1 DEF RowsOfUser
  <2>3. past' \in History
    BY <1>1, <1>2 DEF History
  <2>4. QED
    BY <2>2, <2>3
<1>5. /\ request' \in [Requests -> RequestStates]
      /\ request'[r] = [request[r] EXCEPT !.step = "refresh"]
      /\ \A q \in Requests \ {r} : request'[q] = request[q]
  BY <1>1, <1>2, BecomeFrame DEF Steps
<1>6. request'[r].step = "refresh" /\ request'[r].op = "login"
  BY <1>1, <1>5 DEF RequestStates
<1>7. TypeOK'
  <2>1. /\ lock' \in Requests \cup {NoRequest}
        /\ \A q \in Requests : lock' = q <=> Locked(q)'
    BY <1>1, <1>2, <1>5, <1>6, ReleaseFrame
  <2>2. QED
    BY <1>1, <1>2, <1>4, <1>5, <2>1 DEF TypeOK, Locked
<1>8. /\ user'.failed_login_count = 0 /\ user'.exists = user.exists
      /\ user'.password = user.password /\ user'.token_version = user.token_version
      /\ user'.password_reset_sent_at = user.password_reset_sent_at
      /\ past'.streak = 0 /\ past'.chosen = past.chosen /\ past'.rotations = past.rotations
      /\ past'.signups = past.signups /\ past'.resends = past.resends
      /\ past'.resets = past.resets /\ past'.overlapped = past.overlapped
      /\ past'.mailed_at = past.mailed_at
  BY <1>1, <1>2, <1>3 DEF RowsOfUser, History
<1>9. RequestGood(r)'
  BY <1>1, <1>6, <1>8 DEF RequestGood, Locked
<1>10. \A q \in Requests \ {r} : RequestGood(q)'
  BY <1>1, <1>5, <1>8, OtherGood, Alone DEF AccountInv
<1>11. RowGood'
  BY <1>1, <1>2, <1>8, TiersAssumption
     DEF AccountInv, RowGood, AccountFirst, NothingLost, LockoutSet, ThrottleSet,
         RotationEndsSockets
<1>12. QED
  BY <1>7, <1>9, <1>10, <1>11 DEF AccountInv

-----------------------------------------------------------------------------
(* Requests that end with a write.                                         *)

LetterCounts == [verify : Nat, reset : Nat, changed : Nat]
Sockets == [proc : Procs, registered : BOOLEAN, late : BOOLEAN, outlived : BOOLEAN]

(* What a write may disturb beyond its own part of the row.                *)
LEMMA WriteStep ==
  ASSUME AccountInv, NEW r \in Requests,
         \/ Finish(r)
         \/ Become(r, "refresh") /\ request[r].op = "register" /\ user'.exists,
         Release(r) \/ (lock' = lock /\ ~ Locked(r)),
         UNCHANGED <<kinds, now>>, user' \in RowsOfUser, past' \in History,
         letters' \in LetterCounts, tokens' \subseteq 0 .. MaxVersion,
         links' \subseteq [version : 0 .. MaxVersion, expires : Nat], sockets' \subseteq Sockets,
         user.exists => user'.exists,
         \/ Locked(r) \/ Free
         \/ /\ user' = user
            /\ \A q \in Requests : \A s \in sockets' :
                 request[q].step = "closed" => s \in sockets \/ s.proc # request[q].proc \/ Beyond(s),
         RowGood'
  PROVE  AccountInv'
<1>1. TypeOK
  BY DEF AccountInv
<1>2. /\ request' \in [Requests -> RequestStates]
      /\ \A q \in Requests \ {r} : request'[q] = request[q]
      /\ \/ request'[r] = Idle
         \/ /\ request'[r].step = "refresh" /\ request'[r].op = "register"
            /\ user'.exists
  <2>1. CASE Finish(r)
    BY <1>1, <2>1, FinishFrame
  <2>2. CASE Become(r, "refresh") /\ request[r].op = "register" /\ user'.exists
    <3>1. "refresh" \in Steps /\ request[r] \in RequestStates
      BY <1>1 DEF Steps, TypeOK
    <3>2. /\ request' \in [Requests -> RequestStates]
          /\ request'[r] = [request[r] EXCEPT !.step = "refresh"]
          /\ \A q \in Requests \ {r} : request'[q] = request[q]
      BY <1>1, <2>2, <3>1, BecomeFrame
    <3>3. QED
      BY <2>2, <3>1, <3>2 DEF RequestStates
  <2>3. QED
    BY <2>1, <2>2
<1>3. request'[r].step \notin {"locked", "closed"}
  BY <1>2 DEF Idle
<1>4. /\ lock' \in Requests \cup {NoRequest}
      /\ \A q \in Requests : lock' = q <=> Locked(q)'
  BY <1>1, <1>2, <1>3, ReleaseFrame, KeepFrame
<1>5. TypeOK'
  BY <1>1, <1>2, <1>4 DEF TypeOK, Locked, LetterCounts, Sockets
<1>6. ASSUME NEW q \in Requests \ {r}
      PROVE  RequestGood(q)'
  <2>1. RequestGood(q) /\ request'[q] = request[q]
    BY <1>2, <1>6 DEF AccountInv
  <2>2. CASE Locked(r) \/ Free
    BY <1>1, <1>6, <2>1, <2>2, Alone, OtherGood
  <2>3. CASE /\ user' = user
             /\ \A s \in sockets' :
                  request[q].step = "closed" => s \in sockets \/ s.proc # request[q].proc \/ Beyond(s)
    BY <2>1, <2>3 DEF RequestGood, Locked, Proves, Beyond
  <2>4. QED
    BY <2>2, <2>3
<1>7. \A q \in Requests : RequestGood(q)'
  <2>1. CASE request'[r] = Idle
    BY <1>6, <2>1, IdleGood
  <2>2. CASE request'[r].step = "refresh" /\ request'[r].op = "register" /\ user'.exists
    <3>1. RequestGood(r)'
      BY <2>2 DEF RequestGood, Locked
    <3>2. QED
      BY <1>6, <3>1
  <2>3. QED
    BY <1>2, <2>1, <2>2
<1>8. QED
  BY <1>5, <1>7 DEF AccountInv

LEMMA RegisterStep ==
  ASSUME AccountInv, NEW r \in Requests, RegisterCommits(r)
  PROVE  AccountInv'
<1>1. /\ TypeOK /\ user \in RowsOfUser /\ past \in History /\ letters \in LetterCounts
      /\ RequestGood(r) /\ RowGood /\ request[r].op = "register"
      /\ request[r].given \in Passwords \cup {NoPassword}
  BY DEF AccountInv, TypeOK, RegisterCommits, RequestStates, LetterCounts
<1>2. ~ Locked(r)
  BY <1>1 DEF RequestGood, Locked
<1>3. /\ Free /\ UNCHANGED <<kinds, now, lock, tokens, links, sockets>>
      /\ letters' = [letters EXCEPT !.verify = @ + (IF user.exists THEN 0 ELSE 1)]
  BY DEF RegisterCommits, VerificationLetter
<1>4. /\ letters' \in LetterCounts
      /\ letters'.verify = letters.verify + (IF user.exists THEN 0 ELSE 1)
      /\ letters'.changed = letters.changed
  BY <1>1, <1>3 DEF LetterCounts
<1>5. CASE user.exists
  <2>1. Finish(r) /\ UNCHANGED <<user, tokens, past>> /\ letters'.verify = letters.verify
    BY <1>1, <1>4, <1>5 DEF RegisterCommits, LetterCounts
  <2>2. RowGood'
    BY <1>1, <1>3, <1>4, <2>1
       DEF RowGood, AccountFirst, NothingLost, LockoutSet, ThrottleSet, RotationEndsSockets
  <2>3. QED
    BY <1>1, <1>2, <1>3, <1>4, <2>1, <2>2, WriteStep DEF TypeOK, Sockets
<1>6. CASE ~ user.exists
  <2> DEFINE given == request[r].given
  <2>1. /\ user' = [NoAccount EXCEPT !.exists = TRUE, !.password = given]
        /\ Become(r, "refresh")
        /\ past' = [past EXCEPT !.chosen = given, !.signups = @ + 1]
    BY <1>6 DEF RegisterCommits
  <2>2. user = NoAccount /\ sockets = {}
    BY <1>1, <1>6 DEF RowGood, AccountFirst
  <2>3. /\ user' \in RowsOfUser /\ user'.exists /\ user'.password = given
        /\ user'.token_version = 0 /\ user'.failed_login_count = 0
        /\ user'.password_reset_sent_at = Never
    BY <1>1, <2>1, IdleTyped DEF RowsOfUser, NoAccount
  <2>4. /\ past' \in History /\ past'.chosen = given /\ past'.signups = past.signups + 1
        /\ past'.rotations = past.rotations /\ past'.streak = past.streak
        /\ past'.resends = past.resends /\ past'.resets = past.resets
        /\ past'.overlapped = past.overlapped /\ past'.mailed_at = past.mailed_at
    <3>1. past.signups + 1 \in Nat
      BY <1>1 DEF History
    <3>2. QED
      BY <1>1, <2>1, <3>1 DEF History
  <2>5. past.rotations = 0 /\ past.streak = 0 /\ (past.overlapped \/ past.mailed_at = Never)
    BY <1>1, <2>2 DEF RowGood, NothingLost, ThrottleSet, NoAccount
  <2>6. NothingLost'
    <3>1. letters.verify = past.signups + past.resends /\ letters.changed = past.resets
      BY <1>1 DEF RowGood, NothingLost
    <3>2. past.signups \in Nat /\ past.resends \in Nat
      BY <1>1 DEF History
    <3>3. QED
      BY <1>4, <1>6, <2>3, <2>4, <2>5, <3>1, <3>2 DEF NothingLost
  <2>7. RowGood'
    BY <1>3, <2>2, <2>3, <2>4, <2>5, <2>6, TiersAssumption
       DEF RowGood, AccountFirst, LockoutSet, ThrottleSet, RotationEndsSockets
  <2>8. tokens' \subseteq 0 .. MaxVersion
    BY <1>1, <1>3 DEF TypeOK
  <2>9. QED
    BY <1>1, <1>2, <1>3, <1>4, <1>6, <2>1, <2>3, <2>4, <2>7, <2>8, WriteStep DEF TypeOK, Sockets
<1>7. QED
  BY <1>5, <1>6

LEMMA ResendStep ==
  ASSUME AccountInv, NEW r \in Requests, ResendCommits(r)
  PROVE  AccountInv'
<1>1. /\ TypeOK /\ past \in History /\ letters \in LetterCounts
      /\ RequestGood(r) /\ RowGood /\ request[r].op = "resend"
      /\ Finish(r) /\ UNCHANGED <<kinds, now, user, lock, tokens, links, sockets>>
      /\ letters' = [letters EXCEPT !.verify = @ + 1]
      /\ past' = [past EXCEPT !.resends = @ + 1]
  BY DEF AccountInv, TypeOK, ResendCommits, LetterCounts
<1>2. ~ Locked(r)
  BY <1>1 DEF RequestGood, Locked
<1>3. past.resends + 1 \in Nat /\ letters.verify + 1 \in Nat
  BY <1>1 DEF History, LetterCounts
<1>4. /\ letters' \in LetterCounts
      /\ letters'.verify = letters.verify + 1 /\ letters'.changed = letters.changed
  BY <1>1, <1>3 DEF LetterCounts
<1>5. /\ past' \in History /\ past'.resends = past.resends + 1
      /\ past'.chosen = past.chosen /\ past'.signups = past.signups
      /\ past'.rotations = past.rotations /\ past'.streak = past.streak
      /\ past'.resets = past.resets /\ past'.failed_at = past.failed_at
      /\ past'.overlapped = past.overlapped /\ past'.mailed_at = past.mailed_at
  BY <1>1, <1>3 DEF History
<1>6. NothingLost'
  <2>1. past.signups \in Nat /\ past.resends \in Nat
    BY <1>1 DEF History
  <2>2. QED
    BY <1>1, <1>4, <1>5, <2>1 DEF RowGood, NothingLost
<1>7. RowGood'
  BY <1>1, <1>5, <1>6
     DEF RowGood, AccountFirst, LockoutSet, ThrottleSet, RotationEndsSockets
<1>8. QED
  BY <1>1, <1>2, <1>4, <1>5, <1>7, WriteStep DEF TypeOK, Sockets

LEMMA ResetRequestStep ==
  ASSUME AccountInv, NEW r \in Requests, ResetRequestCommits(r)
  PROVE  /\ AccountInv'
         /\ \/ past'.overlapped \/ past.mailed_at = Never
            \/ past'.mailed_at >= past.mailed_at + Throttle
<1> DEFINE q == request[r]
<1>1. /\ TypeOK /\ user \in RowsOfUser /\ past \in History /\ letters \in LetterCounts
      /\ RequestGood(r) /\ RowGood /\ q \in RequestStates
      /\ q.op = "forgot" /\ Free /\ Finish(r)
      /\ UNCHANGED <<kinds, now, lock, tokens, sockets>>
      /\ user' = [user EXCEPT !.password_reset_sent_at = q.at]
      /\ links' = links \cup {[version |-> q.row.token_version, expires |-> q.at + LinkTTL]}
      /\ letters' = [letters EXCEPT !.reset = @ + 1]
      /\ past' = [past EXCEPT !.mailed_at = q.at,
           !.overlapped = @ \/ q.row.password_reset_sent_at # user.password_reset_sent_at]
  BY DEF AccountInv, TypeOK, ResetRequestCommits, LetterCounts
<1>2. ~ Locked(r) /\ user.exists
  BY <1>1 DEF RequestGood, Locked
<1>3. /\ q.at \in 0 .. Horizon /\ q.at \in Never .. Horizon /\ q.at + LinkTTL \in Nat
      /\ q.row.token_version \in 0 .. MaxVersion
  BY <1>1, TimesAssumption DEF RequestStates, RowsOfUser, Never
<1>4. /\ user' \in RowsOfUser /\ user'.password_reset_sent_at = q.at
      /\ user'.exists = user.exists /\ user'.password = user.password
      /\ user'.token_version = user.token_version
      /\ user'.failed_login_count = user.failed_login_count
      /\ user'.locked_until = user.locked_until
  BY <1>1, <1>3 DEF RowsOfUser
<1>5. /\ past' \in History /\ past'.mailed_at = q.at
      /\ past'.overlapped
           = (past.overlapped \/ q.row.password_reset_sent_at # user.password_reset_sent_at)
      /\ past'.chosen = past.chosen /\ past'.signups = past.signups
      /\ past'.resends = past.resends /\ past'.rotations = past.rotations
      /\ past'.streak = past.streak /\ past'.resets = past.resets
      /\ past'.failed_at = past.failed_at
  BY <1>1, <1>3 DEF History
<1>6. /\ letters' \in LetterCounts
      /\ letters'.verify = letters.verify /\ letters'.changed = letters.changed
  <2>1. letters.reset + 1 \in Nat
    BY <1>1 DEF LetterCounts
  <2>2. QED
    BY <1>1, <2>1 DEF LetterCounts
<1>7. links' \subseteq [version : 0 .. MaxVersion, expires : Nat]
  BY <1>1, <1>3 DEF TypeOK
<1>8. RowGood'
  BY <1>1, <1>2, <1>4, <1>5, <1>6
     DEF RowGood, AccountFirst, NothingLost, LockoutSet, ThrottleSet, RotationEndsSockets
<1>9. AccountInv'
  BY <1>1, <1>2, <1>4, <1>5, <1>6, <1>7, <1>8, WriteStep DEF TypeOK, Sockets
<1>10. ASSUME ~ past'.overlapped, past.mailed_at # Never
       PROVE  past'.mailed_at >= past.mailed_at + Throttle
  <2>1. q.row.password_reset_sent_at = past.mailed_at
    BY <1>1, <1>5, <1>10 DEF RowGood, ThrottleSet
  <2>2. q.at - past.mailed_at >= Throttle
    BY <1>1, <1>10, <2>1 DEF RequestGood
  <2>3. past.mailed_at \in Int /\ q.at \in Int /\ Throttle \in Int
    BY <1>1, <1>3, TimesAssumption DEF History, Never
  <2>4. QED
    BY <1>5, <2>2, <2>3
<1>11. QED
  BY <1>9, <1>10

LEMMA VerifyStep ==
  ASSUME AccountInv, verify_email
  PROVE  AccountInv'
<1>1. /\ TypeOK /\ user \in RowsOfUser /\ RowGood /\ Free
      /\ user' = [user EXCEPT !.email_verified = TRUE] /\ user.exists
      /\ UNCHANGED <<kinds, now, lock, request, tokens, links, sockets, letters, past>>
  BY DEF AccountInv, TypeOK, verify_email
<1>2. /\ user' \in RowsOfUser /\ user'.exists = user.exists /\ user'.password = user.password
      /\ user'.token_version = user.token_version
      /\ user'.failed_login_count = user.failed_login_count
      /\ user'.locked_until = user.locked_until
      /\ user'.password_reset_sent_at = user.password_reset_sent_at
  BY <1>1 DEF RowsOfUser
<1>3. TypeOK'
  BY <1>1, <1>2 DEF TypeOK
<1>4. RowGood'
  BY <1>1, <1>2
     DEF RowGood, AccountFirst, NothingLost, LockoutSet, ThrottleSet, RotationEndsSockets
<1>5. ASSUME NEW q \in Requests PROVE RequestGood(q)'
  <2>1. ~ Locked(q)
    BY <1>1, NamesAssumption DEF TypeOK, Free, Locked
  <2>2. QED
    BY <1>1, <1>2, <2>1, OtherGood DEF AccountInv
<1>6. QED
  BY <1>3, <1>4, <1>5 DEF AccountInv

(* The version a rotation writes is new, its proof is of the row it        *)
(* replaces, and every socket left in its process is out of its reach.     *)
LEMMA RotationStep ==
  ASSUME AccountInv, NEW r \in Requests, RotationCommits(r)
  PROVE  /\ AccountInv'
         /\ request[r].step = "closed" /\ request'[r] = Idle
         /\ IF request[r].op = "change" THEN request[r].given = user.password
            ELSE request[r].claim = user.token_version
<1> DEFINE q == request[r]
           next == NextVersion(q.row.token_version)
<1>1. /\ TypeOK /\ user \in RowsOfUser /\ past \in History /\ letters \in LetterCounts
      /\ RequestGood(r) /\ RowGood /\ q \in RequestStates
      /\ q.step = "closed" /\ Finish(r) /\ Release(r)
      /\ UNCHANGED <<kinds, now, links>>
      /\ user' = [user EXCEPT !.password = q.new, !.modern = TRUE, !.token_version = next]
      /\ tokens' = IF q.op = "change" THEN tokens \cup {next} ELSE tokens
      /\ letters' = IF q.op = "reset" THEN [letters EXCEPT !.changed = @ + 1] ELSE letters
      /\ past' = [past EXCEPT !.chosen = q.new, !.rotations = @ + 1,
                              !.resets = IF q.op = "reset" THEN @ + 1 ELSE @]
      /\ sockets' = {[s EXCEPT !.outlived = @ \/ s.proc = q.proc] : s \in sockets}
  BY DEF AccountInv, TypeOK, RotationCommits, LetterCounts
<1>2. /\ Locked(r) /\ q.row = user /\ Proves(r) /\ q.op \in {"change", "reset"}
      /\ user.token_version < MaxVersion /\ user.exists
      /\ \A s \in sockets : s.proc = q.proc => Beyond(s)
  BY <1>1 DEF RequestGood, Locked
<1>3. next = user.token_version + 1 /\ next \in 0 .. MaxVersion
  BY <1>1, <1>2, BoundsAssumption DEF RowsOfUser, NextVersion
<1>4. /\ user' \in RowsOfUser /\ user'.password = q.new /\ user'.token_version = next
      /\ user'.exists = user.exists /\ user'.failed_login_count = user.failed_login_count
      /\ user'.locked_until = user.locked_until
      /\ user'.password_reset_sent_at = user.password_reset_sent_at
  <2>1. q.new \in Passwords \cup {NoPassword}
    BY <1>1 DEF RequestStates
  <2>2. QED
    BY <1>1, <1>3, <2>1 DEF RowsOfUser
<1>5. /\ past' \in History /\ past'.chosen = q.new /\ past'.rotations = past.rotations + 1
      /\ past'.resets = IF q.op = "reset" THEN past.resets + 1 ELSE past.resets
      /\ past'.signups = past.signups /\ past'.resends = past.resends
      /\ past'.streak = past.streak /\ past'.failed_at = past.failed_at
      /\ past'.overlapped = past.overlapped /\ past'.mailed_at = past.mailed_at
  <2>1. q.new \in Passwords \cup {NoPassword}
    BY <1>1 DEF RequestStates
  <2>2. past.rotations + 1 \in Nat /\ past.resets + 1 \in Nat
    BY <1>1 DEF History
  <2>3. QED
    BY <1>1, <2>1, <2>2 DEF History
<1>6. /\ letters' \in LetterCounts /\ letters'.verify = letters.verify
      /\ letters'.changed = IF q.op = "reset" THEN letters.changed + 1 ELSE letters.changed
  <2>1. letters.changed + 1 \in Nat
    BY <1>1 DEF LetterCounts
  <2>2. QED
    BY <1>1, <2>1 DEF LetterCounts
<1>7. sockets' \subseteq Sockets /\ \A s \in sockets' : s.outlived => Beyond(s)
  <2> DEFINE marked(s) == [s EXCEPT !.outlived = @ \/ s.proc = q.proc]
  <2>1. sockets' = {marked(s) : s \in sockets}
    BY <1>1
  <2>2. ASSUME NEW s \in sockets
        PROVE  marked(s) \in Sockets /\ (marked(s).outlived => Beyond(marked(s)))
    <3>1. s \in Sockets /\ (s.outlived \/ s.proc = q.proc => Beyond(s))
      BY <1>1, <1>2, <2>2 DEF TypeOK, Sockets, RowGood, RotationEndsSockets, Beyond
    <3>2. PICK m : m = marked(s)
      OBVIOUS
    <3>3. /\ m \in Sockets
          /\ m.late = s.late /\ m.registered = s.registered
          /\ m.outlived = (s.outlived \/ s.proc = q.proc)
      BY <3>1, <3>2, Zenon DEF Sockets
    <3>4. QED
      BY <3>1, <3>2, <3>3, Zenon DEF Beyond
  <2> HIDE DEF marked
  <2>3. QED
    BY <2>1, <2>2
<1>8. NothingLost'
  BY <1>1, <1>3, <1>4, <1>5, <1>6 DEF RowGood, NothingLost
<1>9. RowGood'
  BY <1>1, <1>2, <1>4, <1>5, <1>7, <1>8
     DEF RowGood, AccountFirst, LockoutSet, ThrottleSet, RotationEndsSockets, Beyond
<1>10. tokens' \subseteq 0 .. MaxVersion
  BY <1>1, <1>3 DEF TypeOK
<1>11. AccountInv'
  BY <1>1, <1>2, <1>4, <1>5, <1>6, <1>7, <1>9, <1>10, WriteStep DEF TypeOK
<1>12. request'[r] = Idle
  BY <1>1, FinishFrame
<1>13. QED
  BY <1>1, <1>2, <1>11, <1>12 DEF Proves

(* A socket comes in beyond the reach of a rotation about to commit.       *)
LEMMA ConnectStep ==
  ASSUME AccountInv, NEW r \in Requests, connect_user(r)
  PROVE  AccountInv'
<1> DEFINE q == request[r]
           new == [proc |-> q.proc, registered |-> TRUE, late |-> Late(q), outlived |-> FALSE]
<1>1. /\ TypeOK /\ RequestGood(r) /\ RowGood /\ q.step = "accepts" /\ Finish(r)
      /\ sockets' = sockets \cup {new}
      /\ UNCHANGED <<kinds, now, user, lock, tokens, links, letters, past>>
  BY DEF AccountInv, connect_user
<1>2. ~ Locked(r)
  BY <1>1 DEF Locked
<1>3. ~ new.outlived
  OBVIOUS
<1>4. \A p \in Requests : request[p].step = "closed" /\ request[p].proc = new.proc => new.late
  BY DEF Late
<1>5. user.exists /\ new \in Sockets
  <2>1. q.proc \in Procs /\ user.exists
    BY <1>1 DEF RequestGood
  <2>2. Late(q) \in BOOLEAN
    BY DEF Late
  <2>3. QED
    BY <2>1, <2>2 DEF Sockets
<1> HIDE DEF new
<1>6. RowGood'
  BY <1>1, <1>3, <1>5
     DEF RowGood, AccountFirst, NothingLost, LockoutSet, ThrottleSet, RotationEndsSockets
<1>7. \A p \in Requests : \A s \in sockets' :
        request[p].step = "closed" => s \in sockets \/ s.proc # request[p].proc \/ Beyond(s)
  BY <1>1, <1>4 DEF Beyond
<1>8. QED
  BY <1>1, <1>2, <1>5, <1>6, <1>7, WriteStep DEF TypeOK, Sockets, LetterCounts

(* A socket goes, or its registration does.                                *)
LEMMA SocketsGo ==
  ASSUME AccountInv, Disconnect \/ FanOutUnregisters
  PROVE  AccountInv'
<1>1. UNCHANGED <<kinds, now, user, lock, request, tokens, links, letters, past>>
  BY DEF Disconnect, FanOutUnregisters
<1>2. \A s \in sockets' : s \in sockets \/ (sockets # {} /\ s \in Sockets /\ ~ s.registered)
  <2>1. CASE Disconnect
    BY <2>1 DEF Disconnect
  <2>2. CASE FanOutUnregisters
    <3>1. PICK s \in sockets : sockets' = (sockets \ {s}) \cup {[s EXCEPT !.registered = FALSE]}
      BY <2>2 DEF FanOutUnregisters
    <3>2. PICK m : m = [s EXCEPT !.registered = FALSE]
      OBVIOUS
    <3>3. s \in Sockets
      BY <3>1 DEF AccountInv, TypeOK, Sockets
    <3>4. m \in Sockets /\ ~ m.registered
      BY <3>2, <3>3 DEF Sockets
    <3>5. QED
      BY <3>1, <3>2, <3>4
  <2>3. QED
    BY <2>1, <2>2
<1>3. TypeOK'
  BY <1>1, <1>2 DEF AccountInv, TypeOK, Sockets
<1>4. \A r \in Requests : RequestGood(r)'
  BY <1>1, <1>2 DEF AccountInv, RequestGood, Locked, Proves, Beyond
<1>5. RowGood'
  <2>1. AccountFirst' /\ RotationEndsSockets'
    BY <1>1, <1>2 DEF AccountInv, RowGood, AccountFirst, RotationEndsSockets
  <2>2. QED
    BY <1>1, <2>1 DEF AccountInv, RowGood, NothingLost, LockoutSet, ThrottleSet
<1>6. QED
  BY <1>3, <1>4, <1>5 DEF AccountInv

LEMMA TickStep ==
  ASSUME AccountInv, Tick
  PROVE  AccountInv'
<1>1. UNCHANGED <<kinds, user, lock, request, tokens, links, sockets, letters, past>>
  BY DEF Tick
<1>2. now' \in 0 .. Horizon
  BY TimesAssumption DEF AccountInv, TypeOK, Tick
<1>3. TypeOK'
  BY <1>1, <1>2 DEF AccountInv, TypeOK
<1>4. \A r \in Requests : RequestGood(r)'
  BY <1>1 DEF AccountInv, RequestGood, Locked, Proves
<1>5. QED
  BY <1>1, <1>3, <1>4, QuietStep

-----------------------------------------------------------------------------
(* The invariant and what follows from it.                                 *)

LEMMA InitAccountInv ==
  ASSUME Init
  PROVE  AccountInv
<1>1. /\ kinds \in Workloads /\ now = 0 /\ lock = NoRequest
      /\ request = [r \in Requests |-> Idle]
      /\ tokens = IF user.exists THEN {0} ELSE {}
      /\ links = {} /\ sockets = {}
      /\ letters = [verify |-> 0, reset |-> 0, changed |-> 0]
  BY DEF Init
<1>2. /\ user \in RowsOfUser /\ past \in History
      /\ ~ user.exists => user = NoAccount
      /\ user.password = past.chosen
      /\ user.token_version = 0 /\ user.failed_login_count = 0
      /\ user.password_reset_sent_at = Never
      /\ past.rotations = 0 /\ past.streak = 0 /\ past.mailed_at = Never
      /\ past.signups = 0 /\ past.resends = 0 /\ past.resets = 0
  <2>1. NoPast \in History
    BY TimesAssumption DEF NoPast, History, Never
  <2>2. CASE user = NoAccount /\ past = NoPast
    BY <2>1, <2>2, IdleTyped DEF NoAccount, NoPast
  <2>3. CASE \E p \in Passwords :
               user = Grandfathered(p) /\ past = [NoPast EXCEPT !.chosen = p]
    <3>1. PICK p \in Passwords :
            user = Grandfathered(p) /\ past = [NoPast EXCEPT !.chosen = p]
      BY <2>3
    <3>2. /\ user \in RowsOfUser /\ user.exists /\ user.password = p
          /\ user.token_version = 0 /\ user.failed_login_count = 0
          /\ user.password_reset_sent_at = Never
      BY <3>1, IdleTyped DEF Grandfathered, RowsOfUser, NoAccount
    <3>3. /\ past \in History /\ past.chosen = p
          /\ past.rotations = 0 /\ past.streak = 0 /\ past.mailed_at = Never
          /\ past.signups = 0 /\ past.resends = 0 /\ past.resets = 0
      BY <2>1, <3>1 DEF NoPast, History
    <3>4. QED
      BY <3>2, <3>3
  <2>4. QED
    BY <2>2, <2>3 DEF Init
<1>3. TypeOK
  <2>1. \A r \in Requests : request[r] = Idle /\ lock # r
    BY <1>1, NamesAssumption
  <2>2. letters \in [verify : Nat, reset : Nat, changed : Nat]
    BY <1>1
  <2>3. request \in [Requests -> RequestStates]
    BY <1>1, IdleTyped
  <2>4. QED
    BY <1>1, <1>2, <2>1, <2>2, <2>3, BoundsAssumption, TimesAssumption DEF TypeOK, Idle
<1>4. RowGood
  BY <1>1, <1>2, TiersAssumption
     DEF RowGood, AccountFirst, NothingLost, LockoutSet, ThrottleSet, RotationEndsSockets
<1>5. \A r \in Requests : RequestGood(r)
  BY <1>1 DEF RequestGood, Locked, Idle
<1>6. QED
  BY <1>3, <1>4, <1>5 DEF AccountInv

LEMMA StepAccountInv ==
  ASSUME AccountInv, [Next]_vars
  PROVE  AccountInv'
<1>1. CASE Tick
  BY <1>1, TickStep
<1>2. CASE verify_email
  BY <1>2, VerifyStep
<1>3. CASE Disconnect \/ FanOutUnregisters
  BY <1>3, SocketsGo
<1>4. ASSUME NEW r \in Requests,
             \/ register(r) \/ resend_verification_email(r) \/ login(r) \/ change_password(r)
             \/ password_reset_request(r) \/ password_reset_confirm(r)
             \/ websocket_notifications(r)
      PROVE  AccountInv'
  BY <1>4, BeginSteps
<1>5. ASSUME NEW r \in Requests,
             LoginRefused(r) \/ FreshToken(r) \/ RotationRefused(r) \/ Abort(r)
      PROVE  AccountInv'
  BY <1>5, EndSteps
<1>6. ASSUME NEW r \in Requests,
             \/ RegisterCommits(r) \/ ResendCommits(r) \/ ResetRequestCommits(r)
             \/ LoginFails(r) \/ LoginSucceeds(r)
             \/ Lock(r) \/ CloseSockets(r) \/ RotationCommits(r) \/ connect_user(r)
      PROVE  AccountInv'
  BY <1>6, RegisterStep, ResendStep, ResetRequestStep, LoginFailsStep, LoginSucceedsStep,
     LockStep, CloseStep, RotationStep, ConnectStep
<1>7. CASE UNCHANGED vars
  BY <1>7 DEF vars, AccountInv, TypeOK, RowGood, AccountFirst, NothingLost, LockoutSet,
     ThrottleSet, RotationEndsSockets, RequestGood, Locked, Proves
<1>8. QED
  BY <1>1, <1>2, <1>3, <1>4, <1>5, <1>6, <1>7 DEF Next

(* Which steps write the history that the action properties look at.       *)
LEMMA HistoryStep ==
  ASSUME AccountInv, [Next]_vars
  PROVE  /\ past'.streak \in {past.streak, 0} \/ \E r \in Requests : LoginFails(r)
         /\ past'.rotations = past.rotations \/ \E r \in Requests : RotationCommits(r)
         /\ \/ past'.mailed_at = past.mailed_at /\ letters'.reset = letters.reset
            \/ \E r \in Requests : ResetRequestCommits(r)
<1> DEFINE Still(p, l) ==
             /\ p.streak \in {past.streak, 0} /\ p.rotations = past.rotations
             /\ p.mailed_at = past.mailed_at /\ l.reset = letters.reset
<1>1. past \in History /\ letters \in LetterCounts
  BY DEF AccountInv, TypeOK, LetterCounts
<1>2. CASE UNCHANGED <<past, letters>>
  BY <1>2
<1>3. ASSUME NEW r \in Requests, RegisterCommits(r) \/ ResendCommits(r) \/ LoginSucceeds(r)
      PROVE  Still(past', letters')
  <2>1. CASE RegisterCommits(r)
    BY <1>1, <2>1 DEF RegisterCommits, History, LetterCounts
  <2>2. CASE ResendCommits(r)
    BY <1>1, <2>2 DEF ResendCommits, History, LetterCounts
  <2>3. CASE LoginSucceeds(r)
    BY <1>1, <2>3 DEF LoginSucceeds, History, LetterCounts
  <2>4. QED
    BY <1>3, <2>1, <2>2, <2>3
<1>4. ASSUME NEW r \in Requests, LoginFails(r)
      PROVE  /\ past'.rotations = past.rotations
             /\ past'.mailed_at = past.mailed_at /\ letters'.reset = letters.reset
  BY <1>1, <1>4 DEF LoginFails, History
<1>5. ASSUME NEW r \in Requests, ResetRequestCommits(r)
      PROVE  past'.streak = past.streak /\ past'.rotations = past.rotations
  BY <1>1, <1>5 DEF ResetRequestCommits, History
<1>6. ASSUME NEW r \in Requests, RotationCommits(r)
      PROVE  /\ past'.streak = past.streak
             /\ past'.mailed_at = past.mailed_at /\ letters'.reset = letters.reset
  BY <1>1, <1>6 DEF RotationCommits, History, LetterCounts
<1>7. ASSUME Tick \/ verify_email \/ FanOutUnregisters \/ Disconnect \/ UNCHANGED vars
      PROVE  UNCHANGED <<past, letters>>
  BY <1>7 DEF Tick, verify_email, FanOutUnregisters, Disconnect, vars
<1>8. ASSUME NEW r \in Requests,
             \/ register(r) \/ resend_verification_email(r) \/ login(r) \/ change_password(r)
             \/ password_reset_request(r) \/ password_reset_confirm(r)
             \/ websocket_notifications(r)
      PROVE  UNCHANGED <<past, letters>>
  BY <1>8 DEF register, resend_verification_email, login, change_password,
              password_reset_request, password_reset_confirm, websocket_notifications, Begin
<1>9. ASSUME NEW r \in Requests,
             \/ LoginRefused(r) \/ FreshToken(r) \/ RotationRefused(r) \/ Abort(r)
             \/ Lock(r) \/ CloseSockets(r) \/ connect_user(r)
      PROVE  UNCHANGED <<past, letters>>
  BY <1>9 DEF LoginRefused, FreshToken, RotationRefused, Abort, Lock, CloseSockets, connect_user
<1> DEFINE Writes == \E r \in Requests :
             \/ RegisterCommits(r) \/ ResendCommits(r) \/ LoginSucceeds(r) \/ LoginFails(r)
             \/ ResetRequestCommits(r) \/ RotationCommits(r)
           Quiet == UNCHANGED <<past, letters>>
<1>10. ASSUME NEW r \in Requests,
             \/ RegisterCommits(r) \/ ResendCommits(r) \/ LoginSucceeds(r) \/ LoginFails(r)
             \/ ResetRequestCommits(r) \/ RotationCommits(r)
       PROVE  Writes
  BY <1>10
<1>11. ASSUME Tick \/ verify_email \/ FanOutUnregisters \/ Disconnect \/ UNCHANGED vars
       PROVE  Quiet
  BY <1>7, <1>11
<1>12. ASSUME NEW r \in Requests,
             \/ register(r) \/ resend_verification_email(r) \/ login(r) \/ change_password(r)
             \/ password_reset_request(r) \/ password_reset_confirm(r)
             \/ websocket_notifications(r)
             \/ LoginRefused(r) \/ FreshToken(r) \/ RotationRefused(r) \/ Abort(r)
             \/ Lock(r) \/ CloseSockets(r) \/ connect_user(r)
       PROVE  Quiet
  BY <1>8, <1>9, <1>12
<1> HIDE DEF Still, Writes, Quiet
<1>13. Quiet \/ Writes
  BY <1>10, <1>11, <1>12 DEF Next
<1>14. QED
  BY <1>2, <1>3, <1>4, <1>5, <1>6, <1>13 DEF Still, Writes, Quiet

LEMMA FailuresStep ==
  ASSUME AccountInv, [Next]_vars
  PROVE  [past'.streak > past.streak =>
            \A t \in Tiers : user.failed_login_count >= t[1]
              => past'.failed_at >= past.failed_at + t[2]]_vars
<1>1. past.streak \in Nat
  BY DEF AccountInv, TypeOK, History
<1>2. CASE past'.streak \in {past.streak, 0}
  BY <1>1, <1>2
<1>3. CASE \E r \in Requests : LoginFails(r)
  BY <1>3, LoginFailsStep
<1>4. QED
  BY <1>2, <1>3, HistoryStep

LEMMA RotationsStep ==
  ASSUME AccountInv, [Next]_vars
  PROVE  [past'.rotations > past.rotations =>
            \E r \in Requests :
              /\ request[r].step = "closed" /\ request'[r] = Idle
              /\ IF request[r].op = "change" THEN request[r].given = user.password
                 ELSE request[r].claim = user.token_version]_vars
<1>1. past.rotations \in Nat
  BY DEF AccountInv, TypeOK, History
<1>2. CASE past'.rotations = past.rotations
  BY <1>1, <1>2
<1>3. CASE \E r \in Requests : RotationCommits(r)
  BY <1>3, RotationStep
<1>4. QED
  BY <1>2, <1>3, HistoryStep

LEMMA LettersStep ==
  ASSUME AccountInv, [Next]_vars
  PROVE  [past'.mailed_at # past.mailed_at \/ letters'.reset > letters.reset =>
            past'.overlapped \/ past.mailed_at = Never
              \/ past'.mailed_at >= past.mailed_at + Throttle]_vars
<1>1. letters.reset \in Nat
  BY DEF AccountInv, TypeOK
<1>2. CASE past'.mailed_at = past.mailed_at /\ letters'.reset = letters.reset
  BY <1>1, <1>2
<1>3. CASE \E r \in Requests : ResetRequestCommits(r)
  BY <1>3, ResetRequestStep
<1>4. QED
  BY <1>2, <1>3, HistoryStep

(* The types, and who holds the row lock, in every instance.               *)
THEOREM AccountsTypeCorrect == Spec => []TypeOK
<1>1. AccountInv => TypeOK
  BY DEF AccountInv
<1>2. QED
  BY <1>1, InitAccountInv, StepAccountInv, PTL DEF Spec

(* However many requests overlap on an account: the password is the one    *)
(* set last, each rotation has its version, each failure is counted, and   *)
(* each letter has its row.                                                *)
THEOREM AccountsLoseNothing == Spec => []NothingLost
<1>1. AccountInv => NothingLost
  BY DEF AccountInv, RowGood
<1>2. QED
  BY <1>1, InitAccountInv, StepAccountInv, PTL DEF Spec

(* A rotation ends the sockets its process can find, however handshakes,   *)
(* fan-outs and rotations interleave: what outlives one there was off the  *)
(* list, or was accepted between its closing and its commit.               *)
THEOREM AccountsEndSockets == Spec => []RotationEndsSockets
<1>1. AccountInv => RotationEndsSockets
  BY DEF AccountInv, RowGood
<1>2. QED
  BY <1>1, InitAccountInv, StepAccountInv, PTL DEF Spec

(* Concurrent attempts do not shorten the lockout, for every table of      *)
(* tiers that ascends.                                                     *)
THEOREM AccountsSpaceFailures == Spec => FailuresAreSpaced
BY FailuresStep, InitAccountInv, StepAccountInv, PTL DEF Spec, FailuresAreSpaced

(* Each rotation proves itself against the row it replaces.                *)
THEOREM AccountsProveRotations == Spec => RotationsAreProved
BY RotationsStep, InitAccountInv, StepAccountInv, PTL DEF Spec, RotationsAreProved

(* Reset letters keep their distance unless two requests overlapped.       *)
THEOREM AccountsSpaceLetters == Spec => ResetLettersSpaced
BY LettersStep, InitAccountInv, StepAccountInv, PTL DEF Spec, ResetLettersSpaced

-----------------------------------------------------------------------------
(* Uploads.                                                                *)

(* At work on a file of its own.                                           *)
Writing(r) == AtWork(r) /\ request[r].op \in {"image", "avatar"}

Replacing(r) == OnAvatar(r) /\ request[r].step \in {"stores", "saves"}

Charges == [at : 0 .. Horizon, size : Nat, op : {"image", "avatar"}]

FilesTyped ==
  /\ charged \in Seq(Charges) /\ disk \subseteq 1 .. Len(charged)
  /\ user.avatar_url \in 0 .. Len(charged) /\ file \in [Requests -> 0 .. Len(charged)]
  /\ disturbed \in BOOLEAN

(* What a request at work is on, and that the number of its upload is its  *)
(* own: nobody else shows, replaces or writes that file.                   *)
WorkGood(r) ==
  /\ request[r].row.avatar_url \in 0 .. Len(charged)
  /\ AtWork(r) => request[r].op \in {"image", "avatar", "remove"}
  /\ request[r].step = "removes" => OnAvatar(r)
  /\ request[r].step = "stores" => Writing(r)
  /\ request[r].step = "saves" => OnAvatar(r)
  /\ request[r].step = "saves" /\ request[r].op = "avatar" => file[r] \in disk
  /\ Writing(r) =>
       /\ file[r] # 0 /\ charged[file[r]].op = request[r].op
       /\ file[r] # user.avatar_url
       /\ \A q \in Requests : request[q].row.avatar_url # file[r]
       /\ \A q \in Requests \ {r} : Writing(q) => file[q] # file[r]

Shown ==
  \/ user.avatar_url \in disk \cup {NoFile} \cup cut
  \/ \E r \in Requests : Replacing(r) /\ request[r].row.avatar_url = user.avatar_url

(* Until a request breaks off or two overlap, one at most is on the avatar *)
(* and it replaces the avatar there is.                                    *)
Undisturbed ==
  /\ \A r, q \in Requests : OnAvatar(r) /\ OnAvatar(q) => r = q
  /\ \A r \in Requests : OnAvatar(r) /\ AtWork(r) =>
       request[r].row.avatar_url = user.avatar_url
  /\ \A r \in Requests : Replacing(r) => user.avatar_url \notin disk
  /\ \A f \in disk : charged[f].op = "avatar" =>
       \/ f = user.avatar_url
       \/ \E r \in Requests : AtWork(r) /\ request[r].op = "avatar" /\ f = file[r]

FilesInv ==
  /\ FilesTyped /\ \A r \in Requests : WorkGood(r)
  /\ Shown /\ (~ disturbed => Undisturbed)

UploadInv == AccountInv /\ FilesInv

-----------------------------------------------------------------------------
(* Uploads keep the account as it is.                                      *)

LEMMA StartsKeepAccount ==
  ASSUME AccountInv, NEW r \in Requests, StartUpload(r) \/ delete_avatar(r)
  PROVE  AccountInv'
<1>1. tokens \subseteq 0 .. MaxVersion
  BY DEF AccountInv, TypeOK
<1>2. CASE StartUpload(r)
  BY <1>1, <1>2, BeginStep DEF StartUpload, Authentic, Ops, Steps
<1>3. CASE delete_avatar(r)
  BY <1>1, <1>3, BeginStep DEF delete_avatar, Authentic, Ops, Steps
<1>4. QED
  BY <1>2, <1>3

(* A request at work that goes on to the next step.                        *)
LEMMA WorkKeepsAccount ==
  ASSUME AccountInv, NEW r \in Requests, NEW s \in {"stores", "saves"}, AtWork(r), Become(r, s),
         UNCHANGED <<kinds, now, user, lock, tokens, links, sockets, letters, past>>
  PROVE  AccountInv'
<1>1. TypeOK /\ RequestGood(r) /\ request \in [Requests -> RequestStates]
  BY DEF AccountInv, TypeOK
<1>2. /\ request' \in [Requests -> RequestStates]
      /\ request'[r] = [request[r] EXCEPT !.step = s]
      /\ \A q \in Requests \ {r} : request'[q] = request[q]
  BY <1>1, BecomeFrame DEF Steps
<1>3. request'[r].step = s /\ request'[r].op = request[r].op /\ request'[r].row = request[r].row
  BY <1>1, <1>2 DEF RequestStates
<1>4. TypeOK'
  BY <1>1, <1>2, <1>3, KeepFrame DEF TypeOK, Locked, AtWork
<1>5. RequestGood(r)'
  BY <1>1, <1>3 DEF RequestGood, Locked, AtWork
<1>6. \A q \in Requests \ {r} : RequestGood(q)'
  BY <1>2, OtherGood DEF AccountInv
<1>7. QED
  BY <1>4, <1>5, <1>6, QuietStep

LEMMA EndsKeepAccount ==
  ASSUME AccountInv, FilesInv, NEW r \in Requests,
         OverQuota(r) \/ RemoveOld(r) \/ Store(r) \/ BreaksOff(r)
  PROVE  AccountInv'
<1>1. tokens \subseteq 0 .. MaxVersion
  BY DEF AccountInv, TypeOK
<1>2. CASE OverQuota(r)
  BY <1>1, <1>2, EndStep DEF OverQuota
<1>3. CASE RemoveOld(r)
  BY <1>3, WorkKeepsAccount DEF RemoveOld, AtWork
<1>4. CASE Store(r) /\ request[r].op = "avatar"
  BY <1>4, WorkKeepsAccount DEF Store, AtWork
<1>5. CASE Store(r) /\ request[r].op # "avatar"
  BY <1>1, <1>5, EndStep DEF Store, Locked
<1>6. CASE BreaksOff(r)
  BY <1>6, EndSteps DEF BreaksOff
<1>7. QED
  BY <1>2, <1>3, <1>4, <1>5, <1>6

(* The other columns of the row, which the account's properties are about. *)
Same(u, v) ==
  /\ u.exists = v.exists /\ u.password = v.password /\ u.token_version = v.token_version
  /\ u.failed_login_count = v.failed_login_count /\ u.locked_until = v.locked_until
  /\ u.password_reset_sent_at = v.password_reset_sent_at

LEMMA SameRowGood ==
  ASSUME AccountInv, user.exists, Same(user', user), UNCHANGED <<letters, past, sockets>>
  PROVE  RowGood'
BY DEF AccountInv, RowGood, AccountFirst, NothingLost, LockoutSet, ThrottleSet,
       RotationEndsSockets, Same

LEMMA SaveKeepsAccount ==
  ASSUME AccountInv, FilesInv, NEW r \in Requests, SaveAvatar(r)
  PROVE  AccountInv'
<1>1. /\ TypeOK /\ user \in RowsOfUser /\ RequestGood(r) /\ OnAvatar(r) /\ file[r] \in Nat
      /\ request[r].step = "saves"
  BY DEF AccountInv, TypeOK, FilesInv, FilesTyped, WorkGood, SaveAvatar
<1>2. user.exists /\ ~ Locked(r)
  BY <1>1 DEF RequestGood, OnAvatar, Locked
<1>3. user' \in RowsOfUser /\ Same(user', user)
  BY <1>1 DEF SaveAvatar, RowsOfUser, Same, NoFile
<1>4. RowGood'
  BY <1>2, <1>3, SameRowGood DEF SaveAvatar
<1>5. QED
  BY <1>1, <1>2, <1>3, <1>4, WriteStep DEF SaveAvatar, Same, TypeOK, LetterCounts, Sockets

LEMMA ChargeKeepsAccount ==
  ASSUME AccountInv, NEW r \in Requests, Charge(r)
  PROVE  AccountInv'
<1>1. /\ TypeOK /\ user \in RowsOfUser /\ now \in 0 .. Horizon
      /\ request \in [Requests -> RequestStates] /\ RequestGood(r)
      /\ request[r].op \in {"image", "avatar"} /\ Locked(r)
  BY DEF AccountInv, TypeOK, Charge, Locked
<1>2. user.exists /\ request[r].row = user
  BY <1>1 DEF RequestGood
<1>3. PICK s \in {"removes", "stores"} : Become(r, s)
  BY DEF Charge
<1>4. PICK size \in Sizes :
        user' = [user EXCEPT
           !.upload_window_start = IF WindowOver(user.upload_window_start) THEN now
                                   ELSE user.upload_window_start,
           !.upload_bytes_window = Projected(user, size)]
  BY <1>2 DEF Charge
<1>5. Projected(user, size) \in Nat /\ now \in Never .. Horizon
  BY <1>1, SizesAssumption, TimesAssumption DEF Projected, RowsOfUser, Never
<1>6. user' \in RowsOfUser /\ Same(user', user)
  BY <1>1, <1>4, <1>5 DEF RowsOfUser, Same
<1>7. /\ Release(r) /\ UNCHANGED <<kinds, now, tokens, links, sockets, letters, past>>
  BY DEF Charge
<1>8. /\ request' \in [Requests -> RequestStates]
      /\ request'[r] = [request[r] EXCEPT !.step = s]
      /\ \A q \in Requests \ {r} : request'[q] = request[q]
  BY <1>1, <1>3, BecomeFrame DEF Steps
<1>9. request'[r].step = s /\ request'[r].op = request[r].op /\ request'[r].row = request[r].row
  BY <1>1, <1>8 DEF RequestStates
<1>10. /\ lock' \in Requests \cup {NoRequest}
       /\ \A q \in Requests : lock' = q <=> Locked(q)'
  BY <1>1, <1>7, <1>8, <1>9, ReleaseFrame
<1>11. TypeOK'
  BY <1>1, <1>6, <1>7, <1>8, <1>10 DEF TypeOK, Locked
<1>12. RowGood'
  BY <1>2, <1>6, <1>7, SameRowGood
<1>13. RequestGood(r)'
  BY <1>1, <1>2, <1>6, <1>9 DEF RequestGood, Locked, Same
<1>14. \A q \in Requests \ {r} : RequestGood(q)'
  BY <1>1, <1>2, <1>6, <1>8, Alone, OtherGood DEF AccountInv, Same
<1>15. QED
  BY <1>11, <1>12, <1>13, <1>14 DEF AccountInv

LEMMA UploadsKeepAccount ==
  ASSUME UploadInv, [UploadsNext]_<<vars, files>>
  PROVE  AccountInv'
<1>1. AccountInv /\ FilesInv
  BY DEF UploadInv
<1>2. CASE AccountStep \/ UNCHANGED <<vars, files>>
  BY <1>1, <1>2, StepAccountInv DEF AccountStep
<1>3. CASE \E r \in Requests :
       \/ StartUpload(r) \/ Charge(r) \/ OverQuota(r)
       \/ delete_avatar(r) \/ RemoveOld(r) \/ Store(r) \/ SaveAvatar(r)
       \/ BreaksOff(r)
  BY <1>1, <1>3, StartsKeepAccount, EndsKeepAccount, SaveKeepsAccount, ChargeKeepsAccount
<1>4. QED
  BY <1>2, <1>3 DEF UploadsNext

-----------------------------------------------------------------------------
(* What a step of Accounts leaves to the files.                            *)

LEMMA FilesFacts ==
  ASSUME FilesInv
  PROVE  /\ FilesTyped /\ Shown /\ \A r \in Requests : WorkGood(r)
         /\ disturbed = FALSE => Undisturbed
         /\ Len(charged) \in Nat
         /\ \A i \in 1 .. Len(charged) : charged[i] \in Charges
BY DEF FilesInv, FilesTyped

(* One request moves, neither from nor to work on a file.                  *)
LEMMA OffWork ==
  ASSUME FilesInv, NEW r \in Requests,
         \A q \in Requests \ {r} : request'[q] = request[q],
         ~ AtWork(r), request'[r].step \notin {"removes", "stores", "saves"},
         request'[r].row.avatar_url \in {request[r].row.avatar_url, user.avatar_url, NoFile},
         OnAvatar(r)' => OnAvatar(r) \/ disturbed' \/ \A q \in Requests : ~ OnAvatar(q),
         disturbed' \in BOOLEAN, disturbed => disturbed',
         user'.avatar_url = user.avatar_url, UNCHANGED <<disk, file, charged, cut>>
  PROVE  FilesInv'
<1>1. /\ FilesTyped /\ Shown /\ \A q \in Requests : WorkGood(q)
      /\ disturbed = FALSE => Undisturbed
  BY FilesFacts
<1>2. FilesTyped'
  BY <1>1 DEF FilesTyped
<1>3. \A q \in Requests : /\ AtWork(q)' <=> AtWork(q)
                          /\ Writing(q)' <=> Writing(q)
                          /\ Replacing(q)' <=> Replacing(q)
                          /\ AtWork(q) => request'[q] = request[q] /\ q # r
  BY DEF AtWork, Writing, Replacing, OnAvatar
<1>4. ASSUME NEW q \in Requests
      PROVE  request'[q].row.avatar_url \in {request[q].row.avatar_url, user.avatar_url, NoFile}
  BY <1>4
<1>5. ASSUME NEW q \in Requests
      PROVE  WorkGood(q)'
  <2>1. WorkGood(q) /\ user.avatar_url \in 0 .. Len(charged) /\ 0 \in 0 .. Len(charged)
    BY <1>1 DEF FilesTyped
  <2>2. request'[q].row.avatar_url \in 0 .. Len(charged)
    BY <1>4, <2>1 DEF WorkGood, NoFile
  <2>3. ASSUME Writing(q)
        PROVE  /\ file[q] # 0 /\ charged[file[q]].op = request'[q].op
               /\ file[q] # user.avatar_url
               /\ \A p \in Requests : request'[p].row.avatar_url # file[q]
               /\ \A p \in Requests \ {q} : Writing(p) => file[p] # file[q]
    BY <1>3, <1>4, <2>1, <2>3 DEF WorkGood, Writing, NoFile
  <2>4. QED
    BY <1>3, <2>1, <2>2, <2>3 DEF WorkGood, AtWork, OnAvatar, Writing
<1>6. Shown'
  BY <1>1, <1>3 DEF Shown, Replacing, AtWork
<1>7. ASSUME disturbed' = FALSE
      PROVE  Undisturbed'
  <2>1. Undisturbed
    BY <1>1, <1>7 DEF FilesTyped
  <2>2. \A p, q \in Requests : OnAvatar(p)' /\ OnAvatar(q)' => p = q
    <3>1. \A q \in Requests \ {r} : OnAvatar(q)' <=> OnAvatar(q)
      BY DEF OnAvatar
    <3>2. OnAvatar(r)' => OnAvatar(r) \/ \A q \in Requests : ~ OnAvatar(q)
      BY <1>7
    <3>3. QED
      BY <2>1, <3>1, <3>2 DEF Undisturbed
  <2>3. \A q \in Requests : (OnAvatar(q) /\ AtWork(q))' => OnAvatar(q) /\ AtWork(q)
    BY <1>3 DEF OnAvatar
  <2>4. QED
    BY <1>3, <2>1, <2>2, <2>3 DEF Undisturbed
<1>8. QED
  BY <1>2, <1>5, <1>6, <1>7 DEF FilesInv, FilesTyped

(* The columns of the row that belong to uploads.                          *)
SameUploads ==
  /\ user'.avatar_url = user.avatar_url
  /\ user'.upload_window_start = user.upload_window_start
  /\ user'.upload_bytes_window = user.upload_bytes_window

LEMMA AccountFrame ==
  ASSUME AccountInv, Next
  PROVE  /\ SameUploads
         /\ \/ request' = request
            \/ \E r \in Requests :
                 /\ \A q \in Requests \ {r} : request'[q] = request[q]
                 /\ request'[r].step \notin {"removes", "stores", "saves"}
                 /\ OnAvatar(r)' => OnAvatar(r)
                 /\ request'[r].row.avatar_url
                      \in {request[r].row.avatar_url, user.avatar_url, NoFile}
<1> DEFINE Moves(r) ==
             /\ \A q \in Requests \ {r} : request'[q] = request[q]
             /\ request'[r].step \notin {"removes", "stores", "saves"}
             /\ OnAvatar(r)' => OnAvatar(r)
             /\ request'[r].row.avatar_url
                  \in {request[r].row.avatar_url, user.avatar_url, NoFile}
<1>1. /\ TypeOK /\ user \in RowsOfUser /\ request \in [Requests -> RequestStates]
      /\ ~ user.exists => user = NoAccount
  BY DEF AccountInv, TypeOK, RowGood, AccountFirst
<1>2. ASSUME NEW r \in Requests, Finish(r)
      PROVE  Moves(r)
  BY <1>1, <1>2, FinishFrame DEF Idle, NoAccount, OnAvatar
<1>3. ASSUME NEW r \in Requests, NEW s \in {"closed", "refresh"}, Become(r, s)
      PROVE  Moves(r)
  <2>1. /\ request'[r] = [request[r] EXCEPT !.step = s]
        /\ \A q \in Requests \ {r} : request'[q] = request[q]
    BY <1>1, <1>3, BecomeFrame DEF Steps
  <2>2. request'[r].step = s /\ request'[r].op = request[r].op /\ request'[r].row = request[r].row
    BY <1>1, <2>1 DEF RequestStates
  <2>3. QED
    BY <2>1, <2>2 DEF OnAvatar
<1>4. ASSUME NEW r \in Requests, NEW op \in Ops \ {"avatar", "remove"},
             NEW step \in {"waits", "writes", "accepts"}, NEW proc, NEW given, NEW new, NEW claim,
             Begin(r, op, step, proc, given, new, claim)
      PROVE  Moves(r)
  <2>1. /\ \A q \in Requests \ {r} : request'[q] = request[q]
        /\ request'[r].op = op /\ request'[r].step = step /\ request'[r].row = ReadFirst(op)
    BY <1>1, <1>4 DEF Begin
  <2>2. ReadFirst(op).avatar_url \in {user.avatar_url, NoFile}
    BY DEF ReadFirst, NoAccount
  <2>3. QED
    BY <2>1, <2>2 DEF OnAvatar
<1>5. ASSUME NEW r \in Requests, Lock(r)
      PROVE  Moves(r)
  <2>1. /\ \A q \in Requests \ {r} : request'[q] = request[q]
        /\ request'[r] = [request[r] EXCEPT !.step = "locked", !.row = user,
              !.at = IF request[r].op = "login" THEN now ELSE request[r].at]
    BY <1>1, <1>5 DEF Lock, LockedCopy
  <2>2. request'[r].step = "locked" /\ request'[r].op = request[r].op /\ request'[r].row = user
    BY <1>1, <2>1 DEF RequestStates
  <2>3. QED
    BY <2>1, <2>2 DEF OnAvatar
<1>6. ASSUME NEW r \in Requests,
             \/ register(r) \/ resend_verification_email(r) \/ login(r) \/ change_password(r)
             \/ password_reset_request(r) \/ password_reset_confirm(r)
             \/ websocket_notifications(r)
      PROVE  user' = user /\ Moves(r)
  <2>1. user' = user
    BY <1>6 DEF Begin, register, resend_verification_email, login, change_password,
                password_reset_request, password_reset_confirm, websocket_notifications
  <2> HIDE DEF Moves
  <2>2. Moves(r)
    BY <1>4, <1>6 DEF Ops, register, resend_verification_email, login, change_password,
                      password_reset_request, password_reset_confirm, websocket_notifications
  <2>3. QED
    BY <2>1, <2>2
<1>7. ASSUME NEW r \in Requests,
             \/ LoginRefused(r) \/ FreshToken(r) \/ RotationRefused(r) \/ Abort(r)
             \/ ResendCommits(r) \/ connect_user(r)
      PROVE  user' = user /\ Finish(r)
  <2>1. CASE LoginRefused(r) \/ RotationRefused(r)
    BY <2>1 DEF LoginRefused, RotationRefused
  <2>2. CASE FreshToken(r) \/ Abort(r)
    BY <2>2 DEF FreshToken, Abort
  <2>3. CASE ResendCommits(r) \/ connect_user(r)
    <3>1. CASE ResendCommits(r)
      BY <3>1 DEF ResendCommits
    <3>2. CASE connect_user(r)
      BY <3>2 DEF connect_user
    <3>3. QED
      BY <2>3, <3>1, <3>2
  <2>4. QED
    BY <1>7, <2>1, <2>2, <2>3
<1>8. ASSUME NEW r \in Requests,
             RegisterCommits(r) \/ ResetRequestCommits(r) \/ LoginFails(r) \/ RotationCommits(r)
      PROVE  SameUploads /\ (Finish(r) \/ Become(r, "refresh"))
  <2>1. CASE RegisterCommits(r)
    <3>1. Finish(r) \/ Become(r, "refresh")
      BY <2>1 DEF RegisterCommits
    <3>2. CASE user.exists
      <4>1. user' = user
        BY <2>1, <3>2 DEF RegisterCommits
      <4>2. QED
        BY <3>1, <4>1 DEF SameUploads
    <3>3. CASE ~ user.exists
      <4>1. PICK p : user' = [NoAccount EXCEPT !.exists = TRUE, !.password = p]
        BY <2>1, <3>3 DEF RegisterCommits
      <4>2. /\ user'.avatar_url = NoFile /\ user'.upload_window_start = Never
            /\ user'.upload_bytes_window = 0
        BY <4>1 DEF NoAccount
      <4>3. QED
        BY <1>1, <3>1, <3>3, <4>2 DEF SameUploads, NoAccount
    <3>4. QED
      BY <3>2, <3>3
  <2>2. CASE ResetRequestCommits(r)
    BY <1>1, <2>2 DEF ResetRequestCommits, RowsOfUser, SameUploads
  <2>3. CASE LoginFails(r)
    BY <1>1, <2>3 DEF LoginFails, RowsOfUser, SameUploads
  <2>4. CASE RotationCommits(r)
    BY <1>1, <2>4 DEF RotationCommits, RowsOfUser, SameUploads
  <2>5. QED
    BY <1>8, <2>1, <2>2, <2>3, <2>4
<1>9. ASSUME NEW r \in Requests, LoginSucceeds(r)
      PROVE  SameUploads /\ Become(r, "refresh")
  BY <1>1, <1>9 DEF LoginSucceeds, RowsOfUser, SameUploads
<1>10. ASSUME NEW r \in Requests, CloseSockets(r)
       PROVE  user' = user /\ Become(r, "closed")
  BY <1>10 DEF CloseSockets
<1>11. ASSUME NEW r \in Requests, Lock(r)
       PROVE  user' = user
  BY <1>11 DEF Lock
<1>12. CASE Tick \/ verify_email \/ FanOutUnregisters \/ Disconnect
  BY <1>1, <1>12 DEF Tick, verify_email, FanOutUnregisters, Disconnect, RowsOfUser, SameUploads
<1> DEFINE Framed(r) == SameUploads /\ Moves(r)
<1>13. ASSUME NEW r \in Requests,
             \/ LoginRefused(r) \/ FreshToken(r) \/ RotationRefused(r) \/ Abort(r)
             \/ ResendCommits(r) \/ connect_user(r)
             \/ RegisterCommits(r) \/ ResetRequestCommits(r) \/ LoginFails(r) \/ RotationCommits(r)
       PROVE  Framed(r)
  BY <1>2, <1>3, <1>7, <1>8, <1>13 DEF SameUploads
<1>14. ASSUME NEW r \in Requests, LoginSucceeds(r) \/ CloseSockets(r) \/ Lock(r)
       PROVE  Framed(r)
  BY <1>3, <1>5, <1>9, <1>10, <1>11, <1>14 DEF SameUploads
<1>15. ASSUME NEW r \in Requests,
             \/ register(r) \/ resend_verification_email(r) \/ login(r) \/ change_password(r)
             \/ password_reset_request(r) \/ password_reset_confirm(r)
             \/ websocket_notifications(r)
       PROVE  Framed(r)
  BY <1>6, <1>15 DEF SameUploads
<1> HIDE DEF Framed
<1>16. CASE \E r \in Requests : Framed(r)
  BY <1>16 DEF Framed
<1>17. QED
  BY <1>12, <1>13, <1>14, <1>15, <1>16 DEF Next

LEMMA AccountStepFiles ==
  ASSUME UploadInv, AccountStep
  PROVE  FilesInv'
<1>1. /\ AccountInv /\ FilesInv /\ Next /\ UNCHANGED <<disk, file, charged, cut>>
      /\ disturbed' = disturbed /\ disturbed \in BOOLEAN
      /\ \A r \in Requests : AtWork(r) => request'[r] = request[r]
  BY DEF UploadInv, AccountStep, files, FilesInv, FilesTyped
<1>2. user'.avatar_url = user.avatar_url
  BY <1>1, AccountFrame DEF SameUploads
<1>3. CASE request' = request
  BY <1>1, <1>2, <1>3 DEF FilesInv, FilesTyped, WorkGood, Shown, Undisturbed, Writing, Replacing,
     AtWork, OnAvatar
<1>4. ASSUME NEW r \in Requests,
             \A q \in Requests \ {r} : request'[q] = request[q],
             request'[r].step \notin {"removes", "stores", "saves"},
             OnAvatar(r)' => OnAvatar(r),
             request'[r].row.avatar_url
               \in {request[r].row.avatar_url, user.avatar_url, NoFile}
      PROVE  FilesInv'
  <2>1. ~ AtWork(r)
    BY <1>1, <1>4 DEF AtWork
  <2>2. QED
    BY <1>1, <1>2, <1>4, <2>1, OffWork
<1>5. QED
  BY <1>1, <1>3, <1>4, AccountFrame

-----------------------------------------------------------------------------
(* Requests at work on a file.                                             *)

LEMMA StartFiles ==
  ASSUME AccountInv, FilesInv, NEW r \in Requests, StartUpload(r)
  PROVE  FilesInv'
<1>1. PICK v \in tokens, op \in {"image", "avatar"} :
        /\ Begin(r, op, "waits", NoProc, NoPassword, NoPassword, v)
        /\ disturbed' = (disturbed \/ (op = "avatar" /\ \E q \in Requests : OnAvatar(q)))
        /\ UNCHANGED <<disk, file, charged, cut>>
  BY DEF StartUpload
<1>2. request \in [Requests -> RequestStates] /\ disturbed \in BOOLEAN
  BY DEF AccountInv, TypeOK, FilesInv, FilesTyped
<1>3. /\ user' = user /\ \A q \in Requests \ {r} : request'[q] = request[q]
      /\ request'[r].op = op /\ request'[r].step = "waits" /\ request'[r].row = user
      /\ request[r] = Idle
  BY <1>1, <1>2 DEF Begin, ReadFirst
<1>4. ~ AtWork(r)
  BY <1>3 DEF AtWork, Idle
<1>5. /\ disturbed' \in BOOLEAN /\ (disturbed => disturbed')
      /\ op = "avatar" => disturbed' \/ \A q \in Requests : ~ OnAvatar(q)
  BY <1>1, <1>2
<1>6. OnAvatar(r)' => disturbed' \/ \A q \in Requests : ~ OnAvatar(q)
  <2>1. OnAvatar(r)' => op = "avatar"
    BY <1>1, <1>3 DEF OnAvatar
  <2>2. QED
    BY <1>5, <2>1
<1>7. QED
  BY <1>1, <1>3, <1>4, <1>5, <1>6, OffWork

LEMMA OverQuotaFiles ==
  ASSUME AccountInv, FilesInv, NEW r \in Requests, OverQuota(r)
  PROVE  FilesInv'
<1>1. /\ user' = user /\ UNCHANGED <<disk, file, charged, cut, disturbed>>
      /\ request[r].step = "locked" /\ Finish(r) /\ TypeOK /\ disturbed \in BOOLEAN
  BY DEF OverQuota, files, AccountInv, FilesInv, FilesTyped
<1>2. request'[r] = Idle /\ \A q \in Requests \ {r} : request'[q] = request[q]
  BY <1>1, FinishFrame
<1>3. QED
  BY <1>1, <1>2, OffWork DEF Idle, NoAccount, AtWork, OnAvatar

LEMMA DeleteFiles ==
  ASSUME AccountInv, FilesInv, NEW r \in Requests, delete_avatar(r)
  PROVE  FilesInv'
<1>1. /\ FilesTyped /\ Shown /\ \A q \in Requests : WorkGood(q)
      /\ disturbed = FALSE => Undisturbed
  BY FilesFacts
<1>2. /\ user' = user /\ UNCHANGED <<disk, file, charged, cut>>
      /\ disturbed' = (disturbed \/ \E q \in Requests : OnAvatar(q))
  BY DEF delete_avatar, Begin
<1>3. /\ \A q \in Requests \ {r} : request'[q] = request[q]
      /\ request'[r].op = "remove" /\ request'[r].step = "removes" /\ request'[r].row = user
      /\ request[r] = Idle
  BY DEF delete_avatar, Begin, ReadFirst, AccountInv, TypeOK
<1>4. FilesTyped'
  BY <1>1, <1>2 DEF FilesTyped
<1>5. /\ \A q \in Requests \ {r} : /\ AtWork(q)' <=> AtWork(q)
                                   /\ OnAvatar(q)' <=> OnAvatar(q)
                                   /\ Writing(q)' <=> Writing(q)
                                   /\ Replacing(q)' <=> Replacing(q)
      /\ ~ AtWork(r) /\ ~ Replacing(r) /\ ~ Writing(r)
      /\ ~ Replacing(r)' /\ ~ Writing(r)' /\ OnAvatar(r)'
  BY <1>3 DEF AtWork, Writing, Replacing, OnAvatar, Idle
<1>6. ASSUME NEW q \in Requests
      PROVE  WorkGood(q)'
  <2>1. CASE q = r
    BY <1>1, <1>2, <1>3, <1>5, <2>1 DEF WorkGood, FilesTyped
  <2>2. CASE q # r
    <3>1. WorkGood(q) /\ request'[q] = request[q]
      BY <1>1, <1>3, <2>2
    <3>2. ASSUME Writing(q)
          PROVE  /\ \A p \in Requests : request'[p].row.avatar_url # file[q]
                 /\ \A p \in Requests \ {q} : Writing(p)' => file[p] # file[q]
      BY <1>3, <1>5, <3>1, <3>2 DEF WorkGood
    <3>3. QED
      BY <1>2, <1>5, <2>2, <3>1, <3>2 DEF WorkGood, OnAvatar, AtWork
  <2>3. QED
    BY <2>1, <2>2
<1>7. Shown'
  <2>1. CASE user.avatar_url \in disk \cup {NoFile} \cup cut
    BY <1>2, <2>1 DEF Shown
  <2>2. CASE \E q \in Requests : Replacing(q) /\ request[q].row.avatar_url = user.avatar_url
    <3>1. PICK q \in Requests : Replacing(q) /\ request[q].row.avatar_url = user.avatar_url
      BY <2>2
    <3>2. q # r
      BY <1>5, <3>1
    <3>3. Replacing(q)' /\ request'[q].row.avatar_url = user'.avatar_url
      BY <1>2, <1>3, <1>5, <3>1, <3>2
    <3>4. QED
      BY <3>3 DEF Shown
  <2>3. QED
    BY <1>1, <2>1, <2>2 DEF Shown
<1>8. ASSUME disturbed' = FALSE
      PROVE  Undisturbed'
  <2>1. Undisturbed /\ \A q \in Requests : ~ OnAvatar(q)
    BY <1>1, <1>2, <1>8 DEF FilesTyped
  <2>2. \A q \in Requests \ {r} : ~ OnAvatar(q)'
    BY <1>5, <2>1
  <2>3. \A q \in Requests : OnAvatar(q)' => q = r
    BY <2>2
  <2>4. \A q \in Requests : ~ Replacing(q)'
    BY <1>5, <2>1 DEF Replacing
  <2>5. ASSUME NEW f \in disk, charged[f].op = "avatar"
        PROVE  f = user.avatar_url
    BY <2>1, <2>5 DEF Undisturbed, OnAvatar
  <2>6. QED
    BY <1>2, <1>3, <2>3, <2>4, <2>5 DEF Undisturbed
<1>9. QED
  BY <1>4, <1>6, <1>7, <1>8 DEF FilesInv, FilesTyped

LEMMA RemoveFiles ==
  ASSUME AccountInv, FilesInv, NEW r \in Requests, RemoveOld(r)
  PROVE  FilesInv'
<1> DEFINE old == request[r].row.avatar_url
<1>1. /\ FilesTyped /\ Shown /\ \A q \in Requests : WorkGood(q)
      /\ disturbed = FALSE => Undisturbed
  BY FilesFacts
<1>2. /\ user' = user /\ UNCHANGED <<file, charged, cut, disturbed>>
      /\ disk' = disk \ {old} /\ request[r].step = "removes"
  BY DEF RemoveOld, Old
<1>3. PICK s \in {"stores", "saves"} :
        Become(r, s) /\ s = IF request[r].op = "avatar" THEN "stores" ELSE "saves"
  BY DEF RemoveOld
<1>4. /\ TypeOK /\ request \in [Requests -> RequestStates]
      /\ request'[r] = [request[r] EXCEPT !.step = s]
      /\ \A q \in Requests \ {r} : request'[q] = request[q]
  BY <1>3, BecomeFrame DEF AccountInv, TypeOK, Steps
<1>5. /\ request'[r].step = s /\ request'[r].op = request[r].op
      /\ request'[r].row = request[r].row /\ OnAvatar(r)
  BY <1>1, <1>2, <1>4 DEF RequestStates, WorkGood
<1>6. /\ \A q \in Requests : /\ AtWork(q)' <=> AtWork(q)
                             /\ OnAvatar(q)' <=> OnAvatar(q)
                             /\ Writing(q)' <=> Writing(q)
                             /\ request'[q].op = request[q].op
                             /\ request'[q].row = request[q].row
                             /\ Replacing(q) => Replacing(q)'
      /\ Replacing(r)'
  BY <1>2, <1>4, <1>5 DEF AtWork, Writing, Replacing, OnAvatar
<1>7. FilesTyped'
  BY <1>1, <1>2 DEF FilesTyped
<1>8. ASSUME NEW q \in Requests
      PROVE  WorkGood(q)'
  <2>1. WorkGood(q)
    BY <1>1
  <2>2. request'[q].step = "saves" /\ request'[q].op = "avatar" => file[q] \in disk'
    <3>1. CASE q = r
      BY <1>3, <1>5, <3>1
    <3>2. CASE q # r
      <4>1. request[q].step = "saves" /\ request[q].op = "avatar"
              => file[q] \in disk /\ file[q] # old
        BY <2>1, <3>2 DEF WorkGood, Writing, AtWork
      <4>2. QED
        BY <1>2, <1>4, <3>2, <4>1
    <3>3. QED
      BY <3>1, <3>2
  <2>3. /\ request'[q].step = "removes" => OnAvatar(q)'
        /\ request'[q].step = "stores" => Writing(q)'
        /\ request'[q].step = "saves" => OnAvatar(q)'
    <3>1. CASE q = r
      BY <1>3, <1>5, <1>6, <3>1 DEF Writing, AtWork
    <3>2. CASE q # r
      BY <1>4, <1>6, <2>1, <3>2 DEF WorkGood
    <3>3. QED
      BY <3>1, <3>2
  <2>4. QED
    BY <1>2, <1>6, <2>1, <2>2, <2>3 DEF WorkGood
<1>9. Shown'
  <2>1. CASE user.avatar_url = old
    BY <1>2, <1>6, <2>1 DEF Shown
  <2>2. CASE user.avatar_url # old
    BY <1>1, <1>2, <1>6, <2>2 DEF Shown
  <2>3. QED
    BY <2>1, <2>2
<1>10. ASSUME disturbed' = FALSE
       PROVE  Undisturbed'
  <2>1. Undisturbed
    BY <1>1, <1>2, <1>10
  <2>2. old = user.avatar_url
    BY <1>2, <1>5, <2>1 DEF Undisturbed, AtWork
  <2>3. user'.avatar_url \notin disk'
    BY <1>2, <2>2
  <2>4. QED
    BY <1>2, <1>6, <2>1, <2>3 DEF Undisturbed
<1>11. QED
  BY <1>7, <1>8, <1>9, <1>10 DEF FilesInv, FilesTyped

LEMMA StoreFiles ==
  ASSUME AccountInv, FilesInv, NEW r \in Requests, Store(r)
  PROVE  FilesInv'
<1>1. /\ FilesTyped /\ Shown /\ \A q \in Requests : WorkGood(q)
      /\ disturbed = FALSE => Undisturbed
  BY FilesFacts
<1>2. /\ user' = user /\ UNCHANGED <<file, charged, cut, disturbed>>
      /\ disk' = disk \cup {file[r]} /\ request[r].step = "stores"
  BY DEF Store
<1>3. /\ Writing(r) /\ file[r] # 0 /\ charged[file[r]].op = request[r].op
      /\ file[r] # user.avatar_url /\ file[r] \in 1 .. Len(charged)
  BY <1>1, <1>2 DEF WorkGood, FilesTyped
<1>4. /\ \A q \in Requests \ {r} : request'[q] = request[q]
      /\ request[r].op = "avatar" =>
           /\ request'[r].step = "saves" /\ request'[r].op = "avatar"
           /\ request'[r].row = request[r].row
      /\ request[r].op # "avatar" => request'[r] = Idle
  <2>1. TypeOK /\ request \in [Requests -> RequestStates]
    BY DEF AccountInv, TypeOK
  <2>2. CASE request[r].op = "avatar"
    <3>1. /\ request'[r] = [request[r] EXCEPT !.step = "saves"]
          /\ \A q \in Requests \ {r} : request'[q] = request[q]
      BY <2>1, <2>2, BecomeFrame DEF Store, Steps
    <3>2. QED
      BY <2>1, <2>2, <3>1 DEF RequestStates
  <2>3. CASE request[r].op # "avatar"
    BY <2>1, <2>3, FinishFrame DEF Store
  <2>4. QED
    BY <2>2, <2>3
<1>5. FilesTyped'
  BY <1>1, <1>2, <1>3 DEF FilesTyped
<1>6. ASSUME NEW q \in Requests
      PROVE  /\ Writing(q)' => Writing(q) /\ request'[q].op = request[q].op
             /\ OnAvatar(q)' => OnAvatar(q)
             /\ AtWork(q)' => AtWork(q) /\ request'[q].row = request[q].row
             /\ Replacing(q)' <=> Replacing(q)
             /\ request'[q].row.avatar_url \in {request[q].row.avatar_url, NoFile}
             /\ Replacing(q) => request'[q].row = request[q].row
             /\ AtWork(q) /\ request[q].op = "avatar" => AtWork(q)' /\ request'[q].op = "avatar"
  <2>1. CASE q = r
    BY <1>2, <1>3, <1>4, <2>1 DEF AtWork, Writing, Replacing, OnAvatar, Idle, NoAccount
  <2>2. CASE q # r
    BY <1>4, <2>2 DEF AtWork, Writing, Replacing, OnAvatar
  <2>3. QED
    BY <2>1, <2>2
<1>7. ASSUME NEW q \in Requests
      PROVE  WorkGood(q)'
  <2>1. WorkGood(q) /\ 0 \in 0 .. Len(charged)
    BY <1>1 DEF FilesTyped
  <2>2. request'[q].row.avatar_url \in 0 .. Len(charged)
    BY <1>6, <2>1 DEF WorkGood, NoFile
  <2>3. ASSUME Writing(q)'
        PROVE  /\ file[q] # 0 /\ charged[file[q]].op = request'[q].op
               /\ file[q] # user.avatar_url
               /\ \A p \in Requests : request'[p].row.avatar_url # file[q]
               /\ \A p \in Requests \ {q} : Writing(p)' => file[p] # file[q]
    BY <1>6, <2>1, <2>3 DEF WorkGood, NoFile
  <2>4. /\ AtWork(q)' => request'[q].op \in {"image", "avatar", "remove"}
        /\ request'[q].step = "removes" => OnAvatar(q)'
        /\ request'[q].step = "stores" => Writing(q)'
        /\ request'[q].step = "saves" => OnAvatar(q)'
        /\ request'[q].step = "saves" /\ request'[q].op = "avatar" => file[q] \in disk'
    <3>1. CASE q = r
      BY <1>2, <1>4, <3>1 DEF AtWork, OnAvatar, Writing, Idle
    <3>2. CASE q # r
      BY <1>2, <1>4, <2>1, <3>2 DEF WorkGood, AtWork, OnAvatar, Writing
    <3>3. QED
      BY <3>1, <3>2
  <2>5. QED
    BY <1>2, <2>2, <2>3, <2>4 DEF WorkGood
<1>8. Shown'
  BY <1>1, <1>2, <1>6 DEF Shown
<1>9. ASSUME disturbed' = FALSE
      PROVE  Undisturbed'
  <2>1. Undisturbed
    BY <1>1, <1>2, <1>9
  <2>2. \A q \in Requests : Replacing(q)' => user'.avatar_url \notin disk'
    BY <1>2, <1>3, <1>6, <2>1 DEF Undisturbed
  <2>3. ASSUME NEW f \in disk', charged[f].op = "avatar"
        PROVE  \/ f = user.avatar_url
               \/ \E p \in Requests : AtWork(p)' /\ request'[p].op = "avatar" /\ f = file[p]
    <3>1. CASE f = file[r]
      <4>1. AtWork(r) /\ request[r].op = "avatar"
        BY <1>3, <2>3, <3>1 DEF Writing
      <4>2. QED
        BY <1>6, <3>1, <4>1
    <3>2. CASE f \in disk
      BY <1>6, <2>1, <2>3, <3>2 DEF Undisturbed
    <3>3. QED
      BY <1>2, <3>1, <3>2
  <2>4. QED
    BY <1>2, <1>6, <2>1, <2>2, <2>3 DEF Undisturbed
<1>10. QED
  BY <1>5, <1>7, <1>8, <1>9 DEF FilesInv, FilesTyped

(* A request at work that ends leaves nothing behind in the others.        *)
LEMMA EndOfWork ==
  ASSUME FilesInv, NEW r \in Requests, request'[r] = Idle,
         \A q \in Requests \ {r} : request'[q] = request[q]
  PROVE  \A q \in Requests :
           /\ AtWork(q)' \/ Writing(q)' \/ OnAvatar(q)' \/ Replacing(q)'
                => q # r /\ request'[q] = request[q]
           /\ request'[q].row.avatar_url \in {request[q].row.avatar_url, NoFile}
           /\ q # r => /\ AtWork(q)' <=> AtWork(q)
                       /\ Writing(q)' <=> Writing(q)
                       /\ OnAvatar(q)' <=> OnAvatar(q)
                       /\ Replacing(q)' <=> Replacing(q)
BY DEF AtWork, Writing, OnAvatar, Replacing, Idle, NoAccount

LEMMA WorkGoodIdle ==
  ASSUME NEW r \in Requests, request'[r] = Idle, Len(charged') \in Nat
  PROVE  WorkGood(r)'
BY DEF WorkGood, AtWork, Writing, OnAvatar, Idle, NoAccount, NoFile

LEMMA SaveFiles ==
  ASSUME AccountInv, FilesInv, NEW r \in Requests, SaveAvatar(r)
  PROVE  FilesInv'
<1>1. /\ FilesTyped /\ Shown /\ \A q \in Requests : WorkGood(q)
      /\ disturbed = FALSE => Undisturbed
      /\ Len(charged) \in Nat
  BY FilesFacts
<1> DEFINE url == IF request[r].op = "avatar" THEN file[r] ELSE NoFile
<1>2. /\ UNCHANGED <<disk, file, charged, cut, disturbed>>
      /\ user'.avatar_url = url /\ request[r].step = "saves" /\ Finish(r) /\ TypeOK
  BY DEF SaveAvatar, files, AccountInv, TypeOK, RowsOfUser
<1>3. request'[r] = Idle /\ \A q \in Requests \ {r} : request'[q] = request[q]
  BY <1>2, FinishFrame
<1>4. /\ AtWork(r) /\ OnAvatar(r) /\ Replacing(r)
      /\ request[r].op = "avatar" => file[r] \in disk /\ Writing(r)
  BY <1>1, <1>2 DEF WorkGood, AtWork, Replacing, Writing
<1>5. url \in disk \cup {NoFile} /\ url \in 0 .. Len(charged)
  BY <1>1, <1>4 DEF FilesTyped, NoFile
<1>6. FilesTyped'
  BY <1>1, <1>2, <1>5 DEF FilesTyped
<1>7. ASSUME NEW q \in Requests
      PROVE  WorkGood(q)'
  <2>1. CASE q = r
    BY <1>1, <1>2, <1>3, <2>1, WorkGoodIdle
  <2>2. CASE q # r
    <3>1. WorkGood(q) /\ request'[q] = request[q]
      BY <1>1, <1>3, <2>2
    <3>2. ASSUME Writing(q)
          PROVE  /\ file[q] # url
                 /\ \A p \in Requests : request'[p].row.avatar_url # file[q]
                 /\ \A p \in Requests \ {q} : Writing(p)' => file[p] # file[q]
      <4>1. file[q] # url
        BY <1>4, <2>2, <3>1, <3>2 DEF WorkGood, NoFile
      <4>2. QED
        BY <1>3, <3>1, <3>2, <4>1, EndOfWork DEF WorkGood, NoFile
    <3>3. AtWork(q)' <=> AtWork(q)
      BY <3>1 DEF AtWork
    <3>4. (Writing(q)' <=> Writing(q)) /\ (OnAvatar(q)' <=> OnAvatar(q))
      BY <3>1 DEF AtWork, Writing, OnAvatar
    <3>5. QED
      BY <1>2, <3>1, <3>2, <3>3, <3>4 DEF WorkGood
  <2>3. QED
    BY <2>1, <2>2
<1>8. Shown'
  BY <1>2, <1>5 DEF Shown
<1>9. ASSUME disturbed' = FALSE
      PROVE  Undisturbed'
  <2>1. Undisturbed
    BY <1>1, <1>2, <1>9
  <2>2. \A q \in Requests : ~ OnAvatar(q)'
    <3>1. \A q \in Requests : OnAvatar(q) => q = r
      BY <1>4, <2>1 DEF Undisturbed
    <3>2. QED
      BY <1>3, <3>1, EndOfWork
  <2>3. ASSUME NEW f \in disk, charged[f].op = "avatar"
        PROVE  f = url
    <3>1. f # user.avatar_url
      BY <1>4, <2>1 DEF Undisturbed
    <3>2. PICK p \in Requests : AtWork(p) /\ request[p].op = "avatar" /\ f = file[p]
      BY <2>1, <2>3, <3>1 DEF Undisturbed
    <3>3. p = r
      BY <1>4, <2>1, <3>2 DEF Undisturbed, OnAvatar
    <3>4. QED
      BY <3>2, <3>3
  <2>4. \A q \in Requests : ~ Replacing(q)'
    BY <2>2 DEF Replacing
  <2>5. QED
    BY <1>2, <2>2, <2>3, <2>4 DEF Undisturbed
<1>10. QED
  BY <1>6, <1>7, <1>8, <1>9 DEF FilesInv, FilesTyped

LEMMA BreakFiles ==
  ASSUME AccountInv, FilesInv, NEW r \in Requests, BreaksOff(r)
  PROVE  FilesInv'
<1>1. /\ FilesTyped /\ Shown /\ \A q \in Requests : WorkGood(q)
      /\ Len(charged) \in Nat
  BY FilesFacts
<1> DEFINE old == request[r].row.avatar_url
<1>2. /\ user' = user /\ UNCHANGED <<file, charged>> /\ disturbed' = TRUE
      /\ \/ disk' = disk
         \/ request[r].step = "removes" /\ disk' = disk \ {old}
         \/ request[r].step = "stores" /\ disk' = disk \cup {file[r]}
      /\ cut' = IF OnAvatar(r) THEN cut \cup {old} ELSE cut
      /\ Finish(r) /\ TypeOK
  BY DEF BreaksOff, Abort, Old, AccountInv
<1>3. request'[r] = Idle /\ \A q \in Requests \ {r} : request'[q] = request[q]
  BY <1>2, FinishFrame
<1>4. /\ request[r].step = "removes" => OnAvatar(r)
      /\ request[r].step = "stores" => file[r] \in 1 .. Len(charged)
  BY <1>1 DEF WorkGood, FilesTyped
<1>5. FilesTyped'
  BY <1>1, <1>2, <1>4 DEF FilesTyped
<1>6. ASSUME NEW q \in Requests
      PROVE  WorkGood(q)'
  <2>1. CASE q = r
    BY <1>1, <1>2, <1>3, <2>1, WorkGoodIdle
  <2>2. CASE q # r
    <3>1. WorkGood(q) /\ request'[q] = request[q]
      BY <1>1, <1>3, <2>2
    <3>2. ASSUME Writing(q)
          PROVE  /\ file[q] # old
                 /\ \A p \in Requests : request'[p].row.avatar_url # file[q]
                 /\ \A p \in Requests \ {q} : Writing(p)' => file[p] # file[q]
      BY <1>3, <3>1, <3>2, EndOfWork DEF WorkGood, NoFile
    <3>3. /\ AtWork(q)' <=> AtWork(q)
          /\ Writing(q)' <=> Writing(q)
          /\ OnAvatar(q)' <=> OnAvatar(q)
      BY <1>3, <2>2, EndOfWork
    <3>4. request[q].step = "saves" /\ request[q].op = "avatar" => file[q] \in disk'
      <4>1. request[q].step = "saves" /\ request[q].op = "avatar"
              => file[q] \in disk /\ file[q] # old
        BY <3>1, <3>2 DEF WorkGood, Writing, AtWork
      <4>2. QED
        BY <1>2, <4>1
    <3>5. QED
      BY <1>2, <3>1, <3>2, <3>3, <3>4 DEF WorkGood
  <2>3. QED
    BY <2>1, <2>2
<1>7. Shown'
  <2>1. CASE user.avatar_url \in disk \cup {NoFile} \cup cut
    BY <1>2, <1>4, <2>1 DEF Shown
  <2>2. CASE \E q \in Requests : Replacing(q) /\ request[q].row.avatar_url = user.avatar_url
    <3>1. PICK q \in Requests : Replacing(q) /\ request[q].row.avatar_url = user.avatar_url
      BY <2>2
    <3>2. CASE q = r
      BY <1>2, <3>1, <3>2 DEF Shown, Replacing
    <3>3. CASE q # r
      <4>1. Replacing(q)' /\ request'[q] = request[q]
        BY <1>3, <3>1, <3>3, EndOfWork
      <4>2. QED
        BY <1>2, <3>1, <4>1 DEF Shown
    <3>4. QED
      BY <3>2, <3>3
  <2>3. QED
    BY <1>1, <2>1, <2>2 DEF Shown
<1>8. QED
  BY <1>2, <1>5, <1>6, <1>7 DEF FilesInv

LEMMA ChargeFiles ==
  ASSUME AccountInv, FilesInv, NEW r \in Requests, Charge(r)
  PROVE  FilesInv'
<1>1. /\ FilesTyped /\ Shown /\ \A q \in Requests : WorkGood(q)
      /\ disturbed = FALSE => Undisturbed
      /\ Len(charged) \in Nat
  BY FilesFacts
<1>2. /\ TypeOK /\ request \in [Requests -> RequestStates] /\ user \in RowsOfUser
      /\ now \in 0 .. Horizon /\ request[r].row = user
      /\ request[r].op \in {"image", "avatar"} /\ request[r].step = "locked"
  BY DEF AccountInv, TypeOK, Charge, RequestGood, Locked
<1>3. PICK s \in {"removes", "stores"} :
        Become(r, s) /\ s = IF request[r].op = "avatar" THEN "removes" ELSE "stores"
  BY DEF Charge
<1>4. PICK row \in Charges :
        /\ row.op = request[r].op
        /\ charged' = Append(charged, row) /\ file' = [file EXCEPT ![r] = Len(charged) + 1]
        /\ user'.avatar_url = user.avatar_url /\ UNCHANGED <<disk, cut, disturbed>>
  <2>1. PICK size \in Sizes :
          /\ charged' = Append(charged, [at |-> now, size |-> size, op |-> request[r].op])
          /\ file' = [file EXCEPT ![r] = Len(charged) + 1]
          /\ UNCHANGED <<disk, cut, disturbed>>
    BY DEF Charge
  <2>2. user'.avatar_url = user.avatar_url
    BY <1>2 DEF Charge, RowsOfUser
  <2>3. [at |-> now, size |-> size, op |-> request[r].op] \in Charges
    BY <1>2, SizesAssumption DEF Charges
  <2>4. QED
    BY <2>1, <2>2, <2>3
<1>5. /\ request'[r] = [request[r] EXCEPT !.step = s]
      /\ \A q \in Requests \ {r} : request'[q] = request[q]
  BY <1>2, <1>3, BecomeFrame DEF Steps
<1>6. /\ request'[r].step = s /\ request'[r].op = request[r].op /\ request'[r].row = request[r].row
  BY <1>2, <1>5 DEF RequestStates
<1>7. /\ Len(charged') = Len(charged) + 1 /\ charged' \in Seq(Charges)
      /\ \A i \in 1 .. Len(charged) : charged'[i] = charged[i]
      /\ charged'[Len(charged) + 1] = row
  BY <1>1, <1>4 DEF FilesTyped
<1>8. /\ file'[r] = Len(charged) + 1
      /\ \A q \in Requests \ {r} : file'[q] = file[q] /\ file[q] \in 0 .. Len(charged)
  BY <1>1, <1>4 DEF FilesTyped
<1>9. FilesTyped'
  <2>1. file' \in [Requests -> 0 .. Len(charged) + 1]
    BY <1>1, <1>4, <1>8 DEF FilesTyped
  <2>2. QED
    BY <1>1, <1>4, <1>7, <2>1 DEF FilesTyped
<1>10. /\ \A q \in Requests \ {r} : /\ AtWork(q)' <=> AtWork(q)
                                    /\ Writing(q)' <=> Writing(q)
       /\ \A q \in Requests : /\ OnAvatar(q)' <=> OnAvatar(q)
                              /\ request'[q].row = request[q].row
                              /\ request'[q].op = request[q].op
       /\ ~ AtWork(r) /\ ~ Writing(r)
       /\ AtWork(r)' /\ Writing(r)'
  BY <1>2, <1>5, <1>6 DEF AtWork, Writing, OnAvatar
<1>11. ASSUME NEW q \in Requests
       PROVE  WorkGood(q)'
  <2>1. WorkGood(q) /\ \A p \in Requests : request[p].row.avatar_url \in 0 .. Len(charged)
    BY <1>1 DEF WorkGood
  <2>2. request'[q].row.avatar_url \in 0 .. Len(charged')
    BY <1>1, <1>7, <1>10, <2>1
  <2>3. CASE q = r
    <3>1. /\ file'[r] # 0 /\ charged'[file'[r]].op = request'[r].op
          /\ file'[r] # user'.avatar_url
      BY <1>1, <1>4, <1>6, <1>7, <1>8 DEF FilesTyped
    <3>2. \A p \in Requests : request'[p].row.avatar_url # file'[r]
      BY <1>1, <1>8, <1>10, <2>1
    <3>3. \A p \in Requests \ {r} : file'[p] # file'[r]
      BY <1>1, <1>8
    <3>4. /\ request'[r].step = "removes" => OnAvatar(r)'
          /\ request'[r].step \in {"removes", "stores"}
          /\ request'[r].op \in {"image", "avatar", "remove"}
      BY <1>2, <1>3, <1>6, <1>10 DEF OnAvatar
    <3>5. QED
      BY <1>10, <2>2, <2>3, <3>1, <3>2, <3>3, <3>4 DEF WorkGood
  <2>4. CASE q # r
    <3>1. request'[q] = request[q] /\ file'[q] = file[q] /\ file[q] \in 0 .. Len(charged)
      BY <1>5, <1>8, <2>4
    <3>2. ASSUME Writing(q)
          PROVE  /\ file[q] # 0 /\ charged'[file[q]].op = request[q].op
                 /\ file[q] # user.avatar_url
                 /\ \A p \in Requests : request'[p].row.avatar_url # file[q]
                 /\ \A p \in Requests \ {q} : Writing(p)' => file'[p] # file[q]
      <4>1. file[q] \in 1 .. Len(charged) /\ charged[file[q]].op = request[q].op
        BY <1>1, <2>1, <3>1, <3>2 DEF WorkGood
      <4>2. file'[r] # file[q]
        BY <1>1, <1>8, <3>1
      <4>3. \A p \in Requests \ {q, r} : Writing(p)' => file'[p] # file[q]
        BY <1>8, <1>10, <2>1, <3>2 DEF WorkGood
      <4>4. QED
        BY <1>7, <1>10, <2>1, <3>2, <4>1, <4>2, <4>3 DEF WorkGood
    <3>3. QED
      BY <1>4, <1>10, <2>1, <2>2, <2>4, <3>1, <3>2 DEF WorkGood
  <2>5. QED
    BY <2>3, <2>4
<1>12. \A q \in Requests : Replacing(q)' <=> Replacing(q)
  BY <1>2, <1>3, <1>5, <1>6 DEF Replacing, OnAvatar
<1>13. Shown'
  BY <1>1, <1>4, <1>10, <1>12 DEF Shown
<1>14. ASSUME disturbed' = FALSE
       PROVE  Undisturbed'
  <2>1. Undisturbed
    BY <1>1, <1>4, <1>14
  <2>2. \A q \in Requests : (OnAvatar(q) /\ AtWork(q))'
          => request'[q].row.avatar_url = user'.avatar_url
    BY <1>2, <1>4, <1>10, <2>1 DEF Undisturbed
  <2>3. ASSUME NEW f \in disk, charged'[f].op = "avatar"
        PROVE  \/ f = user.avatar_url
               \/ \E p \in Requests : AtWork(p)' /\ request'[p].op = "avatar" /\ f = file'[p]
    <3>1. charged[f].op = "avatar"
      BY <1>1, <1>7, <2>3 DEF FilesTyped
    <3>2. CASE f = user.avatar_url
      BY <3>2
    <3>3. CASE \E p \in Requests : AtWork(p) /\ request[p].op = "avatar" /\ f = file[p]
      BY <1>8, <1>10, <3>3
    <3>4. QED
      BY <2>1, <3>1, <3>2, <3>3 DEF Undisturbed
  <2>4. QED
    BY <1>4, <1>10, <1>12, <2>1, <2>2, <2>3 DEF Undisturbed
<1>15. QED
  BY <1>9, <1>11, <1>13, <1>14 DEF FilesInv, FilesTyped

-----------------------------------------------------------------------------
(* The invariant and what follows from it.                                 *)

LEMMA InitUploadInv == UploadsInit => UploadInv
<1> SUFFICES ASSUME UploadsInit
             PROVE  UploadInv
  OBVIOUS
<1>1. AccountInv
  BY InitAccountInv DEF UploadsInit
<1>2. /\ charged = <<>> /\ disk = {} /\ disturbed = FALSE /\ file = [r \in Requests |-> NoFile]
      /\ request = [r \in Requests |-> Idle] /\ Len(charged) = 0 /\ charged \in Seq(Charges)
  BY DEF UploadsInit, Init
<1>3. user.avatar_url = NoFile
  <2>1. user = NoAccount \/ \E p \in Passwords : user = Grandfathered(p)
    BY DEF UploadsInit, Init
  <2>2. NoAccount.avatar_url = NoFile
    BY DEF NoAccount
  <2>3. \A p \in Passwords : Grandfathered(p).avatar_url = NoFile
    BY DEF Grandfathered, NoAccount
  <2>4. QED
    BY <2>1, <2>2, <2>3
<1>4. FilesTyped
  <2>1. 0 \in 0 .. Len(charged) /\ {} \subseteq 1 .. Len(charged)
    BY <1>2
  <2>2. file \in [Requests -> 0 .. Len(charged)]
    BY <1>2, <2>1 DEF NoFile
  <2>3. QED
    BY <1>2, <1>3, <2>1, <2>2 DEF FilesTyped, NoFile
<1>5. \A r \in Requests : /\ request[r].row.avatar_url = 0
                          /\ ~ AtWork(r) /\ ~ Writing(r) /\ ~ OnAvatar(r) /\ ~ Replacing(r)
  BY <1>2 DEF AtWork, Writing, OnAvatar, Replacing, Idle, NoAccount, NoFile
<1>6. \A r \in Requests : WorkGood(r)
  BY <1>2, <1>5 DEF WorkGood, AtWork, Idle
<1>7. Shown /\ Undisturbed
  BY <1>2, <1>3, <1>5 DEF Shown, Undisturbed
<1>8. QED
  BY <1>1, <1>4, <1>6, <1>7 DEF UploadInv, FilesInv

LEMMA StepUploadInv ==
  ASSUME UploadInv, [UploadsNext]_<<vars, files>>
  PROVE  UploadInv'
<1>1. AccountInv /\ FilesInv
  BY DEF UploadInv
<1> SUFFICES FilesInv'
  BY UploadsKeepAccount DEF UploadInv
<1>2. CASE UNCHANGED <<vars, files>>
  BY <1>1, <1>2 DEF vars, files, FilesInv, FilesTyped, WorkGood, Shown, Undisturbed, Writing,
     Replacing, AtWork, OnAvatar
<1>3. CASE AccountStep
  BY <1>3, AccountStepFiles
<1>4. CASE \E r \in Requests :
       \/ StartUpload(r) \/ Charge(r) \/ OverQuota(r)
       \/ delete_avatar(r) \/ RemoveOld(r) \/ Store(r) \/ SaveAvatar(r)
       \/ BreaksOff(r)
  BY <1>1, <1>4, StartFiles, ChargeFiles, OverQuotaFiles, DeleteFiles, RemoveFiles, StoreFiles,
     SaveFiles, BreakFiles
<1>5. QED
  BY <1>2, <1>3, <1>4 DEF UploadsNext

LEMMA UploadInvariant == UploadsSpec => []UploadInv
BY InitUploadInv, StepUploadInv, PTL DEF UploadsSpec

(* For every number of requests and every quota: the avatar an account     *)
(* shows is on disk unless a request is at it or broke off, and no other   *)
(* avatar stays behind unless one broke off or two overlapped.             *)
THEOREM AvatarsMatchDisk == UploadsSpec => []AvatarMatchesDisk
<1>1. ASSUME UploadInv
      PROVE  AvatarMatchesDisk
  <2>1. /\ Shown /\ disturbed \in BOOLEAN
        /\ disturbed = FALSE => Undisturbed
    BY <1>1, FilesFacts DEF UploadInv, FilesTyped
  <2>2. user.avatar_url \notin disk \cup {NoFile}
          => \/ user.avatar_url \in cut
             \/ \E r \in Requests : AtWork(r) /\ request[r].row.avatar_url = user.avatar_url
    BY <2>1 DEF Shown, Replacing, AtWork
  <2>3. ~ disturbed =>
          \A f \in disk : charged[f].op = "avatar" =>
            \/ f = user.avatar_url
            \/ \E r \in Requests : AtWork(r) /\ f \in {file[r], request[r].row.avatar_url}
    BY <2>1 DEF Undisturbed
  <2>4. QED
    BY <2>2, <2>3 DEF AvatarMatchesDisk
<1>2. QED
  BY <1>1, UploadInvariant, PTL

(* Uploads on the same row take nothing away from what is proved of        *)
(* accounts: no update is lost, and sockets end with rotations.            *)
THEOREM UploadsLoseNothing == UploadsSpec => [](TypeOK /\ NothingLost /\ RotationEndsSockets)
<1>1. UploadInv => TypeOK /\ NothingLost /\ RotationEndsSockets
  BY DEF UploadInv, AccountInv, RowGood
<1>2. QED
  BY <1>1, UploadInvariant, PTL

(* No upload is a login, a rotation or a reset letter.                     *)
LEMMA UploadsHistory ==
  ASSUME [UploadsNext]_<<vars, files>>
  PROVE  [Next]_vars \/ UNCHANGED <<past, letters>>
<1>1. ASSUME NEW r \in Requests, StartUpload(r) \/ Charge(r) \/ OverQuota(r)
      PROVE  UNCHANGED <<past, letters>>
  <2>1. CASE StartUpload(r)
    BY <2>1 DEF StartUpload, Begin
  <2>2. CASE Charge(r)
    BY <2>2 DEF Charge
  <2>3. CASE OverQuota(r)
    BY <2>3 DEF OverQuota
  <2>4. QED
    BY <1>1, <2>1, <2>2, <2>3
<1>2. ASSUME NEW r \in Requests, delete_avatar(r) \/ RemoveOld(r) \/ Store(r) \/ SaveAvatar(r)
      PROVE  UNCHANGED <<past, letters>>
  <2>1. CASE delete_avatar(r)
    BY <2>1 DEF delete_avatar, Begin
  <2>2. CASE RemoveOld(r) \/ Store(r) \/ SaveAvatar(r)
    BY <2>2 DEF RemoveOld, Store, SaveAvatar
  <2>3. QED
    BY <1>2, <2>1, <2>2
<1>3. ASSUME NEW r \in Requests, BreaksOff(r)
      PROVE  UNCHANGED <<past, letters>>
  BY <1>3 DEF BreaksOff, Abort
<1>4. CASE AccountStep
  BY <1>4 DEF AccountStep
<1>5. QED
  BY <1>1, <1>2, <1>3, <1>4 DEF UploadsNext, vars

(* ... nor do they shorten a lockout, weaken the proof a rotation needs or *)
(* bring two reset letters closer.                                         *)
THEOREM UploadsKeepSteps ==
  UploadsSpec => FailuresAreSpaced /\ RotationsAreProved /\ ResetLettersSpaced
<1>1. ASSUME UploadInv, [UploadsNext]_<<vars, files>>
      PROVE  /\ [past'.streak > past.streak =>
                   \A t \in Tiers : user.failed_login_count >= t[1]
                     => past'.failed_at >= past.failed_at + t[2]]_vars
             /\ [past'.rotations > past.rotations =>
                   \E r \in Requests :
                     /\ request[r].step = "closed" /\ request'[r] = Idle
                     /\ IF request[r].op = "change" THEN request[r].given = user.password
                        ELSE request[r].claim = user.token_version]_vars
             /\ [past'.mailed_at # past.mailed_at \/ letters'.reset > letters.reset =>
                   past'.overlapped \/ past.mailed_at = Never
                     \/ past'.mailed_at >= past.mailed_at + Throttle]_vars
  <2>1. AccountInv /\ past.streak \in Nat /\ past.rotations \in Nat /\ letters.reset \in Nat
    BY <1>1 DEF UploadInv, AccountInv, TypeOK, History
  <2>2. CASE [Next]_vars
    BY <2>1, <2>2, FailuresStep, RotationsStep, LettersStep
  <2>3. CASE UNCHANGED <<past, letters>>
    BY <2>1, <2>3
  <2>4. QED
    BY <1>1, <2>2, <2>3, UploadsHistory
<1>2. QED
  BY <1>1, UploadInvariant, PTL
     DEF UploadsSpec, FailuresAreSpaced, RotationsAreProved, ResetLettersSpaced

-----------------------------------------------------------------------------
(* The quota.                                                              *)

(* The bytes of the charges in c that fall between two times.              *)
Counted(c, from, to) ==
  [i \in 1 .. Len(c) |-> IF from <= c[i].at /\ c[i].at <= to THEN c[i].size ELSE 0]
Taken(c, from, to) == Total(Counted(c, from, to), Len(c))

LEMMA CountedType ==
  ASSUME NEW c \in Seq(Charges), NEW from \in Int, NEW to \in Int
  PROVE  /\ Len(c) \in Nat /\ \A i \in 1 .. Len(c) : c[i] \in Charges
         /\ Counted(c, from, to) \in [1 .. Len(c) -> Nat]
         /\ Counted(c, from, to) \in [1 .. Len(c) -> Int]
         /\ \A i \in 1 .. Len(c) : Counted(c, from, to)[i] =
              IF from <= c[i].at /\ c[i].at <= to THEN c[i].size ELSE 0
<1>1. Len(c) \in Nat /\ \A i \in 1 .. Len(c) : c[i] \in Charges
  OBVIOUS
<1>2. \A i \in 1 .. Len(c) : c[i].at \in Int /\ c[i].size \in Nat
  BY <1>1, TimesAssumption DEF Charges
<1>3. QED
  BY <1>1, <1>2 DEF Counted

LEMMA ChargeTimes ==
  ASSUME NEW c \in Seq(Charges)
  PROVE  \A i \in 1 .. Len(c) : c[i] \in Charges /\ c[i].at \in Int
<1>1. \A i \in 1 .. Len(c) : c[i] \in Charges
  OBVIOUS
<1>2. QED
  BY <1>1 DEF Charges

LEMMA TakenInt ==
  ASSUME NEW c \in Seq(Charges), NEW from \in Int, NEW to \in Int
  PROVE  Taken(c, from, to) \in Int
BY CountedType, TotalInt DEF Taken

(* What falls in no charge's time is nothing.                              *)
LEMMA TakenNone ==
  ASSUME NEW c \in Seq(Charges), NEW from \in Int, NEW to \in Int,
         \A i \in 1 .. Len(c) : ~ (from <= c[i].at /\ c[i].at <= to)
  PROVE  Taken(c, from, to) = 0
BY CountedType, TotalZero DEF Taken

LEMMA Apportioned ==
  ASSUME NEW x \in Int, NEW n \in Nat, NEW from \in Int, NEW mid \in Int, NEW to \in Int,
         NEW last \in Int, x <= last
  PROVE  (IF from <= x /\ x <= to THEN n ELSE 0)
           <= (IF from <= x /\ x <= mid - 1 THEN n ELSE 0) + (IF mid <= x /\ x <= last THEN n ELSE 0)
OBVIOUS

(* A span is covered by what comes before a time and what comes after it.  *)
LEMMA TakenSplit ==
  ASSUME NEW c \in Seq(Charges), NEW from \in Int, NEW mid \in Int, NEW to \in Int
  PROVE  Taken(c, from, to) <= Taken(c, from, mid - 1) + Taken(c, mid, Horizon)
<1> DEFINE f == Counted(c, from, mid - 1)
           g == Counted(c, mid, Horizon)
           h == Counted(c, from, to)
<1>1. mid - 1 \in Int /\ Horizon \in Int
  BY TimesAssumption
<1>2. /\ Len(c) \in Nat /\ f \in [1 .. Len(c) -> Int] /\ g \in [1 .. Len(c) -> Int]
      /\ h \in [1 .. Len(c) -> Int]
  BY <1>1, CountedType
<1>3. \A i \in 1 .. Len(c) : h[i] <= f[i] + g[i]
  <2> SUFFICES ASSUME NEW i \in 1 .. Len(c) PROVE h[i] <= f[i] + g[i]
    OBVIOUS
  <2>1. c[i] \in Charges
    BY CountedType
  <2>2. c[i].at \in Int /\ c[i].at <= Horizon /\ c[i].size \in Nat
    BY <2>1, TimesAssumption DEF Charges
  <2>3. /\ f[i] = IF from <= c[i].at /\ c[i].at <= mid - 1 THEN c[i].size ELSE 0
        /\ g[i] = IF mid <= c[i].at /\ c[i].at <= Horizon THEN c[i].size ELSE 0
        /\ h[i] = IF from <= c[i].at /\ c[i].at <= to THEN c[i].size ELSE 0
    BY DEF Counted
  <2>4. PICK x, n : x = c[i].at /\ n = c[i].size
    OBVIOUS
  <2> HIDE DEF f, g, h
  <2>5. /\ f[i] = IF from <= x /\ x <= mid - 1 THEN n ELSE 0
        /\ g[i] = IF mid <= x /\ x <= Horizon THEN n ELSE 0
        /\ h[i] = IF from <= x /\ x <= to THEN n ELSE 0
    BY <2>3, <2>4
  <2>6. (IF from <= x /\ x <= to THEN n ELSE 0)
           <= (IF from <= x /\ x <= mid - 1 THEN n ELSE 0)
              + (IF mid <= x /\ x <= Horizon THEN n ELSE 0)
    <3>1. x \in Int /\ n \in Nat /\ x <= Horizon
      BY <2>2, <2>4
    <3>2. QED
      BY <1>1, <3>1, Apportioned
  <2>7. QED
    BY <2>5, <2>6
<1> HIDE DEF f, g, h
<1>4. Total(h, Len(c)) <= Total(f, Len(c)) + Total(g, Len(c))
  BY <1>2, <1>3, TotalWithin
<1>5. QED
  BY <1>4 DEF Taken, f, g, h

(* A span that begins no earlier takes no more than all there is since.    *)
LEMMA TakenSince ==
  ASSUME NEW c \in Seq(Charges), NEW from \in Int, NEW mid \in Int, NEW to \in Int, mid <= from
  PROVE  Taken(c, from, to) <= Taken(c, mid, Horizon)
<1>1. Taken(c, from, to) <= Taken(c, from, mid - 1) + Taken(c, mid, Horizon)
  BY TakenSplit
<1>2. Taken(c, from, mid - 1) = 0
  <2>1. \A i \in 1 .. Len(c) : c[i].at \in Int
    BY ChargeTimes
  <2>2. QED
    BY <2>1, TakenNone
<1>3. Taken(c, mid, Horizon) \in Int
  BY TakenInt, TimesAssumption
<1>4. QED
  BY <1>1, <1>2, <1>3

LEMMA TakenAppend ==
  ASSUME NEW c \in Seq(Charges), NEW row \in Charges, NEW from \in Int, NEW to \in Int
  PROVE  Taken(Append(c, row), from, to) =
           Taken(c, from, to) + IF from <= row.at /\ row.at <= to THEN row.size ELSE 0
<1>1. PICK d : d = Append(c, row)
  OBVIOUS
<1>2. /\ d \in Seq(Charges) /\ Len(d) = Len(c) + 1 /\ Len(c) \in Nat
      /\ \A i \in 1 .. Len(c) : d[i] = c[i]
      /\ d[Len(c) + 1] = row
  BY <1>1
<1> DEFINE f == Counted(c, from, to)
           g == Counted(d, from, to)
<1>3. f \in [1 .. Len(c) -> Int] /\ g \in [1 .. Len(c) + 1 -> Int]
  BY <1>2, CountedType
<1>4. \A i \in 1 .. Len(c) : g[i] = f[i]
  BY <1>2 DEF Counted
<1>5. g[Len(c) + 1] = IF from <= row.at /\ row.at <= to THEN row.size ELSE 0
  BY <1>2 DEF Counted
<1> HIDE DEF f, g
<1>6. Total(g, Len(c) + 1) = Total(f, Len(c)) + g[Len(c) + 1]
  BY <1>2, <1>3, <1>4, TotalAppend
<1>7. QED
  BY <1>1, <1>2, <1>5, <1>6 DEF Taken, f, g

(* The counter is what was taken since the window opened; all charges come *)
(* before the window's end; and of what came before it, no span that       *)
(* reaches into the window takes more than the quota.                      *)
QuotaGood(start, bytes, c, time) ==
  /\ start = Never => c = <<>>
  /\ start # Never =>
       /\ start <= time
       /\ \A i \in 1 .. Len(c) : c[i].at < start + Window
       /\ bytes = Taken(c, start, Horizon) /\ bytes <= Quota
       /\ \A t \in Int : start < t + Window => Taken(c, t, start - 1) <= Quota
  /\ \A t \in Int : Taken(c, t, t + Window - 1) <= 2 * Quota

(* The two quotas a span can take come from the window it ends in and from *)
(* what lay before it.                                                     *)
LEMMA TwoWindows ==
  ASSUME NEW c \in Seq(Charges), NEW row \in Charges, NEW start \in 0 .. row.at, NEW t \in Int,
         Taken(c, t, t + Window - 1) <= 2 * Quota,
         Taken(Append(c, row), start, Horizon) <= Quota,
         start < t + Window => Taken(Append(c, row), t, start - 1) <= Quota
  PROVE  Taken(Append(c, row), t, t + Window - 1) <= 2 * Quota
<1>1. row.at \in Int /\ start \in Int /\ Window \in Nat /\ Quota \in Nat /\ t + Window - 1 \in Int
  BY SizesAssumption, TimesAssumption DEF Charges
<1>2. CASE start < t + Window
  <2>1. PICK d \in Seq(Charges) : d = Append(c, row)
    <3>1. Append(c, row) \in Seq(Charges)
      OBVIOUS
    <3>2. QED
      BY <3>1
  <2>2. Taken(d, t, t + Window - 1) <= Taken(d, t, start - 1) + Taken(d, start, Horizon)
    BY <1>1, TakenSplit
  <2>3. PICK w, x, y \in Int : /\ w = Taken(d, t, t + Window - 1) /\ x = Taken(d, t, start - 1)
                               /\ y = Taken(d, start, Horizon)
    BY <1>1, TakenInt, TimesAssumption
  <2>4. w <= x + y /\ x <= Quota /\ y <= Quota
    BY <1>2, <2>1, <2>2, <2>3
  <2>5. w <= 2 * Quota
    BY <1>1, <2>4
  <2>6. QED
    BY <2>1, <2>3, <2>5
<1>3. CASE ~ (start < t + Window)
  <2>1. ~ (row.at <= t + Window - 1)
    BY <1>1, <1>3
  <2>2. Taken(Append(c, row), t, t + Window - 1) = Taken(c, t, t + Window - 1) + 0
    BY <1>1, <2>1, TakenAppend
  <2>3. Taken(c, t, t + Window - 1) \in Int
    BY <1>1, TakenInt
  <2>4. QED
    BY <2>2, <2>3
<1>4. QED
  BY <1>2, <1>3

LEMMA Before == \A x, y \in Int : y <= x => ~ (x <= y - 1) /\ y - 1 \in Int
OBVIOUS

LEMMA BeforeWindow == \A x, s, t, w \in Int : x - s >= w /\ x < t + w => s <= t
OBVIOUS

LEMMA ChargeInWindow ==
  ASSUME NEW start \in 0 .. Horizon, NEW bytes \in Nat, NEW c \in Seq(Charges),
         NEW row \in Charges, QuotaGood(start, bytes, c, row.at),
         row.at - start < Window, bytes + row.size <= Quota
  PROVE  QuotaGood(start, bytes + row.size, Append(c, row), row.at)
<1>1. /\ row.at \in Int /\ row.size \in Nat /\ start \in Int /\ Window \in Nat /\ Quota \in Nat
      /\ Horizon \in Int /\ row.at <= Horizon /\ start # Never
  BY SizesAssumption, TimesAssumption DEF Charges, Never
<1>2. /\ start <= row.at /\ bytes = Taken(c, start, Horizon)
      /\ \A i \in 1 .. Len(c) : c[i].at < start + Window
      /\ \A t \in Int : start < t + Window => Taken(c, t, start - 1) <= Quota
      /\ \A t \in Int : Taken(c, t, t + Window - 1) <= 2 * Quota
  BY <1>1 DEF QuotaGood
<1>3. PICK d \in Seq(Charges) : d = Append(c, row)
  <2>1. Append(c, row) \in Seq(Charges)
    OBVIOUS
  <2>2. QED
    BY <2>1
<1>4. \A i \in 1 .. Len(d) : d[i].at < start + Window
  <2>1. /\ Len(d) = Len(c) + 1 /\ Len(c) \in Nat /\ d[Len(c) + 1] = row
        /\ \A i \in 1 .. Len(c) : d[i] = c[i]
    BY <1>3
  <2>2. row.at < start + Window
    BY <1>1
  <2>3. QED
    BY <1>2, <2>1, <2>2
<1>5. bytes + row.size = Taken(d, start, Horizon)
  BY <1>1, <1>2, <1>3, TakenAppend
<1>6. ASSUME NEW t \in Int, start < t + Window
      PROVE  Taken(d, t, start - 1) <= Quota
  <2>1. ~ (row.at <= start - 1) /\ start - 1 \in Int
    <3>1. row.at \in Int /\ start \in Int /\ start <= row.at
      BY <1>1, <1>2
    <3>2. QED
      BY <3>1, Before
  <2>2. Taken(d, t, start - 1) = Taken(c, t, start - 1) + 0
    BY <1>3, <2>1, TakenAppend
  <2>3. Taken(c, t, start - 1) \in Int /\ Taken(c, t, start - 1) <= Quota
    BY <1>2, <1>6, <2>1, TakenInt
  <2>4. QED
    BY <2>2, <2>3
<1>7. ASSUME NEW t \in Int
      PROVE  Taken(d, t, t + Window - 1) <= 2 * Quota
  <2>1. start \in 0 .. row.at
    BY <1>1, <1>2
  <2>2. Taken(d, start, Horizon) <= Quota
    BY <1>5
  <2>3. QED
    BY <1>2, <1>3, <1>6, <2>1, <2>2, TwoWindows
<1>8. QED
  BY <1>1, <1>2, <1>3, <1>4, <1>5, <1>6, <1>7 DEF QuotaGood

LEMMA ChargeOpensWindow ==
  ASSUME NEW start \in Never .. Horizon, NEW bytes \in Nat, NEW c \in Seq(Charges),
         NEW row \in Charges, QuotaGood(start, bytes, c, row.at),
         start = Never \/ row.at - start >= Window, row.size <= Quota
  PROVE  QuotaGood(row.at, row.size, Append(c, row), row.at)
<1>1. /\ row.at \in Int /\ row.size \in Nat /\ start \in Int /\ Window \in Nat \ {0} /\ Quota \in Nat
      /\ Horizon \in Int /\ row.at <= Horizon /\ row.at # Never /\ row.at >= 0
  BY SizesAssumption, TimesAssumption DEF Charges, Never
<1>2. /\ start = Never => c = <<>>
      /\ start # Never => /\ bytes = Taken(c, start, Horizon) /\ bytes <= Quota
                          /\ \A i \in 1 .. Len(c) : c[i].at < start + Window
      /\ \A t \in Int : Taken(c, t, t + Window - 1) <= 2 * Quota
  BY DEF QuotaGood
<1>3. PICK d \in Seq(Charges) : d = Append(c, row)
  <2>1. Append(c, row) \in Seq(Charges)
    OBVIOUS
  <2>2. QED
    BY <2>1
<1>4. \A i \in 1 .. Len(c) : c[i].at < row.at
  <2> SUFFICES ASSUME NEW i \in 1 .. Len(c) PROVE c[i].at < row.at
    OBVIOUS
  <2>1. start # Never
    BY <1>2
  <2>2. c[i] \in Charges /\ c[i].at < start + Window
    BY <1>2, <2>1, CountedType
  <2>3. c[i].at \in Int
    BY <2>2 DEF Charges
  <2>4. QED
    BY <1>1, <2>1, <2>2, <2>3
<1>5. \A i \in 1 .. Len(d) : d[i].at < row.at + Window
  <2>1. /\ Len(d) = Len(c) + 1 /\ Len(c) \in Nat /\ d[Len(c) + 1] = row
        /\ \A i \in 1 .. Len(c) : d[i] = c[i] /\ c[i] \in Charges
    BY <1>3
  <2>2. row.at < row.at + Window
    BY <1>1
  <2>3. \A i \in 1 .. Len(c) : c[i].at < row.at + Window
    <3>1. \A i \in 1 .. Len(c) : c[i].at \in Int
      BY ChargeTimes
    <3>2. QED
      BY <1>1, <1>4, <3>1
  <2>4. QED
    BY <2>1, <2>2, <2>3
<1>6. row.size = Taken(d, row.at, Horizon)
  <2>1. Taken(c, row.at, Horizon) = 0
    <3>1. \A i \in 1 .. Len(c) : c[i].at \in Int
      BY ChargeTimes
    <3>2. QED
      BY <1>1, <1>4, <3>1, TakenNone
  <2>2. QED
    BY <1>1, <1>3, <2>1, TakenAppend
<1>7. ASSUME NEW t \in Int, row.at < t + Window
      PROVE  Taken(d, t, row.at - 1) <= Quota
  <2>1. ~ (row.at <= row.at - 1) /\ row.at - 1 \in Int
    BY <1>1
  <2>2. Taken(d, t, row.at - 1) = Taken(c, t, row.at - 1) + 0
    BY <1>3, <2>1, TakenAppend
  <2>3. Taken(c, t, row.at - 1) \in Int
    BY <2>1, TakenInt
  <2>4. CASE start = Never
    <3>1. Taken(c, t, row.at - 1) = 0
      <4>1. Len(c) = 0
        BY <1>2, <2>4
      <4>2. \A i \in 1 .. Len(c) : FALSE
        BY <4>1
      <4>3. QED
        BY <2>1, <4>2, TakenNone
    <3>2. QED
      BY <1>1, <2>2, <3>1
  <2>5. CASE start # Never
    <3>1. start <= t
      <4>1. row.at \in Int /\ start \in Int /\ Window \in Int /\ row.at - start >= Window
        BY <1>1, <2>5
      <4>2. QED
        BY <1>7, <4>1, BeforeWindow
    <3>2. Taken(c, t, row.at - 1) <= Taken(c, start, Horizon)
      BY <1>1, <2>1, <3>1, TakenSince
    <3>3. Taken(c, start, Horizon) \in Int /\ Taken(c, start, Horizon) <= Quota /\ Quota \in Int
      BY <1>1, <1>2, <2>5
    <3>5. Taken(c, t, row.at - 1) <= Quota
      BY <2>3, <3>2, <3>3
    <3>6. QED
      BY <2>2, <2>3, <3>5
  <2>6. QED
    BY <2>4, <2>5
<1>8. ASSUME NEW t \in Int
      PROVE  Taken(d, t, t + Window - 1) <= 2 * Quota
  <2>1. row.at \in 0 .. row.at
    BY <1>1
  <2>2. Taken(d, row.at, Horizon) <= Quota
    BY <1>6
  <2>3. QED
    BY <1>2, <1>3, <1>7, <2>1, <2>2, TwoWindows
<1>9. row.at # Never /\ row.at <= row.at /\ row.size <= Quota
  BY <1>1
<1>10. QED
  BY <1>3, <1>5, <1>6, <1>7, <1>8, <1>9 DEF QuotaGood

QuotaInv == QuotaGood(user.upload_window_start, user.upload_bytes_window, charged, now)

(* The quota's columns are locked from the read to the commit.             *)
LEMMA ChargeQuota ==
  ASSUME UploadInv, QuotaInv, NEW r \in Requests, Charge(r)
  PROVE  QuotaInv'
<1>1. /\ user \in RowsOfUser /\ now \in 0 .. Horizon /\ request[r].row = user
      /\ charged \in Seq(Charges) /\ request[r].op \in {"image", "avatar"}
  BY DEF UploadInv, AccountInv, TypeOK, FilesInv, FilesTyped, Charge, RequestGood, Locked
<1>2. PICK size \in Sizes :
        /\ Projected(user, size) <= Quota /\ now' = now
        /\ user' = [user EXCEPT
             !.upload_window_start = IF WindowOver(user.upload_window_start) THEN now
                                     ELSE user.upload_window_start,
             !.upload_bytes_window = Projected(user, size)]
        /\ charged' = Append(charged, [at |-> now, size |-> size, op |-> request[r].op])
  BY <1>1 DEF Charge
<1>3. PICK start \in Never .. Horizon, bytes \in Nat, c \in Seq(Charges) :
        start = user.upload_window_start /\ bytes = user.upload_bytes_window /\ c = charged
  BY <1>1 DEF RowsOfUser
<1>4. PICK row \in Charges :
        row = [at |-> now, size |-> size, op |-> request[r].op] /\ row.at = now /\ row.size = size
  <2>1. [at |-> now, size |-> size, op |-> request[r].op] \in Charges
    BY <1>1, SizesAssumption DEF Charges
  <2>2. QED
    BY <2>1
<1>5. QuotaGood(start, bytes, c, row.at)
  BY <1>3, <1>4 DEF QuotaInv
<1>6. /\ user'.upload_window_start = IF WindowOver(start) THEN row.at ELSE start
      /\ user'.upload_bytes_window = (IF WindowOver(start) THEN 0 ELSE bytes) + row.size
      /\ user'.upload_bytes_window <= Quota
      /\ charged' = Append(c, row) /\ now' = row.at
  BY <1>1, <1>2, <1>3, <1>4 DEF Projected, RowsOfUser
<1>7. WindowOver(start) <=> start = Never \/ row.at - start >= Window
  BY <1>4 DEF WindowOver
<1>8. /\ row.at \in Int /\ row.size \in Nat /\ Window \in Int /\ start \in Int
  BY SizesAssumption DEF Charges, Never
<1>9. CASE WindowOver(start)
  <2>1. row.size <= Quota /\ user'.upload_bytes_window = row.size
    BY <1>6, <1>8, <1>9
  <2>2. QuotaGood(row.at, row.size, Append(c, row), row.at)
    BY <1>5, <1>7, <1>9, <2>1, ChargeOpensWindow
  <2>3. QED
    BY <1>6, <1>9, <2>1, <2>2 DEF QuotaInv
<1>10. CASE ~ WindowOver(start)
  <2>1. start \in 0 .. Horizon /\ row.at - start < Window
    BY <1>7, <1>8, <1>10, TimesAssumption DEF Never
  <2>2. bytes + row.size <= Quota
    BY <1>6, <1>10
  <2>3. QuotaGood(start, bytes + row.size, Append(c, row), row.at)
    BY <1>5, <2>1, <2>2, ChargeInWindow
  <2>4. QED
    BY <1>6, <1>10, <2>3 DEF QuotaInv
<1>11. QED
  BY <1>9, <1>10

LEMMA TimeAdvances ==
  ASSUME AccountInv, Next
  PROVE  now <= now'
<1>1. now \in Int
  BY DEF AccountInv, TypeOK
<1>2. CASE Tick
  BY <1>1, <1>2 DEF Tick
<1>3. CASE verify_email \/ FanOutUnregisters \/ Disconnect
  BY <1>1, <1>3 DEF verify_email, FanOutUnregisters, Disconnect
<1>4. ASSUME NEW r \in Requests,
             \/ register(r) \/ resend_verification_email(r) \/ login(r) \/ change_password(r)
             \/ password_reset_request(r) \/ password_reset_confirm(r)
             \/ websocket_notifications(r)
      PROVE  now' = now
  BY <1>4 DEF Begin, register, resend_verification_email, login, change_password,
              password_reset_request, password_reset_confirm, websocket_notifications
<1>5. ASSUME NEW r \in Requests,
             \/ LoginRefused(r) \/ FreshToken(r) \/ RotationRefused(r) \/ Abort(r)
             \/ ResendCommits(r) \/ connect_user(r)
      PROVE  now' = now
  BY <1>5 DEF LoginRefused, FreshToken, RotationRefused, Abort, ResendCommits, connect_user
<1>6. ASSUME NEW r \in Requests,
             RegisterCommits(r) \/ ResetRequestCommits(r) \/ LoginFails(r) \/ RotationCommits(r)
      PROVE  now' = now
  BY <1>6 DEF RegisterCommits, ResetRequestCommits, LoginFails, RotationCommits
<1>7. ASSUME NEW r \in Requests, LoginSucceeds(r) \/ CloseSockets(r) \/ Lock(r)
      PROVE  now' = now
  BY <1>7 DEF LoginSucceeds, CloseSockets, Lock
<1>8. QED
  BY <1>1, <1>2, <1>3, <1>4, <1>5, <1>6, <1>7 DEF Next

(* Time passing and everything but a charge leave the count as it is.      *)
LEMMA QuotaStays ==
  ASSUME UploadInv, UploadInv', QuotaInv, now <= now', charged' = charged,
         user'.upload_window_start = user.upload_window_start,
         user'.upload_bytes_window = user.upload_bytes_window
  PROVE  QuotaInv'
<1>1. PICK start \in Int, t0 \in Int, t1 \in Int :
        start = user.upload_window_start /\ t0 = now /\ t1 = now' /\ t0 <= t1
  BY DEF UploadInv, AccountInv, TypeOK, RowsOfUser, Never
<1>2. start <= t0 => start <= t1
  BY <1>1
<1>3. PICK bytes : bytes = user.upload_bytes_window
  OBVIOUS
<1>4. QuotaGood(start, bytes, charged, t0)
  BY <1>1, <1>3 DEF QuotaInv
<1>5. QuotaGood(start, bytes, charged, t1)
  BY <1>2, <1>4 DEF QuotaGood
<1>6. QED
  BY <1>1, <1>3, <1>5 DEF QuotaInv

LEMMA QuotaStep ==
  ASSUME UploadInv, UploadInv', QuotaInv, [UploadsNext]_<<vars, files>>
  PROVE  QuotaInv'
<1>1. now \in Int /\ user \in RowsOfUser /\ AccountInv
  BY DEF UploadInv, AccountInv, TypeOK
<1>2. CASE UNCHANGED <<vars, files>>
  BY <1>1, <1>2, QuotaStays DEF vars, files
<1>3. CASE AccountStep
  <2>1. SameUploads /\ now <= now' /\ charged' = charged
    BY <1>1, <1>3, AccountFrame, TimeAdvances DEF AccountStep, files
  <2>2. QED
    BY <2>1, QuotaStays DEF SameUploads
<1>4. ASSUME NEW r \in Requests, StartUpload(r) \/ OverQuota(r) \/ delete_avatar(r)
      PROVE  QuotaInv'
  BY <1>1, <1>4, QuotaStays DEF StartUpload, OverQuota, delete_avatar, Begin, files
<1>5. ASSUME NEW r \in Requests, RemoveOld(r) \/ Store(r) \/ BreaksOff(r)
      PROVE  QuotaInv'
  BY <1>1, <1>5, QuotaStays DEF RemoveOld, Store, BreaksOff, Abort
<1>6. ASSUME NEW r \in Requests, SaveAvatar(r)
      PROVE  QuotaInv'
  <2>1. /\ user'.upload_window_start = user.upload_window_start
        /\ user'.upload_bytes_window = user.upload_bytes_window
        /\ now' = now /\ charged' = charged
    BY <1>1, <1>6 DEF SaveAvatar, files, RowsOfUser
  <2>2. QED
    BY <1>1, <2>1, QuotaStays
<1>7. ASSUME NEW r \in Requests, Charge(r)
      PROVE  QuotaInv'
  BY <1>7, ChargeQuota
<1>8. QED
  BY <1>2, <1>3, <1>4, <1>5, <1>6, <1>7 DEF UploadsNext

LEMMA InitQuota ==
  ASSUME UploadsInit
  PROVE  QuotaInv
<1>1. charged = <<>> /\ charged \in Seq(Charges) /\ Len(charged) = 0
  BY DEF UploadsInit
<1>2. user.upload_window_start = Never
  <2>1. user = NoAccount \/ \E p \in Passwords : user = Grandfathered(p)
    BY DEF UploadsInit, Init
  <2>2. NoAccount.upload_window_start = Never
    BY DEF NoAccount
  <2>3. \A p \in Passwords : Grandfathered(p).upload_window_start = Never
    BY DEF Grandfathered, NoAccount
  <2>4. QED
    BY <2>1, <2>2, <2>3
<1>3. ASSUME NEW t \in Int
      PROVE  Taken(charged, t, t + Window - 1) <= 2 * Quota
  <2>1. t + Window - 1 \in Int /\ Quota \in Nat
    BY SizesAssumption
  <2>2. PICK c \in Seq(Charges) : c = charged /\ Len(c) = 0
    BY <1>1
  <2>3. \A i \in 1 .. Len(c) : FALSE
    BY <2>2
  <2>4. Taken(c, t, t + Window - 1) = 0
    BY <2>1, <2>3, TakenNone
  <2>5. QED
    BY <2>1, <2>2, <2>4
<1>4. QED
  BY <1>1, <1>2, <1>3 DEF QuotaInv, QuotaGood

(* For every quota, window and timing of the uploads: the counter is what  *)
(* was charged since its window opened, never above the quota, and no span *)
(* as long as a window takes more than twice the quota.                    *)
THEOREM QuotaAddsUp == UploadsSpec => []WindowAddsUp
<1>1. ASSUME UploadInv, QuotaInv
      PROVE  WindowAddsUp
  <2>1. \A from, to : ChargedBetween(from, to) = Taken(charged, from, to)
    BY DEF ChargedBetween, Taken, Counted
  <2>2. user.upload_window_start # Never =>
          /\ user.upload_bytes_window = Taken(charged, user.upload_window_start, Horizon)
          /\ user.upload_bytes_window <= Quota
    BY <1>1 DEF QuotaInv, QuotaGood
  <2>3. \A t \in 0 .. Horizon : Taken(charged, t, t + Window - 1) <= 2 * Quota
    BY <1>1 DEF QuotaInv, QuotaGood
  <2>4. QED
    BY <2>1, <2>2, <2>3 DEF WindowAddsUp
<1>2. QED
  BY <1>1, InitQuota, QuotaStep, UploadInvariant, PTL DEF UploadsSpec
=============================================================================
