-------------------------------- MODULE Uploads --------------------------------
(***************************************************************************)
(* Lot photos and the avatar of an account: the byte quota on the users    *)
(* row of Accounts, and the files on disk.                                 *)
(*                                                                         *)
(* An upload is charged under the row lock and committed before anything   *)
(* touches the disk, so a write that fails has been paid for.  Replacing   *)
(* or deleting the avatar removes the old file first and saves the column  *)
(* last, in a transaction of its own.                                      *)
(***************************************************************************)
EXTENDS Accounts, Sequences, Sums

CONSTANTS
  Sizes,          \* of the pictures uploaded
  Quota,          \* _UPLOAD_QUOTA_BYTES
  Window,         \* _UPLOAD_QUOTA_WINDOW
  MaxUploads      \* bound: charges

ASSUME SizesAssumption == Sizes \subseteq Nat \ {0} /\ Quota \in Nat /\ Window \in Nat \ {0}

VARIABLES
  disk,           \* the files in UPLOAD_DIR; an upload's file bears its number
  file,           \* the number of each request's upload
  charged,        \* history: every charge that was committed
  cut,            \* history: avatars a request removed that then broke off
  disturbed       \* history: a request broke off, or two worked on the avatar

files == <<disk, file, charged, cut, disturbed>>

UploadsInit ==
  /\ Init
  /\ disk = {} /\ file = [r \in Requests |-> NoFile] /\ charged = <<>>
  /\ cut = {} /\ disturbed = FALSE

OnAvatar(r) == request[r].op \in {"avatar", "remove"}
AtWork(r) == request[r].step \in {"removes", "stores", "saves"}

-----------------------------------------------------------------------------
(* The quota.                                                              *)

(* The picture is decoded and encoded again before the row is locked.      *)
StartUpload(r) ==
  \E v \in tokens, op \in {"image", "avatar"} :
    /\ Authentic(v)
    /\ op = "image" => user.email_verified
    /\ Begin(r, op, "waits", NoProc, NoPassword, NoPassword, v)
    /\ disturbed' = (disturbed \/ (op = "avatar" /\ \E q \in Requests : OnAvatar(q)))
    /\ UNCHANGED <<disk, file, charged, cut>>

WindowOverAtOnce(start) == TRUE                                  \* mutant
WindowOver(start) == start = Never \/ now - start >= Window

(* _check_upload_quota, on the locked copy.                                *)
Projected(row, size) ==
  (IF WindowOver(row.upload_window_start) THEN 0 ELSE row.upload_bytes_window) + size

Charge(r) ==
  LET row == request[r].row
  IN  \E size \in Sizes :
        /\ request[r].op \in {"image", "avatar"} /\ request[r].step = "locked"
        /\ Projected(row, size) <= Quota
        /\ Len(charged) < MaxUploads
        /\ user' = [user EXCEPT
             !.upload_window_start = IF WindowOver(row.upload_window_start) THEN now
                                     ELSE row.upload_window_start,
             !.upload_bytes_window = Projected(row, size)]
        /\ charged' = Append(charged, [at |-> now, size |-> size, op |-> request[r].op])
        /\ file' = [file EXCEPT ![r] = Len(charged) + 1]
        /\ Release(r)
        /\ Become(r, IF request[r].op = "avatar" THEN "removes" ELSE "stores")
        /\ UNCHANGED <<kinds, now, tokens, links, sockets, letters, past>>
        /\ UNCHANGED <<disk, cut, disturbed>>

(* 413, and the session rolls back, a new window included.                 *)
OverQuota(r) ==
  /\ request[r].op \in {"image", "avatar"} /\ request[r].step = "locked"
  /\ \E size \in Sizes : Projected(request[r].row, size) > Quota
  /\ Release(r) /\ Finish(r)
  /\ UNCHANGED <<kinds, now, user, tokens, links, sockets, letters, past>>
  /\ UNCHANGED files

-----------------------------------------------------------------------------
(* The disk.                                                               *)

(* The avatar to remove: as the upload found it under its lock, or as the  *)
(* deletion found it when it authenticated.                                *)
OldNow(r) == user.avatar_url                                     \* mutant
Old(r) == request[r].row.avatar_url

delete_avatar(r) ==
  \E v \in tokens :
    /\ Authentic(v) /\ user.avatar_url # NoFile
    /\ Begin(r, "remove", "removes", NoProc, NoPassword, NoPassword, v)
    /\ disturbed' = (disturbed \/ \E q \in Requests : OnAvatar(q))
    /\ UNCHANGED <<disk, file, charged, cut>>

(* _remove_avatar_file: nothing happens if there is no such file.          *)
RemoveOld(r) ==
  /\ request[r].step = "removes"
  /\ disk' = disk \ {Old(r)}
  /\ Become(r, IF request[r].op = "avatar" THEN "stores" ELSE "saves")
  /\ UNCHANGED <<kinds, now, user, lock, tokens, links, sockets, letters, past>>
  /\ UNCHANGED <<file, charged, cut, disturbed>>

Store(r) ==
  /\ request[r].step = "stores"
  /\ disk' = disk \cup {file[r]}
  /\ IF request[r].op = "avatar" THEN Become(r, "saves") ELSE Finish(r)
  /\ UNCHANGED <<kinds, now, user, lock, tokens, links, sockets, letters, past>>
  /\ UNCHANGED <<file, charged, cut, disturbed>>

(* UPDATE users SET avatar_url, once the row is free.                      *)
SaveAvatar(r) ==
  /\ request[r].step = "saves"
  /\ Free
  /\ user' = [user EXCEPT !.avatar_url = IF request[r].op = "avatar" THEN file[r] ELSE NoFile]
  /\ Finish(r)
  /\ UNCHANGED <<kinds, now, lock, tokens, links, sockets, letters, past>>
  /\ UNCHANGED files

(* The request breaks off.  A thread that removes a file goes on; a write  *)
(* that fails removes what it wrote, unless the process is killed.         *)
BreaksOff(r) ==
  /\ AtWork(r)
  /\ Abort(r)
  /\ \/ disk' = disk
     \/ request[r].step = "removes" /\ disk' = disk \ {Old(r)}
     \/ request[r].step = "stores" /\ disk' = disk \cup {file[r]}
  /\ cut' = IF OnAvatar(r) THEN cut \cup {Old(r)} ELSE cut
  /\ disturbed' = TRUE
  /\ UNCHANGED <<file, charged>>

-----------------------------------------------------------------------------
AccountStep ==
  /\ Next
  /\ \A r \in Requests : AtWork(r) => request'[r] = request[r]
  /\ UNCHANGED files

UploadsNext ==
  \/ AccountStep
  \/ \E r \in Requests :
       \/ StartUpload(r) \/ Charge(r) \/ OverQuota(r)
       \/ delete_avatar(r) \/ RemoveOld(r) \/ Store(r) \/ SaveAvatar(r)
       \/ BreaksOff(r)

UploadsSpec == UploadsInit /\ [][UploadsNext]_<<vars, files>>

-----------------------------------------------------------------------------
(* Properties.                                                             *)

ChargedBetween(from, to) ==
  Total([i \in 1 .. Len(charged) |->
           IF from <= charged[i].at /\ charged[i].at <= to THEN charged[i].size ELSE 0],
        Len(charged))

(* The counter is what was charged since its window opened and stays       *)
(* within the quota, also for uploads at the same moment and for those     *)
(* whose write failed.  And however uploads are timed around the end of a  *)
(* window, no span of that length ever takes more than twice the quota.    *)
WindowAddsUp ==
  /\ user.upload_window_start # Never =>
       /\ user.upload_bytes_window = ChargedBetween(user.upload_window_start, Horizon)
       /\ user.upload_bytes_window <= Quota
  /\ \A t \in 0 .. Horizon : ChargedBetween(t, t + Window - 1) <= 2 * Quota

(* The avatar an account shows is on disk, except while a request replaces *)
(* or deletes it or after such a request broke off.  And no avatar is left *)
(* on disk unless one did, or two overlapped.                              *)
AvatarMatchesDisk ==
  /\ user.avatar_url \notin disk \cup {NoFile}
       => \/ user.avatar_url \in cut
          \/ \E r \in Requests : AtWork(r) /\ request[r].row.avatar_url = user.avatar_url
  /\ ~ disturbed =>
       \A f \in disk : charged[f].op = "avatar" =>
         \/ f = user.avatar_url
         \/ \E r \in Requests : AtWork(r) /\ f \in {file[r], request[r].row.avatar_url}
=============================================================================
