-------------------------------- MODULE Reviews --------------------------------
(***************************************************************************)
(* Reviews of sellers, on top of Market: who won a lot may review its      *)
(* seller once, and take the review back for a while.                      *)
(*                                                                         *)
(* POST /reviews reads that the lot was won and not yet reviewed, and      *)
(* inserts later, with no lock: only the unique constraint decides between *)
(* two at once, and only the finality of a sale keeps what was read true.  *)
(***************************************************************************)
EXTENDS Market, FiniteSets

CONSTANTS
  Posts,             \* POST /reviews under way at once
  NoPost,
  EditWindow         \* _REVIEW_EDIT_WINDOW

ASSUME PostsAssumption == NoPost \notin Users \X Lots
ASSUME EditWindowAssumption == EditWindow \in Nat

VARIABLES
  reviews,           \* the reviews rows
  post               \* what each request has found qualified: reviewer and lot

reviewvars == <<vars, reviews, post>>

ReviewRows ==
  [reviewer : Users, lot : Lots, seller : Users \cup {NoUser}, created_at : Nat]

ReviewsInit ==
  /\ Init
  /\ reviews = {}
  /\ post = [p \in Posts |-> NoPost]

(* winner_id names the buyer of a lot of the seller that is completed.     *)
Qualifying(u, l) ==
  /\ status[l] = "completed"
  /\ winner_id[l] = u
  /\ created_by[l] # u

Reviewed(u, l) == \E r \in reviews : r.reviewer = u /\ r.lot = l

create_review(p, u, l) ==
  /\ post[p] = NoPost
  /\ Qualifying(u, l)
  /\ ~ Reviewed(u, l)
  /\ post' = [post EXCEPT ![p] = <<u, l>>]
  /\ UNCHANGED <<vars, reviews>>

(* commit_or_409: uq_reviews_one_per_auction, one per reviewer and lot.    *)
CommitAlways(u, l) == TRUE                                       \* mutant
CommitAllowed(u, l) == ~ Reviewed(u, l)

InsertReview(p) ==
  LET u == post[p][1]
      l == post[p][2]
  IN  /\ post[p] # NoPost
      /\ reviews' = IF CommitAllowed(u, l)
                    THEN reviews \cup {[reviewer |-> u, lot |-> l, seller |-> created_by[l],
                                        created_at |-> now]}
                    ELSE reviews
      /\ post' = [post EXCEPT ![p] = NoPost]
      /\ UNCHANGED vars

(* The request breaks off before its commit.                               *)
DropPost(p) ==
  /\ post[p] # NoPost
  /\ post' = [post EXCEPT ![p] = NoPost]
  /\ UNCHANGED <<vars, reviews>>

(* By its author, while it is not older than the window.                   *)
WithinWindow(r) == now - r.created_at <= EditWindow

delete_review ==
  /\ \E r \in reviews : WithinWindow(r) /\ reviews' = reviews \ {r}
  /\ UNCHANGED <<vars, post>>

MarketStep == Next /\ UNCHANGED <<reviews, post>>

ReviewsNext ==
  \/ MarketStep
  \/ \E p \in Posts, u \in Users, l \in Lots : create_review(p, u, l)
  \/ \E p \in Posts : InsertReview(p) \/ DropPost(p)
  \/ delete_review

ReviewsSpec == ReviewsInit /\ [][ReviewsNext]_reviewvars

-----------------------------------------------------------------------------
(* Properties.                                                             *)

Won(u, l) == status[l] = "completed" /\ winner_id[l] = u /\ created_by[l] # u

(* A seller is reviewed only by those they have sold to, once per sale,    *)
(* however long ago the request checked that and whatever else it raced.   *)
ReviewsFollowSales ==
  /\ \A r \in reviews : Won(r.reviewer, r.lot) /\ r.seller = created_by[r.lot]
  /\ \A r, q \in reviews : r.reviewer = q.reviewer /\ r.lot = q.lot => r = q
=============================================================================
