---------------------------- MODULE MCNotifications ----------------------------
(* Instances of Notifications for TLC.                                     *)
EXTENDS Notifications, TLC

(* What may disturb what: two warnings and a reader who deletes; settings  *)
(* that change under a bid's notices, a batch, or each other; bids,        *)
(* warnings and results; a purchase and a timer that read the lot before;  *)
(* new lots and subscribers who come and go.                               *)
Together ==
  {{"warn", "inbox"}, {"bid", "settings"}, {"warn", "settings"}, {"bid", "warn", "settle"},
   {"settle", "settings"}, {"buy", "settings"}, {"buy", "settle"}, {"post", "subscribe"}}

Settings == {{}, {"email_notifications"}, {"notify_ending", "notify_outbid"}}

Alike == Permutations(Users \ {Seller}) \cup Permutations(Jobs)
=============================================================================
