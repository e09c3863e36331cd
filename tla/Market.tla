------------------------------- MODULE Market -------------------------------
(***************************************************************************)
(* The marketplace as its handlers promise it: every request and every     *)
(* settlement is one atomic step on the users, auctions, bids and          *)
(* transactions tables.  What a handler checks under its row locks is the  *)
(* guard of its action, what it commits is the action's effect; rejected   *)
(* requests (4xx, rollback) change nothing and are not steps.              *)
(*                                                                         *)
(* Money is in the smallest unit of the Numeric(12, 2) columns.  Module    *)
(* RowLocks models the same handlers statement by statement.  A definition *)
(* marked "mutant" is a plausible mistake in the one that follows it; no   *)
(* action uses it, and the properties are shown to notice it.              *)
(***************************************************************************)
EXTENDS Integers, Sequences, Sums

CONSTANTS
  Users,             \* users.id
  NoUser,            \* NULL in winner_id / no leading bid
  NumLots,           \* auctions.id ranges over 1 .. NumLots
  Sellers,           \* the users who list lots (any user may; an instance picks some)
  Prices,            \* starting_price / bin_price a listing or PATCH may name
  Amounts,           \* what a bid may offer
  Deposits,          \* what a deposit or withdrawal may move
  StartBalance,      \* users.balance of a new account
  MaxUserBalance,    \* utils/money.py MAX_USER_BALANCE
  CommissionPercent, \* config PLATFORM_COMMISSION_PERCENT
  Window,            \* ANTISNIPING_WINDOW
  Extend,            \* ANTISNIPING_EXTEND
  MaxExtensions,     \* MAX_ANTISNIPING_EXTENSIONS
  Durations,         \* duration_minutes / extend_minutes a request may name
  Latency,           \* bound: ticks between a handler's utcnow() and its commit
  Horizon,           \* bound: the clock stops here
  LastDeadline,      \* bound: PATCH extends no deadline beyond this
  MaxRows            \* bound: deposits and withdrawals stop at this many rows

Lots == 1 .. NumLots
NoPrice == 0         \* NULL in bin_price
Kinds == {"bid", "bin"}
Keep == -1           \* a price field a PATCH body leaves out
KeepType == "keep"   \* auction_type left out

ASSUME UsersAssumption == NoUser \notin Users /\ Sellers \subseteq Users
ASSUME LotsAssumption == NumLots \in Nat
ASSUME AmountsAssumption ==
  /\ Prices \subseteq Nat \ {0}
  /\ Amounts \subseteq Nat \ {0}
  /\ Deposits \subseteq Nat \ {0}
ASSUME BalanceAssumption == StartBalance \in Nat /\ MaxUserBalance \in Nat
ASSUME CommissionAssumption == CommissionPercent \in 0 .. 100
ASSUME SnipingAssumption ==
  /\ Window \in Nat /\ Extend \in Nat /\ MaxExtensions \in Nat
  /\ Window <= Extend
ASSUME DurationsAssumption == Durations \subseteq Nat \ {0}
ASSUME BoundsAssumption ==
  /\ Latency \in Nat /\ Horizon \in Nat
  /\ LastDeadline \in Nat /\ MaxRows \in Nat

VARIABLES
  now,               \* utcnow()
  balance,           \* users.balance
  ledger,            \* the transactions rows of each user, oldest first
  status,            \* "absent" | "active" | "completed" | "deleted"
  created_by, auction_type, starting_price, current_price, bin_price,
  end_time, extensions_count, winner_id,
  bids,              \* the bids rows of each auction, oldest first
  agreed_end         \* history: the deadline without anti-sniping extensions

listing == <<created_by, auction_type, starting_price, bin_price>>
deadline == <<end_time, extensions_count, agreed_end>>
money == <<balance, ledger>>
vars == <<now, money, status, listing, current_price, deadline, winner_id, bids>>

-----------------------------------------------------------------------------
(* Reading the tables.                                                     *)

(* Who made the latest bid.                                                *)
Leader(l) == IF bids[l] = <<>> THEN NoUser ELSE bids[l][Len(bids[l])].user

(* What the lots u currently leads would take at settlement.               *)
Held(u) ==
  [l \in Lots |-> IF status[l] = "active" /\ Leader(l) = u
                  THEN current_price[l] ELSE 0]

CommittedBalance(u) == Total(Held(u), NumLots)

EffectiveCommitted(u, l) ==
  CommittedBalance(u) - (IF Leader(l) = u THEN current_price[l] ELSE 0)

(* What a withdrawal or a purchase may still spend.                        *)
AvailableIgnoringHolds(u) == balance[u]                          \* mutant
Available(u) == balance[u] - CommittedBalance(u)

(* Half-up rounding of gross * percent / 100 to the money grid.            *)
CommissionUndivided(gross) == gross * CommissionPercent          \* mutant
Commission(gross) == (gross * CommissionPercent + 50) \div 100

-----------------------------------------------------------------------------
(* Moving money.                                                           *)

(* The rows of the transactions and bids tables.                           *)
RowTypes == {"deposit", "withdrawal", "bid_win", "bin_purchase",
             "auction_sale", "commission"}

Row(type, amount, after, l) ==
  [type |-> type, amount |-> amount, balance_after |-> after, lot |-> l]

BidRows == [user : Users, amount : Nat]

Rows == [type : RowTypes, amount : Nat, balance_after : Int, lot : 0 .. NumLots]

(* A bid_win, bin_purchase, deposit or withdrawal row for u, whose balance *)
(* was b: what b was moved by, and what it is afterwards.                  *)
MovedBeforeMutation(u, b, type, delta, l) ==                     \* mutant
  Append(ledger[u], Row(type, IF delta < 0 THEN -delta ELSE delta, b, l))
Moved(u, b, type, delta, l) ==
  Append(ledger[u], Row(type, IF delta < 0 THEN -delta ELSE delta, b + delta, l))

(* The gross sale and, when it is not zero, the commission, on balance b.  *)
SellerRows(b, gross, l) ==
  LET sale == Row("auction_sale", gross, b + gross, l)
      fee  == Commission(gross)
  IN  IF fee > 0
      THEN <<sale, Row("commission", fee, b + gross - fee, l)>>
      ELSE <<sale>>

(* Debit the buyer, credit the seller: the money side of both settlements, *)
(* on the balances the handler read under its row locks.  The two are      *)
(* never one user: nobody bids on or buys an own lot.                      *)
Settle(cash, l, buyer, price, type) ==
  LET seller == created_by[l]
      net    == price - Commission(price)
  IN  /\ cash[buyer] - price >= 0              \* users.balance CHECK
      /\ balance' = [u \in Users |->
                       IF u = buyer THEN cash[u] - price
                       ELSE IF u = seller THEN cash[u] + net
                       ELSE balance[u]]
      /\ ledger' = [u \in Users |->
                      IF u = buyer THEN Moved(u, cash[u], type, -price, l)
                      ELSE IF u = seller
                      THEN ledger[u] \o SellerRows(cash[u], price, l)
                      ELSE ledger[u]]

-----------------------------------------------------------------------------
Init ==
  /\ now = 0
  /\ balance = [u \in Users |-> StartBalance]
  /\ ledger = [u \in Users |-> <<>>]
  /\ status = [l \in Lots |-> "absent"]
  /\ created_by = [l \in Lots |-> NoUser]
  /\ auction_type = [l \in Lots |-> "bid"]
  /\ starting_price = [l \in Lots |-> 0]
  /\ current_price = [l \in Lots |-> 0]
  /\ bin_price = [l \in Lots |-> NoPrice]
  /\ end_time = [l \in Lots |-> 0]
  /\ extensions_count = [l \in Lots |-> 0]
  /\ winner_id = [l \in Lots |-> NoUser]
  /\ bids = [l \in Lots |-> <<>>]
  /\ agreed_end = [l \in Lots |-> 0]

Tick ==
  /\ now < Horizon
  /\ now' = now + 1
  /\ UNCHANGED <<money, status, listing, current_price, deadline, winner_id, bids>>

(* A utcnow() a handler may have read for what it commits at now.          *)
RecentTimes == {t \in 0 .. now : now - t <= Latency}

(* Each action is what its handler checks, then what it commits (Write...).*)

WriteCash(cash, u, type, delta) ==
  /\ balance' = [balance EXCEPT ![u] = cash[u] + delta]
  /\ ledger' = [ledger EXCEPT ![u] = Moved(u, cash[u], type, delta, 0)]
  /\ UNCHANGED <<now, status, listing, current_price, deadline, winner_id, bids>>

Deposit(u, amount) ==
  /\ Len(ledger[u]) < MaxRows
  /\ balance[u] + amount <= MaxUserBalance
  /\ WriteCash(balance, u, "deposit", amount)

Withdraw(u, amount) ==
  /\ Len(ledger[u]) < MaxRows
  /\ Available(u) >= amount
  /\ WriteCash(balance, u, "withdrawal", -amount)

(* A BIN listing seeds both prices with bin_price; the table constraints   *)
(* reject a bin_price below the starting price.                            *)
CreateAuction(u, l, type, start, bin, duration, t) ==
  LET seed == IF type = "bin" THEN bin ELSE start
  IN  /\ status[l] = "absent"
      /\ \A k \in 1 .. l - 1 : status[k] # "absent"     \* ids are a sequence
      /\ type = "bin" => bin # NoPrice
      /\ bin # NoPrice => bin >= seed
      /\ status' = [status EXCEPT ![l] = "active"]
      /\ created_by' = [created_by EXCEPT ![l] = u]
      /\ auction_type' = [auction_type EXCEPT ![l] = type]
      /\ starting_price' = [starting_price EXCEPT ![l] = seed]
      /\ current_price' = [current_price EXCEPT ![l] = seed]
      /\ bin_price' = [bin_price EXCEPT ![l] = bin]
      /\ end_time' = [end_time EXCEPT ![l] = t + duration]
      /\ agreed_end' = [agreed_end EXCEPT ![l] = t + duration]
      /\ UNCHANGED <<now, money, extensions_count, winner_id, bids>>

(* Once there is a bid, every edit is refused.                             *)
EditableAlways(l) == status[l] = "active"                        \* mutant
Editable(l) == status[l] = "active" /\ bids[l] = <<>>

(* The type and prices a PATCH leaves on l.                                *)
Edited(l, start, bin, type) ==
  LET type1 == IF type = KeepType THEN auction_type[l] ELSE type
      bin1  == IF bin = Keep THEN bin_price[l] ELSE bin
      drag  == type1 = "bin" /\ (bin # Keep \/ type # KeepType)
  IN  [type  |-> type1,
       bin   |-> bin1,
       start |-> IF drag THEN bin1
                 ELSE IF start = Keep THEN starting_price[l] ELSE start,
       price |-> IF drag THEN bin1
                 ELSE IF start = Keep THEN current_price[l] ELSE start]

WriteEdit(l, start, bin, type, minutes) ==
  LET e == Edited(l, start, bin, type)
  IN  /\ auction_type' = [auction_type EXCEPT ![l] = e.type]
      /\ bin_price' = [bin_price EXCEPT ![l] = e.bin]
      /\ starting_price' = [starting_price EXCEPT ![l] = e.start]
      /\ current_price' = [current_price EXCEPT ![l] = e.price]
      /\ end_time' = [end_time EXCEPT ![l] = @ + minutes]
      /\ agreed_end' = [agreed_end EXCEPT ![l] = @ + minutes]
      /\ UNCHANGED <<now, money, status, created_by, extensions_count, winner_id, bids>>

(* PATCH: frozen once there is a bid; nothing checks the deadline.         *)
UpdateAuction(u, l, start, bin, type, minutes) ==
  LET e == Edited(l, start, bin, type)
  IN  /\ created_by[l] = u
      /\ Editable(l)
      /\ minutes > 0 => end_time[l] + minutes <= LastDeadline
      /\ e.type = "bin" => e.bin # NoPrice
      /\ e.bin # NoPrice => e.bin >= e.start
      /\ WriteEdit(l, start, bin, type, minutes)

DeletableCompleted(l) ==                                         \* mutant
  status[l] \in {"active", "completed"} /\ bids[l] = <<>>
Deletable(l) == status[l] = "active" /\ bids[l] = <<>>

WriteDelete(l) ==
  /\ status' = [status EXCEPT ![l] = "deleted"]
  /\ UNCHANGED <<now, money, listing, current_price, deadline, winner_id, bids>>

DeleteAuction(u, l) ==
  /\ created_by[l] = u
  /\ Deletable(l)
  /\ WriteDelete(l)

(* Whether a bid at s extends the deadline to s + Extend: it is in the     *)
(* closing window, and not past the deadline by now.                       *)
SnipingUncapped(l, s) ==                                         \* mutant
  0 < end_time[l] - s /\ end_time[l] - s < Window
SnipingAnyTime(l, s) ==                                          \* mutant
  0 < end_time[l] - s /\ extensions_count[l] < MaxExtensions
Sniping(l, s) ==
  /\ 0 < end_time[l] - s
  /\ end_time[l] - s < Window
  /\ extensions_count[l] < MaxExtensions

WriteBid(u, l, amount, s) ==
  /\ bids' = [bids EXCEPT ![l] = Append(@, [user |-> u, amount |-> amount])]
  /\ current_price' = [current_price EXCEPT ![l] = amount]
  /\ IF Sniping(l, s)
     THEN /\ end_time' = [end_time EXCEPT ![l] = s + Extend]
          /\ extensions_count' = [extensions_count EXCEPT ![l] = @ + 1]
     ELSE UNCHANGED <<end_time, extensions_count>>
  /\ UNCHANGED <<now, money, status, listing, winner_id, agreed_end>>

(* What place_bid checks under the lot's lock, with the clock at t.        *)
Biddable(u, l, amount, t) ==
  /\ status[l] = "active"
  /\ auction_type[l] # "bin"
  /\ created_by[l] # u
  /\ t <= end_time[l]
  /\ amount > current_price[l]
  /\ Leader(l) # u

(* The expiry check reads the clock at t, the extension later, at s.       *)
PlaceBid(u, l, amount, t, s) ==
  /\ Biddable(u, l, amount, t)
  /\ t <= s
  /\ balance[u] - EffectiveCommitted(u, l) >= amount
  /\ WriteBid(u, l, amount, s)

WritePurchase(cash, u, l, s) ==
  /\ Settle(cash, l, u, bin_price[l], "bin_purchase")
  /\ current_price' = [current_price EXCEPT ![l] = bin_price[l]]
  /\ status' = [status EXCEPT ![l] = "completed"]
  /\ winner_id' = [winner_id EXCEPT ![l] = u]
  /\ end_time' = [end_time EXCEPT ![l] = s]
  /\ UNCHANGED <<now, listing, extensions_count, agreed_end, bids>>

Buyable(u, l, t) ==
  /\ status[l] = "active"
  /\ t <= end_time[l]
  /\ auction_type[l] = "bin"
  /\ bin_price[l] # NoPrice
  /\ created_by[l] # u

BuyNow(u, l, t, s) ==
  /\ Buyable(u, l, t)
  /\ t <= s
  /\ Available(u) >= bin_price[l]
  /\ WritePurchase(balance, u, l, s)

(* A lot the timer settles: still active, deadline reached.                *)
DueAgain(l) == status[l] # "absent" /\ end_time[l] <= now        \* mutant
Due(l) == status[l] = "active" /\ end_time[l] <= now

(* The winner is whoever bid last; without bids nothing is sold.           *)
PayoutSkipped(cash, l) == UNCHANGED <<money, winner_id>>         \* mutant
Payout(cash, l) ==
  IF bids[l] = <<>>
  THEN UNCHANGED <<money, winner_id>>
  ELSE LET last == bids[l][Len(bids[l])]
       IN  /\ Settle(cash, l, last.user, last.amount, "bid_win")
           /\ winner_id' = [winner_id EXCEPT ![l] = last.user]

WriteSettlement(cash, l) ==
  /\ status' = [status EXCEPT ![l] = "completed"]
  /\ Payout(cash, l)
  /\ UNCHANGED <<now, listing, current_price, deadline, bids>>

CompleteAuction(l) ==
  /\ Due(l)
  /\ WriteSettlement(balance, l)

Next ==
  \/ Tick
  \/ \E u \in Users, a \in Deposits : Deposit(u, a) \/ Withdraw(u, a)
  \/ \E u \in Sellers, l \in Lots, type \in Kinds, start \in Prices,
        bin \in Prices \cup {NoPrice}, d \in Durations, t \in RecentTimes :
          CreateAuction(u, l, type, start, bin, d, t)
  \/ \E u \in Sellers, l \in Lots, start \in Prices \cup {Keep},
        bin \in Prices \cup {NoPrice, Keep}, type \in Kinds \cup {KeepType},
        d \in Durations \cup {0} :
          UpdateAuction(u, l, start, bin, type, d)
  \/ \E u \in Sellers, l \in Lots : DeleteAuction(u, l)
  \/ \E u \in Users, l \in Lots, a \in Amounts, t, s \in RecentTimes :
        PlaceBid(u, l, a, t, s)
  \/ \E u \in Users, l \in Lots, t, s \in RecentTimes : BuyNow(u, l, t, s)
  \/ \E l \in Lots : CompleteAuction(l)

Spec == Init /\ [][Next]_vars

-----------------------------------------------------------------------------
(* Properties.                                                             *)

TypeOK ==
  /\ now \in 0 .. Horizon
  /\ balance \in [Users -> Nat]
  /\ ledger \in [Users -> Seq(Rows)]
  /\ status \in [Lots -> {"absent", "active", "completed", "deleted"}]
  /\ created_by \in [Lots -> Users \cup {NoUser}]
  /\ auction_type \in [Lots -> Kinds]
  /\ starting_price \in [Lots -> Nat]
  /\ current_price \in [Lots -> Nat]
  /\ bin_price \in [Lots -> Nat]
  /\ end_time \in [Lots -> Nat]
  /\ extensions_count \in [Lots -> Nat]
  /\ winner_id \in [Lots -> Users \cup {NoUser}]
  /\ bids \in [Lots -> Seq(BidRows)]
  /\ agreed_end \in [Lots -> Nat]

(* Nobody can promise the same money twice: what a user leads across all   *)
(* active lots is covered by the balance, whatever bids, purchases,        *)
(* withdrawals, edits and settlements of other lots happened in between    *)
(* (place_bid, buy_now and withdraw each check it with their own query).   *)
Solvent == \A u \in Users : CommittedBalance(u) <= balance[u]

(* The displayed price is the latest bid, bids only go up, no two in a row *)
(* come from one user, none from the seller, and a lot with bids is never  *)
(* a BIN lot: PATCH cannot change a price or the type under a bidder.      *)
BidsAscendToPrice ==
  \A l \in Lots :
    /\ \A i \in 1 .. Len(bids[l]) : bids[l][i].user # created_by[l]
    /\ \A i \in 1 .. Len(bids[l]) - 1 :
          /\ bids[l][i].amount < bids[l][i + 1].amount
          /\ bids[l][i].user # bids[l][i + 1].user
    /\ bids[l] # <<>> =>
          /\ auction_type[l] = "bid"
          /\ current_price[l] = bids[l][Len(bids[l])].amount

(* Indices of u's transactions rows about lot l with one of these types.   *)
RowsOf(u, l, types) ==
  {i \in 1 .. Len(ledger[u]) : ledger[u][i].lot = l /\ ledger[u][i].type \in types}

(* No lot moves money twice: per user and lot at most one row of a kind,   *)
(* and at most one of the two kinds of debit.                              *)
SettledAtMostOnce ==
  \A u \in Users, l \in Lots, types \in
      {{"bid_win", "bin_purchase"}, {"auction_sale"}, {"commission"}} :
    \A i, j \in RowsOf(u, l, types) : i = j

(* The two sides of a sale agree: rows about a lot exist only for a sold   *)
(* one, once, on the winner's and the seller's side, for the final price   *)
(* and the commission on it.                                               *)
RowsMatchSale ==
  /\ SettledAtMostOnce
  /\ \A u \in Users, l \in Lots : \A i \in 1 .. Len(ledger[u]) :
       ledger[u][i].lot = l =>
         LET row == ledger[u][i]
         IN  /\ status[l] = "completed" /\ winner_id[l] # NoUser
             /\ \/ /\ row.type \in {"bid_win", "bin_purchase"}
                   /\ u = winner_id[l] /\ row.amount = current_price[l]
                \/ /\ row.type = "auction_sale"
                   /\ u = created_by[l] /\ row.amount = current_price[l]
                \/ /\ row.type = "commission"
                   /\ u = created_by[l] /\ row.amount = Commission(current_price[l])

(* ... and a sold lot has them: nobody wins without paying, no seller goes *)
(* unpaid, and a lot with bids never completes without a winner.           *)
SoldMeansPaid ==
  \A l \in Lots : status[l] = "completed" =>
    IF winner_id[l] = NoUser THEN bids[l] = <<>>
    ELSE /\ RowsOf(winner_id[l], l, {"bid_win", "bin_purchase"}) # {}
         /\ RowsOf(created_by[l], l, {"auction_sale"}) # {}
         /\ Commission(current_price[l]) > 0 =>
               RowsOf(created_by[l], l, {"commission"}) # {}

(* The transactions list explains the balance: each row's balance_after is *)
(* the previous one moved by the row, and the newest is the balance.       *)
Signed(row) ==
  IF row.type \in {"deposit", "auction_sale"} THEN row.amount ELSE - row.amount

BalanceBefore(u, i) ==
  IF i = 1 THEN StartBalance ELSE ledger[u][i - 1].balance_after

RunningBalance ==
  \A u \in Users :
    /\ \A i \in 1 .. Len(ledger[u]) :
          ledger[u][i].balance_after = BalanceBefore(u, i) + Signed(ledger[u][i])
    /\ balance[u] = BalanceBefore(u, Len(ledger[u]) + 1)

(* Anti-sniping cannot hold a lot open: each extension adds less than      *)
(* Extend, and there are at most MaxExtensions of them.                    *)
LifetimeBounded ==
  \A l \in Lots : status[l] = "active" =>
    /\ extensions_count[l] <= MaxExtensions
    /\ end_time[l] <= agreed_end[l] + extensions_count[l] * Extend

(* While a lot is open its deadline never moves back: a bid in the closing *)
(* window or a PATCH may only give the others more time.                   *)
DeadlineNeverRecedes ==
  [][\A l \in Lots : status[l] = "active" /\ status'[l] = "active"
        => end_time'[l] >= end_time[l]]_vars

(* A finished lot stays as it ended: same winner, price and bids, whatever *)
(* late requests still arrive for it.                                      *)
FinishedIsFinal ==
  [][\A l \in Lots : status[l] \in {"completed", "deleted"} =>
        /\ status'[l] = status[l]
        /\ winner_id'[l] = winner_id[l]
        /\ current_price'[l] = current_price[l]
        /\ bids'[l] = bids[l]]_vars
=============================================================================
