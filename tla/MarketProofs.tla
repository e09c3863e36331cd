---------------------------- MODULE MarketProofs ----------------------------
(***************************************************************************)
(* Proofs about Market, for every set of users, every number of lots and   *)
(* every bound.  The inductive invariant is                                *)
(*     TypeOK /\ BlankWhenAbsent /\ BidsAscendToPrice /\ Solvent:          *)
(* a settlement takes exactly what the winner's commitment held because    *)
(* the price is the last bid, and the winner is never the seller because   *)
(* no bid is the seller's.  The second part is the ledger: what the rows   *)
(* of transactions say, lot by lot and balance by balance.  The third is   *)
(* about Reviews: adding reviews leaves the market as it was, and a review *)
(* belongs to a sale for ever.                                             *)
(***************************************************************************)
EXTENDS Reviews, SumsProofs

-----------------------------------------------------------------------------
(* Operators.                                                              *)

(* The commission is between nothing and the whole price.                  *)
LEMMA CommissionBounds ==
  ASSUME NEW g \in Nat
  PROVE  Commission(g) \in Nat /\ Commission(g) <= g
<1>1. g * CommissionPercent \in Nat /\ g * CommissionPercent <= g * 100
  BY CommissionAssumption
<1>2. \A x \in Nat : x <= g * 100 => (x + 50) \div 100 \in Nat /\ (x + 50) \div 100 <= g
  OBVIOUS
<1>3. QED
  BY <1>1, <1>2 DEF Commission

(* What a user holds on each lot is a natural number.                      *)
LEMMA HeldType ==
  ASSUME TypeOK, NEW u \in Users
  PROVE  Held(u) \in [1 .. NumLots -> Nat]
BY DEF TypeOK, Held, Lots

LEMMA CommittedType ==
  ASSUME TypeOK, NEW u \in Users
  PROVE  CommittedBalance(u) \in Nat
<1>1. Held(u) \in [1 .. NumLots -> Nat] /\ Held(u) \in [1 .. NumLots -> Int]
  BY HeldType
<1>2. Total(Held(u), NumLots) \in Int /\ Total(Held(u), NumLots) >= 0
  BY <1>1, LotsAssumption, TotalInt, TotalNonNegative
<1>3. QED
  BY <1>2 DEF CommittedBalance

LEMMA RowType ==
  ASSUME NEW type \in RowTypes, NEW a \in Nat, NEW b \in Int, NEW l \in 0 .. NumLots
  PROVE  Row(type, a, b, l) \in Rows
BY DEF Row, Rows

LEMMA MovedType ==
  ASSUME TypeOK, NEW u \in Users, NEW b \in Nat, NEW type \in RowTypes, NEW d \in Int,
         NEW l \in 0 .. NumLots
  PROVE  Moved(u, b, type, d, l) \in Seq(Rows)
<1> DEFINE row == Row(type, IF d < 0 THEN -d ELSE d, b + d, l)
<1>1. row \in Rows
  <2>1. (IF d < 0 THEN -d ELSE d) \in Nat /\ b + d \in Int
    OBVIOUS
  <2>2. QED
    BY <2>1, RowType
<1>2. ledger[u] \in Seq(Rows)
  BY DEF TypeOK
<1> HIDE DEF row
<1>3. Append(ledger[u], row) \in Seq(Rows)
  BY <1>1, <1>2
<1>4. QED
  BY <1>3 DEF Moved, row

LEMMA SellerRowsType ==
  ASSUME NEW b \in Int, NEW g \in Nat, NEW l \in Lots
  PROVE  SellerRows(b, g, l) \in Seq(Rows)
<1> DEFINE sale == Row("auction_sale", g, b + g, l)
           fee == Row("commission", Commission(g), b + g - Commission(g), l)
<1>1. Commission(g) \in Nat
  BY CommissionBounds
<1>2. sale \in Rows
  BY RowType DEF RowTypes, Lots
<1>3. fee \in Rows
  <2>1. b + g - Commission(g) \in Int /\ "commission" \in RowTypes /\ l \in 0 .. NumLots
    BY <1>1, LotsAssumption DEF RowTypes, Lots
  <2>2. QED
    BY <1>1, <2>1, RowType
<1> HIDE DEF sale, fee
<1>4. <<sale>> \in Seq(Rows) /\ <<sale, fee>> \in Seq(Rows)
  BY <1>2, <1>3
<1>5. SellerRows(b, g, l) = IF Commission(g) > 0 THEN <<sale, fee>> ELSE <<sale>>
  BY DEF SellerRows, sale, fee
<1>6. CASE Commission(g) > 0
  BY <1>4, <1>5, <1>6
<1>7. CASE ~ (Commission(g) > 0)
  BY <1>4, <1>5, <1>7
<1>8. QED
  BY <1>6, <1>7

(* Settle keeps balances and ledgers well typed.                           *)
LEMMA SettleType ==
  ASSUME TypeOK, NEW l \in Lots, NEW b \in Users, NEW p \in Nat,
         NEW type \in RowTypes, Settle(balance, l, b, p, type)
  PROVE  balance' \in [Users -> Nat] /\ ledger' \in [Users -> Seq(Rows)]
<1>1. balance' \in [Users -> Nat]
  <2>1. Commission(p) \in Nat /\ Commission(p) <= p
    BY CommissionBounds
  <2>2. balance \in [Users -> Nat] /\ balance[b] - p >= 0
    BY DEF Settle, TypeOK
  <2>3. \A u \in Users : balance[u] + (p - Commission(p)) \in Nat
    BY <2>1, <2>2
  <2>4. balance[b] - p \in Nat
    BY <2>2
  <2>5. QED
    BY <2>2, <2>3, <2>4 DEF Settle
<1>2. Moved(b, balance[b], type, -p, l) \in Seq(Rows)
  BY MovedType DEF Lots, TypeOK
<1>3. \A u \in Users : ledger[u] \in Seq(Rows) /\ balance[u] \in Int
  BY DEF TypeOK
<1>4. \A u \in Users : ledger[u] \o SellerRows(balance[u], p, l) \in Seq(Rows)
  <2>1. ASSUME NEW u \in Users
        PROVE  SellerRows(balance[u], p, l) \in Seq(Rows)
    BY <1>3, SellerRowsType
  <2>2. QED
    BY <1>3, <2>1
<1>5. ledger' \in [Users -> Seq(Rows)]
  BY <1>2, <1>3, <1>4 DEF Settle
<1>6. QED
  BY <1>1, <1>5

-----------------------------------------------------------------------------
(* Type correctness.                                                       *)

(* The steps of Market, and the settlement of an open lot by a tick that   *)
(* is wrong about its deadline (see RowLocksProofs): what follows holds    *)
(* for these too.                                                          *)
SettleOpen(l) == status[l] = "active" /\ WriteSettlement(balance, l)

Steps == Next \/ \E l \in Lots : SettleOpen(l)

LEMMA NextSteps == [Next]_vars => [Steps]_vars
BY DEF Steps

LEMMA InitTypeOK == Init => TypeOK
<1>1. \A S : <<>> \in Seq(S)
  OBVIOUS
<1>2. QED
  BY <1>1, BoundsAssumption, BalanceAssumption DEF Init, TypeOK, Kinds, NoPrice

LEMMA StepTypeOK == TypeOK /\ [Steps]_vars => TypeOK'
<1> SUFFICES ASSUME TypeOK, [Steps]_vars
             PROVE  TypeOK'
  OBVIOUS
<1>1. CASE Tick
  BY <1>1, BoundsAssumption DEF Tick, TypeOK, listing, deadline, money
<1>2. ASSUME NEW u \in Users, NEW a \in Deposits, Deposit(u, a)
      PROVE  TypeOK'
  <2>1. a \in Nat
    BY AmountsAssumption
  <2>2. Moved(u, balance[u], "deposit", a, 0) \in Seq(Rows)
    BY <2>1, MovedType, LotsAssumption DEF RowTypes, TypeOK
  <2>3. balance' \in [Users -> Nat] /\ ledger' \in [Users -> Seq(Rows)]
    BY <1>2, <2>1, <2>2 DEF Deposit, WriteCash, TypeOK
  <2>4. QED
    BY <1>2, <2>3 DEF Deposit, WriteCash, TypeOK, listing, deadline
<1>3. ASSUME NEW u \in Users, NEW a \in Deposits, Withdraw(u, a)
      PROVE  TypeOK'
  <2>1. a \in Nat /\ -a \in Int
    BY AmountsAssumption
  <2>2. Moved(u, balance[u], "withdrawal", -a, 0) \in Seq(Rows)
    BY <2>1, MovedType, LotsAssumption DEF RowTypes, TypeOK
  <2>3. balance[u] - a \in Nat
    <3>1. CommittedBalance(u) \in Nat /\ balance[u] \in Nat
      BY CommittedType DEF TypeOK
    <3>2. QED
      BY <1>3, <2>1, <3>1 DEF Withdraw, WriteCash, Available
  <2>4. balance' \in [Users -> Nat] /\ ledger' \in [Users -> Seq(Rows)]
    BY <1>3, <2>2, <2>3 DEF Withdraw, WriteCash, TypeOK
  <2>5. QED
    BY <1>3, <2>4 DEF Withdraw, WriteCash, TypeOK, listing, deadline
<1>4. ASSUME NEW u \in Sellers, NEW l \in Lots, NEW type \in Kinds, NEW start \in Prices,
             NEW bin \in Prices \cup {NoPrice}, NEW d \in Durations, NEW t \in RecentTimes,
             CreateAuction(u, l, type, start, bin, d, t)
      PROVE  TypeOK'
  <2>1. t \in Nat /\ t + d \in Nat /\ start \in Nat /\ bin \in Nat /\ u \in Users
    BY AmountsAssumption, DurationsAssumption, UsersAssumption DEF RecentTimes, NoPrice
  <2>2. QED
    BY <1>4, <2>1 DEF CreateAuction, TypeOK, money
<1>5. ASSUME NEW u \in Sellers, NEW l \in Lots, NEW start \in Prices \cup {Keep},
             NEW bin \in Prices \cup {NoPrice, Keep}, NEW type \in Kinds \cup {KeepType},
             NEW d \in Durations \cup {0}, UpdateAuction(u, l, start, bin, type, d)
      PROVE  TypeOK'
  <2>1. d \in Nat /\ (start # Keep => start \in Nat) /\ (bin # Keep => bin \in Nat)
    BY AmountsAssumption, DurationsAssumption DEF NoPrice
  <2>2. /\ auction_type' \in [Lots -> Kinds]
        /\ starting_price' \in [Lots -> Nat]
        /\ current_price' \in [Lots -> Nat]
        /\ bin_price' \in [Lots -> Nat]
    <3>1. /\ bin_price[l] \in Nat /\ starting_price[l] \in Nat
          /\ current_price[l] \in Nat /\ auction_type[l] \in Kinds
      BY DEF TypeOK
    <3>2. (IF bin = Keep THEN bin_price[l] ELSE bin) \in Nat
      BY <2>1, <3>1
    <3>3. (IF type = KeepType THEN auction_type[l] ELSE type) \in Kinds
      BY <3>1
    <3>4. /\ (IF start = Keep THEN starting_price[l] ELSE start) \in Nat
          /\ (IF start = Keep THEN current_price[l] ELSE start) \in Nat
      BY <2>1, <3>1
    <3>5. QED
      BY <1>5, <3>2, <3>3, <3>4 DEF UpdateAuction, WriteEdit, Edited, TypeOK
  <2>3. /\ end_time' \in [Lots -> Nat]
        /\ agreed_end' \in [Lots -> Nat]
    BY <1>5, <2>1 DEF UpdateAuction, WriteEdit, Edited, TypeOK
  <2>4. QED
    BY <1>5, <2>2, <2>3 DEF UpdateAuction, WriteEdit, Edited, TypeOK, money
<1>6. ASSUME NEW u \in Sellers, NEW l \in Lots, DeleteAuction(u, l)
      PROVE  TypeOK'
  BY <1>6 DEF DeleteAuction, WriteDelete, TypeOK, listing, deadline, money
<1>7. ASSUME NEW u \in Users, NEW l \in Lots, NEW a \in Amounts, NEW t \in RecentTimes,
             NEW s \in RecentTimes, PlaceBid(u, l, a, t, s)
      PROVE  TypeOK'
  <2>1. s + Extend \in Nat /\ a \in Nat
    BY AmountsAssumption, SnipingAssumption DEF RecentTimes
  <2>2. bids' \in [Lots -> Seq(BidRows)]
    <3>1. [user |-> u, amount |-> a] \in BidRows
      BY <2>1 DEF BidRows
    <3>2. bids \in [Lots -> Seq(BidRows)]
      BY DEF TypeOK
    <3>3. Append(bids[l], [user |-> u, amount |-> a]) \in Seq(BidRows)
      BY <3>1, <3>2
    <3>4. QED
      BY <1>7, <3>2, <3>3 DEF PlaceBid, Biddable, WriteBid
  <2>3. /\ end_time' \in [Lots -> Nat]
        /\ extensions_count' \in [Lots -> Nat]
    <3>1. extensions_count[l] \in Nat /\ extensions_count[l] + 1 \in Nat
      BY DEF TypeOK
    <3>2. CASE Sniping(l, s)
      <4>1. /\ end_time' = [end_time EXCEPT ![l] = s + Extend]
            /\ extensions_count' = [extensions_count EXCEPT ![l] = @ + 1]
        BY <1>7, <3>2 DEF PlaceBid, Biddable, WriteBid
      <4>2. /\ end_time \in [Lots -> Nat]
            /\ extensions_count \in [Lots -> Nat]
        BY DEF TypeOK
      <4>3. QED
        BY <2>1, <3>1, <4>1, <4>2
    <3>3. CASE ~ Sniping(l, s)
      BY <1>7, <3>3 DEF PlaceBid, Biddable, WriteBid, TypeOK
    <3>4. QED
      BY <3>2, <3>3
  <2>4. QED
    BY <1>7, <2>1, <2>2, <2>3 DEF PlaceBid, Biddable, WriteBid, TypeOK, listing, money
<1>8. ASSUME NEW u \in Users, NEW l \in Lots, NEW t \in RecentTimes, NEW s \in RecentTimes,
             BuyNow(u, l, t, s)
      PROVE  TypeOK'
  <2>1. s \in Nat /\ bin_price[l] \in Nat
    BY DEF RecentTimes, TypeOK
  <2>2. balance' \in [Users -> Nat] /\ ledger' \in [Users -> Seq(Rows)]
    BY <1>8, <2>1, SettleType DEF BuyNow, Buyable, WritePurchase, RowTypes
  <2>3. QED
    BY <1>8, <2>1, <2>2 DEF BuyNow, Buyable, WritePurchase, TypeOK, listing
<1>9. ASSUME NEW l \in Lots, SettleOpen(l)
      PROVE  TypeOK'
  <2>1. CASE bids[l] = <<>>
    BY <1>9, <2>1 DEF SettleOpen, WriteSettlement, Payout, TypeOK, listing, deadline, money
  <2>2. CASE bids[l] # <<>>
    <3> DEFINE last == bids[l][Len(bids[l])]
    <3>1. last.user \in Users /\ last.amount \in Nat
      <4>1. bids[l] \in Seq(BidRows) /\ Len(bids[l]) \in 1 .. Len(bids[l])
        BY <2>2 DEF TypeOK
      <4>2. last \in BidRows
        BY <4>1
      <4>3. QED
        BY <4>2 DEF BidRows
    <3>2. Settle(balance, l, last.user, last.amount, "bid_win")
          /\ winner_id' = [winner_id EXCEPT ![l] = last.user]
      BY <1>9, <2>2 DEF SettleOpen, WriteSettlement, Payout
    <3> HIDE DEF last
    <3>3. balance' \in [Users -> Nat] /\ ledger' \in [Users -> Seq(Rows)]
      BY <3>1, <3>2, SettleType DEF RowTypes
    <3>4. QED
      BY <1>9, <3>1, <3>2, <3>3 DEF SettleOpen, WriteSettlement, TypeOK, listing, deadline
  <2>3. QED
    BY <2>1, <2>2
<1>10. CASE UNCHANGED vars
  BY <1>10 DEF vars, TypeOK, listing, deadline, money
<1>11. QED
  BY <1>1, <1>2, <1>3, <1>4, <1>5, <1>6, <1>7, <1>8, <1>9, <1>10
  DEF Steps, Next, CompleteAuction, Due, SettleOpen

(* Every balance stays a non-negative amount and every table well formed,  *)
(* in every reachable state.                                               *)
THEOREM TypeCorrect == Spec => []TypeOK
BY InitTypeOK, StepTypeOK, NextSteps, PTL DEF Spec

-----------------------------------------------------------------------------
(* Bids and prices.                                                        *)

(* A listing starts without bids and without extensions.                   *)
BlankWhenAbsent ==
  \A l \in Lots : status[l] = "absent" => bids[l] = <<>> /\ extensions_count[l] = 0

(* BidsAscendToPrice for one lot.                                          *)
BidsFit(l) ==
  /\ \A i \in 1 .. Len(bids[l]) : bids[l][i].user # created_by[l]
  /\ \A i \in 1 .. Len(bids[l]) - 1 :
        /\ bids[l][i].amount < bids[l][i + 1].amount
        /\ bids[l][i].user # bids[l][i + 1].user
  /\ bids[l] # <<>> =>
        /\ auction_type[l] = "bid"
        /\ current_price[l] = bids[l][Len(bids[l])].amount

LEMMA BidsFitAll == BidsAscendToPrice <=> \A l \in Lots : BidsFit(l)
BY DEF BidsAscendToPrice, BidsFit

(* The last bid of a lot that has one.                                     *)
LEMMA LastBidType ==
  ASSUME TypeOK, NEW l \in Lots, bids[l] # <<>>
  PROVE  /\ Len(bids[l]) \in 1 .. Len(bids[l])
         /\ bids[l][Len(bids[l])].user \in Users
         /\ bids[l][Len(bids[l])].amount \in Nat
<1>1. bids[l] \in Seq(BidRows)
  BY DEF TypeOK
<1>2. Len(bids[l]) \in 1 .. Len(bids[l])
  BY <1>1
<1>3. bids[l][Len(bids[l])] \in BidRows
  BY <1>1, <1>2
<1>4. QED
  BY <1>2, <1>3 DEF BidRows

(* A lot without bids fits, whatever its price and type.                   *)
LEMMA NoBidsFit ==
  ASSUME NEW l \in Lots, bids'[l] = <<>>
  PROVE  BidsFit(l)'
<1>1. Len(bids'[l]) = 0
  OBVIOUS
<1>2. QED
  BY <1>1 DEF BidsFit

LEMMA SameBidsFit ==
  ASSUME NEW l \in Lots, BidsFit(l), bids'[l] = bids[l],
         created_by'[l] = created_by[l], auction_type'[l] = auction_type[l],
         current_price'[l] = current_price[l]
  PROVE  BidsFit(l)'
BY DEF BidsFit

LEMMA PlaceBidFits ==
  ASSUME TypeOK, NEW u \in Users, NEW l \in Lots, NEW a \in Amounts, NEW t, NEW s,
         BidsFit(l), PlaceBid(u, l, a, t, s)
  PROVE  BidsFit(l)'
<1> DEFINE old == bids[l]
           row == [user |-> u, amount |-> a]
           new == Append(old, row)
<1>1. old \in Seq(BidRows) /\ a \in Nat /\ current_price[l] \in Nat
  BY AmountsAssumption DEF TypeOK
<1>2. row \in BidRows
  BY <1>1 DEF BidRows
<1>3. /\ bids'[l] = new /\ current_price'[l] = a
      /\ created_by'[l] = created_by[l] /\ auction_type'[l] = auction_type[l]
  BY DEF PlaceBid, Biddable, WriteBid, TypeOK, listing
<1>4. auction_type[l] = "bid" /\ created_by[l] # u /\ a > current_price[l] /\ Leader(l) # u
  BY DEF PlaceBid, Biddable, WriteBid, TypeOK, Kinds
<1>5. old # <<>> => old[Len(old)].amount < a /\ old[Len(old)].user # u
  BY <1>4 DEF BidsFit, Leader
<1>6. \A i \in 1 .. Len(old) : old[i].user # created_by[l]
  BY DEF BidsFit
<1>7. \A i \in 1 .. Len(old) - 1 :
        old[i].amount < old[i + 1].amount /\ old[i].user # old[i + 1].user
  BY DEF BidsFit
<1> HIDE DEF old
<1>8. Len(new) = Len(old) + 1 /\ Len(old) \in Nat /\ new # <<>>
  BY <1>1, <1>2
<1>9. \A i \in 1 .. Len(old) : new[i] = old[i]
  BY <1>1, <1>2
<1>10. new[Len(old) + 1] = row
  BY <1>1, <1>2
<1> HIDE DEF new
<1>11. \A i \in 1 .. Len(new) : new[i].user # created_by[l]
  BY <1>4, <1>6, <1>8, <1>9, <1>10
<1>12. \A i \in 1 .. Len(new) - 1 :
         new[i].amount < new[i + 1].amount /\ new[i].user # new[i + 1].user
  <2> SUFFICES ASSUME NEW i \in 1 .. Len(new) - 1
               PROVE  new[i].amount < new[i + 1].amount /\ new[i].user # new[i + 1].user
    OBVIOUS
  <2>1. CASE i = Len(old)
    <3>1. old # <<>>
      BY <1>1, <1>8, <2>1
    <3>2. QED
      BY <1>5, <1>8, <1>9, <1>10, <2>1, <3>1
  <2>2. CASE i # Len(old)
    <3>1. i \in 1 .. Len(old) - 1 /\ i \in 1 .. Len(old) /\ i + 1 \in 1 .. Len(old)
      BY <1>8, <2>2
    <3>2. QED
      BY <1>7, <1>9, <3>1
  <2>3. QED
    BY <2>1, <2>2
<1>13. new[Len(new)].amount = a
  BY <1>8, <1>10
<1>14. QED
  BY <1>3, <1>4, <1>11, <1>12, <1>13 DEF BidsFit

(* One step keeps BlankWhenAbsent: bids and extensions need an open lot.   *)
LEMMA StepBlank ==
  ASSUME TypeOK, BlankWhenAbsent, [Steps]_vars
  PROVE  BlankWhenAbsent'
<1>1. CASE Tick
  BY <1>1 DEF Tick, BlankWhenAbsent, deadline
<1>2. ASSUME NEW u \in Users, NEW a \in Deposits, Deposit(u, a) \/ Withdraw(u, a)
      PROVE  BlankWhenAbsent'
  BY <1>2 DEF Deposit, Withdraw, WriteCash, BlankWhenAbsent, deadline
<1>3. ASSUME NEW u \in Sellers, NEW l \in Lots, NEW type \in Kinds, NEW start \in Prices,
             NEW bin \in Prices \cup {NoPrice}, NEW d \in Durations, NEW t \in RecentTimes,
             CreateAuction(u, l, type, start, bin, d, t)
      PROVE  BlankWhenAbsent'
  BY <1>3 DEF CreateAuction, BlankWhenAbsent, TypeOK
<1>4. ASSUME NEW u \in Sellers, NEW l \in Lots, NEW start \in Prices \cup {Keep},
             NEW bin \in Prices \cup {NoPrice, Keep}, NEW type \in Kinds \cup {KeepType},
             NEW d \in Durations \cup {0}, UpdateAuction(u, l, start, bin, type, d)
      PROVE  BlankWhenAbsent'
  BY <1>4 DEF UpdateAuction, WriteEdit, Edited, BlankWhenAbsent
<1>5. ASSUME NEW u \in Sellers, NEW l \in Lots, DeleteAuction(u, l)
      PROVE  BlankWhenAbsent'
  BY <1>5 DEF DeleteAuction, WriteDelete, BlankWhenAbsent, TypeOK, deadline
<1>6. ASSUME NEW u \in Users, NEW l \in Lots, NEW a \in Amounts, NEW t \in RecentTimes,
             NEW s \in RecentTimes, PlaceBid(u, l, a, t, s)
      PROVE  BlankWhenAbsent'
  <2>1. /\ status[l] = "active" /\ status' = status
        /\ \A k \in Lots \ {l} : bids'[k] = bids[k] /\ extensions_count'[k] = extensions_count[k]
    <3>1. CASE Sniping(l, s)
      BY <1>6, <3>1 DEF PlaceBid, Biddable, WriteBid, TypeOK
    <3>2. CASE ~ Sniping(l, s)
      BY <1>6, <3>2 DEF PlaceBid, Biddable, WriteBid, TypeOK
    <3>3. QED
      BY <3>1, <3>2
  <2>2. QED
    BY <2>1 DEF BlankWhenAbsent
<1>7. ASSUME NEW u \in Users, NEW l \in Lots, NEW t \in RecentTimes, NEW s \in RecentTimes,
             BuyNow(u, l, t, s)
      PROVE  BlankWhenAbsent'
  BY <1>7 DEF BuyNow, Buyable, WritePurchase, BlankWhenAbsent, TypeOK
<1>8. ASSUME NEW l \in Lots, SettleOpen(l)
      PROVE  BlankWhenAbsent'
  BY <1>8 DEF SettleOpen, WriteSettlement, BlankWhenAbsent, TypeOK, deadline
<1>9. CASE UNCHANGED vars
  BY <1>9 DEF vars, BlankWhenAbsent, deadline
<1>10. QED
  BY <1>1, <1>2, <1>3, <1>4, <1>5, <1>6, <1>7, <1>8, <1>9
  DEF Steps, Next, CompleteAuction, Due, SettleOpen

(* One step keeps every lot's bids in order and its price on the last one. *)
LEMMA StepBidsAscend ==
  ASSUME TypeOK, BlankWhenAbsent, BidsAscendToPrice, [Steps]_vars
  PROVE  BidsAscendToPrice'
<1>a. ASSUME NEW k \in Lots
      PROVE  BidsFit(k)
  BY <1>a, BidsFitAll
<1> SUFFICES ASSUME NEW k \in Lots
             PROVE  BidsFit(k)'
  BY DEF BidsAscendToPrice, BidsFit
<1>1. CASE Tick
  BY <1>1, <1>a, SameBidsFit DEF Tick, listing
<1>2. ASSUME NEW u \in Users, NEW a \in Deposits, Deposit(u, a) \/ Withdraw(u, a)
      PROVE  BidsFit(k)'
  BY <1>2, <1>a, SameBidsFit DEF Deposit, Withdraw, WriteCash, listing
<1>3. ASSUME NEW u \in Sellers, NEW l \in Lots, NEW type \in Kinds, NEW start \in Prices,
             NEW bin \in Prices \cup {NoPrice}, NEW d \in Durations, NEW t \in RecentTimes,
             CreateAuction(u, l, type, start, bin, d, t)
      PROVE  BidsFit(k)'
  <2>1. CASE k = l
    BY <1>3, <2>1, NoBidsFit DEF CreateAuction, BlankWhenAbsent
  <2>2. CASE k # l
    BY <1>3, <1>a, <2>2, SameBidsFit DEF CreateAuction, TypeOK
  <2>3. QED
    BY <2>1, <2>2
<1>4. ASSUME NEW u \in Sellers, NEW l \in Lots, NEW start \in Prices \cup {Keep},
             NEW bin \in Prices \cup {NoPrice, Keep}, NEW type \in Kinds \cup {KeepType},
             NEW d \in Durations \cup {0}, UpdateAuction(u, l, start, bin, type, d)
      PROVE  BidsFit(k)'
  <2>1. CASE k = l
    BY <1>4, <2>1, NoBidsFit DEF UpdateAuction, WriteEdit, Edited, Editable
  <2>2. CASE k # l
    <3>1. /\ bids'[k] = bids[k] /\ created_by'[k] = created_by[k]
          /\ auction_type'[k] = auction_type[k] /\ current_price'[k] = current_price[k]
      BY <1>4, <2>2 DEF UpdateAuction, WriteEdit, Edited, TypeOK
    <3>2. QED
      BY <1>a, <3>1, SameBidsFit
  <2>3. QED
    BY <2>1, <2>2
<1>5. ASSUME NEW u \in Sellers, NEW l \in Lots, DeleteAuction(u, l)
      PROVE  BidsFit(k)'
  BY <1>5, <1>a, SameBidsFit DEF DeleteAuction, WriteDelete, listing
<1>6. ASSUME NEW u \in Users, NEW l \in Lots, NEW a \in Amounts, NEW t \in RecentTimes,
             NEW s \in RecentTimes, PlaceBid(u, l, a, t, s)
      PROVE  BidsFit(k)'
  <2>1. CASE k = l
    BY <1>6, <1>a, <2>1, PlaceBidFits
  <2>2. CASE k # l
    <3>1. /\ bids'[k] = bids[k] /\ created_by'[k] = created_by[k]
          /\ auction_type'[k] = auction_type[k] /\ current_price'[k] = current_price[k]
      BY <1>6, <2>2 DEF PlaceBid, Biddable, WriteBid, TypeOK, listing
    <3>2. QED
      BY <1>a, <3>1, SameBidsFit
  <2>3. QED
    BY <2>1, <2>2
<1>7. ASSUME NEW u \in Users, NEW l \in Lots, NEW t \in RecentTimes, NEW s \in RecentTimes,
             BuyNow(u, l, t, s)
      PROVE  BidsFit(k)'
  <2>1. bids' = bids /\ auction_type[l] = "bin"
    BY <1>7 DEF BuyNow, Buyable, WritePurchase
  <2>2. CASE k = l
    <3>1. bids[l] = <<>>
      BY <1>a, <2>1 DEF BidsFit
    <3>2. QED
      BY <2>1, <2>2, <3>1, NoBidsFit
  <2>3. CASE k # l
    <3>1. /\ created_by'[k] = created_by[k] /\ auction_type'[k] = auction_type[k]
          /\ current_price'[k] = current_price[k]
      BY <1>7, <2>3 DEF BuyNow, Buyable, WritePurchase, TypeOK, listing
    <3>2. QED
      BY <1>a, <2>1, <3>1, SameBidsFit
  <2>4. QED
    BY <2>2, <2>3
<1>8. ASSUME NEW l \in Lots, SettleOpen(l)
      PROVE  BidsFit(k)'
  BY <1>8, <1>a, SameBidsFit DEF SettleOpen, WriteSettlement, listing
<1>9. CASE UNCHANGED vars
  BY <1>9, <1>a, SameBidsFit DEF vars, listing
<1>10. QED
  BY <1>1, <1>2, <1>3, <1>4, <1>5, <1>6, <1>7, <1>8, <1>9
  DEF Steps, Next, CompleteAuction, Due, SettleOpen

-----------------------------------------------------------------------------
(* Solvency.                                                               *)

(* What u's commitment is made of, and whom a lot without bids concerns.   *)
LEMMA HeldAt ==
  ASSUME NEW u \in Users, NEW l \in Lots
  PROVE  /\ Held(u)[l] = IF status[l] = "active" /\ Leader(l) = u
                         THEN current_price[l] ELSE 0
         /\ Held(u)'[l] = IF status'[l] = "active" /\ Leader(l)' = u
                          THEN current_price'[l] ELSE 0
BY DEF Held

LEMMA NoBidsNoLeader ==
  ASSUME NEW u \in Users, NEW l \in Lots
  PROVE  /\ bids[l] = <<>> => Leader(l) # u
         /\ bids'[l] = <<>> => Leader(l)' # u
BY UsersAssumption DEF Leader

(* A step that leaves every lot but k as it is moves u's commitment by     *)
(* what it moves on k.                                                     *)
LEMMA CommittedMoves ==
  ASSUME TypeOK, TypeOK', NEW u \in Users, NEW k \in Lots,
         \A l \in Lots \ {k} : /\ status'[l] = status[l] /\ bids'[l] = bids[l]
                               /\ current_price'[l] = current_price[l]
  PROVE  CommittedBalance(u)' = CommittedBalance(u) + Held(u)'[k] - Held(u)[k]
<1>1. Held(u) \in [1 .. NumLots -> Int] /\ Held(u)' \in [1 .. NumLots -> Int]
  BY DEF TypeOK, Held, Lots
<1>2. \A l \in 1 .. NumLots : l # k => Held(u)'[l] = Held(u)[l]
  <2> SUFFICES ASSUME NEW l \in Lots, l # k
               PROVE  Held(u)'[l] = Held(u)[l]
    BY DEF Lots
  <2>1. Leader(l)' = Leader(l)
    BY DEF Leader
  <2>2. QED
    BY <2>1, HeldAt
<1>3. k \in 1 .. NumLots /\ NumLots \in Nat
  BY LotsAssumption DEF Lots
<1> DEFINE f == Held(u)
           g == Held(u)'
<1>4. f \in [1 .. NumLots -> Int] /\ g \in [1 .. NumLots -> Int]
  BY <1>1
<1>5. \A l \in 1 .. NumLots : l # k => g[l] = f[l]
  BY <1>2
<1> HIDE DEF f, g
<1>6. Total(g, NumLots) = Total(f, NumLots) + g[k] - f[k]
  BY <1>3, <1>4, <1>5, TotalUpdate
<1>7. QED
  BY <1>6 DEF CommittedBalance, f, g

LEMMA CommittedSame ==
  ASSUME NEW u \in Users, status' = status, bids' = bids, current_price' = current_price
  PROVE  CommittedBalance(u)' = CommittedBalance(u)
BY DEF CommittedBalance, Held, Leader

(* A step on a lot without bids, before and after it, commits nobody.      *)
LEMMA CommittedWithoutBids ==
  ASSUME TypeOK, TypeOK', NEW u \in Users, NEW k \in Lots,
         bids[k] = <<>>, bids' = bids,
         \A l \in Lots \ {k} : status'[l] = status[l] /\ current_price'[l] = current_price[l]
  PROVE  CommittedBalance(u)' = CommittedBalance(u)
<1>1. Held(u)[k] = 0 /\ Held(u)'[k] = 0
  BY HeldAt, NoBidsNoLeader
<1>2. CommittedBalance(u)' = CommittedBalance(u) + Held(u)'[k] - Held(u)[k]
  BY CommittedMoves
<1>3. CommittedBalance(u) \in Nat
  BY CommittedType
<1>4. QED
  BY <1>1, <1>2, <1>3

(* One step keeps every user's commitments covered.                        *)
LEMMA StepSolvent ==
  ASSUME TypeOK, TypeOK', BidsAscendToPrice, BlankWhenAbsent, Solvent, [Steps]_vars
  PROVE  Solvent'
<1> SUFFICES ASSUME NEW w \in Users
             PROVE  CommittedBalance(w)' <= balance'[w]
  BY DEF Solvent
<1>a. /\ CommittedBalance(w) \in Nat /\ balance[w] \in Nat /\ balance'[w] \in Nat
      /\ CommittedBalance(w) <= balance[w]
  BY CommittedType DEF Solvent, TypeOK
<1>b. ASSUME NEW k \in Lots
      PROVE  BidsFit(k)
  BY <1>b, BidsFitAll
<1>1. CASE Tick
  BY <1>1, <1>a, CommittedSame DEF Tick, money
<1>2. ASSUME NEW u \in Users, NEW a \in Deposits, Deposit(u, a)
      PROVE  CommittedBalance(w)' <= balance'[w]
  <2>1. CommittedBalance(w)' = CommittedBalance(w)
    BY <1>2, CommittedSame DEF Deposit, WriteCash
  <2>2. balance'[w] >= balance[w]
    BY <1>2, <1>a, AmountsAssumption DEF Deposit, WriteCash, TypeOK
  <2>3. QED
    BY <1>a, <2>1, <2>2
<1>3. ASSUME NEW u \in Users, NEW a \in Deposits, Withdraw(u, a)
      PROVE  CommittedBalance(w)' <= balance'[w]
  <2>1. CommittedBalance(w)' = CommittedBalance(w)
    BY <1>3, CommittedSame DEF Withdraw, WriteCash
  <2>2. CASE u = w
    <3>1. balance'[w] = balance[w] - a /\ a \in Nat /\ balance[w] - CommittedBalance(w) >= a
      BY <1>3, <2>2, AmountsAssumption DEF Withdraw, WriteCash, Available, TypeOK
    <3>2. QED
      BY <1>a, <2>1, <3>1
  <2>3. CASE u # w
    <3>1. balance'[w] = balance[w]
      BY <1>3, <2>3 DEF Withdraw, WriteCash, TypeOK
    <3>2. QED
      BY <1>a, <2>1, <3>1
  <2>4. QED
    BY <2>2, <2>3
<1>4. ASSUME NEW u \in Sellers, NEW l \in Lots, NEW type \in Kinds, NEW start \in Prices,
             NEW bin \in Prices \cup {NoPrice}, NEW d \in Durations, NEW t \in RecentTimes,
             CreateAuction(u, l, type, start, bin, d, t)
      PROVE  CommittedBalance(w)' <= balance'[w]
  <2>1. /\ bids[l] = <<>> /\ bids' = bids /\ balance' = balance
        /\ \A k \in Lots \ {l} : status'[k] = status[k] /\ current_price'[k] = current_price[k]
    BY <1>4 DEF CreateAuction, BlankWhenAbsent, TypeOK, money
  <2>2. QED
    BY <1>a, <2>1, CommittedWithoutBids
<1>5. ASSUME NEW u \in Sellers, NEW l \in Lots, NEW start \in Prices \cup {Keep},
             NEW bin \in Prices \cup {NoPrice, Keep}, NEW type \in Kinds \cup {KeepType},
             NEW d \in Durations \cup {0}, UpdateAuction(u, l, start, bin, type, d)
      PROVE  CommittedBalance(w)' <= balance'[w]
  <2>1. /\ bids[l] = <<>> /\ bids' = bids /\ balance' = balance
        /\ \A k \in Lots \ {l} : status'[k] = status[k] /\ current_price'[k] = current_price[k]
    BY <1>5 DEF UpdateAuction, WriteEdit, Edited, Editable, TypeOK, money
  <2>2. QED
    BY <1>a, <2>1, CommittedWithoutBids
<1>6. ASSUME NEW u \in Sellers, NEW l \in Lots, DeleteAuction(u, l)
      PROVE  CommittedBalance(w)' <= balance'[w]
  <2>1. /\ bids[l] = <<>> /\ bids' = bids /\ balance' = balance
        /\ \A k \in Lots \ {l} : status'[k] = status[k] /\ current_price'[k] = current_price[k]
    BY <1>6 DEF DeleteAuction, WriteDelete, Deletable, TypeOK, money
  <2>2. QED
    BY <1>a, <2>1, CommittedWithoutBids
<1>7. ASSUME NEW u \in Users, NEW l \in Lots, NEW a \in Amounts, NEW t \in RecentTimes,
             NEW s \in RecentTimes, PlaceBid(u, l, a, t, s)
      PROVE  CommittedBalance(w)' <= balance'[w]
  <2>1. /\ status[l] = "active" /\ status' = status /\ balance' = balance
        /\ current_price'[l] = a /\ a \in Nat
        /\ bids'[l] = Append(bids[l], [user |-> u, amount |-> a])
        /\ \A k \in Lots \ {l} : bids'[k] = bids[k] /\ current_price'[k] = current_price[k]
    BY <1>7, AmountsAssumption DEF PlaceBid, Biddable, WriteBid, TypeOK, money
  <2>2. CommittedBalance(w)' = CommittedBalance(w) + Held(w)'[l] - Held(w)[l]
    BY <2>1, CommittedMoves
  <2>3. Leader(l)' = u
    <3>1. bids[l] \in Seq(BidRows) /\ [user |-> u, amount |-> a] \in BidRows
      BY <2>1 DEF TypeOK, BidRows
    <3>2. bids'[l] # <<>> /\ bids'[l][Len(bids'[l])] = [user |-> u, amount |-> a]
      BY <2>1, <3>1
    <3>3. QED
      BY <3>2 DEF Leader
  <2>4. CASE u = w
    <3>1. Leader(l) # w /\ balance[w] - CommittedBalance(w) >= a
      BY <1>7, <1>a, <2>4 DEF PlaceBid, Biddable, WriteBid, EffectiveCommitted
    <3>2. Held(w)[l] = 0 /\ Held(w)'[l] = a
      BY <2>1, <2>3, <2>4, <3>1, HeldAt
    <3>3. QED
      BY <1>a, <2>1, <2>2, <3>1, <3>2
  <2>5. CASE u # w
    <3>1. Held(w)'[l] = 0
      BY <2>3, <2>5, HeldAt
    <3>2. Held(w)[l] \in Nat
      BY HeldType DEF Lots
    <3>3. QED
      BY <1>a, <2>1, <2>2, <3>1, <3>2
  <2>6. QED
    BY <2>4, <2>5
<1>8. ASSUME NEW u \in Users, NEW l \in Lots, NEW t \in RecentTimes, NEW s \in RecentTimes,
             BuyNow(u, l, t, s)
      PROVE  CommittedBalance(w)' <= balance'[w]
  <2>1. bids[l] = <<>>
    BY <1>8, <1>b DEF BuyNow, Buyable, WritePurchase, BidsFit
  <2>2. CommittedBalance(w)' = CommittedBalance(w)
    <3>1. /\ bids' = bids
          /\ \A k \in Lots \ {l} : status'[k] = status[k] /\ current_price'[k] = current_price[k]
      BY <1>8 DEF BuyNow, Buyable, WritePurchase, TypeOK
    <3>2. QED
      BY <2>1, <3>1, CommittedWithoutBids
  <2>3. /\ bin_price[l] \in Nat /\ Commission(bin_price[l]) \in Nat
        /\ Commission(bin_price[l]) <= bin_price[l]
    BY CommissionBounds DEF TypeOK
  <2>4. balance'[w] >= balance[w] - (IF w = u THEN bin_price[l] ELSE 0)
    BY <1>8, <1>a, <2>3 DEF BuyNow, Buyable, WritePurchase, Settle
  <2>5. CASE u = w
    <3>1. balance[w] - CommittedBalance(w) >= bin_price[l]
      BY <1>8, <2>5 DEF BuyNow, Buyable, WritePurchase, Available
    <3>2. QED
      BY <1>a, <2>2, <2>3, <2>4, <2>5, <3>1
  <2>6. CASE u # w
    BY <1>a, <2>2, <2>4, <2>6
  <2>7. QED
    BY <2>5, <2>6
<1>9. ASSUME NEW l \in Lots, SettleOpen(l)
      PROVE  CommittedBalance(w)' <= balance'[w]
  <2>1. /\ status[l] = "active" /\ status'[l] = "completed" /\ bids' = bids
        /\ current_price' = current_price
        /\ \A k \in Lots \ {l} : status'[k] = status[k]
    BY <1>9 DEF SettleOpen, WriteSettlement, TypeOK
  <2>2. CASE bids[l] = <<>>
    <3>1. balance' = balance
      BY <1>9, <2>2 DEF SettleOpen, WriteSettlement, Payout, money
    <3>2. QED
      BY <1>a, <2>1, <2>2, <3>1, CommittedWithoutBids
  <2>3. CASE bids[l] # <<>>
    <3> DEFINE last == bids[l][Len(bids[l])]
    <3>1. last.user \in Users /\ last.amount \in Nat /\ current_price[l] = last.amount
      BY <1>b, <2>3, LastBidType DEF BidsFit
    <3>2. Leader(l) = last.user
      BY <2>3 DEF Leader
    <3>3. Settle(balance, l, last.user, last.amount, "bid_win")
      BY <1>9, <2>3 DEF SettleOpen, WriteSettlement, Payout
    <3> HIDE DEF last
    <3>4. Commission(last.amount) \in Nat /\ Commission(last.amount) <= last.amount
      BY <3>1, CommissionBounds
    <3>5. balance'[w] >= balance[w] - (IF w = last.user THEN last.amount ELSE 0)
      BY <1>a, <3>1, <3>3, <3>4 DEF Settle
    <3>6. /\ Held(w)[l] = (IF w = last.user THEN last.amount ELSE 0)
          /\ Held(w)'[l] = 0
      BY <2>1, <3>1, <3>2, HeldAt
    <3>7. CommittedBalance(w)' = CommittedBalance(w) + Held(w)'[l] - Held(w)[l]
      BY <2>1, CommittedMoves
    <3>8. QED
      BY <1>a, <3>1, <3>5, <3>6, <3>7
  <2>4. QED
    BY <2>2, <2>3
<1>10. CASE UNCHANGED vars
  BY <1>10, <1>a, CommittedSame DEF vars, money
<1>11. QED
  BY <1>1, <1>2, <1>3, <1>4, <1>5, <1>6, <1>7, <1>8, <1>9, <1>10
  DEF Steps, Next, CompleteAuction, Due, SettleOpen

-----------------------------------------------------------------------------
(* The inductive invariant and what follows from it.                       *)

IInv == TypeOK /\ BlankWhenAbsent /\ BidsAscendToPrice /\ Solvent

LEMMA InitIInv == Init => IInv
<1> SUFFICES ASSUME Init PROVE IInv
  OBVIOUS
<1>1. TypeOK
  BY InitTypeOK
<1>2. \A l \in Lots : bids[l] = <<>> /\ extensions_count[l] = 0
  BY DEF Init
<1>3. BidsAscendToPrice
  BY <1>2 DEF BidsAscendToPrice
<1>4. ASSUME NEW u \in Users
      PROVE  CommittedBalance(u) <= balance[u]
  <2>1. \A l \in 1 .. NumLots : Held(u)[l] = 0
    BY DEF Held, Lots, Init
  <2>2. Held(u) \in [1 .. NumLots -> Int]
    BY <1>1, HeldType
  <2>3. Total(Held(u), NumLots) <= 0
    BY <2>1, <2>2, TotalZero, LotsAssumption
  <2>4. QED
    BY <1>1, <2>3, CommittedType DEF CommittedBalance, TypeOK
<1>5. QED
  BY <1>1, <1>2, <1>3, <1>4 DEF IInv, BlankWhenAbsent, Solvent

LEMMA StepIInv == IInv /\ [Steps]_vars => IInv'
BY StepTypeOK, StepBlank, StepBidsAscend, StepSolvent DEF IInv

LEMMA InvariantHolds == Spec => []IInv
BY InitIInv, StepIInv, NextSteps, PTL DEF Spec

(* For any number of users and lots: bids ascend to the displayed price    *)
(* and never come from the seller or twice running from one user.          *)
THEOREM BidsAlwaysAscend == Spec => []BidsAscendToPrice
BY InvariantHolds, PTL DEF IInv

(* For any number of users and lots: nobody's leading bids ever exceed the *)
(* balance.                                                                *)
THEOREM AlwaysSolvent == Spec => []Solvent
BY InvariantHolds, PTL DEF IInv

(* CompleteAuction's debit is never refused by the table's CHECK: whoever  *)
(* leads an active lot still holds at least the winning bid, so the timer  *)
(* (which does not retry) cannot fail for lack of money.                   *)
LeaderCanPay ==
  \A l \in Lots : status[l] = "active" /\ bids[l] # <<>> =>
    bids[l][Len(bids[l])].amount <= balance[bids[l][Len(bids[l])].user]

(* For any number of users and lots: the settlement of a lot always finds  *)
(* the money of its last bidder.                                           *)
THEOREM LeaderAlwaysCanPay == Spec => []LeaderCanPay
<1>1. IInv => LeaderCanPay
  <2> SUFFICES ASSUME IInv, NEW l \in Lots, status[l] = "active", bids[l] # <<>>
               PROVE  bids[l][Len(bids[l])].amount <= balance[bids[l][Len(bids[l])].user]
    BY DEF LeaderCanPay
  <2> DEFINE last == bids[l][Len(bids[l])]
  <2>1. TypeOK /\ Solvent /\ BidsFit(l)
    BY BidsFitAll DEF IInv
  <2>2. last.user \in Users /\ last.amount \in Nat /\ current_price[l] = last.amount
    BY <2>1, LastBidType DEF BidsFit
  <2>3. Leader(l) = last.user
    BY DEF Leader
  <2> HIDE DEF last
  <2>4. Held(last.user)[l] = last.amount
    BY <2>2, <2>3, HeldAt
  <2>5. Held(last.user) \in [1 .. NumLots -> Nat] /\ l \in 1 .. NumLots
    BY <2>1, <2>2, HeldType DEF Lots
  <2>6. CommittedBalance(last.user) >= Held(last.user)[l]
    BY <2>5, LotsAssumption, TotalAtLeast DEF CommittedBalance
  <2>7. /\ CommittedBalance(last.user) \in Nat /\ balance[last.user] \in Nat
        /\ CommittedBalance(last.user) <= balance[last.user]
    BY <2>1, <2>2, CommittedType DEF Solvent, TypeOK
  <2>8. last.amount <= balance[last.user]
    BY <2>2, <2>4, <2>6, <2>7
  <2>9. QED
    BY <2>8 DEF last
<1>2. QED
  BY <1>1, InvariantHolds, PTL

-----------------------------------------------------------------------------
(* Deadlines.                                                              *)

LEMMA OneMore ==
  ASSUME NEW n \in Nat, NEW d \in Nat
  PROVE  n * d \in Nat /\ (n + 1) * d = n * d + d
OBVIOUS

(* A late bid's extension neither moves the deadline back nor adds a whole *)
(* Extend.                                                                 *)
LEMMA ExtensionBounds ==
  ASSUME TypeOK, NEW l \in Lots, NEW s \in RecentTimes, Sniping(l, s)
  PROVE  /\ s + Extend >= end_time[l] /\ s + Extend <= end_time[l] + Extend
         /\ extensions_count[l] + 1 <= MaxExtensions
         /\ s \in Nat
<1>1. s \in Nat
  BY DEF TypeOK, RecentTimes
<1>2. /\ Window \in Nat /\ Extend \in Nat /\ MaxExtensions \in Nat /\ Window <= Extend
      /\ end_time[l] \in Nat /\ extensions_count[l] \in Nat
  BY SnipingAssumption DEF TypeOK
<1>3. 0 < end_time[l] - s /\ end_time[l] - s < Window /\ extensions_count[l] < MaxExtensions
  BY DEF Sniping
<1>4. QED
  BY <1>1, <1>2, <1>3

(* LifetimeBounded for one lot.                                            *)
Bounded(l) ==
  status[l] = "active" =>
    /\ extensions_count[l] <= MaxExtensions
    /\ end_time[l] <= agreed_end[l] + extensions_count[l] * Extend

LEMMA BoundedAll == LifetimeBounded <=> \A l \in Lots : Bounded(l)
BY DEF LifetimeBounded, Bounded

LEMMA SameBounded ==
  ASSUME NEW k \in Lots, Bounded(k), status'[k] = status[k] \/ status'[k] # "active",
         extensions_count'[k] = extensions_count[k], end_time'[k] = end_time[k],
         agreed_end'[k] = agreed_end[k]
  PROVE  Bounded(k)'
BY DEF Bounded

LEMMA StepBounded ==
  ASSUME TypeOK, BlankWhenAbsent, LifetimeBounded, [Steps]_vars
  PROVE  LifetimeBounded'
<1> SUFFICES ASSUME NEW k \in Lots
             PROVE  Bounded(k)'
  BY DEF LifetimeBounded, Bounded
<1>a. Bounded(k)
  BY BoundedAll
<1>1. CASE Tick
  BY <1>1, <1>a, SameBounded DEF Tick, deadline
<1>2. ASSUME NEW u \in Users, NEW a \in Deposits, Deposit(u, a) \/ Withdraw(u, a)
      PROVE  Bounded(k)'
  BY <1>2, <1>a, SameBounded DEF Deposit, Withdraw, WriteCash, deadline
<1>3. ASSUME NEW u \in Sellers, NEW l \in Lots, NEW type \in Kinds, NEW start \in Prices,
             NEW bin \in Prices \cup {NoPrice}, NEW d \in Durations, NEW t \in RecentTimes,
             CreateAuction(u, l, type, start, bin, d, t)
      PROVE  Bounded(k)'
  <2>1. CASE k = l
    <3>1. extensions_count'[l] = 0 /\ end_time'[l] = agreed_end'[l] /\ agreed_end'[l] \in Nat
      BY <1>3, DurationsAssumption DEF CreateAuction, BlankWhenAbsent, TypeOK, RecentTimes
    <3>2. QED
      BY <2>1, <3>1, SnipingAssumption DEF Bounded
  <2>2. CASE k # l
    <3>1. /\ status'[k] = status[k] /\ extensions_count'[k] = extensions_count[k]
          /\ end_time'[k] = end_time[k] /\ agreed_end'[k] = agreed_end[k]
      BY <1>3, <2>2 DEF CreateAuction, TypeOK
    <3>2. QED
      BY <1>a, <3>1, SameBounded
  <2>3. QED
    BY <2>1, <2>2
<1>4. ASSUME NEW u \in Sellers, NEW l \in Lots, NEW start \in Prices \cup {Keep},
             NEW bin \in Prices \cup {NoPrice, Keep}, NEW type \in Kinds \cup {KeepType},
             NEW d \in Durations \cup {0}, UpdateAuction(u, l, start, bin, type, d)
      PROVE  Bounded(k)'
  <2>1. CASE k = l
    <3>1. d \in Nat
      BY DurationsAssumption
    <3>2. /\ status'[l] = status[l] /\ extensions_count'[l] = extensions_count[l]
          /\ end_time'[l] = end_time[l] + d /\ agreed_end'[l] = agreed_end[l] + d
      <4>1. /\ status' = status /\ extensions_count' = extensions_count
            /\ end_time' = [end_time EXCEPT ![l] = @ + d]
            /\ agreed_end' = [agreed_end EXCEPT ![l] = @ + d]
        BY <1>4 DEF UpdateAuction, WriteEdit
      <4>2. /\ status \in [Lots -> {"absent", "active", "completed", "deleted"}]
            /\ end_time \in [Lots -> Nat] /\ agreed_end \in [Lots -> Nat]
        BY DEF TypeOK
      <4>3. end_time'[l] = end_time[l] + d
        BY <4>1, <4>2
      <4>4. agreed_end'[l] = agreed_end[l] + d
        BY <4>1, <4>2
      <4>5. QED
        BY <4>1, <4>3, <4>4
    <3>3. extensions_count[l] * Extend \in Nat /\ end_time[l] \in Nat /\ agreed_end[l] \in Nat
      <4>1. extensions_count[l] \in Nat /\ end_time[l] \in Nat /\ agreed_end[l] \in Nat
        BY DEF TypeOK
      <4>2. Extend \in Nat
        BY SnipingAssumption
      <4>3. QED
        BY <4>1, <4>2, OneMore
    <3>4. QED
      BY <1>a, <2>1, <3>1, <3>2, <3>3 DEF Bounded
  <2>2. CASE k # l
    <3>1. /\ status'[k] = status[k] /\ extensions_count'[k] = extensions_count[k]
          /\ end_time'[k] = end_time[k] /\ agreed_end'[k] = agreed_end[k]
      BY <1>4, <2>2 DEF UpdateAuction, WriteEdit, Edited, TypeOK
    <3>2. QED
      BY <1>a, <3>1, SameBounded
  <2>3. QED
    BY <2>1, <2>2
<1>5. ASSUME NEW u \in Sellers, NEW l \in Lots, DeleteAuction(u, l)
      PROVE  Bounded(k)'
  <2>1. status'[k] = status[k] \/ status'[k] # "active"
    BY <1>5 DEF DeleteAuction, WriteDelete, TypeOK
  <2>2. QED
    BY <1>5, <1>a, <2>1, SameBounded DEF DeleteAuction, WriteDelete, deadline
<1>6. ASSUME NEW u \in Users, NEW l \in Lots, NEW a \in Amounts, NEW t \in RecentTimes,
             NEW s \in RecentTimes, PlaceBid(u, l, a, t, s)
      PROVE  Bounded(k)'
  <2>1. CASE k = l /\ Sniping(l, s)
    <3>1. /\ status'[l] = status[l] /\ agreed_end'[l] = agreed_end[l] /\ status[l] = "active"
          /\ end_time'[l] = s + Extend /\ extensions_count'[l] = extensions_count[l] + 1
      BY <1>6, <2>1 DEF PlaceBid, Biddable, WriteBid, TypeOK
    <3>2. /\ s + Extend <= end_time[l] + Extend /\ s \in Nat
          /\ extensions_count[l] + 1 <= MaxExtensions
      BY <2>1, ExtensionBounds
    <3>3. /\ extensions_count[l] \in Nat /\ end_time[l] \in Nat /\ agreed_end[l] \in Nat
          /\ Extend \in Nat
      BY SnipingAssumption DEF TypeOK
    <3>4. /\ extensions_count[l] * Extend \in Nat
          /\ (extensions_count[l] + 1) * Extend = extensions_count[l] * Extend + Extend
      BY <3>3, OneMore
    <3>5. end_time[l] <= agreed_end[l] + extensions_count[l] * Extend
      BY <1>a, <2>1, <3>1 DEF Bounded
    <3>6. s + Extend <= agreed_end[l] + (extensions_count[l] + 1) * Extend
      BY <3>2, <3>3, <3>4, <3>5
    <3>7. QED
      BY <2>1, <3>1, <3>2, <3>6 DEF Bounded
  <2>2. CASE k # l \/ ~ Sniping(l, s)
    <3>1. /\ status' = status /\ agreed_end' = agreed_end
          /\ extensions_count'[k] = extensions_count[k] /\ end_time'[k] = end_time[k]
      <4>1. CASE Sniping(l, s)
        BY <1>6, <2>2, <4>1 DEF PlaceBid, Biddable, WriteBid, TypeOK
      <4>2. CASE ~ Sniping(l, s)
        BY <1>6, <4>2 DEF PlaceBid, Biddable, WriteBid, TypeOK
      <4>3. QED
        BY <4>1, <4>2
    <3>2. QED
      BY <1>a, <3>1, SameBounded
  <2>3. QED
    BY <2>1, <2>2
<1>7. ASSUME NEW u \in Users, NEW l \in Lots, NEW t \in RecentTimes, NEW s \in RecentTimes,
             BuyNow(u, l, t, s)
      PROVE  Bounded(k)'
  <2>1. CASE k = l
    BY <1>7, <2>1 DEF BuyNow, Buyable, WritePurchase, TypeOK, Bounded
  <2>2. CASE k # l
    <3>1. /\ status'[k] = status[k] /\ extensions_count'[k] = extensions_count[k]
          /\ end_time'[k] = end_time[k] /\ agreed_end'[k] = agreed_end[k]
      BY <1>7, <2>2 DEF BuyNow, Buyable, WritePurchase, TypeOK
    <3>2. QED
      BY <1>a, <3>1, SameBounded
  <2>3. QED
    BY <2>1, <2>2
<1>8. ASSUME NEW l \in Lots, SettleOpen(l)
      PROVE  Bounded(k)'
  <2>1. status'[k] = status[k] \/ status'[k] # "active"
    BY <1>8 DEF SettleOpen, WriteSettlement, TypeOK
  <2>2. QED
    BY <1>8, <1>a, <2>1, SameBounded DEF SettleOpen, WriteSettlement, deadline
<1>9. CASE UNCHANGED vars
  BY <1>9, <1>a, SameBounded DEF vars, deadline
<1>10. QED
  BY <1>1, <1>2, <1>3, <1>4, <1>5, <1>6, <1>7, <1>8, <1>9
  DEF Steps, Next, CompleteAuction, Due, SettleOpen

(* For every cap on extensions: anti-sniping adds at most MaxExtensions    *)
(* times Extend to what the seller asked for.                              *)
THEOREM LifetimeAlwaysBounded == Spec => []LifetimeBounded
<1>1. Init => LifetimeBounded
  BY DEF Init, LifetimeBounded
<1>2. IInv /\ LifetimeBounded /\ [Steps]_vars => LifetimeBounded'
  BY StepBounded DEF IInv
<1>3. QED
  BY <1>1, <1>2, NextSteps, InvariantHolds, PTL DEF Spec

(* No step brings an open lot's deadline forward.                          *)
LEMMA DeadlineStep ==
  ASSUME TypeOK, [Steps]_vars, NEW k \in Lots, status[k] = "active", status'[k] = "active"
  PROVE  end_time'[k] >= end_time[k]
<1>a. end_time[k] \in Nat
  BY DEF TypeOK
<1>1. CASE end_time' = end_time
  BY <1>a, <1>1
<1>2. ASSUME NEW u \in Sellers, NEW l \in Lots, NEW type \in Kinds, NEW start \in Prices,
           NEW bin \in Prices \cup {NoPrice}, NEW d \in Durations, NEW t \in RecentTimes,
           CreateAuction(u, l, type, start, bin, d, t)
      PROVE  end_time'[k] >= end_time[k]
  <2>1. k # l /\ \E at : end_time' = [end_time EXCEPT ![l] = at]
    BY <1>2 DEF CreateAuction
  <2>2. end_time'[k] = end_time[k]
    BY <2>1 DEF TypeOK
  <2>3. QED
    BY <1>a, <2>2
<1>3. ASSUME NEW u \in Sellers, NEW l \in Lots, NEW start \in Prices \cup {Keep},
           NEW bin \in Prices \cup {NoPrice, Keep}, NEW type \in Kinds \cup {KeepType},
           NEW d \in Durations \cup {0}, UpdateAuction(u, l, start, bin, type, d)
      PROVE  end_time'[k] >= end_time[k]
  <2>1. end_time' = [end_time EXCEPT ![l] = @ + d]
    BY <1>3 DEF UpdateAuction, WriteEdit
  <2>2. d \in Nat
    BY DurationsAssumption
  <2>3. end_time'[k] = IF k = l THEN end_time[k] + d ELSE end_time[k]
    BY <2>1 DEF TypeOK
  <2>4. QED
    BY <1>a, <2>2, <2>3
<1>4. ASSUME NEW u \in Users, NEW l \in Lots, NEW a \in Amounts, NEW t \in RecentTimes,
           NEW s \in RecentTimes, PlaceBid(u, l, a, t, s)
      PROVE  end_time'[k] >= end_time[k]
  <2>1. CASE Sniping(l, s)
    <3>1. end_time' = [end_time EXCEPT ![l] = s + Extend]
      BY <1>4, <2>1 DEF PlaceBid, Biddable, WriteBid
    <3>2. s + Extend >= end_time[l]
      BY <2>1, ExtensionBounds
    <3>3. end_time'[k] = IF k = l THEN s + Extend ELSE end_time[k]
      BY <3>1 DEF TypeOK
    <3>4. QED
      BY <1>a, <3>2, <3>3
  <2>2. CASE ~ Sniping(l, s)
    BY <1>4, <1>a, <2>2 DEF PlaceBid, Biddable, WriteBid
  <2>3. QED
    BY <2>1, <2>2
<1>5. ASSUME NEW u \in Users, NEW l \in Lots, NEW t \in RecentTimes, NEW s \in RecentTimes,
           BuyNow(u, l, t, s)
      PROVE  end_time'[k] >= end_time[k]
  BY <1>a, <1>5 DEF BuyNow, Buyable, WritePurchase, TypeOK
<1>6. QED
  BY <1>1, <1>2, <1>3, <1>4, <1>5
  DEF Steps, SettleOpen, Next, Tick, Deposit, Withdraw, WriteCash, DeleteAuction, WriteDelete,
      CompleteAuction, WriteSettlement, vars, deadline

(* For every instance: no step brings an open lot's deadline forward.      *)
THEOREM DeadlinesNeverRecede == Spec => DeadlineNeverRecedes
<1>1. TypeOK /\ [Steps]_vars =>
        [\A l \in Lots : status[l] = "active" /\ status'[l] = "active"
           => end_time'[l] >= end_time[l]]_vars
  BY DeadlineStep
<1>2. QED
  BY <1>1, NextSteps, TypeCorrect, PTL DEF Spec, DeadlineNeverRecedes

(* No step touches a completed or deleted lot.                             *)
LEMMA FinishedStep ==
  ASSUME TypeOK, [Steps]_vars, NEW k \in Lots, status[k] \in {"completed", "deleted"}
  PROVE  /\ status'[k] = status[k] /\ winner_id'[k] = winner_id[k]
         /\ current_price'[k] = current_price[k] /\ bids'[k] = bids[k]
         /\ created_by'[k] = created_by[k]
<1> DEFINE Same == /\ status'[k] = status[k] /\ winner_id'[k] = winner_id[k]
                   /\ current_price'[k] = current_price[k] /\ bids'[k] = bids[k]
                   /\ created_by'[k] = created_by[k]
<1>1. CASE UNCHANGED <<status, winner_id, current_price, bids, created_by>>
  BY <1>1
<1>2. ASSUME NEW u \in Sellers, NEW l \in Lots, NEW type \in Kinds, NEW start \in Prices,
           NEW bin \in Prices \cup {NoPrice}, NEW d \in Durations, NEW t \in RecentTimes,
           CreateAuction(u, l, type, start, bin, d, t)
      PROVE  Same
  BY <1>2 DEF CreateAuction, TypeOK
<1>3. ASSUME NEW u \in Sellers, NEW l \in Lots, NEW start \in Prices \cup {Keep},
           NEW bin \in Prices \cup {NoPrice, Keep}, NEW type \in Kinds \cup {KeepType},
           NEW d \in Durations \cup {0}, UpdateAuction(u, l, start, bin, type, d)
      PROVE  Same
  <2>1. k # l
    BY <1>3 DEF UpdateAuction, WriteEdit, Edited, Editable
  <2>2. QED
    BY <1>3, <2>1 DEF UpdateAuction, WriteEdit, Edited, TypeOK, deadline
<1>4. ASSUME NEW u \in Sellers, NEW l \in Lots, DeleteAuction(u, l)
      PROVE  Same
  BY <1>4 DEF DeleteAuction, WriteDelete, Deletable, TypeOK, listing, deadline
<1>5. ASSUME NEW u \in Users, NEW l \in Lots, NEW a \in Amounts, NEW t \in RecentTimes,
           NEW s \in RecentTimes, PlaceBid(u, l, a, t, s)
      PROVE  Same
  BY <1>5 DEF PlaceBid, Biddable, WriteBid, TypeOK, listing
<1>6. ASSUME NEW u \in Users, NEW l \in Lots, NEW t \in RecentTimes, NEW s \in RecentTimes,
           BuyNow(u, l, t, s)
      PROVE  Same
  BY <1>6 DEF BuyNow, Buyable, WritePurchase, TypeOK, listing, deadline
<1>7. ASSUME NEW l \in Lots, SettleOpen(l)
      PROVE  Same
  <2>1. k # l
    BY <1>7 DEF SettleOpen, WriteSettlement
  <2>2. QED
    BY <1>7, <2>1 DEF SettleOpen, WriteSettlement, Payout, TypeOK, listing, deadline
<1>8. QED
  BY <1>1, <1>2, <1>3, <1>4, <1>5, <1>6, <1>7
  DEF Steps, SettleOpen, Due, CompleteAuction, Next, Tick, Deposit, Withdraw, WriteCash, vars,
      listing, deadline

(* For every instance: no step touches a completed or deleted lot.         *)
THEOREM FinishedStaysFinal == Spec => FinishedIsFinal
<1>1. TypeOK /\ [Steps]_vars =>
        [\A l \in Lots : status[l] \in {"completed", "deleted"} =>
           /\ status'[l] = status[l]
           /\ winner_id'[l] = winner_id[l]
           /\ current_price'[l] = current_price[l]
           /\ bids'[l] = bids[l]]_vars
  BY FinishedStep
<1>2. QED
  BY <1>1, NextSteps, TypeCorrect, PTL DEF Spec, FinishedIsFinal

-----------------------------------------------------------------------------
(* The transactions: the rows explain the balances, a sale is recorded     *)
(* once and on both sides, and nobody wins without paying.  Every step     *)
(* either leaves the money alone, or is a deposit or withdrawal, or is the *)
(* sale of one open lot by settlement or purchase.                         *)

(* A lot that is listed has a seller; one that is not sold has no winner.  *)
SellersKnown == \A l \in Lots : status[l] # "absent" => created_by[l] \in Users
UnsoldUnwon == \A l \in Lots : status[l] # "completed" => winner_id[l] = NoUser

MarketInv == IInv /\ SellersKnown /\ UnsoldUnwon

Sale(l, b, p, type) ==
  /\ type \in {"bid_win", "bin_purchase"}
  /\ status[l] = "active" /\ b # created_by[l] /\ p \in Nat
  /\ Settle(balance, l, b, p, type)
  /\ status' = [status EXCEPT ![l] = "completed"]
  /\ winner_id' = [winner_id EXCEPT ![l] = b]
  /\ current_price' = [current_price EXCEPT ![l] = p]
  /\ created_by' = created_by

(* No money moves; a lot that completes had no bids.                       *)
Free ==
  /\ UNCHANGED money /\ winner_id' = winner_id
  /\ \A l \in Lots : status[l] = "completed" => status'[l] = "completed"
  /\ \A l \in Lots : status'[l] = "completed"
       => status[l] = "completed" \/ (status[l] = "active" /\ bids'[l] = <<>>)
  /\ \A l \in Lots : status'[l] # "absent" => created_by'[l] \in Users

Cash(u, type, d) ==
  /\ \/ type = "deposit" /\ d > 0
     \/ type = "withdrawal" /\ d < 0
  /\ WriteCash(balance, u, type, d)

LEMMA CompletionKinds ==
  ASSUME MarketInv, NEW l \in Lots, SettleOpen(l)
  PROVE  Free \/ \E b \in Users, p \in Nat : Sale(l, b, p, "bid_win")
<1>1. TypeOK /\ status[l] = "active" /\ BidsFit(l) /\ SellersKnown
  BY BidsFitAll DEF MarketInv, IInv, SettleOpen
<1>2. /\ status' = [status EXCEPT ![l] = "completed"]
      /\ UNCHANGED <<now, listing, current_price, deadline, bids>>
  BY DEF SettleOpen, WriteSettlement
<1>3. CASE bids[l] = <<>>
  <2>1. UNCHANGED <<money, winner_id>>
    BY <1>3 DEF SettleOpen, WriteSettlement, Payout
  <2>2. QED
    BY <1>1, <1>2, <1>3, <2>1 DEF Free, TypeOK, SellersKnown, listing
<1>4. CASE bids[l] # <<>>
  <2> DEFINE last == bids[l][Len(bids[l])]
  <2>1. /\ Settle(balance, l, last.user, last.amount, "bid_win")
        /\ winner_id' = [winner_id EXCEPT ![l] = last.user]
    BY <1>4 DEF SettleOpen, WriteSettlement, Payout
  <2>2. /\ last.user \in Users /\ last.amount \in Nat /\ last.user # created_by[l]
        /\ current_price[l] = last.amount
    BY <1>1, <1>4, LastBidType DEF BidsFit
  <2> HIDE DEF last
  <2>3. current_price' = [current_price EXCEPT ![l] = last.amount] /\ created_by' = created_by
    BY <1>1, <1>2, <2>2 DEF TypeOK, listing
  <2>4. Sale(l, last.user, last.amount, "bid_win")
    BY <1>1, <1>2, <2>1, <2>2, <2>3 DEF Sale
  <2>5. QED
    BY <2>2, <2>4
<1>5. QED
  BY <1>3, <1>4

LEMMA StepKinds ==
  ASSUME MarketInv, [Steps]_vars
  PROVE  \/ Free
         \/ \E u \in Users, type \in RowTypes, d \in Int : Cash(u, type, d)
         \/ \E l \in Lots, b \in Users, p \in Nat, type \in RowTypes : Sale(l, b, p, type)
<1>1. TypeOK /\ SellersKnown
  BY DEF MarketInv, IInv
<1>2. CASE Tick \/ UNCHANGED vars
  BY <1>1, <1>2 DEF Tick, vars, listing, Free, SellersKnown
<1>3. ASSUME NEW u \in Users, NEW a \in Deposits, Deposit(u, a) \/ Withdraw(u, a)
      PROVE  \E type \in RowTypes, d \in Int : Cash(u, type, d)
  <2>1. a \in Int /\ a > 0 /\ -a \in Int /\ -a < 0
    BY AmountsAssumption
  <2>2. Cash(u, "deposit", a) \/ Cash(u, "withdrawal", -a)
    BY <1>3, <2>1 DEF Deposit, Withdraw, Cash
  <2>3. QED
    BY <2>1, <2>2 DEF RowTypes
<1>4. ASSUME NEW u \in Sellers, NEW l \in Lots, NEW type \in Kinds, NEW start \in Prices,
             NEW bin \in Prices \cup {NoPrice}, NEW d \in Durations, NEW t \in RecentTimes,
             CreateAuction(u, l, type, start, bin, d, t)
      PROVE  Free
  BY <1>1, <1>4, UsersAssumption DEF CreateAuction, Free, TypeOK, SellersKnown
<1>5. ASSUME NEW u \in Sellers, NEW l \in Lots, NEW start \in Prices \cup {Keep},
             NEW bin \in Prices \cup {NoPrice, Keep}, NEW type \in Kinds \cup {KeepType},
             NEW d \in Durations \cup {0}, UpdateAuction(u, l, start, bin, type, d)
      PROVE  Free
  BY <1>1, <1>5 DEF UpdateAuction, WriteEdit, Free, SellersKnown
<1>6. ASSUME NEW u \in Sellers, NEW l \in Lots, DeleteAuction(u, l)
      PROVE  Free
  BY <1>1, <1>6 DEF DeleteAuction, Deletable, WriteDelete, Free, TypeOK, SellersKnown, listing
<1>7. ASSUME NEW u \in Users, NEW l \in Lots, NEW a \in Amounts, NEW t \in RecentTimes,
             NEW s \in RecentTimes, PlaceBid(u, l, a, t, s)
      PROVE  Free
  BY <1>1, <1>7 DEF PlaceBid, WriteBid, Free, SellersKnown, listing
<1>8. ASSUME NEW u \in Users, NEW l \in Lots, NEW t \in RecentTimes, NEW s \in RecentTimes,
             BuyNow(u, l, t, s)
      PROVE  Sale(l, u, bin_price[l], "bin_purchase") /\ bin_price[l] \in Nat
  BY <1>1, <1>8 DEF BuyNow, Buyable, WritePurchase, Sale, TypeOK, listing
<1>9. ASSUME NEW l \in Lots, SettleOpen(l)
      PROVE  Free \/ \E b \in Users, p \in Nat : Sale(l, b, p, "bid_win")
  BY <1>9, CompletionKinds
<1>10. "bid_win" \in RowTypes /\ "bin_purchase" \in RowTypes
  BY DEF RowTypes
<1>11. QED
  BY <1>2, <1>3, <1>4, <1>5, <1>6, <1>7, <1>8, <1>9, <1>10
  DEF Steps, Next, CompleteAuction, Due, SettleOpen

LEMMA StepMarketInv ==
  ASSUME MarketInv, [Steps]_vars
  PROVE  MarketInv'
<1>1. IInv' /\ TypeOK /\ SellersKnown /\ UnsoldUnwon
  BY StepIInv DEF MarketInv, IInv
<1>2. CASE Free
  BY <1>1, <1>2 DEF Free, MarketInv, SellersKnown, UnsoldUnwon
<1>3. ASSUME NEW u, NEW type, NEW d, Cash(u, type, d)
      PROVE  MarketInv'
  BY <1>1, <1>3 DEF Cash, WriteCash, MarketInv, SellersKnown, UnsoldUnwon, listing
<1>4. ASSUME NEW l \in Lots, NEW b, NEW p, NEW type, Sale(l, b, p, type)
      PROVE  MarketInv'
  BY <1>1, <1>4 DEF Sale, MarketInv, SellersKnown, UnsoldUnwon, TypeOK
<1>5. QED
  BY <1>2, <1>3, <1>4, StepKinds

-----------------------------------------------------------------------------
(* Rows.                                                                   *)

LEMMA AppendTwo ==
  ASSUME NEW s \in Seq(Rows), NEW row \in Rows, NEW next \in Rows
  PROVE  s \o <<row>> = Append(s, row) /\ s \o <<row, next>> = Append(Append(s, row), next)
OBVIOUS

LEMMA AppendRow ==
  ASSUME NEW s \in Seq(Rows), NEW row \in Rows
  PROVE  /\ Append(s, row) \in Seq(Rows) /\ Len(Append(s, row)) = Len(s) + 1
         /\ Len(s) \in Nat
         /\ \A i \in 1 .. Len(s) : Append(s, row)[i] = s[i] /\ s[i] \in Rows
         /\ Append(s, row)[Len(s) + 1] = row
OBVIOUS

(* The rows s of a user lead to the balance b.                             *)
Explains(s, b) ==
  /\ \A i \in 1 .. Len(s) :
       s[i].balance_after
         = (IF i = 1 THEN StartBalance ELSE s[i - 1].balance_after) + Signed(s[i])
  /\ b = IF Len(s) = 0 THEN StartBalance ELSE s[Len(s)].balance_after

LEMMA ExplainsAppend ==
  ASSUME NEW s \in Seq(Rows), NEW row \in Rows, NEW b \in Int, Explains(s, b),
         row.balance_after = b + Signed(row)
  PROVE  Explains(Append(s, row), row.balance_after)
<1> DEFINE new == Append(s, row)
<1>1. /\ Len(new) = Len(s) + 1 /\ Len(s) \in Nat
      /\ \A i \in 1 .. Len(s) : new[i] = s[i]
      /\ new[Len(s) + 1] = row
  BY AppendRow
<1> HIDE DEF new
<1>2. ASSUME NEW i \in 1 .. Len(new)
      PROVE  new[i].balance_after
               = (IF i = 1 THEN StartBalance ELSE new[i - 1].balance_after) + Signed(new[i])
  <2>1. CASE i \in 1 .. Len(s)
    <3>1. i = 1 \/ i - 1 \in 1 .. Len(s)
      BY <2>1
    <3>2. QED
      BY <1>1, <2>1, <3>1 DEF Explains
  <2>2. CASE i = Len(s) + 1
    <3>1. i = 1 <=> Len(s) = 0
      BY <1>1, <2>2
    <3>2. i # 1 => i - 1 = Len(s) /\ i - 1 \in 1 .. Len(s)
      BY <1>1, <2>2
    <3>3. b = IF i = 1 THEN StartBalance ELSE new[i - 1].balance_after
      BY <1>1, <3>1, <3>2 DEF Explains
    <3>4. QED
      BY <1>1, <2>2, <3>3
  <2>3. QED
    BY <1>1, <2>1, <2>2
<1>3. Len(new) # 0 /\ new[Len(new)] = row
  BY <1>1
<1>4. QED
  BY <1>2, <1>3 DEF Explains, new

LEMMA RunningBalanceAll ==
  ASSUME TypeOK
  PROVE  RunningBalance <=> \A u \in Users : Explains(ledger[u], balance[u])
<1>1. ASSUME NEW u \in Users
      PROVE  Len(ledger[u]) \in Nat /\ Len(ledger[u]) + 1 - 1 = Len(ledger[u])
             /\ (Len(ledger[u]) + 1 = 1 <=> Len(ledger[u]) = 0)
  BY DEF TypeOK
<1>2. QED
  BY <1>1 DEF RunningBalance, BalanceBefore, Explains

(* At most one row of a kind about a lot.                                  *)
RowKinds == {{"bid_win", "bin_purchase"}, {"auction_sale"}, {"commission"}}
SameKind(r, q) ==
  r.lot \in Lots /\ r.lot = q.lot /\ \E K \in RowKinds : r.type \in K /\ q.type \in K
Once(s) == \A i, j \in 1 .. Len(s) : SameKind(s[i], s[j]) => i = j

LEMMA OnceAppend ==
  ASSUME NEW s \in Seq(Rows), NEW row \in Rows, Once(s),
         \A i \in 1 .. Len(s) : ~ SameKind(s[i], row)
  PROVE  Once(Append(s, row))
<1> DEFINE new == Append(s, row)
<1>1. /\ Len(new) = Len(s) + 1 /\ Len(s) \in Nat
      /\ \A i \in 1 .. Len(s) : new[i] = s[i]
      /\ new[Len(s) + 1] = row
  BY AppendRow
<1> HIDE DEF new
<1>2. \A r, q : SameKind(r, q) => SameKind(q, r)
  BY DEF SameKind
<1>3. SUFFICES ASSUME NEW i \in 1 .. Len(new), NEW j \in 1 .. Len(new), SameKind(new[i], new[j])
               PROVE  i = j
  BY DEF Once, new
<1>4. \A k \in 1 .. Len(new) : k \in 1 .. Len(s) \/ k = Len(s) + 1
  BY <1>1
<1>5. QED
  BY <1>1, <1>2, <1>3, <1>4 DEF Once

LEMMA SettledAtMostOnceAll ==
  SettledAtMostOnce <=> \A u \in Users : Once(ledger[u])
BY DEF SettledAtMostOnce, RowsOf, Once, SameKind, RowKinds

(* What RowsMatchSale says of one row.                                     *)
RowFits(u, row) ==
  row.lot \in Lots =>
    LET l == row.lot
    IN  /\ status[l] = "completed" /\ winner_id[l] # NoUser
        /\ \/ /\ row.type \in {"bid_win", "bin_purchase"}
              /\ u = winner_id[l] /\ row.amount = current_price[l]
           \/ /\ row.type = "auction_sale"
              /\ u = created_by[l] /\ row.amount = current_price[l]
           \/ /\ row.type = "commission"
              /\ u = created_by[l] /\ row.amount = Commission(current_price[l])

(* ... and of all the rows of a user.                                      *)
RowsFit(u, s) == Once(s) /\ \A i \in 1 .. Len(s) : RowFits(u, s[i])

LEMMA RowsMatchSaleAll ==
  RowsMatchSale <=> \A u \in Users : RowsFit(u, ledger[u])
BY SettledAtMostOnceAll DEF RowsMatchSale, RowsFit, RowFits

(* What SoldMeansPaid says of one lot.                                     *)
Paid(l) ==
  IF winner_id[l] = NoUser THEN bids[l] = <<>>
  ELSE /\ RowsOf(winner_id[l], l, {"bid_win", "bin_purchase"}) # {}
       /\ RowsOf(created_by[l], l, {"auction_sale"}) # {}
       /\ Commission(current_price[l]) > 0 =>
             RowsOf(created_by[l], l, {"commission"}) # {}

-----------------------------------------------------------------------------
(* What a sale writes.                                                     *)

LEMMA SaleRows ==
  ASSUME MarketInv, NEW l \in Lots, NEW b \in Users, NEW p \in Nat, NEW type \in RowTypes,
         Sale(l, b, p, type)
  PROVE  LET c == created_by[l]
             fee == Commission(p)
             debit == Row(type, p, balance[b] - p, l)
             sale == Row("auction_sale", p, balance[c] + p, l)
             charge == Row("commission", fee, balance[c] + p - fee, l)
         IN  /\ c \in Users /\ c # b /\ fee \in Nat
             /\ debit \in Rows /\ sale \in Rows /\ charge \in Rows
             /\ ledger'[b] = Append(ledger[b], debit) /\ balance'[b] = balance[b] - p
             /\ ledger'[c] = IF fee > 0 THEN Append(Append(ledger[c], sale), charge)
                             ELSE Append(ledger[c], sale)
             /\ balance'[c] = balance[c] + p - fee
             /\ \A w \in Users \ {b, c} : ledger'[w] = ledger[w] /\ balance'[w] = balance[w]
<1> DEFINE c == created_by[l]
           fee == Commission(p)
           debit == Row(type, p, balance[b] - p, l)
           sale == Row("auction_sale", p, balance[c] + p, l)
           charge == Row("commission", fee, balance[c] + p - fee, l)
<1>1. TypeOK /\ c \in Users /\ c # b /\ fee \in Nat
  BY CommissionBounds DEF MarketInv, IInv, SellersKnown, Sale
<1>2. balance[b] \in Int /\ balance[c] \in Int /\ ledger[b] \in Seq(Rows) /\ ledger[c] \in Seq(Rows)
  BY <1>1 DEF TypeOK
<1>3. debit \in Rows /\ sale \in Rows /\ charge \in Rows
  <2>0. l \in 0 .. NumLots
    BY LotsAssumption DEF Lots
  <2> HIDE DEF c, fee, debit, sale, charge
  <2>1. /\ balance[b] - p \in Int /\ balance[c] + p \in Int /\ balance[c] + p - fee \in Int
    BY <1>1, <1>2
  <2> USE DEF debit, sale, charge
  <2>2. \A y \in RowTypes, a \in Nat, n \in Int, k \in 0 .. NumLots : Row(y, a, n, k) \in Rows
    BY DEF Row, Rows
  <2>3. "auction_sale" \in RowTypes /\ "commission" \in RowTypes
    BY DEF RowTypes
  <2>4. QED
    BY <1>1, <2>0, <2>1, <2>2, <2>3
<1>4. Moved(b, balance[b], type, -p, l) = Append(ledger[b], debit)
  <2>1. (IF -p < 0 THEN -(-p) ELSE -p) = p /\ balance[b] + -p = balance[b] - p
    BY <1>2
  <2>2. QED
    BY <2>1 DEF Moved
<1>5. SellerRows(balance[c], p, l) = IF fee > 0 THEN <<sale, charge>> ELSE <<sale>>
  BY DEF SellerRows
<1> HIDE DEF debit, sale, charge
<1>6. /\ ledger[c] \o <<sale>> = Append(ledger[c], sale)
      /\ ledger[c] \o <<sale, charge>> = Append(Append(ledger[c], sale), charge)
  BY <1>2, <1>3, AppendTwo
<1>7. balance[c] + (p - fee) = balance[c] + p - fee
  BY <1>1, <1>2
<1>8. /\ ledger'[b] = Append(ledger[b], debit) /\ balance'[b] = balance[b] - p
      /\ ledger'[c] = ledger[c] \o SellerRows(balance[c], p, l)
      /\ balance'[c] = balance[c] + p - fee
      /\ \A w \in Users \ {b, c} : ledger'[w] = ledger[w] /\ balance'[w] = balance[w]
  BY <1>1, <1>4, <1>7 DEF Sale, Settle
<1>9. QED
  BY <1>1, <1>3, <1>5, <1>6, <1>8 DEF debit, sale, charge

LEMMA CashRow ==
  ASSUME TypeOK, NEW u \in Users, NEW type \in RowTypes, NEW d \in Int, Cash(u, type, d)
  PROVE  LET row == Row(type, IF d < 0 THEN -d ELSE d, balance[u] + d, 0)
         IN  /\ row \in Rows /\ row.lot = 0 /\ row.balance_after = balance[u] + d
             /\ Signed(row) = d
             /\ ledger'[u] = Append(ledger[u], row) /\ balance'[u] = balance[u] + d
             /\ \A w \in Users \ {u} : ledger'[w] = ledger[w] /\ balance'[w] = balance[w]
<1> DEFINE amount == IF d < 0 THEN -d ELSE d
           row == Row(type, amount, balance[u] + d, 0)
<1>1. balance[u] \in Int /\ amount \in Nat /\ balance[u] + d \in Int
  BY DEF TypeOK
<1>2. 0 \in 0 .. NumLots
  BY LotsAssumption
<1>3. row \in Rows
  BY <1>1, <1>2 DEF Row, Rows
<1>4. Signed(row) = d
  BY DEF Signed, Row, Cash
<1>5. Moved(u, balance[u], type, d, 0) = Append(ledger[u], row)
  BY DEF Moved
<1>6. /\ ledger'[u] = Append(ledger[u], row) /\ balance'[u] = balance[u] + d
      /\ \A w \in Users \ {u} : ledger'[w] = ledger[w] /\ balance'[w] = balance[w]
  BY <1>5 DEF Cash, WriteCash, TypeOK
<1>7. row.lot = 0 /\ row.balance_after = balance[u] + d
  BY DEF Row
<1>8. QED
  BY <1>3, <1>4, <1>6, <1>7

-----------------------------------------------------------------------------
(* The transactions explain the balances.                                  *)

LEMMA StepRunning ==
  ASSUME MarketInv, RunningBalance, [Steps]_vars
  PROVE  RunningBalance'
<1>1. TypeOK /\ TypeOK' /\ \A w \in Users : Explains(ledger[w], balance[w])
  BY StepTypeOK, RunningBalanceAll DEF MarketInv, IInv
<1>2. \A w \in Users : ledger[w] \in Seq(Rows) /\ balance[w] \in Int
  BY <1>1 DEF TypeOK
<1>3. SUFFICES ASSUME NEW w \in Users
               PROVE  Explains(ledger'[w], balance'[w])
  <2>1. RunningBalance' <=> \A w \in Users : Explains(ledger'[w], balance'[w])
    <3>1. ASSUME NEW u \in Users
          PROVE  /\ Len(ledger'[u]) \in Nat /\ Len(ledger'[u]) + 1 - 1 = Len(ledger'[u])
                 /\ (Len(ledger'[u]) + 1 = 1 <=> Len(ledger'[u]) = 0)
      BY <1>1 DEF TypeOK
    <3>2. QED
      BY <3>1 DEF RunningBalance, BalanceBefore, Explains
  <2>2. QED
    BY <2>1
<1>4. CASE Free
  BY <1>1, <1>4 DEF Free, money
<1>5. ASSUME NEW u \in Users, NEW type \in RowTypes, NEW d \in Int, Cash(u, type, d)
      PROVE  Explains(ledger'[w], balance'[w])
  <2> DEFINE row == Row(type, IF d < 0 THEN -d ELSE d, balance[u] + d, 0)
  <2>1. /\ row \in Rows /\ row.balance_after = balance[u] + d /\ Signed(row) = d
        /\ ledger'[u] = Append(ledger[u], row) /\ balance'[u] = balance[u] + d
        /\ w # u => ledger'[w] = ledger[w] /\ balance'[w] = balance[w]
    BY <1>1, <1>5, CashRow
  <2> HIDE DEF row
  <2>2. CASE w = u
    BY <1>1, <1>2, <2>1, <2>2, ExplainsAppend
  <2>3. CASE w # u
    BY <1>1, <2>1, <2>3
  <2>4. QED
    BY <2>2, <2>3
<1>6. ASSUME NEW l \in Lots, NEW b \in Users, NEW p \in Nat, NEW type \in RowTypes,
             Sale(l, b, p, type)
      PROVE  Explains(ledger'[w], balance'[w])
  <2> DEFINE c == created_by[l]
             fee == Commission(p)
             debit == Row(type, p, balance[b] - p, l)
             sale == Row("auction_sale", p, balance[c] + p, l)
             charge == Row("commission", fee, balance[c] + p - fee, l)
  <2>1. /\ c \in Users /\ c # b /\ fee \in Nat
        /\ debit \in Rows /\ sale \in Rows /\ charge \in Rows
        /\ ledger'[b] = Append(ledger[b], debit) /\ balance'[b] = balance[b] - p
        /\ ledger'[c] = IF fee > 0 THEN Append(Append(ledger[c], sale), charge)
                        ELSE Append(ledger[c], sale)
        /\ balance'[c] = balance[c] + p - fee
        /\ \A v \in Users \ {b, c} : ledger'[v] = ledger[v] /\ balance'[v] = balance[v]
    BY <1>6, SaleRows
  <2>2. /\ debit.balance_after = balance[b] - p /\ Signed(debit) = -p
        /\ sale.balance_after = balance[c] + p /\ Signed(sale) = p
        /\ charge.balance_after = balance[c] + p - fee /\ Signed(charge) = -fee
    BY <1>6 DEF Row, Signed, Sale
  <2> HIDE DEF c, fee, debit, sale, charge
  <2>3. CASE w = b
    <3>1. debit.balance_after = balance[b] + Signed(debit) /\ balance'[b] = debit.balance_after
      BY <1>2, <2>1, <2>2
    <3>2. QED
      BY <1>1, <1>2, <2>1, <2>3, <3>1, ExplainsAppend
  <2>4. CASE w = c
    <3>1. Explains(Append(ledger[c], sale), sale.balance_after)
      BY <1>1, <1>2, <2>1, <2>2, ExplainsAppend
    <3>2. Append(ledger[c], sale) \in Seq(Rows) /\ sale.balance_after \in Int
      BY <1>2, <2>1, <2>2, AppendRow
    <3>3. charge.balance_after = sale.balance_after + Signed(charge)
      BY <1>2, <2>1, <2>2
    <3>4. Explains(Append(Append(ledger[c], sale), charge), charge.balance_after)
      BY <2>1, <3>1, <3>2, <3>3, ExplainsAppend
    <3>5. ~ (fee > 0) => balance'[c] = sale.balance_after
      BY <1>2, <2>1, <2>2
    <3>6. QED
      BY <2>1, <2>2, <2>4, <3>1, <3>4, <3>5
  <2>5. CASE w \notin {b, c}
    BY <1>1, <2>1, <2>5
  <2>6. QED
    BY <2>3, <2>4, <2>5
<1>7. QED
  BY <1>4, <1>5, <1>6, StepKinds

-----------------------------------------------------------------------------
(* A sale is recorded once.                                                *)

(* Rows about a lot that is still open are rows about no lot.              *)
LEMMA NoRowsYet ==
  ASSUME MarketInv, RowsMatchSale, NEW l \in Lots, status[l] = "active",
         NEW u \in Users, NEW i \in 1 .. Len(ledger[u])
  PROVE  ledger[u][i].lot # l
BY RowsMatchSaleAll DEF RowsFit, RowFits

(* A row that fits goes on fitting: what it tells about is final.          *)
LEMMA RowStays ==
  ASSUME MarketInv, [Steps]_vars, NEW u \in Users, NEW row \in Rows, RowFits(u, row)
  PROVE  RowFits(u, row)'
<1>1. TypeOK
  BY DEF MarketInv, IInv
<1>2. CASE row.lot \in Lots
  BY <1>1, <1>2, FinishedStep DEF RowFits
<1>3. CASE row.lot \notin Lots
  BY <1>3 DEF RowFits
<1>4. QED
  BY <1>2, <1>3

LEMMA RowsAppend ==
  ASSUME NEW u \in Users, NEW s \in Seq(Rows), NEW row \in Rows, Once(s),
         \A i \in 1 .. Len(s) : RowFits(u, s[i])' /\ ~ SameKind(s[i], row),
         RowFits(u, row)'
  PROVE  /\ Once(Append(s, row))
         /\ \A i \in 1 .. Len(Append(s, row)) : RowFits(u, Append(s, row)[i])'
<1>1. Once(Append(s, row))
  BY OnceAppend
<1>2. /\ Len(Append(s, row)) = Len(s) + 1 /\ Len(s) \in Nat
      /\ \A i \in 1 .. Len(s) : Append(s, row)[i] = s[i]
      /\ Append(s, row)[Len(s) + 1] = row
  BY AppendRow
<1>3. ASSUME NEW i \in 1 .. Len(Append(s, row))
      PROVE  RowFits(u, Append(s, row)[i])'
  <2>1. i \in 1 .. Len(s) \/ i = Len(s) + 1
    BY <1>2
  <2>2. CASE i \in 1 .. Len(s)
    <3>1. Append(s, row)[i] = s[i]
      BY <1>2, <2>2
    <3>2. RowFits(u, s[i])'
      BY <2>2
    <3>3. QED
      BY <3>1, <3>2
  <2>3. CASE i = Len(s) + 1
    BY <1>2, <2>3
  <2>4. QED
    BY <2>1, <2>2, <2>3
<1>4. QED
  BY <1>1, <1>3

LEMMA StepRowsMatch ==
  ASSUME MarketInv, RowsMatchSale, [Steps]_vars
  PROVE  RowsMatchSale'
<1>1. TypeOK /\ \A w \in Users : ledger[w] \in Seq(Rows) /\ Once(ledger[w])
  BY RowsMatchSaleAll DEF RowsFit, MarketInv, IInv, TypeOK
<1>2. ASSUME NEW w \in Users, NEW i \in 1 .. Len(ledger[w]), NEW row, row = ledger[w][i]
      PROVE  RowFits(w, row)'
  <2>1. row \in Rows
    BY <1>1, <1>2
  <2>2. RowFits(w, row)
    BY <1>2, RowsMatchSaleAll DEF RowsFit
  <2>3. QED
    BY <2>1, <2>2, RowStays
<1>3. SUFFICES ASSUME NEW w \in Users, NEW new, new = ledger'[w]
               PROVE  Once(new) /\ \A i \in 1 .. Len(new) : RowFits(w, new[i])'
  <2>1. ASSUME NEW w \in Users
        PROVE  RowsFit(w, ledger[w])'
    BY <1>3, <2>1 DEF RowsFit, Once, RowFits
  <2>2. (\A w \in Users : Once(ledger[w]))' => SettledAtMostOnce'
    BY DEF SettledAtMostOnce, RowsOf, Once, SameKind, RowKinds
  <2>3. (\A w \in Users : RowsFit(w, ledger[w]))' => RowsMatchSale'
    BY <2>2 DEF RowsMatchSale, RowsFit, RowFits
  <2>4. QED
    BY <2>1, <2>3
<1>4. CASE ledger'[w] = ledger[w]
  <2>1. \A i \in 1 .. Len(new) : new[i] = ledger[w][i] /\ i \in 1 .. Len(ledger[w])
    BY <1>3, <1>4
  <2>2. QED
    BY <1>1, <1>2, <1>3, <1>4, <2>1
<1>5. ASSUME NEW u \in Users, NEW type \in RowTypes, NEW d \in Int, Cash(u, type, d)
      PROVE  Once(new) /\ \A i \in 1 .. Len(new) : RowFits(w, new[i])'
  <2> DEFINE row == Row(type, IF d < 0 THEN -d ELSE d, balance[u] + d, 0)
  <2>1. /\ row \in Rows /\ row.lot = 0 /\ ledger'[u] = Append(ledger[u], row)
        /\ w # u => ledger'[w] = ledger[w]
    BY <1>1, <1>5, CashRow
  <2>2. PICK r \in Rows : r = row
    BY <2>1
  <2> HIDE DEF row
  <2>3. CASE w = u
    <3>1. 0 \notin Lots
      BY DEF Lots
    <3>2. RowFits(w, r)' /\ \A q : ~ SameKind(q, r)
      BY <2>1, <2>2, <3>1 DEF RowFits, SameKind
    <3>3. new = Append(ledger[w], r)
      BY <1>3, <2>1, <2>2, <2>3
    <3>4. PICK s \in Seq(Rows) : s = ledger[w]
      BY <1>1
    <3>5. \A i \in 1 .. Len(s) : RowFits(w, s[i])'
      BY <1>2, <3>4
    <3>6. QED
      BY <1>1, <3>2, <3>3, <3>4, <3>5, RowsAppend
  <2>4. QED
    BY <1>4, <2>1, <2>3
<1>6. ASSUME NEW l \in Lots, NEW b \in Users, NEW p \in Nat, NEW type \in RowTypes,
             Sale(l, b, p, type)
      PROVE  Once(new) /\ \A i \in 1 .. Len(new) : RowFits(w, new[i])'
  <2> DEFINE c == created_by[l]
             fee == Commission(p)
             debit == Row(type, p, balance[b] - p, l)
             sale == Row("auction_sale", p, balance[c] + p, l)
             charge == Row("commission", fee, balance[c] + p - fee, l)
  <2>1. /\ c \in Users /\ c # b /\ fee \in Nat
        /\ debit \in Rows /\ sale \in Rows /\ charge \in Rows
        /\ ledger'[b] = Append(ledger[b], debit)
        /\ ledger'[c] = IF fee > 0 THEN Append(Append(ledger[c], sale), charge)
                        ELSE Append(ledger[c], sale)
        /\ \A v \in Users \ {b, c} : ledger'[v] = ledger[v]
    BY <1>6, SaleRows
  <2>2. /\ status'[l] = "completed" /\ winner_id'[l] = b /\ b # NoUser
        /\ current_price'[l] = p /\ created_by'[l] = c
    BY <1>1, <1>6, UsersAssumption DEF Sale, TypeOK
  <2>3. \A v \in Users : \A i \in 1 .. Len(ledger[v]) : ledger[v][i].lot # l
    BY <1>6, NoRowsYet DEF Sale
  <2>4. PICK d \in Rows, g \in Rows, h \in Rows : d = debit /\ g = sale /\ h = charge
    BY <2>1
  <2>5. /\ d.lot = l /\ d.type \in {"bid_win", "bin_purchase"} /\ d.amount = p
        /\ g.lot = l /\ g.type = "auction_sale" /\ g.amount = p
        /\ h.lot = l /\ h.type = "commission" /\ h.amount = Commission(p)
    BY <1>6, <2>4 DEF Row, Sale
  <2>6. PICK seller : seller = c
    OBVIOUS
  <2>7. RowFits(b, d)' /\ RowFits(seller, g)' /\ RowFits(seller, h)'
    BY <2>2, <2>5, <2>6 DEF RowFits, Commission
  <2>8. PICK s \in Seq(Rows) : s = ledger[w]
    BY <1>1
  <2>9. /\ Once(s) /\ \A i \in 1 .. Len(s) : RowFits(w, s[i])'
        /\ \A i \in 1 .. Len(s) :
             ~ SameKind(s[i], d) /\ ~ SameKind(s[i], g) /\ ~ SameKind(s[i], h)
    BY <1>1, <1>2, <2>3, <2>5, <2>8 DEF SameKind
  <2> HIDE DEF c, fee, debit, sale, charge
  <2>10. CASE w = b
    <3>1. new = Append(s, d) /\ RowFits(w, d)'
      BY <1>3, <2>1, <2>4, <2>7, <2>8, <2>10
    <3>2. QED
      BY <2>9, <3>1, RowsAppend
  <2>11. CASE w = c
    <3> DEFINE mid == Append(s, g)
    <3>1. Once(mid) /\ \A i \in 1 .. Len(mid) : RowFits(w, mid[i])'
      BY <2>6, <2>7, <2>9, <2>11, RowsAppend
    <3>2. /\ mid \in Seq(Rows) /\ Len(mid) = Len(s) + 1 /\ Len(s) \in Nat
          /\ \A i \in 1 .. Len(s) : mid[i] = s[i]
          /\ mid[Len(s) + 1] = g
      BY AppendRow
    <3>3. ~ SameKind(g, h)
      BY <2>5 DEF SameKind, RowKinds
    <3> HIDE DEF mid
    <3>4. \A i \in 1 .. Len(mid) : ~ SameKind(mid[i], h)
      <4>1. \A i \in 1 .. Len(mid) : i \in 1 .. Len(s) \/ i = Len(s) + 1
        BY <3>2
      <4>2. QED
        BY <2>9, <3>2, <3>3, <4>1
    <3>5. /\ Once(Append(mid, h))
          /\ \A i \in 1 .. Len(Append(mid, h)) : RowFits(w, Append(mid, h)[i])'
      BY <2>6, <2>7, <2>11, <3>1, <3>2, <3>4, RowsAppend
    <3>6. new = mid \/ new = Append(mid, h)
      BY <1>3, <2>1, <2>4, <2>8, <2>11 DEF mid
    <3>7. QED
      BY <3>1, <3>5, <3>6
  <2>12. QED
    BY <1>4, <2>1, <2>10, <2>11
<1>7. CASE Free
  BY <1>4, <1>7 DEF Free, money
<1>8. QED
  BY <1>5, <1>6, <1>7, StepKinds

-----------------------------------------------------------------------------
(* Nobody wins without paying.                                             *)

(* Rows are never removed or changed.                                      *)
LEMMA LedgerGrows ==
  ASSUME MarketInv, [Steps]_vars, NEW w \in Users
  PROVE  /\ Len(ledger[w]) \in Nat /\ Len(ledger'[w]) \in Nat
         /\ Len(ledger[w]) <= Len(ledger'[w])
         /\ \A i \in 1 .. Len(ledger[w]) : ledger'[w][i] = ledger[w][i]
<1>1. TypeOK /\ TypeOK' /\ \A v \in Users : ledger[v] \in Seq(Rows) /\ ledger'[v] \in Seq(Rows)
  BY StepTypeOK DEF MarketInv, IInv, TypeOK
<1>2. \/ ledger'[w] = ledger[w]
      \/ \E r \in Rows : ledger'[w] = Append(ledger[w], r)
      \/ \E r, q \in Rows : ledger'[w] = Append(Append(ledger[w], r), q)
  <2>1. CASE Free
    BY <2>1 DEF Free, money
  <2>2. ASSUME NEW u \in Users, NEW type \in RowTypes, NEW d \in Int, Cash(u, type, d)
        PROVE  ledger'[w] = ledger[w] \/ \E r \in Rows : ledger'[w] = Append(ledger[w], r)
    <3>1. \E r \in Rows : ledger'[u] = Append(ledger[u], r)
      BY <1>1, <2>2, CashRow
    <3>2. w # u => ledger'[w] = ledger[w]
      BY <1>1, <2>2, CashRow
    <3>3. QED
      BY <3>1, <3>2
  <2>3. ASSUME NEW l \in Lots, NEW b \in Users, NEW p \in Nat, NEW type \in RowTypes,
               Sale(l, b, p, type)
        PROVE  \/ ledger'[w] = ledger[w]
               \/ \E r \in Rows : ledger'[w] = Append(ledger[w], r)
               \/ \E r, q \in Rows : ledger'[w] = Append(Append(ledger[w], r), q)
    <3> DEFINE c == created_by[l]
               fee == Commission(p)
               debit == Row(type, p, balance[b] - p, l)
               sale == Row("auction_sale", p, balance[c] + p, l)
               charge == Row("commission", fee, balance[c] + p - fee, l)
    <3>1. /\ c \in Users /\ debit \in Rows /\ sale \in Rows /\ charge \in Rows
          /\ ledger'[b] = Append(ledger[b], debit)
          /\ ledger'[c] = IF fee > 0 THEN Append(Append(ledger[c], sale), charge)
                          ELSE Append(ledger[c], sale)
          /\ \A v \in Users \ {b, c} : ledger'[v] = ledger[v]
      BY <2>3, SaleRows
    <3> HIDE DEF debit, sale, charge, fee, c
    <3>2. QED
      BY <3>1
  <2>4. QED
    BY <2>1, <2>2, <2>3, StepKinds
<1>3. PICK s \in Seq(Rows) : s = ledger[w]
  BY <1>1
<1>4. CASE ledger'[w] = s
  BY <1>1, <1>3, <1>4
<1>5. ASSUME NEW r \in Rows, ledger'[w] = Append(s, r)
      PROVE  /\ Len(s) \in Nat /\ Len(ledger'[w]) = Len(s) + 1
             /\ \A i \in 1 .. Len(s) : ledger'[w][i] = s[i]
  BY <1>5, AppendRow
<1>6. ASSUME NEW r \in Rows, NEW q \in Rows, ledger'[w] = Append(Append(s, r), q)
      PROVE  /\ Len(s) \in Nat /\ Len(ledger'[w]) = Len(s) + 2
             /\ \A i \in 1 .. Len(s) : ledger'[w][i] = s[i]
  <2> DEFINE mid == Append(s, r)
  <2>1. /\ mid \in Seq(Rows) /\ Len(mid) = Len(s) + 1 /\ Len(s) \in Nat
        /\ \A i \in 1 .. Len(s) : mid[i] = s[i]
    BY AppendRow
  <2> HIDE DEF mid
  <2>2. /\ Len(Append(mid, q)) = Len(mid) + 1
        /\ \A i \in 1 .. Len(mid) : Append(mid, q)[i] = mid[i]
    BY <2>1, AppendRow
  <2>3. \A i \in 1 .. Len(s) : i \in 1 .. Len(mid)
    BY <2>1
  <2>4. ledger'[w] = Append(mid, q)
    BY <1>6 DEF mid
  <2>5. QED
    BY <2>1, <2>2, <2>3, <2>4
<1>7. CASE \E r \in Rows : ledger'[w] = Append(ledger[w], r)
  <2>1. PICK r \in Rows : ledger'[w] = Append(s, r)
    BY <1>3, <1>7
  <2>2. QED
    BY <1>1, <1>3, <1>5, <2>1
<1>8. CASE \E r, q \in Rows : ledger'[w] = Append(Append(ledger[w], r), q)
  <2>1. PICK r \in Rows, q \in Rows : ledger'[w] = Append(Append(s, r), q)
    BY <1>3, <1>8
  <2>2. QED
    BY <1>1, <1>3, <1>6, <2>1
<1>9. QED
  BY <1>2, <1>3, <1>4, <1>7, <1>8

LEMMA RowsOfGrow ==
  ASSUME MarketInv, [Steps]_vars, NEW w \in Users, NEW l, NEW types, RowsOf(w, l, types) # {}
  PROVE  RowsOf(w, l, types)' # {}
<1>1. PICK i \in 1 .. Len(ledger[w]) : ledger[w][i].lot = l /\ ledger[w][i].type \in types
  BY DEF RowsOf
<1>2. i \in 1 .. Len(ledger'[w]) /\ ledger'[w][i] = ledger[w][i]
  BY LedgerGrows
<1>3. QED
  BY <1>1, <1>2 DEF RowsOf

LEMMA SoldMeansPaidAll ==
  SoldMeansPaid <=> \A l \in Lots : status[l] = "completed" => Paid(l)
BY DEF SoldMeansPaid, Paid

(* The sale itself pays.                                                   *)
LEMMA SalePays ==
  ASSUME MarketInv, NEW l \in Lots, NEW b \in Users, NEW p \in Nat, NEW type \in RowTypes,
         Sale(l, b, p, type)
  PROVE  Paid(l)'
<1> DEFINE c == created_by[l]
           fee == Commission(p)
           debit == Row(type, p, balance[b] - p, l)
           sale == Row("auction_sale", p, balance[c] + p, l)
           charge == Row("commission", fee, balance[c] + p - fee, l)
<1>1. /\ c \in Users /\ debit \in Rows /\ sale \in Rows /\ charge \in Rows
      /\ ledger'[b] = Append(ledger[b], debit)
      /\ ledger'[c] = IF fee > 0 THEN Append(Append(ledger[c], sale), charge)
                      ELSE Append(ledger[c], sale)
  BY SaleRows
<1>2. TypeOK /\ ledger[b] \in Seq(Rows) /\ ledger[c] \in Seq(Rows)
  BY <1>1 DEF MarketInv, IInv, TypeOK
<1>3. /\ winner_id'[l] = b /\ b # NoUser /\ current_price'[l] = p /\ created_by'[l] = c
  BY <1>2, UsersAssumption DEF Sale, TypeOK
<1>4. /\ debit.lot = l /\ debit.type \in {"bid_win", "bin_purchase"}
      /\ sale.lot = l /\ sale.type = "auction_sale"
      /\ charge.lot = l /\ charge.type = "commission"
  BY DEF Row, Sale
<1> HIDE DEF debit, sale, charge, fee, c
<1>5. PICK seller \in Users : seller = c
  BY <1>1
<1>6. RowsOf(b, l, {"bid_win", "bin_purchase"})' # {}
  <2>1. /\ Len(ledger[b]) + 1 \in 1 .. Len(ledger'[b])
        /\ ledger'[b][Len(ledger[b]) + 1] = debit
    BY <1>1, <1>2, AppendRow
  <2>2. QED
    BY <1>4, <2>1 DEF RowsOf
<1> DEFINE mid == Append(ledger[seller], sale)
           n == Len(ledger[seller]) + 1
<1>7. /\ mid \in Seq(Rows) /\ Len(mid) = n /\ n \in 1 .. n /\ n + 1 \in 1 .. n + 1
      /\ n \in 1 .. n + 1 /\ mid[n] = sale
  BY <1>1, <1>2, <1>5, AppendRow
<1>8. \/ ledger'[seller] = Append(mid, charge)
      \/ ledger'[seller] = mid /\ ~ (fee > 0)
  BY <1>1, <1>5
<1> HIDE DEF mid, n
<1>9. /\ Len(Append(mid, charge)) = n + 1 /\ Append(mid, charge)[n] = sale
      /\ Append(mid, charge)[n + 1] = charge
  BY <1>1, <1>7, AppendRow
<1>10. /\ n \in 1 .. Len(ledger'[seller]) /\ ledger'[seller][n] = sale
       /\ fee > 0 => n + 1 \in 1 .. Len(ledger'[seller]) /\ ledger'[seller][n + 1] = charge
  BY <1>7, <1>8, <1>9
<1>11. /\ RowsOf(seller, l, {"auction_sale"})' # {}
       /\ fee > 0 => RowsOf(seller, l, {"commission"})' # {}
  BY <1>4, <1>10 DEF RowsOf
<1>12. winner_id'[l] # NoUser /\ created_by'[l] = seller
  BY <1>3, <1>5
<1>13. Commission(current_price[l])' > 0 => fee > 0
  BY <1>3 DEF fee, Commission
<1>14. QED
  BY <1>3, <1>6, <1>11, <1>12, <1>13 DEF Paid, RowsOf, Commission

LEMMA StepSoldPaid ==
  ASSUME MarketInv, SoldMeansPaid, [Steps]_vars
  PROVE  SoldMeansPaid'
<1>1. TypeOK /\ SellersKnown /\ UnsoldUnwon /\ \A l \in Lots : status[l] = "completed" => Paid(l)
  BY SoldMeansPaidAll DEF MarketInv, IInv
<1>2. SUFFICES ASSUME NEW k \in Lots, status'[k] = "completed"
               PROVE  Paid(k)'
  <2>1. (\A l \in Lots : status[l] = "completed" => Paid(l))' => SoldMeansPaid'
    BY DEF SoldMeansPaid, Paid
  <2>2. QED
    BY <2>1
<1>3. CASE status[k] = "completed"
  <2>1. /\ winner_id'[k] = winner_id[k] /\ current_price'[k] = current_price[k]
        /\ bids'[k] = bids[k] /\ created_by'[k] = created_by[k]
    BY <1>1, <1>3, FinishedStep
  <2>2. Paid(k) /\ created_by[k] \in Users
    BY <1>1, <1>3 DEF SellersKnown
  <2>3. CASE winner_id[k] = NoUser
    BY <2>1, <2>2, <2>3 DEF Paid
  <2>4. CASE winner_id[k] # NoUser
    <3>1. PICK w \in Users, c \in Users : w = winner_id[k] /\ c = created_by[k]
      BY <1>1, <2>2, <2>4 DEF TypeOK
    <3>2. /\ RowsOf(w, k, {"bid_win", "bin_purchase"}) # {}
          /\ RowsOf(c, k, {"auction_sale"}) # {}
          /\ Commission(current_price[k]) > 0 => RowsOf(c, k, {"commission"}) # {}
      BY <2>2, <2>4, <3>1 DEF Paid
    <3>3. /\ RowsOf(w, k, {"bid_win", "bin_purchase"})' # {}
          /\ RowsOf(c, k, {"auction_sale"})' # {}
          /\ Commission(current_price[k]) > 0 => RowsOf(c, k, {"commission"})' # {}
      BY <3>2, RowsOfGrow
    <3>4. Commission(current_price[k])' = Commission(current_price[k])
      BY <2>1 DEF Commission
    <3>5. /\ winner_id'[k] = w /\ created_by'[k] = c
      BY <2>1, <3>1
    <3>6. QED
      BY <2>4, <3>1, <3>3, <3>4, <3>5 DEF Paid, RowsOf
  <2>5. QED
    BY <2>3, <2>4
<1>4. CASE status[k] # "completed"
  <2>1. CASE Free
    <3>1. bids'[k] = <<>> /\ winner_id'[k] = NoUser
      BY <1>1, <1>2, <1>4, <2>1 DEF Free, UnsoldUnwon
    <3>2. QED
      BY <3>1 DEF Paid
  <2>2. ASSUME NEW u \in Users, NEW type \in RowTypes, NEW d \in Int, Cash(u, type, d)
        PROVE  FALSE
    BY <1>2, <1>4, <2>2 DEF Cash, WriteCash
  <2>3. ASSUME NEW l \in Lots, NEW b \in Users, NEW p \in Nat, NEW type \in RowTypes,
               Sale(l, b, p, type)
        PROVE  Paid(k)'
    <3>1. k = l
      BY <1>1, <1>2, <1>4, <2>3 DEF Sale, TypeOK
    <3>2. Paid(l)'
      BY <2>3, SalePays
    <3>3. QED
      BY <3>1, <3>2
  <2>4. QED
    BY <2>1, <2>2, <2>3, StepKinds
<1>5. QED
  BY <1>3, <1>4

-----------------------------------------------------------------------------
(* The theorems.                                                           *)

LedgerInv == MarketInv /\ RunningBalance /\ RowsMatchSale /\ SoldMeansPaid

LEMMA InitLedger == Init => LedgerInv
<1> SUFFICES ASSUME Init
             PROVE  LedgerInv
  OBVIOUS
<1>1. MarketInv
  BY InitIInv DEF Init, MarketInv, SellersKnown, UnsoldUnwon
<1>2. \A u \in Users : ledger[u] = <<>> /\ balance[u] = StartBalance /\ Len(ledger[u]) = 0
  BY DEF Init
<1>3. RunningBalance
  BY <1>2 DEF RunningBalance, BalanceBefore
<1>4. RowsMatchSale
  BY <1>2, RowsMatchSaleAll DEF RowsFit, Once
<1>5. SoldMeansPaid
  BY DEF Init, SoldMeansPaid
<1>6. QED
  BY <1>1, <1>3, <1>4, <1>5 DEF LedgerInv

LEMMA LedgerHolds == Spec => []LedgerInv
<1>1. LedgerInv /\ [Steps]_vars => LedgerInv'
  BY StepMarketInv, StepRunning, StepRowsMatch, StepSoldPaid DEF LedgerInv
<1>2. QED
  BY <1>1, InitLedger, NextSteps, PTL DEF Spec

(* For every instance: the transactions list explains every balance, row   *)
(* by row, through deposits, withdrawals, purchases and settlements.       *)
THEOREM LedgerExplainsBalances == Spec => []RunningBalance
<1>1. LedgerInv => RunningBalance
  BY DEF LedgerInv
<1>2. QED
  BY <1>1, LedgerHolds, PTL

(* For every instance: rows about a lot exist only once it is sold, once   *)
(* per side, with the final price and the commission on it.                *)
THEOREM SalesRecordedOnce == Spec => []RowsMatchSale
<1>1. LedgerInv => RowsMatchSale
  BY DEF LedgerInv
<1>2. QED
  BY <1>1, LedgerHolds, PTL

(* For every instance: a lot completes without a winner only when nobody   *)
(* bid, and otherwise the winner, the seller and the platform are booked.  *)
THEOREM WinnersPay == Spec => []SoldMeansPaid
<1>1. LedgerInv => SoldMeansPaid
  BY DEF LedgerInv
<1>2. QED
  BY <1>1, LedgerHolds, PTL

-----------------------------------------------------------------------------
(* Reviews.                                                                *)

(* What a request found when it checked the sale still holds when it comes *)
(* to insert: the strengthening that makes ReviewsFollowSales inductive.   *)
PostsQualify ==
  \A p \in Posts : \/ post[p] = NoPost
                   \/ /\ post[p] \in Users \X Lots
                      /\ Won(post[p][1], post[p][2])

ReviewsTyped == reviews \subseteq ReviewRows /\ DOMAIN post = Posts

ReviewsInv == TypeOK /\ ReviewsTyped /\ PostsQualify /\ ReviewsFollowSales

(* The market with reviews is the market: reviews read it and write only   *)
(* their own table.                                                        *)
THEOREM ReviewsImplementMarket == ReviewsSpec => Spec
<1>1. ReviewsInit => Init
  BY DEF ReviewsInit
<1>2. [ReviewsNext]_reviewvars => [Next]_vars
  BY DEF ReviewsNext, MarketStep, create_review, InsertReview, DropPost, delete_review,
         reviewvars
<1>3. QED
  BY <1>1, <1>2, PTL DEF ReviewsSpec, Spec

(* A sale stays a sale.                                                    *)
LEMMA SaleStays ==
  ASSUME TypeOK, [Next]_vars, NEW u, NEW l \in Lots, Won(u, l)
  PROVE  Won(u, l)' /\ created_by'[l] = created_by[l]
BY NextSteps, FinishedStep DEF Won

LEMMA InitReviewsInv == ReviewsInit => ReviewsInv
BY InitTypeOK DEF ReviewsInit, ReviewsInv, ReviewsTyped, PostsQualify, ReviewsFollowSales

LEMMA StepReviewsInv == ReviewsInv /\ [ReviewsNext]_reviewvars => ReviewsInv'
<1> SUFFICES ASSUME ReviewsInv, [ReviewsNext]_reviewvars
             PROVE  ReviewsInv'
  OBVIOUS
<1> USE DEF ReviewsInv
<1>1. CASE MarketStep \/ UNCHANGED reviewvars
  <2>1. [Next]_vars /\ reviews' = reviews /\ post' = post
    BY <1>1 DEF MarketStep, reviewvars
  <2>2. TypeOK'
    BY <2>1, NextSteps, StepTypeOK
  <2>3. ReviewsTyped'
    BY <2>1 DEF ReviewsTyped
  <2>4. PostsQualify'
    BY <2>1, SaleStays DEF PostsQualify
  <2>5. ReviewsFollowSales'
    BY <2>1, SaleStays DEF ReviewsFollowSales, ReviewsTyped, ReviewRows
  <2>6. QED
    BY <2>2, <2>3, <2>4, <2>5
<1>2. ASSUME NEW p \in Posts, NEW u \in Users, NEW l \in Lots, create_review(p, u, l)
      PROVE  ReviewsInv'
  <2>1. UNCHANGED vars /\ reviews' = reviews
    BY <1>2 DEF create_review
  <2>2. TypeOK'
    BY <2>1 DEF TypeOK, vars, listing, deadline, money
  <2>3. Won(u, l)
    BY <1>2 DEF create_review, Qualifying, Won
  <2>4. PostsQualify'
    <3> SUFFICES ASSUME NEW q \in Posts
                 PROVE  (\/ post[q] = NoPost
                         \/ /\ post[q] \in Users \X Lots
                            /\ Won(post[q][1], post[q][2]))'
      BY DEF PostsQualify
    <3>1. CASE q = p
      BY <1>2, <2>1, <2>3, <3>1
      DEF create_review, Won, vars, listing, ReviewsTyped
    <3>2. CASE q # p
      BY <1>2, <2>1, <3>2
      DEF create_review, PostsQualify, Won, vars, listing, ReviewsTyped
    <3>3. QED
      BY <3>1, <3>2
  <2>5. ReviewsTyped' /\ ReviewsFollowSales'
    BY <1>2, <2>1 DEF create_review, ReviewsTyped, ReviewsFollowSales, Won, vars, listing
  <2>6. QED
    BY <2>2, <2>4, <2>5
<1>3. ASSUME NEW p \in Posts, InsertReview(p)
      PROVE  ReviewsInv'
  <2> DEFINE u == post[p][1]
             l == post[p][2]
             new == [reviewer |-> u, lot |-> l, seller |-> created_by[l], created_at |-> now]
  <2>1. UNCHANGED vars /\ post' = [post EXCEPT ![p] = NoPost] /\ post[p] # NoPost
    BY <1>3 DEF InsertReview
  <2>2. TypeOK'
    BY <2>1 DEF TypeOK, vars, listing, deadline, money
  <2>3. u \in Users /\ l \in Lots /\ Won(u, l)
    BY <2>1 DEF PostsQualify
  <2>4. PostsQualify' /\ DOMAIN post' = Posts
    BY <2>1 DEF PostsQualify, Won, vars, listing, ReviewsTyped
  <2>5. new \in ReviewRows
    <3>1. created_by[l] \in Users \cup {NoUser} /\ now \in Nat
      BY <2>3, BoundsAssumption DEF TypeOK
    <3>2. QED
      BY <2>3, <3>1 DEF ReviewRows
  <2>6. \/ reviews' = reviews
        \/ ~ Reviewed(u, l) /\ reviews' = reviews \cup {new}
    BY <1>3 DEF InsertReview, CommitAllowed
  <2>7. ReviewsTyped'
    BY <2>4, <2>5, <2>6 DEF ReviewsTyped
  <2>8. ReviewsFollowSales'
    BY <2>1, <2>3, <2>6 DEF ReviewsFollowSales, Reviewed, Won, vars, listing
  <2>9. QED
    BY <2>2, <2>4, <2>7, <2>8
<1>4. ASSUME NEW p \in Posts, DropPost(p)
      PROVE  ReviewsInv'
  BY <1>4 DEF DropPost, TypeOK, ReviewsTyped, PostsQualify, ReviewsFollowSales, Won, vars,
              listing, deadline, money
<1>5. CASE delete_review
  BY <1>5 DEF delete_review, TypeOK, ReviewsTyped, PostsQualify, ReviewsFollowSales, Won, vars,
              listing, deadline, money
<1>6. QED
  BY <1>1, <1>2, <1>3, <1>4, <1>5 DEF ReviewsNext

(* For every instance: reviews follow sales, also those whose request took *)
(* its time between the check and the insert.                              *)
THEOREM ReviewsAlwaysFollowSales == ReviewsSpec => []ReviewsFollowSales
<1>1. ReviewsInv => ReviewsFollowSales
  BY DEF ReviewsInv
<1>2. QED
  BY <1>1, InitReviewsInv, StepReviewsInv, PTL DEF ReviewsSpec
=============================================================================
