---------------------------- MODULE SocketsProofs ----------------------------
(***************************************************************************)
(* Proofs about Sockets, for any number of sockets, keys, addresses and    *)
(* concurrent fan-outs: slots are given back, no dict entry is empty, a    *)
(* fan-out skips nobody who is there and well, and the one way such a      *)
(* socket loses its registration.                                          *)
(***************************************************************************)
EXTENDS Sockets, SumsProofs, SequenceTheorems

Distinct(s) == \A i, j \in 1 .. Len(s) : s[i] = s[j] => i = j
Has(s, c) == \E i \in 1 .. Len(s) : s[i] = c

-----------------------------------------------------------------------------
(* Kept.                                                                   *)

IsKept(k, s, S, n) ==
  k = [i \in 0 .. n |-> IF i = 0 THEN <<>>
                        ELSE IF s[i] \in S THEN k[i - 1] ELSE Append(k[i - 1], s[i])]

LEMMA KeptExists ==
  ASSUME NEW s, NEW S, NEW N \in Nat
  PROVE  \E k : IsKept(k, s, S, N)
<1> DEFINE Some(n) == \E k : IsKept(k, s, S, n)
           Bad == {n \in 0 .. N : ~ Some(n)}
<1>1. ASSUME Bad # {}
      PROVE  FALSE
  <2>1. PICK m \in Bad : \A j \in Bad : m <= j
    <3>1. Bad \in SUBSET Nat
      OBVIOUS
    <3>2. QED
      BY <1>1, <3>1, LeastNat
  <2>2. CASE m = 0
    <3>1. IsKept([i \in 0 .. 0 |-> <<>>], s, S, 0)
      BY DEF IsKept
    <3>2. QED
      BY <2>1, <2>2, <3>1
  <2>3. CASE m # 0
    <3>1. m \in 1 .. N /\ m - 1 \in 0 .. N /\ m - 1 \notin Bad
      BY <2>1, <2>3
    <3>2. PICK k : IsKept(k, s, S, m - 1)
      BY <3>1
    <3> DEFINE last == IF s[m] \in S THEN k[m - 1] ELSE Append(k[m - 1], s[m])
               t == [i \in 0 .. m |-> IF i = m THEN last ELSE k[i]]
    <3>3. \A i \in 0 .. m - 1 :
            k[i] = IF i = 0 THEN <<>>
                   ELSE IF s[i] \in S THEN k[i - 1] ELSE Append(k[i - 1], s[i])
      BY <3>2 DEF IsKept
    <3>4. \A i \in 0 .. m :
            t[i] = IF i = 0 THEN <<>>
                   ELSE IF s[i] \in S THEN t[i - 1] ELSE Append(t[i - 1], s[i])
      BY <3>1, <3>3
    <3>5. IsKept(t, s, S, m)
      BY <3>4 DEF IsKept
    <3>6. QED
      BY <2>1, <3>5
  <2>4. QED
    BY <2>2, <2>3
<1>2. N \notin Bad
  <2> HIDE DEF Bad
  <2>1. QED
    BY <1>1
<1>3. QED
  BY <1>2

(* Kept is the last of the lists its recursion builds.                     *)
LEMMA KeptDef ==
  ASSUME NEW A, NEW s \in Seq(A), NEW S
  PROVE  \E k : /\ Kept(s, S) = k[Len(s)] /\ k[0] = <<>>
                /\ \A i \in 1 .. Len(s) :
                     k[i] = IF s[i] \in S THEN k[i - 1] ELSE Append(k[i - 1], s[i])
<1>0. Len(s) \in Nat
  OBVIOUS
<1>1. PICK h : IsKept(h, s, S, Len(s))
  BY <1>0, KeptExists
<1> DEFINE k[i \in 0 .. Len(s)] ==
             IF i = 0 THEN <<>>
             ELSE IF s[i] \in S THEN k[i - 1] ELSE Append(k[i - 1], s[i])
<1>2. IsKept(k, s, S, Len(s))
  BY <1>1 DEF IsKept
<1>3. Kept(s, S) = k[Len(s)]
  BY DEF Kept
<1> HIDE DEF k
<1>4. \A i \in 0 .. Len(s) :
        k[i] = IF i = 0 THEN <<>>
               ELSE IF s[i] \in S THEN k[i - 1] ELSE Append(k[i - 1], s[i])
  BY <1>2 DEF IsKept
<1>5. QED
  BY <1>3, <1>4

(* What is kept is what is not in S, each once if each was there once.     *)
LEMMA KeptProperties ==
  ASSUME NEW A, NEW s \in Seq(A), NEW S
  PROVE  /\ Kept(s, S) \in Seq(A)
         /\ \A c : Has(Kept(s, S), c) <=> Has(s, c) /\ c \notin S
         /\ Distinct(s) => Distinct(Kept(s, S))
<1>0. PICK k : /\ Kept(s, S) = k[Len(s)] /\ k[0] = <<>>
               /\ \A i \in 1 .. Len(s) :
                    k[i] = IF s[i] \in S THEN k[i - 1] ELSE Append(k[i - 1], s[i])
  BY KeptDef
<1> DEFINE Good(i) == /\ k[i] \in Seq(A)
                      /\ \A c : Has(k[i], c) <=> (\E j \in 1 .. i : s[j] = c) /\ c \notin S
                      /\ Distinct(s) => Distinct(k[i])
           Bad == {i \in 0 .. Len(s) : ~ Good(i)}
<1>1. Good(0)
  BY <1>0 DEF Has, Distinct
<1>2. ASSUME NEW m \in 1 .. Len(s), Good(m - 1)
      PROVE  Good(m)
  <2>1. CASE s[m] \in S
    <3>1. k[m] = k[m - 1]
      BY <1>0, <2>1
    <3>2. \A c : (\E j \in 1 .. m : s[j] = c) /\ c \notin S
                <=> (\E j \in 1 .. m - 1 : s[j] = c) /\ c \notin S
      BY <2>1
    <3>3. QED
      BY <1>2, <3>1, <3>2
  <2>2. CASE s[m] \notin S
    <3> DEFINE q == k[m - 1]
               r == Append(q, s[m])
    <3>1. k[m] = r /\ q \in Seq(A) /\ s[m] \in A
      <4>1. k[m] = r
        BY <1>0, <2>2
      <4>2. q \in Seq(A)
        BY <1>2
      <4>3. s[m] \in A
        OBVIOUS
      <4>4. QED
        BY <4>1, <4>2, <4>3
    <3>2. /\ r \in Seq(A) /\ Len(r) = Len(q) + 1 /\ Len(q) \in Nat /\ r[Len(q) + 1] = s[m]
          /\ \A i \in 1 .. Len(q) : r[i] = q[i]
      BY <3>1
    <3>3. \A c : Has(q, c) <=> (\E j \in 1 .. m - 1 : s[j] = c) /\ c \notin S
      BY <1>2
    <3>4. Distinct(s) => Distinct(q)
      BY <1>2
    <3> HIDE DEF q, r
    <3>5. \A c : Has(r, c) <=> Has(q, c) \/ c = s[m]
      BY <3>2 DEF Has
    <3>6. \A c : (\E j \in 1 .. m : s[j] = c) <=> (\E j \in 1 .. m - 1 : s[j] = c) \/ c = s[m]
      OBVIOUS
    <3>7. \A c : Has(r, c) <=> (\E j \in 1 .. m : s[j] = c) /\ c \notin S
      BY <2>2, <3>3, <3>5, <3>6
    <3>8. ASSUME Distinct(s)
          PROVE  Distinct(r)
      <4>1. ~ Has(q, s[m])
        <5>1. \A j \in 1 .. m - 1 : s[j] # s[m]
          BY <3>8 DEF Distinct
        <5>2. QED
          BY <3>3, <5>1
      <4>2. \A i \in 1 .. Len(q) : q[i] # s[m]
        BY <4>1 DEF Has
      <4>3. QED
        BY <3>2, <3>4, <3>8, <4>2 DEF Distinct
    <3>9. QED
      BY <3>1, <3>2, <3>7, <3>8
  <2>3. QED
    BY <2>1, <2>2
<1> HIDE DEF Good
<1>3. ASSUME Bad # {}
      PROVE  FALSE
  <2>1. PICK m \in Bad : \A j \in Bad : m <= j
    <3>1. Bad \in SUBSET Nat
      OBVIOUS
    <3> HIDE DEF Bad
    <3>2. QED
      BY <1>3, <3>1, LeastNat
  <2>2. m # 0 /\ m \in 0 .. Len(s)
    BY <1>1
  <2>3. m \in 1 .. Len(s) /\ m - 1 \in 0 .. Len(s) /\ m - 1 \notin Bad
    BY <2>1, <2>2
  <2>4. QED
    BY <1>2, <2>3
<1>4. Good(Len(s))
  <2>1. Len(s) \in 0 .. Len(s)
    OBVIOUS
  <2>2. Bad = {}
    <3> HIDE DEF Bad
    <3>1. QED
      BY <1>3
  <2>3. QED
    BY <2>1, <2>2
<1>5. QED
  BY <1>0, <1>4 DEF Good, Has

(* A list of different members of A is no longer than A is large.          *)
LEMMA DistinctIsShort ==
  ASSUME NEW A, IsFiniteSet(A), NEW s \in Seq(A), Distinct(s)
  PROVE  Len(s) <= Cardinality(A) /\ Cardinality(A) \in Nat
<1>1. s \in [1 .. Len(s) -> A] /\ Len(s) \in Nat
  OBVIOUS
<1>2. s \in Injection(1 .. Len(s), A)
  BY <1>1 DEF Distinct, Injection, IsInjective
<1>3. Cardinality(1 .. Len(s)) <= Cardinality(A)
  BY <1>2, FS_Injection
<1>4. Cardinality(1 .. Len(s)) = Len(s)
  <2>1. PICK n \in Nat : n = Len(s)
    BY <1>1
  <2>2. Cardinality(1 .. n) = IF 1 > n THEN 0 ELSE n - 1 + 1
    BY FS_Interval
  <2>3. QED
    BY <2>1, <2>2
<1>5. QED
  BY <1>3, <1>4, FS_CardinalityType

-----------------------------------------------------------------------------
(* The inductive invariant.                                                *)

(* What does not change any more.                                          *)
Gone(c) == phase[c] \in {"closing", "closed"} \/ ~ healthy[c]

FanOuts == [key : Keys \cup {NoKey}, bucket : Nat, snapshot : Seq(Clients),
            at : Nat, target : Clients \cup {NoClient}, dead : SUBSET Clients]

ListTypes ==
  /\ registry \in [Keys -> Nat]
  /\ buckets \in Seq(Seq(Clients))
  /\ \A k \in Keys : registry[k] <= Len(buckets)

Types ==
  /\ phase \in [Clients -> {"new", "accepting", "open", "closing", "closed", "failed"}]
  /\ key \in [Clients -> Keys \cup {NoKey}]
  /\ ip \in [Clients -> IPs]
  /\ healthy \in [Clients -> BOOLEAN]
  /\ held \in [IPs -> 0 .. MaxPerIp]
  /\ fan \in [Senders -> FanOuts]
  /\ heard \in [Clients -> SUBSET Senders]
  /\ \A c \in Clients : phase[c] # "new" => key[c] \in Keys

(* Every list holds sockets that were accepted, each once.                 *)
BucketsOK ==
  \A b \in 1 .. Len(buckets) :
    /\ Distinct(buckets[b])
    /\ \A c \in Clients : Has(buckets[b], c) => phase[c] \in {"open", "closing", "closed"}

(* An entry of the dicts is a list of its own, of sockets of that key.     *)
EntriesOK ==
  /\ NoEmptyBuckets
  /\ \A k \in Keys : registry[k] # NoBucket =>
       \A c \in Clients : Has(buckets[registry[k]], c) => key[c] = k
  /\ \A k, l \in Keys : registry[k] = registry[l] /\ registry[k] # NoBucket => k = l

(* A fan-out has reached, or found gone, everybody before its position,    *)
(* and its list is one its key has or had.                                 *)
FanOutOK(p) ==
  /\ Distinct(fan[p].snapshot)
  /\ fan[p].at <= Len(fan[p].snapshot)
  /\ fan[p].bucket <= Len(buckets)
  /\ Sending(p) =>
       /\ fan[p].key \in Keys
       /\ fan[p].bucket # NoBucket
       /\ fan[p].at # 0
       /\ fan[p].target = fan[p].snapshot[fan[p].at]
       /\ \A k \in Keys : registry[k] = fan[p].bucket => k = fan[p].key
       /\ registry[fan[p].key] # NoBucket => fan[p].bucket <= registry[fan[p].key]
       /\ \A c \in fan[p].dead : Gone(c)
       /\ \A i \in 1 .. fan[p].at - 1 :
            p \in heard[fan[p].snapshot[i]] \/ Gone(fan[p].snapshot[i])

SockInv ==
  /\ Types
  /\ ListTypes
  /\ SlotsMatchSockets
  /\ BucketsOK
  /\ EntriesOK
  /\ \A p \in Senders : FanOutOK(p)

LEMMA SockInvGivesTypes == SockInv => TypeOK
<1> SUFFICES ASSUME SockInv PROVE TypeOK
  OBVIOUS
<1>1. registry \in [Keys -> 0 .. Len(buckets)]
  <2>1. Len(buckets) \in Nat
    BY DEF SockInv, ListTypes
  <2>2. QED
    BY <2>1 DEF SockInv, ListTypes
<1>2. ASSUME NEW p \in Senders
      PROVE  fan[p] \in [key : Keys \cup {NoKey}, bucket : 0 .. Len(buckets),
                         snapshot : Seq(Clients), at : 0 .. Cardinality(Clients),
                         target : Clients \cup {NoClient}, dead : SUBSET Clients]
  <2>1. fan[p] \in FanOuts /\ FanOutOK(p)
    BY DEF SockInv, Types
  <2>2. fan[p].snapshot \in Seq(Clients)
    BY <2>1 DEF FanOuts
  <2>3. Len(fan[p].snapshot) <= Cardinality(Clients) /\ Cardinality(Clients) \in Nat
    BY <2>1, <2>2, DistinctIsShort, ClientsAssumption DEF FanOutOK
  <2>4. fan[p].at \in 0 .. Cardinality(Clients)
    <3>1. Len(fan[p].snapshot) \in Nat /\ fan[p].at \in Nat
      BY <2>1, <2>2 DEF FanOuts
    <3>2. QED
      BY <2>1, <2>3, <3>1 DEF FanOutOK
  <2>5. fan[p].bucket \in 0 .. Len(buckets)
    <3>1. Len(buckets) \in Nat /\ fan[p].bucket \in Nat
      BY <2>1 DEF FanOuts, SockInv, ListTypes
    <3>2. QED
      BY <2>1, <3>1 DEF FanOutOK
  <2>6. QED
    BY <2>1, <2>4, <2>5 DEF FanOuts
<1>3. fan \in [Senders -> [key : Keys \cup {NoKey}, bucket : 0 .. Len(buckets),
                         snapshot : Seq(Clients), at : 0 .. Cardinality(Clients),
                         target : Clients \cup {NoClient}, dead : SUBSET Clients]]
  BY <1>2 DEF SockInv, Types
<1>4. QED
  BY <1>1, <1>3 DEF TypeOK, SockInv, Types, ListTypes, EntriesOK

LEMMA SocketsInit == Init => SockInv
<1> SUFFICES ASSUME Init PROVE SockInv
  OBVIOUS
<1>1. Types
  <2>1. fan \in [Senders -> FanOuts]
    BY DEF Init, IdleFan, FanOuts, NoBucket
  <2>2. held \in [IPs -> 0 .. MaxPerIp]
    BY CapAssumption DEF Init
  <2>3. QED
    BY <2>1, <2>2 DEF Init, Types
<1>2. ListTypes
  <2>1. Len(buckets) = 0 /\ buckets \in Seq(Seq(Clients))
    BY DEF Init
  <2>2. QED
    BY <2>1 DEF Init, ListTypes, NoBucket
<1>3. SlotsMatchSockets
  <2> SUFFICES ASSUME NEW i \in IPs
               PROVE  held[i] = Cardinality(Holders(i))
    BY DEF SlotsMatchSockets
  <2>1. Holders(i) = {}
    BY DEF Init, InHandler, Holders
  <2>2. QED
    BY <2>1, FS_EmptySet DEF Init
<1>4. BucketsOK
  BY DEF Init, BucketsOK
<1>5. EntriesOK
  BY DEF Init, EntriesOK, NoEmptyBuckets
<1>6. \A p \in Senders : FanOutOK(p)
  BY DEF Init, FanOutOK, IdleFan, Sending, Distinct, NoBucket
<1>7. QED
  BY <1>1, <1>2, <1>3, <1>4, <1>5, <1>6 DEF SockInv

-----------------------------------------------------------------------------
(* What a step does to the lists.                                          *)

(* A key keeps its list, loses it, or gets a new one.                      *)
RegistryMoves ==
  /\ Len(buckets) <= Len(buckets')
  /\ \A k \in Keys : \/ registry'[k] = registry[k]
                     \/ registry'[k] = NoBucket
                     \/ registry'[k] = Len(buckets) + 1

(* Drop changes one list, and one entry at most.                           *)
Dropped(b, k, S) ==
  /\ buckets' \in Seq(Seq(Clients)) /\ Len(buckets') = Len(buckets)
  /\ \A d \in 1 .. Len(buckets) : d # b => buckets'[d] = buckets[d]
  /\ \A c : Has(buckets'[b], c) <=> Has(buckets[b], c) /\ c \notin S
  /\ Distinct(buckets[b]) => Distinct(buckets'[b])
  /\ registry' \in [Keys -> Nat]
  /\ \A l \in Keys : l # k => registry'[l] = registry[l]
  /\ IF buckets'[b] = <<>> THEN registry'[k] = NoBucket ELSE registry'[k] = registry[k]

LEMMA DropStep ==
  ASSUME ListTypes, NEW b \in 1 .. Len(buckets), NEW k \in Keys, NEW S, Drop(b, k, S)
  PROVE  Dropped(b, k, S)
<1>1. buckets \in Seq(Seq(Clients)) /\ buckets[b] \in Seq(Clients) /\ registry \in [Keys -> Nat]
  BY DEF ListTypes
<1>2. PICK t : t = Kept(buckets[b], S)
  OBVIOUS
<1>3. /\ t \in Seq(Clients)
      /\ \A c : Has(t, c) <=> Has(buckets[b], c) /\ c \notin S
      /\ Distinct(buckets[b]) => Distinct(t)
  BY <1>1, <1>2, KeptProperties
<1>4. /\ buckets' = [buckets EXCEPT ![b] = t]
      /\ registry' = IF t = <<>> THEN [registry EXCEPT ![k] = NoBucket] ELSE registry
  BY <1>2 DEF Drop, Without, Empty
<1>5. /\ buckets' \in Seq(Seq(Clients)) /\ Len(buckets') = Len(buckets)
      /\ \A d \in 1 .. Len(buckets) : buckets'[d] = IF d = b THEN t ELSE buckets[d]
  <2>1. PICK B : B = [buckets EXCEPT ![b] = t]
    OBVIOUS
  <2>2. /\ B \in Seq(Seq(Clients)) /\ Len(B) = Len(buckets)
        /\ \A d \in 1 .. Len(buckets) : B[d] = IF d = b THEN t ELSE buckets[d]
    BY <1>1, <1>3, <2>1, ExceptSeq
  <2>3. QED
    BY <1>4, <2>1, <2>2
<1>6. buckets'[b] = t
  BY <1>5
<1>7. /\ registry' \in [Keys -> Nat]
      /\ \A l \in Keys : l # k => registry'[l] = registry[l]
      /\ IF t = <<>> THEN registry'[k] = NoBucket ELSE registry'[k] = registry[k]
  BY <1>1, <1>4 DEF NoBucket
<1>8. \A d \in 1 .. Len(buckets) : d # b => buckets'[d] = buckets[d]
  BY <1>5
<1>9. QED
  BY <1>3, <1>5, <1>6, <1>7, <1>8 DEF Dropped

(* A list that only this key can have may be pruned.                       *)
LEMMA DropKeepsLists ==
  ASSUME ListTypes, BucketsOK, EntriesOK,
         NEW b \in 1 .. Len(buckets), NEW k \in Keys, NEW S, Drop(b, k, S),
         \A l \in Keys : registry[l] = b => l = k,
         \A c \in Clients : phase[c] \in {"open", "closing", "closed"} => phase'[c] \in {"open", "closing", "closed"},
         key' = key
  PROVE  ListTypes' /\ BucketsOK' /\ EntriesOK' /\ RegistryMoves
<1>1. Dropped(b, k, S)
  BY DropStep
<1>2. Len(buckets) \in Nat /\ Len(buckets') = Len(buckets) /\ registry \in [Keys -> Nat]
  BY <1>1 DEF ListTypes, Dropped
<1>3. \A l \in Keys : registry'[l] = registry[l] \/ registry'[l] = NoBucket
  BY <1>1 DEF Dropped
<1>4. \A d \in 1 .. Len(buckets) : \A c : Has(buckets'[d], c) => Has(buckets[d], c)
  BY <1>1 DEF Dropped
<1>5. RegistryMoves
  BY <1>2, <1>3 DEF RegistryMoves
<1>6. ListTypes'
  <2>1. \A l \in Keys : registry'[l] <= Len(buckets')
    <3>1. \A l \in Keys : registry[l] <= Len(buckets)
      BY DEF ListTypes
    <3>2. PICK n \in Nat : n = Len(buckets) /\ n = Len(buckets')
      BY <1>2
    <3>3. \A l \in Keys : registry'[l] <= n
      BY <1>3, <3>1, <3>2 DEF NoBucket
    <3>4. QED
      BY <3>2, <3>3
  <2>2. QED
    BY <1>1, <2>1 DEF ListTypes, Dropped
<1>7. BucketsOK'
  <2> SUFFICES ASSUME NEW d \in 1 .. Len(buckets)
               PROVE  /\ Distinct(buckets'[d])
                      /\ \A c \in Clients : Has(buckets'[d], c) => phase'[c] \in {"open", "closing", "closed"}
    BY <1>2 DEF BucketsOK
  <2>1. Distinct(buckets'[d])
    BY <1>1 DEF Dropped, BucketsOK
  <2>2. QED
    BY <1>4, <2>1 DEF BucketsOK
<1>8. EntriesOK'
  <2>1. \A l \in Keys : registry'[l] # NoBucket =>
          registry'[l] = registry[l] /\ registry[l] \in 1 .. Len(buckets)
    BY <1>2, <1>3 DEF ListTypes, NoBucket
  <2>2. ASSUME NEW l \in Keys, registry'[l] # NoBucket
        PROVE  buckets'[registry'[l]] # <<>>
    <3>1. CASE registry[l] = b
      BY <1>1, <2>1, <2>2, <3>1 DEF Dropped
    <3>2. CASE registry[l] # b
      BY <1>1, <2>1, <2>2, <3>2 DEF Dropped, EntriesOK, NoEmptyBuckets
    <3>3. QED
      BY <3>1, <3>2
  <2>3. ASSUME NEW l \in Keys, registry'[l] # NoBucket,
               NEW c \in Clients, Has(buckets'[registry'[l]], c)
        PROVE  key'[c] = l
    BY <1>4, <2>1, <2>3 DEF EntriesOK
  <2>4. \A l, m \in Keys : registry'[l] = registry'[m] /\ registry'[l] # NoBucket => l = m
    BY <2>1 DEF EntriesOK
  <2>5. QED
    BY <2>2, <2>3, <2>4 DEF EntriesOK, NoEmptyBuckets
<1>9. QED
  BY <1>5, <1>6, <1>7, <1>8

(* Accept adds one socket to one list, the one its key then has.           *)
Added(c, d) ==
  /\ buckets' \in Seq(Seq(Clients)) /\ Len(buckets) <= Len(buckets')
  /\ d \in 1 .. Len(buckets')
  /\ \A e \in 1 .. Len(buckets') : e # d => e \in 1 .. Len(buckets) /\ buckets'[e] = buckets[e]
  /\ registry' \in [Keys -> Nat] /\ registry'[key[c]] = d
  /\ \A l \in Keys : l # key[c] => registry'[l] = registry[l] /\ registry[l] # d
  /\ registry[key[c]] # NoBucket => registry[key[c]] = d
  /\ d = registry[key[c]] \/ d = Len(buckets) + 1
  /\ buckets'[d] # <<>> /\ Distinct(buckets'[d])
  /\ \A x : Has(buckets'[d], x) <=> x = c \/ (registry[key[c]] = d /\ Has(buckets[d], x))

LEMMA AcceptStep ==
  ASSUME SockInv, NEW c \in Clients, Accept(c)
  PROVE  \E d : Added(c, d)
<1> DEFINE k == key[c]
           b == registry[k]
<1>1. /\ registry \in [Keys -> Nat] /\ buckets \in Seq(Seq(Clients)) /\ Len(buckets) \in Nat
      /\ \A l \in Keys : registry[l] <= Len(buckets)
  BY DEF SockInv, ListTypes
<1>2. k \in Keys /\ b \in Nat /\ b <= Len(buckets)
  BY <1>1 DEF Accept, SockInv, Types
<1>3. \A e \in 1 .. Len(buckets) : ~ Has(buckets[e], c)
  BY DEF Accept, SockInv, BucketsOK
<1>4. CASE b = NoBucket
  <2> DEFINE d == Len(buckets) + 1
             t == <<c>>
  <2>1. buckets' = Append(buckets, t) /\ registry' = [registry EXCEPT ![k] = d] /\ t \in Seq(Clients)
    BY <1>4 DEF Accept
  <2>2. /\ buckets' \in Seq(Seq(Clients)) /\ Len(buckets') = d /\ buckets'[d] = t
        /\ \A e \in 1 .. Len(buckets) : buckets'[e] = buckets[e]
    BY <1>1, <2>1, AppendProperties
  <2>3. t # <<>> /\ Distinct(t) /\ \A x : Has(t, x) <=> x = c
    BY DEF Distinct, Has
  <2>4. d \in Nat /\ d # NoBucket /\ d # b /\ d \in 1 .. d /\ Len(buckets) <= d
    BY <1>1, <1>4 DEF NoBucket
  <2>5. \A e \in 1 .. d : e # d => e \in 1 .. Len(buckets)
    BY <1>1
  <2>6. \A l \in Keys : registry[l] # d
    BY <1>1
  <2>7. registry' \in [Keys -> Nat] /\ registry'[k] = d /\ \A l \in Keys : l # k => registry'[l] = registry[l]
    BY <1>1, <1>2, <2>1, <2>4
  <2>8. Added(c, d)
    <3> HIDE DEF t, d
    <3>1. d = Len(buckets) + 1
      BY DEF d
    <3>2. QED
      BY <1>4, <2>2, <2>3, <2>4, <2>5, <2>6, <2>7, <3>1 DEF Added
  <2>9. QED
    BY <2>8
<1>5. CASE b # NoBucket
  <2>1. b \in 1 .. Len(buckets)
    BY <1>2, <1>5 DEF NoBucket
  <2> DEFINE s == buckets[b]
             t == Append(s, c)
  <2>2. s \in Seq(Clients) /\ buckets' = [buckets EXCEPT ![b] = t] /\ registry' = registry
    BY <1>1, <1>5, <2>1 DEF Accept
  <2>3. /\ t \in Seq(Clients) /\ t # <<>> /\ Len(t) = Len(s) + 1 /\ Len(s) \in Nat
        /\ \A i \in 1 .. Len(s) : t[i] = s[i]
        /\ t[Len(s) + 1] = c
    BY <2>2, AppendProperties
  <2>4. \A x : Has(t, x) <=> x = c \/ Has(s, x)
    <3> HIDE DEF t, s
    <3>1. QED
      BY <2>3 DEF Has
  <2>5. Distinct(t)
    <3>1. Distinct(s) /\ ~ Has(s, c)
      BY <1>3, <2>1 DEF SockInv, BucketsOK
    <3> HIDE DEF t, s
    <3>2. \A i \in 1 .. Len(s) : s[i] # c
      BY <3>1 DEF Has
    <3>3. QED
      BY <2>3, <3>1, <3>2 DEF Distinct
  <2>6. /\ buckets' \in Seq(Seq(Clients)) /\ Len(buckets') = Len(buckets)
        /\ \A e \in 1 .. Len(buckets) : buckets'[e] = IF e = b THEN t ELSE buckets[e]
    <3> HIDE DEF t
    <3>1. QED
      BY <1>1, <2>1, <2>2, <2>3, ExceptSeq
  <2>7. \A l \in Keys : l # k => registry[l] # b
    BY <1>2, <1>5 DEF SockInv, EntriesOK
  <2>8. buckets'[b] = t /\ \A e \in 1 .. Len(buckets') : e # b => e \in 1 .. Len(buckets) /\ buckets'[e] = buckets[e]
    BY <2>1, <2>6
  <2>9. Len(buckets) <= Len(buckets') /\ b \in 1 .. Len(buckets')
    BY <1>1, <2>1, <2>6
  <2>10. \A x : Has(t, x) <=> x = c \/ (registry[k] = b /\ Has(buckets[b], x))
    BY <2>4
  <2>11. registry' \in [Keys -> Nat] /\ registry'[k] = b
    BY <1>1, <2>2
  <2>12. Added(c, b)
    <3> HIDE DEF t
    <3>1. QED
      BY <2>2, <2>3, <2>5, <2>6, <2>7, <2>8, <2>9, <2>10, <2>11 DEF Added
  <2>13. QED
    BY <2>12
<1>6. QED
  BY <1>4, <1>5

LEMMA AcceptKeepsLists ==
  ASSUME SockInv, NEW c \in Clients, Accept(c)
  PROVE  ListTypes' /\ BucketsOK' /\ EntriesOK' /\ RegistryMoves
<1>1. PICK d : Added(c, d)
  BY AcceptStep
<1>2. /\ key' = key /\ key[c] \in Keys /\ phase'[c] = "open"
      /\ \A x \in Clients : phase[x] \in {"open", "closing", "closed"} => phase'[x] \in {"open", "closing", "closed"}
  BY DEF Accept, SockInv, Types
<1>3. Len(buckets) \in Nat /\ Len(buckets') \in Nat /\ d \in 1 .. Len(buckets')
  BY <1>1 DEF Added, SockInv, ListTypes
<1>4. ListTypes'
  <2>1. \A l \in Keys : registry[l] <= Len(buckets) /\ registry[l] \in Nat
    BY DEF SockInv, ListTypes
  <2>2. \A l \in Keys : registry'[l] = registry[l] \/ registry'[l] = d
    BY <1>1, <1>2 DEF Added
  <2>3. Len(buckets) <= Len(buckets')
    BY <1>1 DEF Added
  <2>4. PICK n \in Nat, n1 \in Nat : n = Len(buckets) /\ n1 = Len(buckets')
    BY <1>3
  <2>5. \A l \in Keys : registry'[l] <= n1
    BY <1>3, <2>1, <2>2, <2>3, <2>4
  <2>6. QED
    BY <1>1, <2>4, <2>5 DEF ListTypes, Added
<1>5. BucketsOK'
  <2> SUFFICES ASSUME NEW e \in 1 .. Len(buckets')
               PROVE  /\ Distinct(buckets'[e])
                      /\ \A x \in Clients : Has(buckets'[e], x) => phase'[x] \in {"open", "closing", "closed"}
    BY DEF BucketsOK
  <2>1. CASE e = d
    <3>1. Distinct(buckets'[d])
      BY <1>1 DEF Added
    <3>2. registry[key[c]] = d => d \in 1 .. Len(buckets)
      BY <1>2, <1>3 DEF SockInv, ListTypes
    <3>3. \A x \in Clients : Has(buckets'[d], x) => x = c \/ (d \in 1 .. Len(buckets) /\ Has(buckets[d], x))
      BY <1>1, <3>2 DEF Added
    <3>4. QED
      BY <1>2, <2>1, <3>1, <3>3 DEF SockInv, BucketsOK
  <2>2. CASE e # d
    <3>1. e \in 1 .. Len(buckets) /\ buckets'[e] = buckets[e]
      BY <1>1, <2>2 DEF Added
    <3>2. QED
      BY <1>2, <3>1 DEF SockInv, BucketsOK
  <2>3. QED
    BY <2>1, <2>2
<1>6. EntriesOK'
  <2>1. \A l \in Keys : l # key[c] => registry'[l] = registry[l] /\ registry[l] # d
    BY <1>1 DEF Added
  <2>2. registry'[key[c]] = d
    BY <1>1 DEF Added
  <2>3. \A l \in Keys : l # key[c] /\ registry[l] # NoBucket => buckets'[registry[l]] = buckets[registry[l]]
    <3> SUFFICES ASSUME NEW l \in Keys, l # key[c], registry[l] # NoBucket
                 PROVE  buckets'[registry[l]] = buckets[registry[l]]
      OBVIOUS
    <3>1. registry[l] \in 1 .. Len(buckets')
      <4>1. registry[l] \in Nat /\ registry[l] <= Len(buckets) /\ Len(buckets) <= Len(buckets')
        BY <1>1 DEF SockInv, ListTypes, Added
      <4>2. PICK n \in Nat, n1 \in Nat : n = Len(buckets) /\ n1 = Len(buckets')
        BY <1>3
      <4>3. registry[l] \in 1 .. n1
        BY <4>1, <4>2 DEF NoBucket
      <4>4. QED
        BY <4>2, <4>3
    <3>2. QED
      BY <1>1, <2>1, <3>1 DEF Added
  <2>4. NoEmptyBuckets'
    <3>1. buckets'[d] # <<>>
      BY <1>1 DEF Added
    <3>2. QED
      BY <2>1, <2>2, <2>3, <3>1 DEF NoEmptyBuckets, SockInv, EntriesOK
  <2>5. ASSUME NEW l \in Keys, registry'[l] # NoBucket, NEW x \in Clients, Has(buckets'[registry'[l]], x)
        PROVE  key'[x] = l
    <3>1. CASE l = key[c]
      <4>1. x = c \/ (registry[key[c]] = d /\ Has(buckets[d], x))
        BY <1>1, <2>2, <2>5, <3>1 DEF Added
      <4>2. d # NoBucket
        BY <1>3 DEF NoBucket
      <4>3. QED
        BY <1>2, <3>1, <4>1, <4>2 DEF SockInv, EntriesOK
    <3>2. CASE l # key[c]
      BY <1>2, <2>1, <2>3, <2>5, <3>2 DEF SockInv, EntriesOK
    <3>3. QED
      BY <3>1, <3>2
  <2>6. \A l, m \in Keys : registry'[l] = registry'[m] /\ registry'[l] # NoBucket => l = m
    <3>1. \A l, m \in Keys : registry[l] = registry[m] /\ registry[l] # NoBucket => l = m
      BY DEF SockInv, EntriesOK
    <3>2. QED
      BY <2>1, <2>2, <3>1
  <2>7. QED
    BY <2>4, <2>5, <2>6 DEF EntriesOK
<1>7. RegistryMoves
  BY <1>1 DEF RegistryMoves, Added
<1>8. QED
  BY <1>4, <1>5, <1>6, <1>7

(* Nothing changes the lists, and no socket is new in one.                 *)
LEMMA SameLists ==
  ASSUME SockInv, UNCHANGED lists,
         \A c \in Clients : phase[c] \in {"open", "closing", "closed"} =>
           phase'[c] \in {"open", "closing", "closed"} /\ key'[c] = key[c]
  PROVE  ListTypes' /\ BucketsOK' /\ EntriesOK' /\ RegistryMoves
<1>1. registry' = registry /\ buckets' = buckets /\ Len(buckets) \in Nat
  BY DEF lists, SockInv, ListTypes
<1>2. ListTypes' /\ RegistryMoves
  BY <1>1 DEF SockInv, ListTypes, RegistryMoves
<1>3. BucketsOK'
  BY <1>1 DEF SockInv, BucketsOK
<1>4. EntriesOK'
  <2>1. \A k \in Keys : registry[k] # NoBucket => registry[k] \in 1 .. Len(buckets)
    BY <1>1 DEF SockInv, ListTypes, NoBucket
  <2>2. ASSUME NEW k \in Keys, registry[k] # NoBucket, NEW c \in Clients, Has(buckets[registry[k]], c)
        PROVE  key'[c] = k
    BY <2>1, <2>2 DEF SockInv, BucketsOK, EntriesOK
  <2>3. QED
    BY <1>1, <2>2 DEF SockInv, EntriesOK, NoEmptyBuckets
<1>5. QED
  BY <1>2, <1>3, <1>4

(* A fan-out that waits keeps its invariant.                               *)
LEMMA WaitingFanOut ==
  ASSUME SockInv, NEW p \in Senders, fan'[p] = fan[p], RegistryMoves,
         buckets' \in Seq(Seq(Clients)),
         \A c \in Clients : Gone(c) => Gone(c)',
         \A c \in Clients : p \in heard[c] => p \in heard'[c]
  PROVE  FanOutOK(p)'
<1>1. FanOutOK(p) /\ fan[p] \in FanOuts
  BY DEF SockInv, Types
<1>2. PICK n \in Nat, n1 \in Nat : n = Len(buckets) /\ n1 = Len(buckets') /\ n <= n1
  BY DEF SockInv, ListTypes, RegistryMoves
<1>3. fan[p].bucket \in Nat /\ fan[p].bucket <= n
  BY <1>1, <1>2 DEF FanOuts, FanOutOK
<1>4. fan'[p].bucket <= Len(buckets')
  <2>1. fan[p].bucket <= n1
    BY <1>2, <1>3
  <2>2. QED
    BY <1>2, <2>1
<1>5. ASSUME Sending(p)
      PROVE  /\ \A k \in Keys : registry'[k] = fan[p].bucket => k = fan[p].key
             /\ registry'[fan[p].key] # NoBucket => fan[p].bucket <= registry'[fan[p].key]
  <2>1. /\ fan[p].key \in Keys /\ fan[p].bucket # NoBucket
        /\ \A k \in Keys : registry[k] = fan[p].bucket => k = fan[p].key
        /\ registry[fan[p].key] # NoBucket => fan[p].bucket <= registry[fan[p].key]
    BY <1>1, <1>5 DEF FanOutOK
  <2>2. \A k \in Keys : registry'[k] = registry[k] \/ registry'[k] = NoBucket \/ registry'[k] = n + 1
    BY <1>2 DEF RegistryMoves
  <2>3. n + 1 # fan[p].bucket /\ fan[p].bucket <= n + 1
    BY <1>3
  <2>4. QED
    BY <2>1, <2>2, <2>3
<1>6. ASSUME Sending(p)
      PROVE  /\ \A c \in fan[p].dead : Gone(c)'
             /\ \A i \in 1 .. fan[p].at - 1 :
                  p \in heard'[fan[p].snapshot[i]] \/ Gone(fan[p].snapshot[i])'
  <2>1. fan[p].dead \subseteq Clients /\ fan[p].snapshot \in Seq(Clients) /\ fan[p].at \in Nat
    BY <1>1 DEF FanOuts
  <2>2. \A i \in 1 .. fan[p].at - 1 : i \in 1 .. Len(fan[p].snapshot)
    BY <1>1, <2>1 DEF FanOutOK
  <2>3. \A i \in 1 .. fan[p].at - 1 : fan[p].snapshot[i] \in Clients
    BY <2>1, <2>2
  <2>4. /\ \A c \in fan[p].dead : Gone(c)
        /\ \A i \in 1 .. fan[p].at - 1 :
             p \in heard[fan[p].snapshot[i]] \/ Gone(fan[p].snapshot[i])
    BY <1>1, <1>6 DEF FanOutOK
  <2>5. QED
    BY <2>1, <2>3, <2>4
<1>7. QED
  <2>1. Sending(p)' <=> Sending(p)
    BY DEF Sending
  <2>2. QED
    BY <1>1, <1>4, <1>5, <1>6, <2>1 DEF FanOutOK

-----------------------------------------------------------------------------
(* The handlers.                                                           *)

LEMMA HoldersFinite ==
  ASSUME NEW i
  PROVE  IsFiniteSet(Holders(i)) /\ Cardinality(Holders(i)) \in Nat
<1>1. Holders(i) \subseteq Clients
  BY DEF Holders
<1>2. QED
  BY <1>1, FS_Subset, FS_CardinalityType, ClientsAssumption

(* A socket that comes in, or goes out, changes the count of its address.  *)
LEMMA OneHolderMore ==
  ASSUME NEW i, NEW c, c \notin Holders(i), Holders(i)' = Holders(i) \cup {c}
  PROVE  Cardinality(Holders(i)') = Cardinality(Holders(i)) + 1
BY HoldersFinite, FS_AddElement

LEMMA OneHolderLess ==
  ASSUME NEW i, NEW c, c \in Holders(i), Holders(i)' = Holders(i) \ {c}
  PROVE  Cardinality(Holders(i)') = Cardinality(Holders(i)) - 1
BY HoldersFinite, FS_RemoveElement

LEMMA ConnectStep ==
  ASSUME SockInv, NEW c \in Clients, NEW k \in Keys, Connect(c, k)
  PROVE  SockInv'
<1>1. /\ phase' = [phase EXCEPT ![c] = "accepting"] /\ key' = [key EXCEPT ![c] = k]
      /\ UNCHANGED <<ip, healthy, lists, fan, heard>> /\ phase[c] = "new"
      /\ held' = IF k \in Lots THEN [held EXCEPT ![ip[c]] = @ + 1] ELSE held
      /\ k \in Lots => held[ip[c]] < MaxPerIp
  BY DEF Connect, HasSlot
<1>2. ip[c] \in IPs /\ MaxPerIp \in Nat /\ held \in [IPs -> 0 .. MaxPerIp]
  BY CapAssumption DEF SockInv, Types
<1>3. Types'
  <2>1. held' \in [IPs -> 0 .. MaxPerIp]
    BY <1>1, <1>2
  <2>2. QED
    BY <1>1, <2>1 DEF SockInv, Types
<1>4. ASSUME NEW i \in IPs
      PROVE  held'[i] = Cardinality(Holders(i)')
  <2>1. held[i] = Cardinality(Holders(i))
    BY DEF SockInv, SlotsMatchSockets, Holders
  <2>2. CASE k \in Lots /\ i = ip[c]
    <3>1. c \notin Holders(i) /\ Holders(i)' = Holders(i) \cup {c}
      BY <1>1, <2>2 DEF Holders, InHandler, SockInv, Types
    <3>2. Cardinality(Holders(i)') = Cardinality(Holders(i)) + 1
      BY <3>1, OneHolderMore
    <3>3. QED
      BY <1>1, <1>2, <2>1, <2>2, <3>2
  <2>3. CASE ~ (k \in Lots /\ i = ip[c])
    <3>1. Holders(i)' = Holders(i)
      BY <1>1, <2>3 DEF Holders, InHandler, SockInv, Types
    <3>2. held'[i] = held[i]
      BY <1>1, <1>2, <2>3
    <3>3. QED
      BY <2>1, <3>1, <3>2
  <2>4. QED
    BY <2>2, <2>3
<1>5. ListTypes' /\ BucketsOK' /\ EntriesOK' /\ RegistryMoves
  <2>1. \A d \in Clients : phase[d] \in {"open", "closing", "closed"} =>
          phase'[d] \in {"open", "closing", "closed"} /\ key'[d] = key[d]
    BY <1>1 DEF SockInv, Types
  <2>2. QED
    BY <1>1, <2>1, SameLists
<1>6. \A p \in Senders : FanOutOK(p)'
  <2>1. \A d \in Clients : Gone(d) => Gone(d)'
    BY <1>1 DEF Gone, SockInv, Types
  <2>2. QED
    BY <1>1, <1>5, <2>1, WaitingFanOut DEF ListTypes
<1>7. QED
  BY <1>3, <1>4, <1>5, <1>6 DEF SockInv, SlotsMatchSockets, Holders

LEMMA AcceptIsSafe ==
  ASSUME SockInv, NEW c \in Clients, Accept(c)
  PROVE  SockInv'
<1>1. /\ phase' = [phase EXCEPT ![c] = "open"] /\ phase[c] = "accepting"
      /\ UNCHANGED <<key, ip, healthy, held, fan, heard>>
  BY DEF Accept
<1>2. Types'
  BY <1>1 DEF SockInv, Types
<1>3. \A i \in IPs : Holders(i)' = Holders(i)
  BY <1>1 DEF Holders, InHandler, SockInv, Types
<1>4. SlotsMatchSockets'
  BY <1>1, <1>3 DEF SockInv, SlotsMatchSockets, Holders
<1>5. ListTypes' /\ BucketsOK' /\ EntriesOK' /\ RegistryMoves
  BY AcceptKeepsLists
<1>6. \A p \in Senders : FanOutOK(p)'
  <2>1. \A d \in Clients : Gone(d) => Gone(d)'
    BY <1>1 DEF Gone, SockInv, Types
  <2>2. QED
    BY <1>1, <1>5, <2>1, WaitingFanOut DEF ListTypes
<1>7. QED
  BY <1>2, <1>4, <1>5, <1>6 DEF SockInv

(* What both ways out of the loop have in common.                          *)
LEMMA ReturnStep ==
  ASSUME SockInv, NEW c \in Clients, phase[c] \in {"open", "closing"}, Return(c), UNCHANGED <<fan, heard>>
  PROVE  /\ Types' /\ SlotsMatchSockets' /\ key' = key
         /\ \A d \in Clients : phase[d] \in {"open", "closing", "closed"} => phase'[d] \in {"open", "closing", "closed"}
         /\ \A d \in Clients : Gone(d) => Gone(d)'
<1>1. /\ phase' = [phase EXCEPT ![c] = "closed"]
      /\ held' = IF key[c] \in Lots THEN [held EXCEPT ![ip[c]] = @ - 1] ELSE held
      /\ UNCHANGED <<key, ip, healthy, fan, heard>>
  BY DEF Return, SlotsAfter
<1>2. ip[c] \in IPs /\ MaxPerIp \in Nat /\ held \in [IPs -> 0 .. MaxPerIp]
  BY CapAssumption DEF SockInv, Types
<1>3. key[c] \in Lots => held[ip[c]] > 0
  <2> SUFFICES ASSUME key[c] \in Lots PROVE held[ip[c]] > 0
    OBVIOUS
  <2>1. c \in Holders(ip[c]) /\ held[ip[c]] = Cardinality(Holders(ip[c]))
    BY <1>2 DEF Holders, InHandler, SockInv, SlotsMatchSockets
  <2>2. Cardinality(Holders(ip[c])) # 0 /\ Cardinality(Holders(ip[c])) \in Nat
    BY <2>1, HoldersFinite, FS_EmptySet
  <2>3. QED
    BY <2>1, <2>2
<1>4. Types'
  <2>1. held' \in [IPs -> 0 .. MaxPerIp]
    BY <1>1, <1>2, <1>3
  <2>2. QED
    BY <1>1, <2>1 DEF SockInv, Types
<1>5. ASSUME NEW i \in IPs
      PROVE  held'[i] = Cardinality(Holders(i)')
  <2>1. held[i] = Cardinality(Holders(i))
    BY DEF SockInv, SlotsMatchSockets, Holders
  <2>2. CASE key[c] \in Lots /\ i = ip[c]
    <3>1. c \in Holders(i) /\ Holders(i)' = Holders(i) \ {c}
      BY <1>1, <2>2 DEF Holders, InHandler, SockInv, Types
    <3>2. Cardinality(Holders(i)') = Cardinality(Holders(i)) - 1
      BY <3>1, OneHolderLess
    <3>3. QED
      BY <1>1, <1>2, <2>1, <2>2, <3>2
  <2>3. CASE ~ (key[c] \in Lots /\ i = ip[c])
    <3>1. Holders(i)' = Holders(i)
      BY <1>1, <2>3 DEF Holders, InHandler, SockInv, Types
    <3>2. held'[i] = held[i]
      BY <1>1, <1>2, <2>3
    <3>3. QED
      BY <2>1, <3>1, <3>2
  <2>4. QED
    BY <2>2, <2>3
<1>6. QED
  BY <1>1, <1>4, <1>5 DEF SlotsMatchSockets, Holders, SockInv, Types, Gone

(* Taking a socket off the list its key has, with its handler or without.  *)
LEMMA UnregisteredStep ==
  ASSUME SockInv, NEW c \in Clients, phase[c] # "new", Unregistered(c), key' = key,
         \A d \in Clients : phase[d] \in {"open", "closing", "closed"} => phase'[d] \in {"open", "closing", "closed"}
  PROVE  ListTypes' /\ BucketsOK' /\ EntriesOK' /\ RegistryMoves
<1>1. key[c] \in Keys
  BY DEF SockInv, Types
<1>2. CASE Listeners(key[c]) = <<>>
  <2>1. UNCHANGED lists
    BY <1>2 DEF Unregistered
  <2>2. QED
    BY <2>1, SameLists
<1>3. CASE Listeners(key[c]) # <<>>
  <2>1. Drop(registry[key[c]], key[c], {c}) /\ registry[key[c]] # NoBucket
    BY <1>3 DEF Unregistered, Listeners
  <2>2. registry[key[c]] \in 1 .. Len(buckets)
    BY <1>1, <2>1 DEF SockInv, ListTypes, NoBucket
  <2>3. \A l \in Keys : registry[l] = registry[key[c]] => l = key[c]
    BY <1>1, <2>1 DEF SockInv, EntriesOK
  <2>4. PICK b \in 1 .. Len(buckets) : b = registry[key[c]]
    BY <2>2
  <2>5. PICK S : S = {c}
    OBVIOUS
  <2>6. Drop(b, key[c], S)
    BY <2>1, <2>4, <2>5
  <2>7. QED
    BY <1>1, <2>3, <2>4, <2>6, DropKeepsLists DEF SockInv
<1>4. QED
  BY <1>2, <1>3

LEMMA DisconnectStep ==
  ASSUME SockInv, NEW c \in Clients, Disconnect(c)
  PROVE  SockInv'
<1>1. phase[c] \in {"open", "closing"} /\ Return(c) /\ Unregistered(c) /\ UNCHANGED <<fan, heard>>
  BY DEF Disconnect
<1>2. /\ Types' /\ SlotsMatchSockets' /\ key' = key
      /\ \A d \in Clients : phase[d] \in {"open", "closing", "closed"} => phase'[d] \in {"open", "closing", "closed"}
      /\ \A d \in Clients : Gone(d) => Gone(d)'
  BY <1>1, ReturnStep
<1>3. ListTypes' /\ BucketsOK' /\ EntriesOK' /\ RegistryMoves
  BY <1>1, <1>2, UnregisteredStep
<1>4. \A p \in Senders : FanOutOK(p)'
  BY <1>1, <1>2, <1>3, WaitingFanOut DEF ListTypes
<1>5. QED
  BY <1>2, <1>3, <1>4 DEF SockInv

LEMMA UnregisterByRotationStep ==
  ASSUME SockInv, NEW c \in Clients, UnregisterByRotation(c)
  PROVE  SockInv'
<1>1. /\ phase[c] = "closing" /\ Unregistered(c)
      /\ UNCHANGED <<phase, key, ip, healthy, held, fan, heard>>
  BY DEF UnregisterByRotation, sockets
<1>2. Types' /\ SlotsMatchSockets'
  BY <1>1 DEF SockInv, Types, SlotsMatchSockets, Holders, InHandler
<1>3. ListTypes' /\ BucketsOK' /\ EntriesOK' /\ RegistryMoves
  BY <1>1, UnregisteredStep
<1>4. \A p \in Senders : FanOutOK(p)'
  <2>1. \A d \in Clients : Gone(d) => Gone(d)'
    BY <1>1 DEF Gone
  <2>2. QED
    BY <1>1, <1>3, <2>1, WaitingFanOut DEF ListTypes
<1>5. QED
  BY <1>2, <1>3, <1>4 DEF SockInv

(* A socket that moves between phases in which it holds what it held, with *)
(* no list changed: its accept fails, or a rotation closes it.             *)
LEMMA PhaseStep ==
  ASSUME SockInv, NEW c \in Clients,
         \/ phase[c] = "accepting" /\ phase' = [phase EXCEPT ![c] = "failed"]
         \/ phase[c] = "open" /\ phase' = [phase EXCEPT ![c] = "closing"],
         UNCHANGED <<key, ip, healthy, held, lists, fan, heard>>
  PROVE  SockInv'
<1>1. Types'
  BY DEF SockInv, Types
<1>2. \A i \in IPs : Holders(i)' = Holders(i)
  BY DEF Holders, InHandler, SockInv, Types
<1>3. SlotsMatchSockets'
  BY <1>2 DEF SockInv, SlotsMatchSockets
<1>4. ListTypes' /\ BucketsOK' /\ EntriesOK' /\ RegistryMoves
  <2>1. \A d \in Clients : phase[d] \in {"open", "closing", "closed"} =>
          phase'[d] \in {"open", "closing", "closed"} /\ key'[d] = key[d]
    BY DEF SockInv, Types
  <2>2. QED
    BY <2>1, SameLists
<1>5. \A p \in Senders : FanOutOK(p)'
  <2>1. \A d \in Clients : Gone(d) => Gone(d)'
    BY DEF Gone, SockInv, Types
  <2>2. QED
    BY <1>4, <2>1, WaitingFanOut DEF ListTypes
<1>6. QED
  BY <1>1, <1>3, <1>4, <1>5 DEF SockInv

LEMMA PingFailsStep ==
  ASSUME SockInv, NEW c \in Clients, PingFails(c)
  PROVE  SockInv'
<1>1. phase[c] = "open" /\ Return(c) /\ UNCHANGED <<lists, fan, heard>>
  BY DEF PingFails
<1>2. /\ Types' /\ SlotsMatchSockets' /\ key' = key
      /\ \A d \in Clients : phase[d] \in {"open", "closing", "closed"} => phase'[d] \in {"open", "closing", "closed"}
      /\ \A d \in Clients : Gone(d) => Gone(d)'
  BY <1>1, ReturnStep
<1>3. ListTypes' /\ BucketsOK' /\ EntriesOK' /\ RegistryMoves
  BY <1>1, <1>2, SameLists
<1>4. \A p \in Senders : FanOutOK(p)'
  BY <1>1, <1>2, <1>3, WaitingFanOut DEF ListTypes
<1>5. QED
  BY <1>2, <1>3, <1>4 DEF SockInv

LEMMA StallStep ==
  ASSUME SockInv, NEW c \in Clients, Stall(c)
  PROVE  SockInv'
<1>1. /\ healthy' = [healthy EXCEPT ![c] = FALSE]
      /\ UNCHANGED <<phase, key, ip, held, lists, fan, heard>>
  BY DEF Stall
<1>2. Types'
  BY <1>1 DEF SockInv, Types
<1>3. SlotsMatchSockets'
  BY <1>1 DEF SockInv, SlotsMatchSockets, Holders, InHandler
<1>4. ListTypes' /\ BucketsOK' /\ EntriesOK' /\ RegistryMoves
  BY <1>1, SameLists
<1>5. \A p \in Senders : FanOutOK(p)'
  <2>1. \A d \in Clients : Gone(d) => Gone(d)'
    BY <1>1 DEF Gone, SockInv, Types
  <2>2. QED
    BY <1>1, <1>4, <2>1, WaitingFanOut DEF ListTypes
<1>6. QED
  BY <1>2, <1>3, <1>4, <1>5 DEF SockInv

-----------------------------------------------------------------------------
(* The fan-outs.                                                           *)

LEMMA BeginStep ==
  ASSUME SockInv, NEW p \in Senders, NEW k \in Keys, Begin(p, k)
  PROVE  SockInv'
<1> DEFINE s == buckets[registry[k]]
           f == [key |-> k, bucket |-> registry[k], snapshot |-> s,
                 at |-> 1, target |-> Head(s), dead |-> {}]
<1>1. /\ registry[k] # NoBucket /\ s # <<>> /\ fan' = [fan EXCEPT ![p] = f]
      /\ heard' = [c \in Clients |-> heard[c] \ {p}]
      /\ UNCHANGED <<phase, key, ip, healthy, held, registry, buckets>>
  BY DEF Begin, Listeners, sockets, lists
<1>2. registry[k] \in 1 .. Len(buckets) /\ registry[k] \in Nat /\ registry[k] <= Len(buckets)
  BY <1>1 DEF SockInv, ListTypes, NoBucket
<1>3. s \in Seq(Clients) /\ Len(s) \in Nat /\ Len(s) >= 1 /\ Head(s) = s[1] /\ s[1] \in Clients
  <2>1. s \in Seq(Clients)
    BY <1>2 DEF SockInv, ListTypes
  <2>2. QED
    BY <1>1, <2>1
<1>4. Distinct(s)
  BY <1>2 DEF SockInv, BucketsOK
<1>5. f \in FanOuts
  <2> HIDE DEF s
  <2>1. QED
    BY <1>2, <1>3 DEF FanOuts
<1>6. Types'
  <2> HIDE DEF f
  <2>1. QED
    BY <1>1, <1>5 DEF SockInv, Types
<1>7. SlotsMatchSockets'
  BY <1>1 DEF SockInv, SlotsMatchSockets, Holders, InHandler
<1>8. ListTypes' /\ BucketsOK' /\ EntriesOK' /\ RegistryMoves
  BY <1>1, SameLists DEF lists
<1>9. \A q \in Senders : FanOutOK(q)'
  <2>1. FanOutOK(p)'
    <3>1. fan'[p] = f
      BY <1>1 DEF SockInv, Types
    <3>2. /\ f.snapshot = s /\ f.at = 1 /\ f.bucket = registry[k] /\ f.key = k
          /\ f.target = s[1] /\ f.dead = {}
      BY <1>3
    <3>3. \A l \in Keys : registry[l] = registry[k] => l = k
      BY <1>1 DEF SockInv, EntriesOK
    <3> HIDE DEF s, f
    <3>4. /\ fan'[p].snapshot = s /\ fan'[p].at = 1 /\ fan'[p].bucket = registry'[k]
          /\ fan'[p].key = k /\ fan'[p].target = s[1] /\ fan'[p].dead = {}
      BY <1>1, <3>1, <3>2
    <3>5. \A i \in 1 .. fan'[p].at - 1 : FALSE
      BY <3>4
    <3>6. registry'[k] # NoBucket /\ registry'[k] <= Len(buckets') /\ registry'[k] \in Nat
      BY <1>1, <1>2
    <3>7. QED
      BY <1>1, <1>3, <1>4, <3>3, <3>4, <3>5, <3>6 DEF FanOutOK
  <2>2. ASSUME NEW q \in Senders, q # p
        PROVE  FanOutOK(q)'
    <3> HIDE DEF f
    <3>1. fan'[q] = fan[q]
      BY <1>1, <2>2 DEF SockInv, Types
    <3>2. \A c \in Clients : q \in heard[c] => q \in heard'[c]
      BY <1>1, <2>2
    <3>3. \A c \in Clients : Gone(c) => Gone(c)'
      BY <1>1 DEF Gone
    <3>4. QED
      BY <1>8, <3>1, <3>2, <3>3, WaitingFanOut DEF ListTypes
  <2>3. QED
    BY <2>1, <2>2
<1>10. QED
  BY <1>6, <1>7, <1>8, <1>9 DEF SockInv

(* The facts both ends of a send leave Advance with.                       *)
Sent(p, dead) ==
  /\ Sending(p)
  /\ dead \subseteq Clients
  /\ \A c \in dead : Gone(c)
  /\ p \in heard'[fan[p].target] \/ Gone(fan[p].target)
  /\ heard' \in [Clients -> SUBSET Senders]
  /\ \A c \in Clients : heard[c] \subseteq heard'[c]
  /\ UNCHANGED sockets
  /\ Advance(p, dead)

LEMMA DeliveredIsSent ==
  ASSUME SockInv, NEW p \in Senders, Delivered(p)
  PROVE  Sent(p, fan[p].dead) /\ fan[p].target \in Clients
<1>1. fan[p] \in FanOuts /\ FanOutOK(p) /\ heard \in [Clients -> SUBSET Senders]
  BY DEF SockInv, Types
<1>2. Sending(p) /\ UNCHANGED sockets /\ Advance(p, fan[p].dead)
      /\ heard' = [heard EXCEPT ![fan[p].target] = @ \cup {p}]
  BY DEF Delivered
<1>3. fan[p].dead \subseteq Clients /\ fan[p].target \in Clients
  BY <1>1, <1>2 DEF FanOuts, FanOutOK
<1>4. \A c \in fan[p].dead : Gone(c)
  BY <1>1, <1>2 DEF FanOutOK
<1>5. QED
  BY <1>1, <1>2, <1>3, <1>4 DEF Sent

LEMMA UndeliveredIsSent ==
  ASSUME SockInv, NEW p \in Senders, Undelivered(p)
  PROVE  \E dead : Sent(p, dead)
<1>1. fan[p] \in FanOuts /\ FanOutOK(p) /\ heard \in [Clients -> SUBSET Senders]
  BY DEF SockInv, Types
<1>2. Sending(p) /\ UNCHANGED <<sockets, heard>> /\ Advance(p, fan[p].dead \cup {fan[p].target})
      /\ Gone(fan[p].target)
  BY DEF Undelivered, Gone
<1>3. fan[p].dead \subseteq Clients /\ fan[p].target \in Clients
  BY <1>1, <1>2 DEF FanOuts, FanOutOK
<1>4. \A c \in fan[p].dead : Gone(c)
  BY <1>1, <1>2 DEF FanOutOK
<1>5. Sent(p, fan[p].dead \cup {fan[p].target})
  BY <1>1, <1>2, <1>3, <1>4 DEF Sent
<1>6. QED
  BY <1>5

LEMMA SentStep ==
  ASSUME SockInv, NEW p \in Senders, NEW dead, Sent(p, dead)
  PROVE  SockInv'
<1>1. /\ UNCHANGED <<phase, key, ip, healthy, held>> /\ Sending(p) /\ dead \subseteq Clients
      /\ heard' \in [Clients -> SUBSET Senders]
  BY DEF Sent, sockets
<1> DEFINE s == fan[p].snapshot
           a == fan[p].at
           b == fan[p].bucket
           k == fan[p].key
<1>2. FanOutOK(p) /\ fan[p] \in FanOuts
  BY DEF SockInv, Types
<1>3. s \in Seq(Clients) /\ Len(s) \in Nat /\ a \in 1 .. Len(s) /\ k \in Keys /\ b \in 1 .. Len(buckets)
  <2>1. s \in Seq(Clients) /\ a \in Nat /\ b \in Nat
    BY <1>2 DEF FanOuts
  <2>2. Len(buckets) \in Nat /\ Len(s) \in Nat
    BY <2>1 DEF SockInv, ListTypes
  <2>3. k \in Keys /\ b # 0 /\ a # 0 /\ a <= Len(s) /\ b <= Len(buckets)
    BY <1>1, <1>2 DEF FanOutOK, NoBucket
  <2>4. QED
    BY <2>1, <2>2, <2>3
<1>4. \A c \in Clients : Gone(c) => Gone(c)'
  BY <1>1 DEF Gone
<1>5. SlotsMatchSockets'
  BY <1>1 DEF SockInv, SlotsMatchSockets, Holders, InHandler
<1>6. \A c \in Clients : phase[c] \in {"open", "closing", "closed"} =>
        phase'[c] \in {"open", "closing", "closed"} /\ key'[c] = key[c]
  BY <1>1
<1>7. ASSUME NEW g \in FanOuts, fan' = [fan EXCEPT ![p] = g], FanOutOK(p)',
             ListTypes' /\ BucketsOK' /\ EntriesOK' /\ RegistryMoves
      PROVE  SockInv'
  <2>1. Types'
    BY <1>1, <1>7 DEF SockInv, Types
  <2>2. \A q \in Senders : q # p => FanOutOK(q)'
    <3> SUFFICES ASSUME NEW q \in Senders, q # p PROVE FanOutOK(q)'
      OBVIOUS
    <3>1. fan'[q] = fan[q]
      BY <1>7 DEF SockInv, Types
    <3>2. \A c \in Clients : q \in heard[c] => q \in heard'[c]
      BY DEF Sent
    <3>3. QED
      BY <1>4, <1>7, <3>1, <3>2, WaitingFanOut DEF ListTypes
  <2>3. QED
    BY <1>5, <1>7, <2>1, <2>2 DEF SockInv
<1>8. CASE a < Len(s)
  <2>1. PICK g : g = [fan[p] EXCEPT !.at = a + 1, !.dead = dead, !.target = s[a + 1]]
    OBVIOUS
  <2>2. a + 1 \in 1 .. Len(s) /\ s[a + 1] \in Clients
    BY <1>3, <1>8
  <2>3. /\ g \in FanOuts /\ g.at = a + 1 /\ g.dead = dead /\ g.target = s[a + 1]
        /\ g.key = k /\ g.bucket = b /\ g.snapshot = s
    <3>1. /\ fan[p] \in [key : Keys \cup {NoKey}, bucket : Nat, snapshot : Seq(Clients),
                        at : Nat, target : Clients \cup {NoClient}, dead : SUBSET Clients]
          /\ g = [fan[p] EXCEPT !.at = a + 1, !.dead = dead, !.target = s[a + 1]]
      BY <1>2, <2>1 DEF FanOuts
    <3>2. a + 1 \in Nat
      BY <1>3
    <3> HIDE DEF a, s
    <3>3. g \in [key : Keys \cup {NoKey}, bucket : Nat, snapshot : Seq(Clients),
                 at : Nat, target : Clients \cup {NoClient}, dead : SUBSET Clients]
      BY <1>1, <2>2, <3>1, <3>2
    <3>4. g.at = a + 1 /\ g.dead = dead /\ g.target = s[a + 1]
      BY <3>1
    <3>5. g.key = k /\ g.bucket = b /\ g.snapshot = fan[p].snapshot
      BY <3>1
    <3>6. QED
      BY <3>3, <3>4, <3>5 DEF FanOuts, s
  <2>4. fan' = [fan EXCEPT ![p] = g] /\ UNCHANGED lists
    BY <1>8, <2>1 DEF Sent, Advance, Iterated, SockInv, Types
  <2>5. fan'[p] = g
    BY <2>4 DEF SockInv, Types
  <2>6. ListTypes' /\ BucketsOK' /\ EntriesOK' /\ RegistryMoves
    BY <1>6, <2>4, SameLists
  <2>7. \A i \in 1 .. a : p \in heard'[s[i]] \/ Gone(s[i])
    <3> SUFFICES ASSUME NEW i \in 1 .. a PROVE p \in heard'[s[i]] \/ Gone(s[i])
      OBVIOUS
    <3>1. CASE i = a
      <4>1. fan[p].target = s[a]
        BY <1>1, <1>2 DEF FanOutOK
      <4>2. QED
        BY <3>1, <4>1 DEF Sent
    <3>2. CASE i # a
      <4>1. i \in 1 .. a - 1 /\ s[i] \in Clients
        BY <1>3, <3>2
      <4>2. p \in heard[s[i]] \/ Gone(s[i])
        BY <1>1, <1>2, <4>1 DEF FanOutOK
      <4>3. QED
        BY <4>1, <4>2 DEF Sent
    <3>3. QED
      BY <3>1, <3>2
  <2>8. FanOutOK(p)'
    <3>1. registry' = registry /\ buckets' = buckets
      BY <2>4 DEF lists
    <3>2. a + 1 <= Len(s) /\ a + 1 # 0 /\ a + 1 - 1 = a
      BY <1>3, <1>8
    <3>4. \A c \in dead : Gone(c)'
      BY <1>1, <1>4 DEF Sent
    <3>5. fan'[p].snapshot = s /\ fan'[p].at = a + 1 /\ fan'[p].dead = dead
          /\ fan'[p].key = k /\ fan'[p].bucket = b /\ fan'[p].target = s[a + 1]
      BY <2>3, <2>5
    <3>6. /\ Distinct(s) /\ b <= Len(buckets) /\ b # NoBucket
          /\ \A l \in Keys : registry[l] = b => l = k
          /\ registry[k] # NoBucket => b <= registry[k]
      BY <1>1, <1>2 DEF FanOutOK
    <3>8. ASSUME NEW i \in 1 .. fan'[p].at - 1
          PROVE  (p \in heard[fan[p].snapshot[i]] \/ Gone(fan[p].snapshot[i]))'
      <4>1. i \in 1 .. a
        <5>1. PICK n \in Nat : n = a
          BY <1>3
        <5>2. fan'[p].at - 1 = n
          BY <3>5, <5>1
        <5>3. QED
          BY <5>1, <5>2
      <4>2. p \in heard'[s[i]] \/ Gone(s[i])
        BY <2>7, <4>1
      <4>3. QED
        BY <1>1, <3>5, <4>2 DEF Gone
    <3> HIDE DEF s, a, b, k
    <3>9. QED
      BY <1>3, <3>1, <3>2, <3>4, <3>5, <3>6, <3>8 DEF FanOutOK
  <2>9. QED
    BY <1>7, <2>3, <2>4, <2>6, <2>8
<1>9. CASE ~ (a < Len(s))
  <2>1. fan' = [fan EXCEPT ![p] = IdleFan] /\ Drop(b, k, dead)
    BY <1>9 DEF Sent, Advance, Iterated
  <2>2. IdleFan \in FanOuts
    BY DEF IdleFan, FanOuts, NoBucket
  <2>3. \A l \in Keys : registry[l] = b => l = k
    BY <1>1, <1>2 DEF FanOutOK
  <2>4. key' = key /\ \A c \in Clients : phase[c] \in {"open", "closing", "closed"} => phase'[c] \in {"open", "closing", "closed"}
    BY <1>1
  <2>5. ListTypes' /\ BucketsOK' /\ EntriesOK' /\ RegistryMoves
    <3> HIDE DEF s, a, b, k
    <3>1. QED
      BY <1>3, <2>1, <2>3, <2>4, DropKeepsLists DEF SockInv
  <2>6. FanOutOK(p)'
    <3>1. fan'[p] = IdleFan
      BY <2>1 DEF SockInv, Types
    <3>2. Len(buckets') \in Nat
      BY <2>5 DEF ListTypes
    <3>3. QED
      BY <3>1, <3>2 DEF FanOutOK, IdleFan, Sending, Distinct, NoBucket
  <2>7. QED
    BY <1>7, <2>1, <2>2, <2>5, <2>6
<1>10. QED
  BY <1>8, <1>9

-----------------------------------------------------------------------------
(* The theorems.                                                           *)

LEMMA SocketsStep == SockInv /\ [Next]_vars => SockInv'
<1> SUFFICES ASSUME SockInv, [Next]_vars PROVE SockInv'
  OBVIOUS
<1>1. ASSUME NEW c \in Clients, NEW k \in Keys, Connect(c, k) PROVE SockInv'
  BY <1>1, ConnectStep
<1>2. ASSUME NEW c \in Clients, Accept(c) PROVE SockInv'
  BY <1>2, AcceptIsSafe
<1>3. ASSUME NEW c \in Clients, Disconnect(c) PROVE SockInv'
  BY <1>3, DisconnectStep
<1>4. ASSUME NEW c \in Clients, PingFails(c) PROVE SockInv'
  BY <1>4, PingFailsStep
<1>5. ASSUME NEW c \in Clients, Stall(c) PROVE SockInv'
  BY <1>5, StallStep
<1>11. ASSUME NEW c \in Clients, AcceptFails(c) \/ CloseByRotation(c) PROVE SockInv'
  BY <1>11, PhaseStep DEF AcceptFails, CloseByRotation
<1>12. ASSUME NEW c \in Clients, UnregisterByRotation(c) PROVE SockInv'
  BY <1>12, UnregisterByRotationStep
<1>6. ASSUME NEW p \in Senders, NEW k \in Keys, Begin(p, k) PROVE SockInv'
  BY <1>6, BeginStep
<1>7. ASSUME NEW p \in Senders, Delivered(p) PROVE SockInv'
  BY <1>7, DeliveredIsSent, SentStep
<1>8. ASSUME NEW p \in Senders, Undelivered(p) PROVE SockInv'
  BY <1>8, UndeliveredIsSent, SentStep
<1>9. CASE UNCHANGED vars
  <2>1. /\ registry' = registry /\ buckets' = buckets /\ fan' = fan /\ heard' = heard
        /\ phase' = phase /\ key' = key /\ ip' = ip /\ healthy' = healthy /\ held' = held
    BY <1>9 DEF vars, sockets, lists
  <2>2. Types' /\ ListTypes' /\ SlotsMatchSockets'
    BY <2>1 DEF SockInv, Types, ListTypes, SlotsMatchSockets, Holders, InHandler
  <2>3. BucketsOK' /\ EntriesOK'
    BY <2>1 DEF SockInv, BucketsOK, EntriesOK, NoEmptyBuckets
  <2>4. \A p \in Senders : FanOutOK(p)'
    BY <2>1 DEF SockInv, FanOutOK, Sending, Gone
  <2>5. QED
    BY <2>2, <2>3, <2>4 DEF SockInv
<1>10. QED
  BY <1>1, <1>2, <1>3, <1>4, <1>5, <1>6, <1>7, <1>8, <1>9, <1>11, <1>12 DEF Next

(* The types, and no entry of the dicts is about nobody: the last socket   *)
(* of a key takes its entry with it, whether its own handler or a fan-out  *)
(* removes it.                                                             *)
THEOREM NobodysKeyIsDropped == Spec => []TypeOK
<1>1. Init => SockInv
  BY SocketsInit
<1>2. SockInv /\ [Next]_vars => SockInv'
  BY SocketsStep
<1>3. SockInv => TypeOK
  BY SockInvGivesTypes
<1>4. QED
  BY <1>1, <1>2, <1>3, PTL DEF Spec

(* The slots an address holds are its sockets in the endpoints of lots and *)
(* those whose accept failed there: none leaks in another way, and none is *)
(* given back twice, by any way out of the loop.                           *)
THEOREM SlotsAreGivenBack == Spec => []SlotsMatchSockets
<1>1. SockInv => SlotsMatchSockets
  BY DEF SockInv
<1>2. QED
  BY <1>1, SocketsInit, SocketsStep, PTL DEF Spec

(* When a send ends a fan-out, everybody in its snapshot has been reached  *)
(* or is gone.                                                             *)
LEMMA LastSend ==
  ASSUME SockInv, NEW p \in Senders, NEW dead, Sent(p, dead), ~ Sending(p)',
         NEW i \in 1 .. Len(fan[p].snapshot)
  PROVE  p \in heard'[fan[p].snapshot[i]] \/ Gone(fan[p].snapshot[i])
<1>1. /\ Sending(p) /\ FanOutOK(p) /\ fan[p] \in FanOuts /\ fan \in [Senders -> FanOuts]
  BY DEF Sent, SockInv, Types
<1>2. PICK n \in Nat, a \in Nat : n = Len(fan[p].snapshot) /\ a = fan[p].at /\ a <= n
  BY <1>1 DEF FanOuts, FanOutOK
<1>3. ~ (a < n)
  <2> SUFFICES ASSUME a < n PROVE FALSE
    OBVIOUS
  <2>1. fan'[p].key = fan[p].key
    BY <1>1, <1>2 DEF Sent, Advance, Iterated, FanOuts
  <2>2. QED
    BY <1>1, <2>1 DEF Sending
<1>4. i \in 1 .. n /\ fan[p].snapshot[i] \in Clients
  BY <1>1, <1>2 DEF FanOuts
<1>5. CASE i = a
  BY <1>1, <1>2, <1>5 DEF FanOutOK, Sent
<1>6. CASE i # a
  <2>1. i \in 1 .. a - 1
    BY <1>2, <1>3, <1>4, <1>6
  <2>2. p \in heard[fan[p].snapshot[i]] \/ Gone(fan[p].snapshot[i])
    BY <1>1, <1>2, <2>1 DEF FanOutOK
  <2>3. QED
    BY <1>4, <2>2 DEF Sent
<1>7. QED
  BY <1>5, <1>6

(* Who is sending after a step was, or began with it; the others stop only *)
(* by a send of their own.                                                 *)
LEMMA WhoStops ==
  ASSUME SockInv, [Next]_vars, NEW p \in Senders, Sending(p), ~ Sending(p)'
  PROVE  \E dead : Sent(p, dead)
<1>1. fan' # fan /\ fan[p] # fan'[p] /\ fan \in [Senders -> FanOuts]
  BY DEF Sending, SockInv, Types
<1>2. ASSUME NEW q \in Senders, NEW k \in Keys, Begin(q, k) PROVE FALSE
  BY <1>1, <1>2 DEF Begin
<1>3. ASSUME NEW q \in Senders, NEW dead, Sent(q, dead) PROVE q = p
  BY <1>1, <1>3 DEF Sent, Advance
<1>4. ASSUME NEW q \in Senders, Delivered(q) PROVE \E dead : Sent(p, dead)
  BY <1>3, <1>4, DeliveredIsSent
<1>5. ASSUME NEW q \in Senders, Undelivered(q) PROVE \E dead : Sent(p, dead)
  BY <1>3, <1>5, UndeliveredIsSent
<1>6. QED
  BY <1>1, <1>2, <1>4, <1>5 DEF Next, Connect, Accept, AcceptFails, Disconnect, PingFails,
     Stall, CloseByRotation, UnregisterByRotation, vars

(* A fan-out reaches every socket it began with that is there and well at  *)
(* its end, whoever is added, disconnects or is pruned while it waits.     *)
THEOREM FanOutSkipsNobody == Spec => EveryoneHears
<1>1. ASSUME SockInv, [Next]_vars, NEW p \in Senders, Sending(p) /\ ~ Sending(p)',
             NEW c \in ToSet(fan[p].snapshot), phase[c] = "open" /\ healthy[c]
      PROVE  p \in heard'[c]
  <2>1. PICK dead : Sent(p, dead)
    BY <1>1, WhoStops
  <2>2. fan[p].snapshot \in Seq(Clients)
    BY <1>1 DEF SockInv, Types, FanOuts
  <2>3. PICK i \in 1 .. Len(fan[p].snapshot) : fan[p].snapshot[i] = c
    BY <2>2 DEF ToSet
  <2>4. QED
    BY <1>1, <2>1, <2>3, LastSend DEF Gone
<1>2. SockInv /\ [Next]_vars =>
        [\A p \in Senders : Sending(p) /\ ~ Sending(p)' =>
           \A c \in ToSet(fan[p].snapshot) :
             phase[c] = "open" /\ healthy[c] => p \in heard'[c]]_vars
  BY <1>1
<1>3. QED
  BY <1>2, SocketsInit, SocketsStep, PTL DEF Spec, EveryoneHears

-----------------------------------------------------------------------------
(* Who loses a registration.                                               *)

LEMMA RegisteredMeans ==
  ASSUME SockInv, NEW c \in Clients, Registered(c)
  PROVE  /\ key[c] \in Keys /\ registry[key[c]] \in 1 .. Len(buckets)
         /\ registry[key[c]] # NoBucket /\ Has(buckets[registry[key[c]]], c)
<1>1. key[c] \in Keys /\ c \in ToSet(Listeners(key[c]))
  BY DEF Registered, SockInv, Types
<1>2. registry[key[c]] # NoBucket
  BY <1>1 DEF Listeners, ToSet
<1>3. registry[key[c]] \in 1 .. Len(buckets)
  BY <1>1, <1>2 DEF SockInv, ListTypes, NoBucket
<1>4. PICK s \in Seq(Clients) : s = buckets[registry[key[c]]]
  BY <1>3 DEF SockInv, ListTypes
<1>5. Has(s, c)
  BY <1>1, <1>2, <1>4 DEF Listeners, ToSet, Has
<1>6. QED
  BY <1>1, <1>2, <1>3, <1>4, <1>5

LEMMA StaysRegistered ==
  ASSUME SockInv', NEW c \in Clients, NEW k \in Keys, key'[c] = k,
         registry'[k] # NoBucket, Has(buckets'[registry'[k]], c)
  PROVE  Registered(c)'
<1>1. k # NoKey
  BY KeysAssumption
<1>2. registry'[k] \in 1 .. Len(buckets')
  BY DEF SockInv, ListTypes, NoBucket
<1>3. PICK s \in Seq(Clients) : s = buckets'[registry'[k]]
  BY <1>2 DEF SockInv, ListTypes
<1>4. c \in ToSet(s)
  BY <1>3 DEF ToSet, Has
<1>5. Listeners(k)' = s
  BY <1>3 DEF Listeners
<1>6. Registered(c)' <=> key'[c] # NoKey /\ c \in ToSet(Listeners(key[c]))'
  BY DEF Registered
<1>7. c \in ToSet(Listeners(key[c]))'
  BY <1>3, <1>4 DEF Listeners
<1>8. QED
  BY <1>1, <1>6, <1>7

(* A drop takes c from a list only if it is to, and an entry from c's key  *)
(* only if the list is empty, which c's own is not.                        *)
LEMMA DropSpares ==
  ASSUME SockInv, SockInv', NEW c \in Clients, Registered(c), key' = key,
         NEW b \in 1 .. Len(buckets), NEW k \in Keys, NEW S, Drop(b, k, S), c \notin S,
         k = key[c] => b = registry[k]
  PROVE  Registered(c)'
<1>1. Dropped(b, k, S)
  BY DropStep DEF SockInv
<1>2. PICK l \in Keys, r \in 1 .. Len(buckets) :
        l = key[c] /\ r = registry[l] /\ r # NoBucket /\ Has(buckets[r], c)
  BY RegisteredMeans
<1>3. Has(buckets'[r], c)
  <2>1. CASE r = b
    BY <1>1, <1>2, <2>1 DEF Dropped
  <2>2. CASE r # b
    BY <1>1, <1>2, <2>2 DEF Dropped
  <2>3. QED
    BY <2>1, <2>2
<1>4. registry'[l] = r
  <2>1. CASE l # k
    BY <1>1, <1>2, <2>1 DEF Dropped
  <2>2. CASE l = k
    <3>1. buckets'[b] # <<>>
      BY <1>2, <1>3, <2>2 DEF Has
    <3>2. QED
      BY <1>1, <1>2, <2>2, <3>1 DEF Dropped
  <2>3. QED
    BY <2>1, <2>2
<1>5. QED
  BY <1>2, <1>3, <1>4, StaysRegistered

LEMMA SentSpares ==
  ASSUME SockInv, SockInv', NEW c \in Clients, Registered(c), phase[c] = "open", healthy[c],
         NEW p \in Senders, NEW dead, Sent(p, dead)
  PROVE  \/ Registered(c)'
         \/ fan[p].key = key[c] /\ ~ Sending(p)' /\ fan[p].bucket < registry[key[c]]
<1>1. /\ key' = key /\ c \notin dead /\ Sending(p) /\ FanOutOK(p)
      /\ fan[p] \in FanOuts /\ fan \in [Senders -> FanOuts]
  BY DEF Sent, sockets, Gone, SockInv, Types
<1>2. CASE fan[p].at < Len(fan[p].snapshot)
  <2>1. registry' = registry /\ buckets' = buckets
    BY <1>2 DEF Sent, Advance, Iterated, lists
  <2>2. QED
    BY <1>1, <2>1 DEF Registered, Listeners
<1>3. CASE ~ (fan[p].at < Len(fan[p].snapshot))
  <2>1. fan' = [fan EXCEPT ![p] = IdleFan] /\ Drop(fan[p].bucket, fan[p].key, dead)
    BY <1>3 DEF Sent, Advance, Iterated
  <2>2. ~ Sending(p)'
    BY <1>1, <2>1 DEF Sending, IdleFan
  <2>3. fan[p].key \in Keys /\ fan[p].bucket \in 1 .. Len(buckets)
    <3>1. Len(buckets) \in Nat /\ fan[p].bucket \in Nat
      BY <1>1 DEF SockInv, ListTypes, FanOuts
    <3>2. QED
      BY <1>1, <3>1 DEF FanOutOK, NoBucket
  <2>4. PICK b \in 1 .. Len(buckets), k \in Keys : b = fan[p].bucket /\ k = fan[p].key
    BY <2>3
  <2>5. Drop(b, k, dead)
    BY <2>1, <2>4
  <2>6. CASE k = key[c] /\ b # registry[k]
    <3>1. registry[k] # NoBucket /\ registry[k] \in Nat
      BY <2>6, RegisteredMeans
    <3>2. b <= registry[k]
      BY <1>1, <2>4, <3>1 DEF FanOutOK
    <3>3. b < registry[k]
      BY <2>6, <3>1, <3>2
    <3>4. QED
      BY <2>2, <2>4, <2>6, <3>3
  <2>7. CASE ~ (k = key[c] /\ b # registry[k])
    <3>1. Registered(c)'
      BY <1>1, <2>5, <2>7, DropSpares
    <3>2. QED
      BY <3>1
  <2>8. QED
    BY <2>6, <2>7
<1>4. QED
  BY <1>2, <1>3

LEMMA AcceptSpares ==
  ASSUME SockInv, SockInv', NEW c \in Clients, Registered(c), NEW d \in Clients, Accept(d)
  PROVE  Registered(c)'
<1>1. PICK n : Added(d, n)
  BY AcceptStep
<1>2. key' = key
  BY DEF Accept
<1>3. PICK l \in Keys, r \in 1 .. Len(buckets) :
        l = key[c] /\ r = registry[l] /\ r # NoBucket /\ Has(buckets[r], c)
  BY RegisteredMeans
<1>4. r \in 1 .. Len(buckets')
  BY <1>1 DEF Added
<1>5. registry'[l] = r /\ Has(buckets'[r], c)
  <2>1. CASE l = key[d]
    BY <1>1, <1>3, <2>1 DEF Added
  <2>2. CASE l # key[d]
    BY <1>1, <1>3, <1>4, <2>2 DEF Added
  <2>3. QED
    BY <2>1, <2>2
<1>6. QED
  BY <1>2, <1>3, <1>5, StaysRegistered

LEMMA UnregisteredSpares ==
  ASSUME SockInv, SockInv', NEW c \in Clients, Registered(c), key' = key,
         NEW d \in Clients, d # c, phase[d] # "new", Unregistered(d)
  PROVE  Registered(c)'
<1>1. key[d] \in Keys
  BY DEF SockInv, Types
<1>2. CASE Listeners(key[d]) = <<>>
  BY <1>2 DEF Unregistered, Registered, Listeners, lists
<1>3. CASE Listeners(key[d]) # <<>>
  <2>1. Drop(registry[key[d]], key[d], {d}) /\ registry[key[d]] # NoBucket
    BY <1>3 DEF Unregistered, Listeners
  <2>2. registry[key[d]] \in 1 .. Len(buckets)
    BY <1>1, <2>1 DEF SockInv, ListTypes, NoBucket
  <2>3. PICK b \in 1 .. Len(buckets), k \in Keys, S \in SUBSET {d} : b = registry[k] /\ k = key[d] /\ S = {d}
    BY <1>1, <2>2
  <2>4. Drop(b, k, S) /\ c \notin S
    BY <2>1, <2>3
  <2>5. QED
    BY <2>3, <2>4, DropSpares
<1>4. QED
  BY <1>2, <1>3

(* A socket that is open and well loses its registration in one way only:  *)
(* to a fan-out that began with an earlier list of its key.                *)
THEOREM OnlyOldFanOutsUnregister == Spec => LostOnlyToOldFanOut
<1> DEFINE Lost(c) == /\ phase[c] = "open" /\ healthy[c] /\ Registered(c) /\ phase'[c] = "open"
                      /\ ~ Registered(c)'
           Culprit(c) == \E p \in Senders : /\ fan[p].key = key[c] /\ ~ Sending(p)'
                                            /\ fan[p].bucket < registry[key[c]]
<1>1. ASSUME SockInv, SockInv', Next, NEW c \in Clients, Lost(c)
      PROVE  Culprit(c)
  <2>1. ASSUME UNCHANGED lists, key'[c] = key[c] PROVE FALSE
    BY <1>1, <2>1 DEF Registered, Listeners, lists
  <2>2. ASSUME NEW d \in Clients, NEW k \in Keys, Connect(d, k) PROVE FALSE
    <3>1. d # c /\ UNCHANGED lists /\ key' = [key EXCEPT ![d] = k] /\ key \in [Clients -> Keys \cup {NoKey}]
      BY <1>1, <2>2 DEF Connect, SockInv, Types
    <3>2. QED
      BY <2>1, <3>1
  <2>3. ASSUME NEW d \in Clients, Accept(d) PROVE FALSE
    BY <1>1, <2>3, AcceptSpares
  <2>4. ASSUME NEW d \in Clients, Disconnect(d) \/ UnregisterByRotation(d) PROVE FALSE
    <3>1. Unregistered(d) /\ key' = key /\ d # c /\ phase[d] # "new"
      BY <1>1, <2>4 DEF Disconnect, Return, UnregisterByRotation, sockets, SockInv, Types
    <3>2. QED
      BY <1>1, <3>1, UnregisteredSpares
  <2>5. ASSUME NEW d \in Clients,
               PingFails(d) \/ Stall(d) \/ AcceptFails(d) \/ CloseByRotation(d)
        PROVE  FALSE
    BY <2>1, <2>5 DEF PingFails, Return, Stall, AcceptFails, CloseByRotation
  <2>6. ASSUME NEW p \in Senders, NEW k \in Keys, Begin(p, k) PROVE FALSE
    BY <2>1, <2>6 DEF Begin, sockets
  <2>7. ASSUME NEW p \in Senders, NEW dead, Sent(p, dead) PROVE Culprit(c)
    BY <1>1, <2>7, SentSpares
  <2> HIDE DEF Culprit
  <2>8. ASSUME NEW p \in Senders, Delivered(p) \/ Undelivered(p) PROVE Culprit(c)
    BY <1>1, <2>7, <2>8, DeliveredIsSent, UndeliveredIsSent
  <2>9. QED
    BY <1>1, <2>2, <2>3, <2>4, <2>5, <2>6, <2>8 DEF Next
<1>2. SockInv /\ SockInv' /\ [Next]_vars =>
        [\A c \in Clients :
           phase[c] = "open" /\ healthy[c] /\ Registered(c) /\ phase'[c] = "open"
           => \/ Registered(c)'
              \/ \E p \in Senders : /\ fan[p].key = key[c] /\ ~ Sending(p)'
                                    /\ fan[p].bucket < registry[key[c]]]_vars
  BY <1>1
<1>3. QED
  BY <1>2, SocketsInit, SocketsStep, PTL DEF Spec, LostOnlyToOldFanOut
=============================================================================
