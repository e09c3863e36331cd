----------------------------- MODULE SumsProofs -----------------------------
(***************************************************************************)
(* What Total computes, for every N.  The induction over the summed rows   *)
(* is done by least counterexample: the finite subsets of Nat are well     *)
(* founded under strict inclusion (FiniteSetTheorems), which gives the     *)
(* least-number principle LeastNat without a theorem over predicates.      *)
(***************************************************************************)
EXTENDS Sums, FiniteSetTheorems, TLAPS

(* A non-empty set of naturals has a least element.                        *)
LEMMA LeastNat ==
  ASSUME NEW T \in SUBSET Nat, T # {}
  PROVE  \E m \in T : \A k \in T : m <= k
<1> DEFINE B == {1 .. m : m \in T}
<1>1. B \subseteq FiniteSubsetsOf(Nat) /\ B # {}
  <2>1. \A m \in T : (1 .. m) \in FiniteSubsetsOf(Nat)
    <3> SUFFICES ASSUME NEW m \in T PROVE (1 .. m) \in FiniteSubsetsOf(Nat)
      OBVIOUS
    <3>1. IsFiniteSet(1 .. m)
      BY FS_Interval
    <3>2. (1 .. m) \in SUBSET Nat
      OBVIOUS
    <3>3. QED
      BY <3>1, <3>2 DEF FiniteSubsetsOf
  <2>2. QED
    BY <2>1
<1>2. PICK x \in B : \A y \in B : ~ (<<y, x>> \in StrictSubsetOrdering(Nat))
  <2>1. IsWellFoundedOn(StrictSubsetOrdering(Nat), FiniteSubsetsOf(Nat))
    BY FS_StrictSubsetOrderingWellFounded
  <2>2. QED
    BY <1>1, <2>1, WFMin
<1>3. PICK m \in T : x = 1 .. m
  OBVIOUS
<1>4. ASSUME NEW k \in T, k < m
      PROVE  FALSE
  <2>1. (1 .. k) \subseteq (1 .. m) /\ m \in 1 .. m /\ m \notin 1 .. k
    BY <1>4
  <2>2. (1 .. k) \in SUBSET Nat /\ (1 .. m) \in SUBSET Nat /\ 1 .. k # 1 .. m
    BY <2>1
  <2>3. <<1 .. k, 1 .. m>> \in StrictSubsetOrdering(Nat)
    BY <2>1, <2>2 DEF StrictSubsetOrdering
  <2>4. QED
    BY <1>2, <1>3, <2>3
<1>5. QED
  BY <1>4

(* The equation the recursive definition of PartialSums states.            *)
IsPartialSums(s, f, n) ==
  s = [i \in 0 .. n |-> IF i = 0 THEN 0 ELSE s[i - 1] + f[i]]

(* Some function satisfies that equation.                                  *)
LEMMA PartialSumsExist ==
  ASSUME NEW N \in Nat, NEW f \in [1 .. N -> Int]
  PROVE  \E s : IsPartialSums(s, f, N)
<1> DEFINE Has(n) == \E s : IsPartialSums(s, f, n)
           Bad == {n \in 0 .. N : ~ Has(n)}
<1>1. ASSUME Bad # {}
      PROVE  FALSE
  <2>1. PICK m \in Bad : \A k \in Bad : m <= k
    <3>1. Bad \in SUBSET Nat
      OBVIOUS
    <3>2. QED
      BY <1>1, <3>1, LeastNat
  <2>2. CASE m = 0
    <3>1. IsPartialSums([i \in 0 .. 0 |-> 0], f, 0)
      BY DEF IsPartialSums
    <3>2. QED
      BY <2>1, <2>2, <3>1
  <2>3. CASE m # 0
    <3>1. m \in 1 .. N /\ m - 1 \in 0 .. N /\ m - 1 \notin Bad
      BY <2>1, <2>3
    <3>2. PICK s : IsPartialSums(s, f, m - 1)
      BY <3>1
    <3> DEFINE t == [i \in 0 .. m |-> IF i = m THEN s[m - 1] + f[m] ELSE s[i]]
    <3>3. \A i \in 0 .. m - 1 : s[i] = IF i = 0 THEN 0 ELSE s[i - 1] + f[i]
      BY <3>2 DEF IsPartialSums
    <3>4. \A i \in 0 .. m : t[i] = IF i = 0 THEN 0 ELSE t[i - 1] + f[i]
      BY <3>1, <3>3
    <3>5. IsPartialSums(t, f, m)
      BY <3>4 DEF IsPartialSums
    <3>6. QED
      BY <2>1, <3>5
  <2>4. QED
    BY <2>2, <2>3
<1>2. N \notin Bad
  <2> HIDE DEF Bad
  <2>1. QED
    BY <1>1
<1>3. QED
  BY <1>2

(* PartialSums satisfies its recursion.                                    *)
LEMMA PartialSumsDef ==
  ASSUME NEW N \in Nat, NEW f \in [1 .. N -> Int]
  PROVE  /\ PartialSums(f, N)[0] = 0
         /\ \A n \in 1 .. N :
               PartialSums(f, N)[n] = PartialSums(f, N)[n - 1] + f[n]
<1>1. PICK s : IsPartialSums(s, f, N)
  BY PartialSumsExist
<1> DEFINE p == PartialSums(f, N)
<1>2. IsPartialSums(p, f, N)
  BY <1>1 DEF PartialSums, IsPartialSums
<1> HIDE DEF p
<1>3. \A i \in 0 .. N : p[i] = IF i = 0 THEN 0 ELSE p[i - 1] + f[i]
  BY <1>2 DEF IsPartialSums
<1>4. p[0] = 0 /\ \A n \in 1 .. N : p[n] = p[n - 1] + f[n]
  BY <1>3
<1>5. QED
  BY <1>4 DEF p

(* Two columns that agree except in row k have totals that differ by the   *)
(* difference in row k; and a total of integers is an integer.             *)
LEMMA PartialSumsInt ==
  ASSUME NEW N \in Nat, NEW f \in [1 .. N -> Int]
  PROVE  \A n \in 0 .. N : PartialSums(f, N)[n] \in Int
<1> DEFINE s == PartialSums(f, N)
           Bad == {n \in 0 .. N : s[n] \notin Int}
<1>0. s[0] = 0 /\ \A n \in 1 .. N : s[n] = s[n - 1] + f[n]
  BY PartialSumsDef
<1> HIDE DEF s
<1>1. ASSUME Bad # {}
      PROVE  FALSE
  <2>1. PICK m \in Bad : \A k \in Bad : m <= k
    <3>1. Bad \in SUBSET Nat
      OBVIOUS
    <3> HIDE DEF Bad
    <3>2. QED
      BY <1>1, <3>1, LeastNat
  <2>2. m # 0
    BY <1>0
  <2>3. m - 1 \in 0 .. N /\ m - 1 \notin Bad
    BY <2>1, <2>2
  <2>4. s[m] = s[m - 1] + f[m]
    BY <1>0, <2>1, <2>2
  <2>5. QED
    BY <2>2, <2>3, <2>4
<1>2. Bad = {}
  <2> HIDE DEF Bad
  <2>1. QED
    BY <1>1
<1>3. QED
  BY <1>2 DEF s

LEMMA TotalInt ==
  ASSUME NEW N \in Nat, NEW f \in [1 .. N -> Int]
  PROVE  Total(f, N) \in Int
BY PartialSumsInt DEF Total

LEMMA TotalUpdate ==
  ASSUME NEW N \in Nat, NEW f \in [1 .. N -> Int], NEW g \in [1 .. N -> Int],
         NEW k \in 1 .. N, \A i \in 1 .. N : i # k => g[i] = f[i]
  PROVE  Total(g, N) = Total(f, N) + g[k] - f[k]
<1> DEFINE s == PartialSums(f, N)
           t == PartialSums(g, N)
           Off(n) == IF n < k THEN 0 ELSE g[k] - f[k]
           Bad == {n \in 0 .. N : t[n] # s[n] + Off(n)}
<1>a. s[0] = 0 /\ \A n \in 1 .. N : s[n] = s[n - 1] + f[n]
  BY PartialSumsDef
<1>b. t[0] = 0 /\ \A n \in 1 .. N : t[n] = t[n - 1] + g[n]
  BY PartialSumsDef
<1>c. \A n \in 0 .. N : s[n] \in Int /\ t[n] \in Int
  BY PartialSumsInt
<1> HIDE DEF s, t
<1>1. ASSUME Bad # {}
      PROVE  FALSE
  <2>1. PICK m \in Bad : \A j \in Bad : m <= j
    <3>1. Bad \in SUBSET Nat
      OBVIOUS
    <3> HIDE DEF Bad
    <3>2. QED
      BY <1>1, <3>1, LeastNat
  <2>2. m # 0
    BY <1>a, <1>b
  <2>3. m \in 1 .. N /\ m - 1 \in 0 .. N /\ m - 1 \notin Bad
    <3>1. m \in 1 .. N /\ m - 1 \in 0 .. N /\ m - 1 < m
      BY <2>1, <2>2
    <3> HIDE DEF Bad
    <3>2. m \in Nat /\ \A j \in Bad : m <= j
      BY <2>1, <3>1
    <3>3. QED
      BY <3>1, <3>2
  <2>4. s[m] = s[m - 1] + f[m] /\ t[m] = t[m - 1] + g[m]
    BY <1>a, <1>b, <2>3
  <2>5. s[m - 1] \in Int /\ t[m - 1] \in Int
    BY <1>c, <2>3
  <2>6. t[m - 1] = s[m - 1] + Off(m - 1)
    BY <2>3
  <2>0. m \in 1 .. N /\ f[m] \in Int /\ g[m] \in Int /\ f[k] \in Int /\ g[k] \in Int
    BY <2>3
  <2>7. CASE m = k
    <3>1. Off(m - 1) = 0 /\ Off(m) = g[m] - f[m]
      BY <2>0, <2>7
    <3> HIDE DEF Off
    <3>2. t[m] = s[m] + Off(m)
      BY <2>0, <2>4, <2>5, <2>6, <3>1
    <3>3. QED
      BY <2>1, <3>2
  <2>8. CASE m # k
    <3>1. Off(m - 1) = Off(m) /\ Off(m) \in Int
      BY <2>0, <2>8
    <3>2. g[m] = f[m]
      BY <2>0, <2>8
    <3> HIDE DEF Off
    <3>3. t[m] = s[m] + Off(m)
      BY <2>0, <2>4, <2>5, <2>6, <3>1, <3>2
    <3>4. QED
      BY <2>1, <3>3
  <2>9. QED
    BY <2>7, <2>8
<1>2. Bad = {}
  <2> HIDE DEF Bad
  <2>1. QED
    BY <1>1
<1>3. t[N] = s[N] + Off(N)
  BY <1>2
<1>4. s[N] \in Int /\ Off(N) = g[k] - f[k]
  BY <1>c
<1>5. QED
  BY <1>3, <1>4 DEF Total, s, t

(* A total of non-negative rows is non-negative.                           *)
LEMMA TotalNonNegative ==
  ASSUME NEW N \in Nat, NEW f \in [1 .. N -> Nat]
  PROVE  Total(f, N) >= 0
<1> DEFINE s == PartialSums(f, N)
           Bad == {n \in 0 .. N : ~ (s[n] >= 0)}
<1>0. f \in [1 .. N -> Int]
  OBVIOUS
<1>a. s[0] = 0 /\ \A n \in 1 .. N : s[n] = s[n - 1] + f[n]
  BY <1>0, PartialSumsDef
<1>b. \A n \in 0 .. N : s[n] \in Int
  BY <1>0, PartialSumsInt
<1> HIDE DEF s
<1>1. ASSUME Bad # {}
      PROVE  FALSE
  <2>1. PICK m \in Bad : \A j \in Bad : m <= j
    <3>1. Bad \in SUBSET Nat
      OBVIOUS
    <3> HIDE DEF Bad
    <3>2. QED
      BY <1>1, <3>1, LeastNat
  <2>2. m # 0
    BY <1>a
  <2>3. m - 1 \in 0 .. N /\ m - 1 \notin Bad
    BY <2>1, <2>2
  <2>4. s[m] = s[m - 1] + f[m] /\ s[m - 1] \in Int /\ f[m] \in Nat
    BY <1>a, <1>b, <2>1, <2>2, <2>3
  <2>5. QED
    BY <2>3, <2>4
<1>2. Bad = {}
  <2> HIDE DEF Bad
  <2>1. QED
    BY <1>1
<1>3. QED
  BY <1>2 DEF Total, s

(* The total of zeros is zero.                                             *)
LEMMA TotalZero ==
  ASSUME NEW N \in Nat, NEW f \in [1 .. N -> Int],
         \A i \in 1 .. N : f[i] = 0
  PROVE  Total(f, N) = 0
<1> DEFINE s == PartialSums(f, N)
           Bad == {n \in 0 .. N : s[n] # 0}
<1>a. s[0] = 0 /\ \A n \in 1 .. N : s[n] = s[n - 1] + f[n]
  BY PartialSumsDef
<1>b. \A n \in 0 .. N : s[n] \in Int
  BY PartialSumsInt
<1> HIDE DEF s
<1>1. ASSUME Bad # {}
      PROVE  FALSE
  <2>1. PICK m \in Bad : \A j \in Bad : m <= j
    <3>1. Bad \in SUBSET Nat
      OBVIOUS
    <3> HIDE DEF Bad
    <3>2. QED
      BY <1>1, <3>1, LeastNat
  <2>2. m # 0
    BY <1>a
  <2>3. m - 1 \in 0 .. N /\ m - 1 \notin Bad
    BY <2>1, <2>2
  <2>4. s[m] = s[m - 1] + f[m] /\ s[m - 1] \in Int /\ f[m] = 0
    BY <1>a, <1>b, <2>1, <2>2, <2>3
  <2>5. QED
    BY <2>3, <2>4
<1>2. Bad = {}
  <2> HIDE DEF Bad
  <2>1. QED
    BY <1>1
<1>3. QED
  BY <1>2 DEF Total, s

(* ... and at least each of its rows.                                      *)
LEMMA TotalAtLeast ==
  ASSUME NEW N \in Nat, NEW f \in [1 .. N -> Nat], NEW k \in 1 .. N
  PROVE  Total(f, N) >= f[k]
<1> DEFINE g == [f EXCEPT ![k] = 0]
<1>1. g \in [1 .. N -> Nat] /\ g[k] = 0 /\ \A i \in 1 .. N : i # k => g[i] = f[i]
  OBVIOUS
<1>2. Total(g, N) >= 0
  BY <1>1, TotalNonNegative
<1> HIDE DEF g
<1>3. Total(g, N) = Total(f, N) + g[k] - f[k]
  <2>1. f \in [1 .. N -> Int] /\ g \in [1 .. N -> Int]
    BY <1>1
  <2>2. QED
    BY <1>1, <2>1, TotalUpdate
<1>4. Total(f, N) \in Int
  BY TotalInt, f \in [1 .. N -> Int]
<1>5. QED
  BY <1>1, <1>2, <1>3, <1>4

(* A column bounded row by row by two others has at most their totals.     *)
LEMMA TotalWithin ==
  ASSUME NEW N \in Nat, NEW f \in [1 .. N -> Int], NEW g \in [1 .. N -> Int],
         NEW h \in [1 .. N -> Int], \A i \in 1 .. N : h[i] <= f[i] + g[i]
  PROVE  Total(h, N) <= Total(f, N) + Total(g, N)
<1> DEFINE s == PartialSums(f, N)
           t == PartialSums(g, N)
           u == PartialSums(h, N)
           Bad == {n \in 0 .. N : ~ (u[n] <= s[n] + t[n])}
<1>a. /\ s[0] = 0 /\ \A n \in 1 .. N : s[n] = s[n - 1] + f[n]
      /\ t[0] = 0 /\ \A n \in 1 .. N : t[n] = t[n - 1] + g[n]
      /\ u[0] = 0 /\ \A n \in 1 .. N : u[n] = u[n - 1] + h[n]
  BY PartialSumsDef
<1>b. \A n \in 0 .. N : s[n] \in Int /\ t[n] \in Int /\ u[n] \in Int
  BY PartialSumsInt
<1> HIDE DEF s, t, u
<1>1. ASSUME Bad # {}
      PROVE  FALSE
  <2>1. PICK m \in Bad : \A j \in Bad : m <= j
    <3>1. Bad \in SUBSET Nat
      OBVIOUS
    <3> HIDE DEF Bad
    <3>2. QED
      BY <1>1, <3>1, LeastNat
  <2>2. m # 0
    BY <1>a
  <2>3. m - 1 \in 0 .. N /\ m - 1 \notin Bad /\ m \in 1 .. N
    BY <2>1, <2>2
  <2>4. /\ s[m] = s[m - 1] + f[m] /\ t[m] = t[m - 1] + g[m] /\ u[m] = u[m - 1] + h[m]
        /\ s[m - 1] \in Int /\ t[m - 1] \in Int /\ u[m - 1] \in Int
        /\ f[m] \in Int /\ g[m] \in Int /\ h[m] \in Int /\ h[m] <= f[m] + g[m]
    BY <1>a, <1>b, <2>3
  <2>5. u[m - 1] <= s[m - 1] + t[m - 1]
    BY <2>3
  <2>6. u[m] <= s[m] + t[m]
    <3>1. \A a, b, c, x, y, z \in Int : c <= a + b /\ z <= x + y => c + z <= (a + x) + (b + y)
      OBVIOUS
    <3>2. u[m - 1] + h[m] <= (s[m - 1] + f[m]) + (t[m - 1] + g[m])
      BY <2>4, <2>5, <3>1
    <3>3. QED
      BY <2>4, <3>2
  <2>7. QED
    BY <2>6
<1>2. Bad = {}
  <2> HIDE DEF Bad
  <2>1. QED
    BY <1>1
<1>3. N \in 0 .. N
  OBVIOUS
<1>4. QED
  BY <1>2, <1>3 DEF Total, s, t, u

(* One row more.                                                           *)
LEMMA TotalAppend ==
  ASSUME NEW N \in Nat, NEW f \in [1 .. N -> Int], NEW g \in [1 .. N + 1 -> Int],
         \A i \in 1 .. N : g[i] = f[i]
  PROVE  Total(g, N + 1) = Total(f, N) + g[N + 1]
<1> DEFINE s == PartialSums(f, N)
           t == PartialSums(g, N + 1)
           Bad == {n \in 0 .. N : t[n] # s[n]}
<1>a. s[0] = 0 /\ \A n \in 1 .. N : s[n] = s[n - 1] + f[n]
  BY PartialSumsDef
<1>b. t[0] = 0 /\ \A n \in 1 .. N + 1 : t[n] = t[n - 1] + g[n]
  <2>1. N + 1 \in Nat
    OBVIOUS
  <2>2. QED
    BY <2>1, PartialSumsDef
<1> HIDE DEF s, t
<1>1. ASSUME Bad # {}
      PROVE  FALSE
  <2>1. PICK m \in Bad : \A j \in Bad : m <= j
    <3>1. Bad \in SUBSET Nat
      OBVIOUS
    <3> HIDE DEF Bad
    <3>2. QED
      BY <1>1, <3>1, LeastNat
  <2>2. m # 0
    BY <1>a, <1>b
  <2>3. m - 1 \in 0 .. N /\ m - 1 \notin Bad /\ m \in 1 .. N /\ m \in 1 .. N + 1
    BY <2>1, <2>2
  <2>4. t[m - 1] = s[m - 1] /\ g[m] = f[m]
    BY <2>3
  <2>5. s[m] = s[m - 1] + f[m] /\ t[m] = t[m - 1] + g[m]
    BY <1>a, <1>b, <2>3
  <2>6. t[m] = s[m]
    BY <2>4, <2>5
  <2>7. QED
    BY <2>1, <2>6
<1>2. Bad = {}
  <2> HIDE DEF Bad
  <2>1. QED
    BY <1>1
<1>3. t[N] = s[N]
  BY <1>2
<1>4. N + 1 \in 1 .. N + 1 /\ N + 1 - 1 = N
  OBVIOUS
<1>5. t[N + 1] = t[N] + g[N + 1]
  BY <1>b, <1>4
<1>6. QED
  BY <1>3, <1>5 DEF Total, s, t
=============================================================================
