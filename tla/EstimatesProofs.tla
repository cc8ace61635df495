-------------------------- MODULE EstimatesProofs --------------------------
(***************************************************************************)
(* What sums and diffs of estimates compute, for any estimates.            *)
(***************************************************************************)
EXTENDS Estimates, WellFoundedInduction, TLAPS

-----------------------------------------------------------------------------
(* Folds.                                                                  *)

\* Induction up to n, over a set.
LEMMA Upward ==
    ASSUME NEW n \in Nat, NEW P, 0 \in P, \A k \in 1 .. n : k - 1 \in P => k \in P
    PROVE  \A k \in 0 .. n : k \in P
<1> DEFINE T == {k \in 0 .. n : k \notin P}
<1> SUFFICES ASSUME T # {} PROVE FALSE
  OBVIOUS
<1>0. T \subseteq Nat
  OBVIOUS
<1>1. PICK d \in T : \A e \in T : ~(<<e, d>> \in OpToRel(<, Nat))
  <2> HIDE DEF T
  <2> QED
    BY <1>0, NatLessThanWellFounded, WFMin
<1>2. d \in 1 .. n
  OBVIOUS
<1>3. d - 1 \in T
  BY <1>2
<1>4. <<d - 1, d>> \in OpToRel(<, Nat)
  BY <1>2 DEF OpToRel
<1> QED
  BY <1>1, <1>3, <1>4

LEMMA MaxIn ==
    ASSUME NEW n \in Nat, NEW t \in SUBSET (1 .. n), t # {}
    PROVE  Max(t) \in t
<1> DEFINE P == {k \in 0 .. n : \A u \in SUBSET (1 .. k) :
                                    u # {} => \E x \in u : \A y \in u : x >= y}
<1>1. 0 \in P
  <2>1. \A u \in SUBSET (1 .. 0) : u = {}
    <3>1. 1 .. 0 = {}
      OBVIOUS
    <3> QED
      BY <3>1
  <2>2. \A u \in SUBSET (1 .. 0) : u # {} => \E x \in u : \A y \in u : x >= y
    BY <2>1
  <2> QED
    BY <2>2
<1>2. ASSUME NEW k \in 1 .. n, k - 1 \in P PROVE k \in P
  <2> SUFFICES ASSUME NEW u \in SUBSET (1 .. k), u # {}
               PROVE  \E x \in u : \A y \in u : x >= y
    OBVIOUS
  <2>1. CASE k \in u
    BY <2>1
  <2>2. CASE k \notin u
    <3>1. u \in SUBSET (1 .. (k - 1))
      BY <2>2
    <3> QED
      BY <3>1, <1>2
  <2> QED
    BY <2>1, <2>2
<1> HIDE DEF P
<1>3. n \in P
  BY <1>1, <1>2, Upward
<1> QED
  BY <1>3 DEF Max, P

\* What a fold with step F from b computes of sets of the first n numbers.
Iteration(g, n, S, b, F) ==
    /\ g \in [SUBSET (1 .. n) -> S]
    /\ g[{}] = b
    /\ \A t \in SUBSET (1 .. n) : t # {} => g[t] = F[Max(t)][g[t \ {Max(t)}]]

\* Where the step is a function, there is such an iteration.
LEMMA FoldExists ==
    ASSUME NEW n \in Nat, NEW S, NEW b \in S, NEW F \in [1 .. n -> [S -> S]]
    PROVE  \E g : Iteration(g, n, S, b, F)
<1> DEFINE P == {k \in 0 .. n : \E g : Iteration(g, k, S, b, F)}
<1>1. 0 \in P
  <2> DEFINE g == [t \in SUBSET (1 .. 0) |-> b]
  <2>1. \A t \in SUBSET (1 .. 0) : t = {}
    <3>1. 1 .. 0 = {}
      OBVIOUS
    <3> QED
      BY <3>1
  <2>2. Iteration(g, 0, S, b, F)
    BY <2>1 DEF Iteration
  <2> QED
    BY <2>2
<1>2. ASSUME NEW k \in 1 .. n, k - 1 \in P PROVE k \in P
  <2>1. PICK g : Iteration(g, k - 1, S, b, F)
    BY <1>2
  <2> DEFINE h == [t \in SUBSET (1 .. k) |->
                      IF k \in t THEN F[k][g[t \ {k}]] ELSE g[t]]
  <2>2. \A t \in SUBSET (1 .. k) : k \notin t => t \in SUBSET (1 .. (k - 1))
    OBVIOUS
  <2>3. ASSUME NEW t \in SUBSET (1 .. k)
        PROVE  /\ h[t] \in S
               /\ t = {} => h[t] = b
               /\ t # {} => h[t] = F[Max(t)][h[t \ {Max(t)}]]
    <3>1. CASE k \in t
      <4>1. Max(t) = k
        <5>1. \A y \in t : k >= y
          OBVIOUS
        <5>2. \A x \in t : (\A y \in t : x >= y) => x = k
          BY <3>1, <5>1
        <5> QED
          BY <3>1, <5>1, <5>2 DEF Max
      <4>2. t \ {k} \in SUBSET (1 .. (k - 1))
        BY <2>2
      <4>3. g[t \ {k}] \in S /\ h[t \ {k}] = g[t \ {k}]
        BY <2>1, <4>2 DEF Iteration
      <4> QED
        BY <3>1, <4>1, <4>3
    <3>2. CASE k \notin t
      <4>1. t \in SUBSET (1 .. (k - 1)) /\ h[t] = g[t]
        BY <2>2, <3>2
      <4>2. t \ {Max(t)} \in SUBSET (1 .. (k - 1)) /\ h[t \ {Max(t)}] = g[t \ {Max(t)}]
        BY <4>1, <2>2, <3>2
      <4> QED
        BY <2>1, <4>1, <4>2 DEF Iteration
    <3> QED
      BY <3>1, <3>2
  <2>4. h \in [SUBSET (1 .. k) -> S]
    <3>1. h = [t \in SUBSET (1 .. k) |-> h[t]]
      OBVIOUS
    <3> HIDE DEF h
    <3> QED
      BY <2>3, <3>1
  <2> HIDE DEF h
  <2>5. Iteration(h, k, S, b, F)
    BY <2>3, <2>4 DEF Iteration
  <2> QED
    BY <2>5
<1> HIDE DEF P
<1>3. \A k \in 0 .. n : k \in P
  BY <1>1, <1>2, Upward, Zenon
<1>4. n \in P
  BY <1>3
<1> QED
  BY <1>4 DEF P

\* The sums of the first summands.
Runs(f, s) ==
    /\ f \in [0 .. Len(s) -> Int]
    /\ f[0] = 0 /\ f[Len(s)] = Total(s)
    /\ \A k \in 1 .. Len(s) : f[k] = f[k - 1] + s[k]

\* A sum is reached step by step.
LEMMA TotalRuns ==
    ASSUME NEW s \in Seq(Int)
    PROVE  \E f : Runs(f, s)
<1> DEFINE n == Len(s)
           F == [k \in 1 .. n |-> [x \in Int |-> x + s[k]]]
           Body(g) == [t \in SUBSET DOMAIN s |->
                          IF t = {} THEN 0 ELSE g[t \ {Max(t)}] + s[Max(t)]]
           iter == CHOOSE g : g = Body(g)
<1>0. n \in Nat /\ DOMAIN s = 1 .. n /\ \A k \in 1 .. n : s[k] \in Int
  OBVIOUS
<1>1. Total(s) = iter[DOMAIN s]
  BY DEF Total, FoldLeft, MapThenFoldSet
<1>2. F \in [1 .. n -> [Int -> Int]]
  BY <1>0
<1> HIDE DEF F, n
<1>3. PICK g \in [SUBSET (1 .. n) -> Int] :
          /\ g[{}] = 0
          /\ \A t \in SUBSET (1 .. n) : t # {} => g[t] = F[Max(t)][g[t \ {Max(t)}]]
  <2>1. 0 \in Int
    OBVIOUS
  <2>2. \E g : Iteration(g, n, Int, 0, F)
    BY <1>0, <1>2, <2>1, FoldExists, Zenon
  <2> QED
    BY <2>2 DEF Iteration
<1>4. g = Body(g)
  <2>1. ASSUME NEW t \in SUBSET (1 .. n), t # {}
        PROVE  g[t] = g[t \ {Max(t)}] + s[Max(t)]
    <3>1. Max(t) \in 1 .. n
      BY <2>1, <1>0, MaxIn
    <3>2. g[t \ {Max(t)}] \in Int
      BY <1>3
    <3> QED
      BY <1>3, <2>1, <3>1, <3>2 DEF F
  <2> QED
    BY <1>0, <1>3, <2>1
<1> HIDE DEF Body
<1>5. iter = Body(iter)
  BY <1>4
<1> HIDE DEF iter
<1> DEFINE f == [k \in 0 .. n |-> iter[1 .. k]]
<1>6. f[0] = 0
  BY <1>0, <1>5 DEF Body
<1>7. ASSUME NEW k \in 1 .. n PROVE f[k] = f[k - 1] + s[k]
  <2>1. Max(1 .. k) = k
    <3>1. \A x \in 1 .. k : (\A y \in 1 .. k : x >= y) => x = k
      BY <1>0
    <3> QED
      BY <1>0, <3>1 DEF Max
  <2>2. (1 .. k) \ {k} = 1 .. (k - 1) /\ 1 .. k \in SUBSET DOMAIN s /\ 1 .. k # {}
    <3>1. k \in Nat /\ 1 <= k /\ k <= n
      BY <1>0
    <3>2. 1 .. k \subseteq 1 .. n /\ k \in 1 .. k
      BY <1>0, <3>1
    <3>3. (1 .. k) \ {k} = 1 .. (k - 1)
      BY <3>1
    <3> QED
      BY <1>0, <3>2, <3>3
  <2>3. iter[1 .. k] = iter[1 .. (k - 1)] + s[k]
    BY <1>5, <2>1, <2>2 DEF Body
  <2> QED
    BY <1>0, <2>3
<1>8. f[n] = Total(s)
  BY <1>0, <1>1
<1> HIDE DEF f
<1>9. \A k \in 0 .. n : k \in {i \in 0 .. n : f[i] \in Int}
  <2>1. \A k \in 1 .. n : f[k - 1] \in Int => f[k] \in Int
    BY <1>0, <1>7
  <2> DEFINE P == {i \in 0 .. n : f[i] \in Int}
  <2>2. 0 \in P /\ \A k \in 1 .. n : k - 1 \in P => k \in P
    BY <1>0, <1>6, <2>1
  <2> HIDE DEF P
  <2>3. \A k \in 0 .. n : k \in P
    BY <1>0, <2>2, Upward
  <2> QED
    BY <2>3 DEF P
<1>10. f \in [0 .. n -> Int]
  BY <1>9 DEF f
<1> QED
  BY <1>6, <1>7, <1>8, <1>10 DEF n, Runs

LEMMA TotalIsInt == ASSUME NEW s \in Seq(Int) PROVE Total(s) \in Int
BY TotalRuns DEF Runs

LEMMA TotalAppend ==
    ASSUME NEW s \in Seq(Int), NEW x \in Int
    PROVE  Total(Append(s, x)) = Total(s) + x
<1> DEFINE n == Len(s)
           t == Append(s, x)
<1>1. /\ n \in Nat /\ t \in Seq(Int) /\ Len(t) = n + 1 /\ t[n + 1] = x
      /\ \A k \in 1 .. n : t[k] = s[k] /\ s[k] \in Int
  OBVIOUS
<1> HIDE DEF t
<1>2. PICK f : Runs(f, s)
  BY TotalRuns
<1>3. PICK h : Runs(h, t)
  BY <1>1, TotalRuns
<1> HIDE DEF n
<1> DEFINE P == {k \in 0 .. n : f[k] = h[k]}
<1>4. 0 \in P
  BY <1>1, <1>2, <1>3 DEF Runs
<1>5. ASSUME NEW k \in 1 .. n, k - 1 \in P PROVE k \in P
  <2>1. k \in 1 .. n + 1 /\ f[k] = f[k - 1] + s[k] /\ h[k] = h[k - 1] + t[k]
    BY <1>1, <1>2, <1>3 DEF Runs, n
  <2> QED
    BY <1>1, <1>5, <2>1
<1> HIDE DEF P
<1>6. \A k \in 0 .. n : k \in P
  BY <1>1, <1>4, <1>5, Upward, Zenon
<1>7. f[n] = h[n]
  BY <1>1, <1>6 DEF P
<1>8. f[n] = Total(s)
  BY <1>2 DEF Runs, n
<1>9. h[n + 1] = h[n] + x /\ h[n + 1] = Total(t)
  <2>1. n + 1 \in 1 .. Len(t) /\ (n + 1) - 1 = n
    BY <1>1
  <2>2. h[n + 1] = h[(n + 1) - 1] + t[n + 1]
    BY <1>3, <2>1 DEF Runs
  <2> QED
    BY <1>1, <1>3, <2>1, <2>2 DEF Runs
<1> QED
  BY <1>7, <1>8, <1>9 DEF t

LEMMA TotalAdds ==
    ASSUME NEW s \in Seq(Int), NEW t \in Seq(Int), NEW u \in Seq(Int),
           Len(t) = Len(s), Len(u) = Len(s),
           \A k \in 1 .. Len(s) : u[k] = s[k] + t[k]
    PROVE  Total(u) = Total(s) + Total(t)
<1> DEFINE n == Len(s)
<1>1. n \in Nat /\ \A k \in 1 .. n : s[k] \in Int /\ t[k] \in Int
  OBVIOUS
<1>2. PICK f : Runs(f, s)
  BY TotalRuns
<1>3. PICK g : Runs(g, t)
  BY TotalRuns
<1>4. PICK h : Runs(h, u)
  BY TotalRuns
<1> DEFINE P == {k \in 0 .. n : h[k] = f[k] + g[k]}
<1>5. 0 \in P
  BY <1>2, <1>3, <1>4 DEF Runs
<1>6. ASSUME NEW k \in 1 .. n, k - 1 \in P PROVE k \in P
  <2>1. k - 1 \in 0 .. n
    BY <1>1
  <2>2. /\ f[k] = f[k - 1] + s[k] /\ f[k - 1] \in Int
        /\ g[k] = g[k - 1] + t[k] /\ g[k - 1] \in Int
        /\ h[k] = h[k - 1] + u[k]
    <3>1. f[k] = f[k - 1] + s[k] /\ f[k - 1] \in Int
      BY <1>2, <2>1 DEF Runs
    <3>2. g[k] = g[k - 1] + t[k] /\ g[k - 1] \in Int
      BY <1>3, <2>1 DEF Runs
    <3>3. h[k] = h[k - 1] + u[k]
      BY <1>4, <2>1 DEF Runs
    <3> QED
      BY <3>1, <3>2, <3>3
  <2>3. u[k] = s[k] + t[k] /\ h[k - 1] = f[k - 1] + g[k - 1]
    BY <1>6
  <2> QED
    BY <1>1, <2>2, <2>3
<1> HIDE DEF P
<1>7. \A k \in 0 .. n : k \in P
  BY <1>1, <1>5, <1>6, Upward, Zenon
<1>8. h[n] = f[n] + g[n]
  BY <1>1, <1>7 DEF P
<1> QED
  BY <1>2, <1>3, <1>4, <1>8 DEF Runs

\* Two sums that differ in one summand.
LEMMA TotalChanges ==
    ASSUME NEW s \in Seq(Int), NEW t \in Seq(Int), Len(t) = Len(s),
           NEW j \in 1 .. Len(s), \A k \in 1 .. Len(s) : k # j => t[k] = s[k]
    PROVE  Total(t) = Total(s) + t[j] - s[j]
<1> DEFINE n == Len(s)
           d(k) == IF k < j THEN 0 ELSE t[j] - s[j]
<1>1. n \in Nat /\ j \in 1 .. n /\ \A k \in 1 .. n : s[k] \in Int /\ t[k] \in Int
  OBVIOUS
<1>2. PICK f : Runs(f, s)
  BY TotalRuns
<1>3. PICK h : Runs(h, t)
  BY TotalRuns
<1> DEFINE P == {k \in 0 .. n : h[k] = f[k] + d(k)}
<1>4. 0 \in P
  BY <1>1, <1>2, <1>3 DEF Runs
<1>5. ASSUME NEW k \in 1 .. n, k - 1 \in P PROVE k \in P
  <2>1. /\ f[k] = f[k - 1] + s[k] /\ h[k] = h[k - 1] + t[k] /\ f[k - 1] \in Int
        /\ h[k - 1] = f[k - 1] + d(k - 1)
    BY <1>1, <1>2, <1>3, <1>5 DEF Runs
  <2>2. CASE k = j
    BY <1>1, <2>1, <2>2
  <2>3. CASE k # j
    <3>1. t[k] = s[k] /\ d(k) = d(k - 1)
      BY <1>1, <2>3
    <3> QED
      BY <1>1, <2>1, <3>1
  <2> QED
    BY <2>2, <2>3
<1> HIDE DEF P
<1>6. \A k \in 0 .. n : k \in P
  BY <1>1, <1>4, <1>5, Upward, Zenon
<1>7. h[n] = f[n] + d(n)
  BY <1>1, <1>6 DEF P
<1>8. f[n] \in Int /\ f[n] = Total(s) /\ h[n] = Total(t)
  BY <1>2, <1>3 DEF Runs
<1> QED
  BY <1>1, <1>7, <1>8

\* Where they differ, one after the other: the first i of places are as in s.
Replaced(s, t, places, i) ==
    [k \in 1 .. Len(s) |-> IF \E j \in 1 .. i : places[j] = k THEN s[k] ELSE t[k]]

\* Only in m places do s and t differ, by d.
DifferAt(s, t, m, places, d) ==
    /\ s \in Seq(Int) /\ t \in Seq(Int) /\ Len(t) = Len(s)
    /\ m \in Nat /\ places \in [1 .. m -> 1 .. Len(s)]
    /\ \A i, j \in 1 .. m : places[i] = places[j] => i = j
    /\ \A k \in 1 .. Len(s) : (\A i \in 1 .. m : places[i] # k) => s[k] = t[k]
    /\ d \in Seq(Int) /\ Len(d) = m
    /\ \A i \in 1 .. m : d[i] = s[places[i]] - t[places[i]]

LEMMA TotalDiffers ==
    ASSUME NEW s, NEW t, NEW m, NEW places, NEW d, DifferAt(s, t, m, places, d)
    PROVE  Total(s) = Total(t) + Total(d)
<1> USE DEF DifferAt
<1> DEFINE n == Len(s)
           u == [i \in 0 .. m |-> Replaced(s, t, places, i)]
<1>1. n \in Nat /\ \A k \in 1 .. n : s[k] \in Int /\ t[k] \in Int
  OBVIOUS
<1>2. ASSUME NEW i \in 0 .. m PROVE u[i] \in Seq(Int) /\ Len(u[i]) = n
  <2>1. u[i] \in [1 .. n -> Int]
    BY <1>1 DEF Replaced
  <2> HIDE DEF u, n
  <2> QED
    BY <1>1, <2>1
<1>3. u[0] = t
  <2>1. t = [k \in 1 .. n |-> t[k]]
    BY <1>1
  <2>2. u[0] = [k \in 1 .. n |-> t[k]]
    BY DEF Replaced
  <2> QED
    BY <2>1, <2>2
<1>4. u[m] = s
  <2>1. s = [k \in 1 .. n |-> s[k]]
    BY <1>1
  <2>2. ASSUME NEW k \in 1 .. n
        PROVE  (IF \E j \in 1 .. m : places[j] = k THEN s[k] ELSE t[k]) = s[k]
    OBVIOUS
  <2>3. Replaced(s, t, places, m) = [k \in 1 .. n |-> s[k]]
    BY <2>2 DEF Replaced
  <2>4. u[m] = [k \in 1 .. n |-> s[k]]
    <3>1. m \in 0 .. m
      OBVIOUS
    <3> QED
      BY <2>3, <3>1
  <2> QED
    BY <2>1, <2>4
<1>5. PICK f : Runs(f, d)
  BY TotalRuns
<1> DEFINE P == {i \in 0 .. m : Total(u[i]) = Total(t) + f[i]}
<1>6. 0 \in P
  <2>1. Total(t) \in Int /\ f[0] = 0 /\ 0 \in 0 .. m
    BY <1>5, TotalIsInt DEF Runs
  <2> HIDE DEF u
  <2> QED
    BY <1>3, <2>1
<1>7. ASSUME NEW i \in 1 .. m, i - 1 \in P PROVE i \in P
  <2> DEFINE p == places[i]
  <2>1. p \in 1 .. n /\ i - 1 \in 0 .. m /\ i \in 0 .. m
    OBVIOUS
  <2>2. u[i][p] = s[p] /\ u[i - 1][p] = t[p]
    <3>1. \A j \in 1 .. i - 1 : j \in 1 .. m /\ j # i
      OBVIOUS
    <3>2. ~\E j \in 1 .. i - 1 : places[j] = p
      BY <3>1
    <3>3. i \in 1 .. i
      OBVIOUS
    <3> QED
      BY <2>1, <3>2, <3>3 DEF Replaced
  <2>3. \A k \in 1 .. n : k # p => u[i][k] = u[i - 1][k]
    <3>1. ASSUME NEW k \in 1 .. n, k # p
          PROVE  (\E j \in 1 .. i : places[j] = k) <=> (\E j \in 1 .. i - 1 : places[j] = k)
      <4>1. \A j \in 1 .. i : j \in 1 .. i - 1 \/ j = i
        OBVIOUS
      <4>2. \A j \in 1 .. i - 1 : j \in 1 .. i
        OBVIOUS
      <4> QED
        BY <3>1, <4>1, <4>2
    <3>2. ASSUME NEW k \in 1 .. n, k # p PROVE u[i][k] = u[i - 1][k]
      <4>1. (\E j \in 1 .. i : places[j] = k) <=> (\E j \in 1 .. i - 1 : places[j] = k)
        BY <3>1, <3>2
      <4> HIDE DEF p
      <4> QED
        BY <2>1, <4>1 DEF Replaced
    <3> QED
      BY <3>2
  <2> HIDE DEF u, p, n
  <2>4. Total(u[i]) = Total(u[i - 1]) + u[i][p] - u[i - 1][p]
    <3> DEFINE v == u[i - 1]
               w == u[i]
    <3>1. v \in Seq(Int) /\ w \in Seq(Int) /\ Len(w) = Len(v) /\ Len(v) = n
      <4>1. v \in Seq(Int) /\ Len(v) = n
        BY <1>2, <2>1
      <4>2. w \in Seq(Int) /\ Len(w) = n
        BY <1>2, <2>1
      <4> QED
        BY <4>1, <4>2
    <3>2. p \in 1 .. Len(v) /\ \A k \in 1 .. Len(v) : k # p => w[k] = v[k]
      BY <2>1, <2>3, <3>1
    <3> HIDE DEF v, w
    <3>3. Total(w) = Total(v) + w[p] - v[p]
      BY <3>1, <3>2, TotalChanges
    <3> QED
      BY <3>3 DEF v, w
  <2>5. f[i] = f[i - 1] + d[i] /\ f[i - 1] \in Int /\ d[i] = s[p] - t[p]
    BY <1>5, <2>1 DEF Runs, p
  <2>6. Total(u[i - 1]) = Total(t) + f[i - 1] /\ Total(t) \in Int
    BY <1>7, TotalIsInt
  <2>7. s[p] \in Int /\ t[p] \in Int
    BY <1>1, <2>1
  <2>8. Total(u[i]) = Total(t) + f[i]
    <3> DEFINE total == Total(t)
               before == f[i - 1]
               x == s[p]
               y == t[p]
    <3>1. total \in Int /\ before \in Int /\ x \in Int /\ y \in Int
      BY <2>5, <2>6, <2>7
    <3>2. Total(u[i]) = total + before + x - y
      BY <2>2, <2>4, <2>6
    <3>3. f[i] = before + (x - y)
      BY <2>5
    <3> HIDE DEF total, before, x, y
    <3>4. Total(u[i]) = total + f[i]
      BY <3>1, <3>2, <3>3
    <3> QED
      BY <3>4 DEF total
  <2> QED
    BY <2>1, <2>8
<1> HIDE DEF P
<1>8. \A i \in 0 .. m : i \in P
  BY <1>6, <1>7, Upward, Zenon
<1>9. Total(u[m]) = Total(t) + f[m]
  BY <1>8 DEF P
<1> HIDE DEF u
<1> QED
  BY <1>4, <1>5, <1>9 DEF Runs

-----------------------------------------------------------------------------
(* Recursion and rounding.                                                 *)

\* What is defined by recursion up to n, with step F from b.
Recursion(g, n, S, b, F) ==
    /\ g \in [0 .. n -> S]
    /\ g[0] = b
    /\ \A k \in 1 .. n : g[k] = F[k][g[k - 1]]

\* Where the step is a function, there is such a function.
LEMMA RecursionExists ==
    ASSUME NEW n \in Nat, NEW S, NEW b \in S, NEW F \in [1 .. n -> [S -> S]]
    PROVE  \E g : Recursion(g, n, S, b, F)
<1> DEFINE P == {k \in 0 .. n : \E g : Recursion(g, k, S, b, F)}
<1>1. 0 \in P
  <2> DEFINE g == [j \in 0 .. 0 |-> b]
  <2>1. 0 \in 0 .. 0 /\ \A j \in 1 .. 0 : FALSE
    OBVIOUS
  <2>2. Recursion(g, 0, S, b, F)
    BY <2>1 DEF Recursion
  <2> QED
    BY <2>2
<1>2. ASSUME NEW k \in 1 .. n, k - 1 \in P PROVE k \in P
  <2>1. PICK g : Recursion(g, k - 1, S, b, F)
    BY <1>2
  <2> DEFINE h == [j \in 0 .. k |-> IF j = k THEN F[k][g[k - 1]] ELSE g[j]]
  <2>2. \A j \in 0 .. k : j # k => j \in 0 .. (k - 1)
    OBVIOUS
  <2>3. F[k][g[k - 1]] \in S
    BY <2>1 DEF Recursion
  <2>4. h \in [0 .. k -> S] /\ h[0] = b
    BY <2>1, <2>2, <2>3 DEF Recursion
  <2>5. ASSUME NEW j \in 1 .. k PROVE h[j] = F[j][h[j - 1]]
    <3>1. j - 1 \in 0 .. k /\ j - 1 # k /\ h[j - 1] = g[j - 1]
      OBVIOUS
    <3>2. CASE j = k
      BY <3>1, <3>2
    <3>3. CASE j # k
      <4>1. j \in 1 .. (k - 1) /\ h[j] = g[j]
        BY <3>3
      <4> QED
        BY <2>1, <3>1, <4>1 DEF Recursion
    <3> QED
      BY <3>2, <3>3
  <2> HIDE DEF h
  <2>6. Recursion(h, k, S, b, F)
    BY <2>4, <2>5 DEF Recursion
  <2> QED
    BY <2>6
<1> HIDE DEF P
<1>3. \A k \in 0 .. n : k \in P
  BY <1>1, <1>2, Upward, Zenon
<1> QED
  BY <1>3 DEF P

LEMMA RoundedIsInt ==
    ASSUME NEW x \in Int, NEW grain \in Nat \ {0}
    PROVE  Rounded(x, grain) \in Int
<1> DEFINE up(y) == ((2 * y + grain) \div (2 * grain)) * grain
<1>1. ASSUME NEW y \in Int PROVE up(y) \in Int
  <2>1. 2 * y + grain \in Int /\ 2 * grain \in Int /\ 2 * grain > 0
    OBVIOUS
  <2>2. (2 * y + grain) \div (2 * grain) \in Int
    BY <2>1
  <2> QED
    BY <2>2
<1>2. up(x) \in Int /\ up(-x) \in Int
  <2>1. -x \in Int
    OBVIOUS
  <2> HIDE DEF up
  <2> QED
    BY <1>1, <2>1
<1>3. Rounded(x, grain) = IF x < 0 THEN -up(-x) ELSE up(x)
  BY DEF Rounded
<1> HIDE DEF up
<1> QED
  BY <1>2, <1>3
\* The whole multiples of a grain.
Multiples(grain) == {grain * q : q \in Int}

LEMMA DivIs ==
    ASSUME NEW q \in Int, NEW a \in Int, NEW b \in Nat \ {0},
           b * q <= a, a < b * q + b
    PROVE  a \div b = q
<1> DEFINE p == a \div b
<1>1. p \in Int /\ b * p <= a /\ a < b * p + b
  OBVIOUS
<1> HIDE DEF p
<1>2. ASSUME NEW x \in Int, NEW y \in Int, b * x <= a, a < b * y + b PROVE x <= y
  <2>1. SUFFICES ASSUME x >= y + 1 PROVE FALSE
    OBVIOUS
  <2>2. b * (x - (y + 1)) >= 0
    BY <2>1
  <2>3. b * (x - (y + 1)) = b * x - (b * y + b)
    OBVIOUS
  <2> QED
    BY <1>2, <2>2, <2>3
<1>3. p <= q /\ q <= p
  BY <1>1, <1>2
<1> QED
  BY <1>1, <1>3 DEF p

LEMMA MultipleIsRounded ==
    ASSUME NEW grain \in Nat \ {0}, NEW x \in Multiples(grain)
    PROVE  x \in Int /\ Rounded(x, grain) = x
<1> DEFINE up(y) == ((2 * y + grain) \div (2 * grain)) * grain
<1>1. PICK q \in Int : x = grain * q
  BY DEF Multiples
<1>2. ASSUME NEW p \in Int PROVE up(grain * p) = grain * p
  <2> DEFINE a == 2 * (grain * p) + grain
             b == 2 * grain
  <2>1. a \in Int /\ b \in Nat \ {0}
    OBVIOUS
  <2>2. b * p = 2 * (grain * p) /\ grain * p \in Int
    OBVIOUS
  <2>3. b * p <= a /\ a < b * p + b
    BY <2>2
  <2> HIDE DEF a, b
  <2>4. a \div b = p
    BY <2>1, <2>3, DivIs
  <2>5. up(grain * p) = p * grain
    BY <2>4 DEF a, b
  <2> HIDE DEF up
  <2> QED
    BY <2>5
<1>3. Rounded(x, grain) = IF x < 0 THEN -up(-x) ELSE up(x)
  BY DEF Rounded
<1> HIDE DEF up
<1>4. -x = grain * (-q) /\ -q \in Int /\ x \in Int
  BY <1>1
<1>5. up(x) = x /\ up(-x) = -x
  BY <1>1, <1>2, <1>4
<1> QED
  BY <1>3, <1>4, <1>5

LEMMA RoundedIsMultiple ==
    ASSUME NEW x \in Int, NEW grain \in Nat \ {0}
    PROVE  Rounded(x, grain) \in Multiples(grain)
<1> DEFINE up(y) == ((2 * y + grain) \div (2 * grain)) * grain
<1>1. ASSUME NEW y \in Int
      PROVE  up(y) \in Multiples(grain) /\ -up(y) \in Multiples(grain)
  <2> DEFINE q == (2 * y + grain) \div (2 * grain)
  <2>1. 2 * y + grain \in Int /\ 2 * grain \in Int /\ 2 * grain > 0
    OBVIOUS
  <2>2. q \in Int
    BY <2>1
  <2>3. up(y) = q * grain
    OBVIOUS
  <2> HIDE DEF q, up
  <2>4. up(y) = grain * q /\ -up(y) = grain * (-q) /\ -q \in Int
    BY <2>2, <2>3
  <2> QED
    BY <2>2, <2>4 DEF Multiples
<1>2. -x \in Int
  OBVIOUS
<1>3. Rounded(x, grain) = IF x < 0 THEN -up(-x) ELSE up(x)
  BY DEF Rounded
<1> HIDE DEF up
<1> QED
  BY <1>1, <1>2, <1>3

LEMMA MultiplesAdd ==
    ASSUME NEW grain \in Nat \ {0}, NEW x \in Multiples(grain), NEW y \in Multiples(grain)
    PROVE  x + y \in Multiples(grain) /\ x - y \in Multiples(grain)
<1>1. PICK p \in Int : x = grain * p
  BY DEF Multiples
<1>2. PICK q \in Int : y = grain * q
  BY DEF Multiples
<1>3. x + y = grain * (p + q) /\ x - y = grain * (p - q) /\ p + q \in Int /\ p - q \in Int
  BY <1>1, <1>2
<1> QED
  BY <1>3 DEF Multiples

\* A sum of amounts that are rounded need not be rounded.
LEMMA TotalOfMultiples ==
    ASSUME NEW grain \in Nat \ {0}, NEW s \in Seq(Int),
           \A k \in 1 .. Len(s) : s[k] \in Multiples(grain)
    PROVE  Total(s) \in Multiples(grain)
<1> DEFINE n == Len(s)
<1>1. n \in Nat
  OBVIOUS
<1>2. PICK f : Runs(f, s)
  BY TotalRuns
<1> DEFINE P == {k \in 0 .. n : f[k] \in Multiples(grain)}
<1>3. 0 \in P
  <2>1. 0 = grain * 0 /\ 0 \in Int
    OBVIOUS
  <2>2. 0 \in Multiples(grain)
    BY <2>1, Zenon DEF Multiples
  <2>3. f[0] = 0 /\ 0 \in 0 .. n
    BY <1>1, <1>2 DEF Runs
  <2> QED
    BY <2>2, <2>3
<1>4. ASSUME NEW k \in 1 .. n, k - 1 \in P PROVE k \in P
  <2>1. f[k] = f[k - 1] + s[k] /\ k \in 0 .. n
    BY <1>1, <1>2 DEF Runs
  <2> QED
    BY <1>4, <2>1, MultiplesAdd
<1> HIDE DEF P
<1>5. \A k \in 0 .. n : k \in P
  BY <1>1, <1>3, <1>4, Upward, Zenon
<1>6. f[n] \in Multiples(grain)
  BY <1>1, <1>5 DEF P
<1> QED
  BY <1>2, <1>6 DEF Runs

-----------------------------------------------------------------------------
(* Diffs.                                                                  *)

LEMMA SequenceOf ==
    ASSUME NEW T, NEW n \in Nat, NEW f \in [1 .. n -> T]
    PROVE  f \in Seq(T) /\ Len(f) = n /\ DOMAIN f = 1 .. n
OBVIOUS

\* Whose amounts are numbers.
IsEstimate(e) ==
    /\ e.costs \in Seq(Range(e.costs))
    /\ \A i \in 1 .. Len(e.costs) : e.costs[i].subtotal \in Int

LEMMA SubtotalsFacts ==
    ASSUME NEW e, IsEstimate(e)
    PROVE  /\ Len(e.costs) \in Nat /\ DOMAIN e.costs = 1 .. Len(e.costs)
           /\ Subtotals(e.costs) \in Seq(Int) /\ Len(Subtotals(e.costs)) = Len(e.costs)
           /\ \A i \in 1 .. Len(e.costs) : Subtotals(e.costs)[i] = e.costs[i].subtotal
<1>1. Len(e.costs) \in Nat /\ DOMAIN e.costs = 1 .. Len(e.costs)
  BY DEF IsEstimate
<1>2. Subtotals(e.costs) = [i \in 1 .. Len(e.costs) |-> e.costs[i].subtotal]
  BY <1>1 DEF Subtotals
<1>3. Subtotals(e.costs) \in [1 .. Len(e.costs) -> Int]
  BY <1>2 DEF IsEstimate
<1>4. Subtotals(e.costs) \in Seq(Int)
  BY <1>1, <1>3
<1> QED
  BY <1>1, <1>2, <1>3, <1>4

\* Where no two costs have a reference, it finds the one that has.
LEMMA CostForFacts ==
    ASSUME NEW e, IsEstimate(e), UniqueRefs(e), NEW ref
    PROVE  /\ CostFor(e, ref) \in 0 .. Len(e.costs)
           /\ CostFor(e, ref) # 0 => e.costs[CostFor(e, ref)].ref = ref
           /\ \A i \in 1 .. Len(e.costs) : e.costs[i].ref = ref => CostFor(e, ref) = i
<1> DEFINE n == Len(e.costs)
           I == {i \in 1 .. n : e.costs[i].ref = ref}
<1>1. CostFor(e, ref) = IF I # {} THEN Min(I) ELSE 0
  BY DEF CostFor, SelectInSeq
<1>2. n \in Nat /\ DOMAIN e.costs = 1 .. n
  BY SubtotalsFacts
<1>3. CASE I = {}
  <2>1. \A i \in 1 .. n : e.costs[i].ref # ref
    BY <1>3
  <2> HIDE DEF I
  <2> QED
    BY <1>1, <1>2, <1>3, <2>1
<1>4. ASSUME NEW i \in 1 .. n, e.costs[i].ref = ref PROVE I = {i} /\ Min(I) = i
  <2>1. I = {i}
    BY <1>2, <1>4 DEF UniqueRefs
  <2>2. Min({i}) = i
    BY DEF Min
  <2> QED
    BY <2>1, <2>2
<1>5. CASE I # {}
  <2>1. PICK i \in 1 .. n : e.costs[i].ref = ref
    BY <1>5
  <2>2. CostFor(e, ref) = i
    <3>1. I = {i} /\ Min(I) = i
      BY <1>4, <2>1
    <3> HIDE DEF I
    <3> QED
      BY <1>1, <1>5, <3>1
  <2>3. \A j \in 1 .. n : e.costs[j].ref = ref => j = i
    BY <1>2, <2>1 DEF UniqueRefs
  <2> QED
    BY <1>2, <2>1, <2>2, <2>3
<1> QED
  BY <1>3, <1>5

GoneRow(baseline, k) ==
    Row(baseline.costs[k].ref, baseline.costs[k].subtotal, 0, "removed")

\* Every row there may be in a diff.
AllRows(baseline, current) ==
    {CurrentRow(baseline, current.costs[i]) : i \in 1 .. Len(current.costs)}
      \cup {GoneRow(baseline, k) : k \in 1 .. Len(baseline.costs)}

\* DiffRows is what its recursion says.
LEMMA DiffRowsFacts ==
    ASSUME NEW baseline, NEW current, IsEstimate(baseline), IsEstimate(current)
    PROVE  LET g == DiffRows(baseline, current)
           IN  /\ g \in [0 .. Len(baseline.costs) -> Seq(AllRows(baseline, current))]
               /\ g[0] = CurrentRows(baseline, current)
               /\ \A k \in 1 .. Len(baseline.costs) :
                     g[k] = IF CostFor(current, baseline.costs[k].ref) # 0 THEN g[k - 1]
                            ELSE Append(g[k - 1], GoneRow(baseline, k))
<1> DEFINE m == Len(baseline.costs)
           S == Seq(AllRows(baseline, current))
           b == CurrentRows(baseline, current)
           Step(k, rows) == IF CostFor(current, baseline.costs[k].ref) # 0 THEN rows
                            ELSE Append(rows, GoneRow(baseline, k))
           F == [k \in 1 .. m |-> [rows \in S |-> Step(k, rows)]]
           Body(g) == [k \in 0 .. m |-> IF k = 0 THEN b ELSE Step(k, g[k - 1])]
<1>1. DiffRows(baseline, current) = CHOOSE g : g = Body(g)
  BY DEF DiffRows, GoneRow
<1>2. m \in Nat
  BY SubtotalsFacts
<1>3. b \in S
  <2>1. b = [i \in 1 .. Len(current.costs) |-> CurrentRow(baseline, current.costs[i])]
    BY SubtotalsFacts DEF CurrentRows
  <2>2. b \in [1 .. Len(current.costs) -> AllRows(baseline, current)]
    BY <2>1 DEF AllRows
  <2>3. Len(current.costs) \in Nat
    BY SubtotalsFacts
  <2> HIDE DEF b
  <2> QED
    BY <2>2, <2>3, SequenceOf
<1>4. \A k \in 1 .. m : \A rows \in S : Step(k, rows) \in S
  <2>1. \A k \in 1 .. m : GoneRow(baseline, k) \in AllRows(baseline, current)
    BY DEF AllRows
  <2> QED
    BY <2>1
<1> HIDE DEF Step, S, b, m
<1>5. F \in [1 .. m -> [S -> S]]
  BY <1>4
<1>6. PICK g : Recursion(g, m, S, b, F)
  <2> HIDE DEF F
  <2> QED
    BY <1>2, <1>3, <1>5, RecursionExists, Zenon
<1>7. g = Body(g)
  <2>1. \A k \in 1 .. m : g[k] = Step(k, g[k - 1])
    <3>1. \A k \in 1 .. m : k - 1 \in 0 .. m
      BY <1>2
    <3> QED
      BY <1>6, <3>1 DEF Recursion
  <2>2. \A k \in 0 .. m : k # 0 => k \in 1 .. m
    BY <1>2
  <2> QED
    BY <1>6, <2>1, <2>2 DEF Recursion
<1> DEFINE f == CHOOSE h : h = Body(h)
<1> HIDE DEF F
<1>8. f = Body(f)
  <2> HIDE DEF Body
  <2> QED
    BY <1>7
<1> HIDE DEF f
<1>9. /\ f[0] = b
      /\ \A k \in 1 .. m : f[k] = Step(k, f[k - 1]) /\ k - 1 \in 0 .. m
  BY <1>2, <1>8
<1>10. \A k \in 0 .. m : f[k] \in S
  <2> DEFINE P == {k \in 0 .. m : f[k] \in S}
  <2>1. 0 \in P
    BY <1>2, <1>3, <1>9
  <2>2. \A k \in 1 .. m : k - 1 \in P => k \in P
    BY <1>4, <1>9
  <2> HIDE DEF P
  <2>3. \A k \in 0 .. m : k \in P
    BY <1>2, <2>1, <2>2, Upward, Zenon
  <2> QED
    BY <2>3 DEF P
<1>11. f \in [0 .. m -> S]
  BY <1>8, <1>10
<1>12. DiffRows(baseline, current) = f
  BY <1>1 DEF f
<1> QED
  BY <1>9, <1>11, <1>12 DEF Step, S, b, m
LEMMA DeltasFacts ==
    ASSUME NEW R, \A r \in R : r.delta \in Int, NEW rows \in Seq(R)
    PROVE  /\ Deltas(rows) \in Seq(Int) /\ Len(Deltas(rows)) = Len(rows)
           /\ \A i \in 1 .. Len(rows) : Deltas(rows)[i] = rows[i].delta
           /\ \A r \in R : Total(Deltas(Append(rows, r))) = Total(Deltas(rows)) + r.delta
<1> DEFINE n == Len(rows)
<1>1. n \in Nat /\ DOMAIN rows = 1 .. n /\ \A i \in 1 .. n : rows[i] \in R
  OBVIOUS
<1>2. Deltas(rows) = [i \in 1 .. n |-> rows[i].delta]
  BY <1>1 DEF Deltas
<1>3. Deltas(rows) \in [1 .. n -> Int]
  BY <1>1, <1>2
<1>4. Deltas(rows) \in Seq(Int) /\ Len(Deltas(rows)) = n
  <2> HIDE DEF n
  <2> QED
    BY <1>1, <1>3, SequenceOf
<1>5. ASSUME NEW r \in R PROVE Deltas(Append(rows, r)) = Append(Deltas(rows), r.delta)
  <2> DEFINE t == Append(rows, r)
             d == Deltas(rows)
  <2>1. DOMAIN t = 1 .. n + 1 /\ t[n + 1] = r /\ \A i \in 1 .. n : t[i] = rows[i]
    BY <1>1
  <2>2. d \in Seq(Int) /\ Len(d) = n /\ \A i \in 1 .. n : d[i] = rows[i].delta
    BY <1>2, <1>4
  <2> HIDE DEF t, d, n
  <2>3. Append(d, r.delta) = [i \in 1 .. n + 1 |-> IF i = n + 1 THEN r.delta ELSE d[i]]
    BY <1>1, <2>2
  <2>4. \A i \in 1 .. n + 1 : i = n + 1 \/ i \in 1 .. n
    BY <1>1
  <2>5. [i \in DOMAIN t |-> t[i].delta] = [i \in 1 .. n + 1 |-> IF i = n + 1 THEN r.delta ELSE d[i]]
    BY <2>1, <2>2, <2>4
  <2>6. Deltas(t) = Append(d, r.delta)
    BY <2>3, <2>5 DEF Deltas
  <2> QED
    BY <2>6 DEF t, d
<1>6. ASSUME NEW r \in R PROVE Total(Deltas(Append(rows, r))) = Total(Deltas(rows)) + r.delta
  BY <1>4, <1>5, TotalAppend
<1> QED
  BY <1>1, <1>2, <1>4, <1>6

\* What the current costs had before, as far as among the first k of the baseline.
Preceding(baseline, current, k) ==
    [i \in 1 .. Len(current.costs) |->
        LET b == CostFor(baseline, current.costs[i].ref)
        IN  IF b \in 1 .. k THEN baseline.costs[b].subtotal ELSE 0]

LEMMA PrecedingFacts ==
    ASSUME NEW baseline, NEW current, IsEstimate(baseline), IsEstimate(current),
           UniqueRefs(baseline), NEW k \in 0 .. Len(baseline.costs)
    PROVE  /\ Preceding(baseline, current, k) \in Seq(Int)
           /\ Len(Preceding(baseline, current, k)) = Len(current.costs)
<1> DEFINE n == Len(current.costs)
           m == Len(baseline.costs)
<1>1. n \in Nat /\ m \in Nat /\ \A b \in 1 .. k : baseline.costs[b].subtotal \in Int
  <2>1. n \in Nat /\ m \in Nat
    BY SubtotalsFacts
  <2>2. \A b \in 1 .. m : baseline.costs[b].subtotal \in Int
    BY DEF IsEstimate
  <2>3. \A b \in 1 .. k : b \in 1 .. m
    <3> HIDE DEF m
    <3> QED
      BY <2>1 DEF m
  <2> QED
    BY <2>1, <2>2, <2>3
<1>2. Preceding(baseline, current, k) \in [1 .. n -> Int]
  BY <1>1 DEF Preceding
<1> HIDE DEF n
<1> QED
  BY <1>1, <1>2, SequenceOf DEF n

\* One cost of the baseline more: either it is in the current estimate, once, or
\* it is gone.
LEMMA PrecedingStep ==
    ASSUME NEW baseline, NEW current, IsEstimate(baseline), IsEstimate(current),
           UniqueRefs(baseline), UniqueRefs(current), NEW k \in 1 .. Len(baseline.costs)
    PROVE  Total(Preceding(baseline, current, k)) =
             Total(Preceding(baseline, current, k - 1))
               + (IF CostFor(current, baseline.costs[k].ref) # 0
                  THEN baseline.costs[k].subtotal ELSE 0)
<1> DEFINE n == Len(current.costs)
           c == baseline.costs[k]
           i == CostFor(current, c.ref)
           s == Preceding(baseline, current, k - 1)
           t == Preceding(baseline, current, k)
           b(j) == CostFor(baseline, current.costs[j].ref)
<1>1. n \in Nat /\ Len(baseline.costs) \in Nat /\ k \in Nat /\ k - 1 \in 0 .. Len(baseline.costs)
  BY SubtotalsFacts
<1>2. s \in Seq(Int) /\ t \in Seq(Int) /\ Len(s) = n /\ Len(t) = n
  BY <1>1, PrecedingFacts
<1>3. i \in 0 .. n /\ (i # 0 => current.costs[i].ref = c.ref)
      /\ \A j \in 1 .. n : current.costs[j].ref = c.ref => i = j
  BY CostForFacts
<1>4. \A j \in 1 .. n : b(j) = k <=> current.costs[j].ref = c.ref
  BY CostForFacts
<1>5. \A j \in 1 .. n : b(j) \in Nat
  BY <1>1, CostForFacts
<1>6. \A j \in 1 .. n : b(j) # k => t[j] = s[j]
  <2>1. \A j \in 1 .. n : b(j) # k => (b(j) \in 1 .. k <=> b(j) \in 1 .. (k - 1))
    BY <1>1, <1>5
  <2> QED
    BY <2>1 DEF Preceding
<1>7. \A j \in 1 .. n : b(j) = k => t[j] = c.subtotal /\ s[j] = 0
  <2>1. k \in 1 .. k /\ k \notin 1 .. (k - 1)
    BY <1>1
  <2> QED
    BY <2>1 DEF Preceding
<1> HIDE DEF s, t, b, i, n
<1>8. CASE i # 0
  <2>1. i \in 1 .. n /\ b(i) = k /\ \A j \in 1 .. n : j # i => t[j] = s[j]
    BY <1>1, <1>3, <1>4, <1>6, <1>8
  <2>2. Total(t) = Total(s) + t[i] - s[i]
    BY <1>2, <2>1, TotalChanges
  <2>3. t[i] = c.subtotal /\ s[i] = 0 /\ c.subtotal \in Int /\ Total(s) \in Int
    BY <1>2, <1>7, <2>1, TotalIsInt DEF IsEstimate
  <2> HIDE DEF c
  <2>4. Total(t) = Total(s) + c.subtotal
    BY <2>2, <2>3
  <2> QED
    BY <1>8, <2>4 DEF s, t, i, c
<1>9. CASE i = 0
  <2>1. \A j \in 1 .. n : t[j] = s[j]
    <3>1. \A j \in 1 .. n : j # 0
      BY <1>1
    <3> QED
      BY <1>3, <1>4, <1>6, <1>9, <3>1
  <2>2. t = s
    BY <1>2, <2>1
  <2>3. Total(t) = Total(s) + 0
    BY <1>2, <2>2, TotalIsInt
  <2> QED
    BY <1>9, <2>3 DEF s, t, i, c
<1> QED
  BY <1>8, <1>9
\* Nothing was there before the first.
LEMMA PrecedingNone ==
    ASSUME NEW baseline, NEW current, IsEstimate(baseline), IsEstimate(current),
           UniqueRefs(baseline)
    PROVE  Total(Preceding(baseline, current, 0)) = 0
<1> DEFINE z == Preceding(baseline, current, 0)
<1>1. Len(baseline.costs) \in Nat /\ 0 \in 0 .. Len(baseline.costs)
  BY SubtotalsFacts
<1>2. z \in Seq(Int) /\ Len(z) = Len(current.costs)
  BY <1>1, PrecedingFacts
<1>3. \A i \in 1 .. Len(z) : z[i] = 0
  <2>1. \A x : x \notin 1 .. 0
    OBVIOUS
  <2> QED
    BY <1>2, <2>1 DEF Preceding
<1> HIDE DEF z
<1>4. Total(z) = Total(z) + Total(z)
  <2>1. \A i \in 1 .. Len(z) : z[i] = z[i] + z[i]
    BY <1>3
  <2> QED
    BY <1>2, <2>1, TotalAdds
<1>5. Total(z) \in Int
  BY <1>2, TotalIsInt
<1>6. Total(z) = 0
  BY <1>4, <1>5
<1> QED
  BY <1>6 DEF z

\* The rows of the current costs: what they are, less what they were.
LEMMA CurrentRowsTotal ==
    ASSUME NEW baseline, NEW current, IsEstimate(baseline), IsEstimate(current),
           UniqueRefs(baseline),
           CurrentRows(baseline, current) \in Seq(AllRows(baseline, current)),
           \A r \in AllRows(baseline, current) : r.delta \in Int
    PROVE  Total(Subtotals(current.costs)) =
             Total(Deltas(CurrentRows(baseline, current)))
               + Total(Preceding(baseline, current, Len(baseline.costs)))
<1> DEFINE n == Len(current.costs)
           m == Len(baseline.costs)
           d == Deltas(CurrentRows(baseline, current))
           t == Preceding(baseline, current, m)
           u == Subtotals(current.costs)
           b(j) == CostFor(baseline, current.costs[j].ref)
<1>1. /\ n \in Nat /\ m \in Nat /\ u \in Seq(Int) /\ Len(u) = n /\ m \in 0 .. m
      /\ DOMAIN current.costs = 1 .. n
      /\ \A i \in 1 .. n : u[i] = current.costs[i].subtotal
  BY SubtotalsFacts
<1>2. t \in Seq(Int) /\ Len(t) = n
  BY <1>1, PrecedingFacts
<1>3. CurrentRows(baseline, current) =
        [i \in 1 .. n |-> CurrentRow(baseline, current.costs[i])]
  BY <1>1 DEF CurrentRows
<1>4. Len(CurrentRows(baseline, current)) = n
  <2>1. DOMAIN CurrentRows(baseline, current) = 1 .. n
    BY <1>3
  <2> HIDE DEF n
  <2> QED
    BY <1>1, <2>1
<1>5. /\ d \in Seq(Int) /\ Len(d) = n
      /\ \A i \in 1 .. n : d[i] = CurrentRow(baseline, current.costs[i]).delta
  <2> DEFINE rows == CurrentRows(baseline, current)
             R == AllRows(baseline, current)
  <2>1. (\A r \in R : r.delta \in Int) /\ rows \in Seq(R)
    OBVIOUS
  <2>2. \A i \in 1 .. n : rows[i] = CurrentRow(baseline, current.costs[i])
    BY <1>3
  <2>3. d = Deltas(rows) /\ Len(rows) = n
    BY <1>4
  <2> HIDE DEF rows, R, d, n
  <2>4. /\ Deltas(rows) \in Seq(Int) /\ Len(Deltas(rows)) = Len(rows)
        /\ \A i \in 1 .. Len(rows) : Deltas(rows)[i] = rows[i].delta
    BY <2>1, DeltasFacts
  <2> QED
    BY <2>2, <2>3, <2>4
<1>6. ASSUME NEW i \in 1 .. n PROVE u[i] = d[i] + t[i]
  <2>1. b(i) \in 0 .. m /\ current.costs[i].subtotal \in Int
    BY CostForFacts DEF IsEstimate
  <2>2. t[i] = IF b(i) \in 1 .. m THEN baseline.costs[b(i)].subtotal ELSE 0
    BY DEF Preceding
  <2>3. d[i] = IF b(i) = 0 THEN current.costs[i].subtotal - 0
               ELSE current.costs[i].subtotal - baseline.costs[b(i)].subtotal
    BY <1>5 DEF CurrentRow, Row
  <2>4. b(i) \in 1 .. m => baseline.costs[b(i)].subtotal \in Int
    BY DEF IsEstimate
  <2> HIDE DEF b, t, d, u
  <2>5. CASE b(i) = 0
    BY <1>1, <2>1, <2>2, <2>3, <2>5
  <2>6. CASE b(i) # 0
    <3>1. b(i) \in 1 .. m
      BY <1>1, <2>1, <2>6
    <3> QED
      BY <1>1, <2>1, <2>2, <2>3, <2>4, <2>6, <3>1
  <2> QED
    BY <2>5, <2>6
<1>7. Total(u) = Total(d) + Total(t)
  <2>1. u \in Seq(Int) /\ d \in Seq(Int) /\ t \in Seq(Int)
    BY <1>1, <1>2, <1>5
  <2>2. Len(t) = Len(d) /\ Len(u) = Len(d)
    BY <1>1, <1>2, <1>5
  <2>3. \A i \in 1 .. Len(d) : u[i] = d[i] + t[i]
    BY <1>5, <1>6
  <2> HIDE DEF u, d, t, n
  <2> QED
    BY <2>1, <2>2, <2>3, TotalAdds
<1> QED
  BY <1>7

\* The rows of a diff add up to the change of the sums, whatever was added,
\* removed or modified.
LEMMA DiffAdds ==
    ASSUME NEW baseline, NEW current, IsEstimate(baseline), IsEstimate(current),
           UniqueRefs(baseline), UniqueRefs(current)
    PROVE  Total(Deltas(ComputeDiff(baseline, current).rows)) =
             Total(Subtotals(current.costs)) - Total(Subtotals(baseline.costs))
<1> DEFINE R == AllRows(baseline, current)
           m == Len(baseline.costs)
           g == DiffRows(baseline, current)
           s == Subtotals(baseline.costs)
           D(k) == Total(Deltas(g[k]))
           B(k) == Total(Preceding(baseline, current, k))
<1>1. m \in Nat /\ s \in Seq(Int) /\ Len(s) = m
      /\ \A k \in 1 .. m : s[k] = baseline.costs[k].subtotal /\ s[k] \in Int
  BY SubtotalsFacts DEF IsEstimate
<1>2. \A r \in R : r.delta \in Int
  <2>1. ASSUME NEW i \in 1 .. Len(current.costs)
        PROVE  CurrentRow(baseline, current.costs[i]).delta \in Int
    <3> DEFINE b == CostFor(baseline, current.costs[i].ref)
    <3>1. b \in 0 .. m /\ current.costs[i].subtotal \in Int
      BY CostForFacts DEF IsEstimate
    <3>2. CurrentRow(baseline, current.costs[i]).delta =
            current.costs[i].subtotal - (IF b = 0 THEN 0 ELSE baseline.costs[b].subtotal)
      BY DEF CurrentRow, Row
    <3>3. b # 0 => baseline.costs[b].subtotal \in Int
      BY <1>1, <3>1 DEF IsEstimate
    <3> HIDE DEF b
    <3> QED
      BY <3>1, <3>2, <3>3
  <2>2. ASSUME NEW k \in 1 .. m PROVE GoneRow(baseline, k).delta \in Int
    BY DEF GoneRow, Row, IsEstimate
  <2> QED
    BY <2>1, <2>2 DEF AllRows
<1>3. /\ g \in [0 .. m -> Seq(R)] /\ g[0] = CurrentRows(baseline, current)
      /\ \A k \in 1 .. m :
            g[k] = IF CostFor(current, baseline.costs[k].ref) # 0 THEN g[k - 1]
                   ELSE Append(g[k - 1], GoneRow(baseline, k))
  BY DiffRowsFacts
<1>4. PICK f : Runs(f, s)
  BY <1>1, TotalRuns
<1>5. \A k \in 0 .. m : D(k) \in Int /\ B(k) \in Int /\ f[k] \in Int
  <2> SUFFICES ASSUME NEW k \in 0 .. m PROVE D(k) \in Int /\ B(k) \in Int /\ f[k] \in Int
    OBVIOUS
  <2>1. g[k] \in Seq(R)
    BY <1>3
  <2>2. D(k) \in Int
    BY <1>2, <2>1, DeltasFacts, TotalIsInt
  <2>3. B(k) \in Int
    BY PrecedingFacts, TotalIsInt
  <2>4. f[k] \in Int
    BY <1>1, <1>4 DEF Runs
  <2> QED
    BY <2>2, <2>3, <2>4
<1>6. ASSUME NEW k \in 1 .. m
      PROVE  D(k) + f[k] - B(k) = D(k - 1) + f[k - 1] - B(k - 1)
  <2> DEFINE i == CostFor(current, baseline.costs[k].ref)
             c == baseline.costs[k].subtotal
  <2>1. k - 1 \in 0 .. m /\ k \in 0 .. m /\ c \in Int /\ f[k] = f[k - 1] + c
    BY <1>1, <1>4 DEF Runs
  <2>2. B(k) = B(k - 1) + (IF i # 0 THEN c ELSE 0)
    BY PrecedingStep
  <2>3. D(k) = D(k - 1) + (IF i # 0 THEN 0 ELSE 0 - c)
    <3>1. CASE i # 0
      <4>1. g[k] = g[k - 1]
        BY <1>3, <3>1
      <4> QED
        BY <1>5, <2>1, <3>1, <4>1
    <3>2. CASE i = 0
      <4>1. g[k] = Append(g[k - 1], GoneRow(baseline, k)) /\ g[k - 1] \in Seq(R)
        BY <1>3, <2>1, <3>2
      <4>2. GoneRow(baseline, k) \in R /\ GoneRow(baseline, k).delta = 0 - c
        BY DEF AllRows, GoneRow, Row
      <4>3. D(k) = D(k - 1) + (0 - c)
        BY <1>2, <4>1, <4>2, DeltasFacts
      <4> QED
        BY <3>2, <4>3
    <3> QED
      BY <3>1, <3>2
  <2>4. /\ D(k) \in Int /\ B(k) \in Int /\ f[k] \in Int
        /\ D(k - 1) \in Int /\ B(k - 1) \in Int /\ f[k - 1] \in Int
    BY <1>5, <2>1
  <2> HIDE DEF D, B, c, i
  <2>5. CASE i # 0
    <3>1. B(k) = B(k - 1) + c /\ D(k) = D(k - 1) + 0
      BY <2>2, <2>3, <2>5
    <3> QED
      BY <2>1, <2>4, <3>1
  <2>6. CASE i = 0
    <3>1. B(k) = B(k - 1) + 0 /\ D(k) = D(k - 1) + (0 - c)
      BY <2>2, <2>3, <2>6
    <3> QED
      BY <2>1, <2>4, <3>1
  <2> QED
    BY <2>5, <2>6
<1> HIDE DEF D, B, s
<1>7. f[0] = 0 /\ f[m] = Total(s)
  BY <1>1, <1>4 DEF Runs
<1>8. \A k \in 0 .. m : D(k) + f[k] - B(k) = D(0) - B(0)
  <2> DEFINE P == {k \in 0 .. m : D(k) + f[k] - B(k) = D(0) - B(0)}
  <2>1. 0 \in P
    BY <1>1, <1>5, <1>7
  <2>2. \A k \in 1 .. m : k - 1 \in P => k \in P
    BY <1>1, <1>6
  <2> HIDE DEF P
  <2>3. \A k \in 0 .. m : k \in P
    BY <1>1, <2>1, <2>2, Upward, Zenon
  <2> QED
    BY <2>3 DEF P
<1>9. B(0) = 0
  BY PrecedingNone DEF B
<1>10. Total(Subtotals(current.costs)) = D(0) + B(m)
  BY <1>1, <1>2, <1>3, CurrentRowsTotal DEF D, B
<1>11. D(m) = Total(Deltas(ComputeDiff(baseline, current).rows))
  BY DEF D, ComputeDiff
<1>12. D(0) \in Int /\ D(m) \in Int /\ B(m) \in Int /\ Total(s) \in Int
  <2>1. 0 \in 0 .. m /\ m \in 0 .. m
    BY <1>1
  <2> QED
    BY <1>5, <1>7, <2>1
<1>13. D(m) + Total(s) - B(m) = D(0) - 0
  <2>1. m \in 0 .. m
    BY <1>1
  <2> QED
    BY <1>7, <1>8, <1>9, <2>1
<1>14. D(m) = Total(Subtotals(current.costs)) - Total(s)
  BY <1>10, <1>12, <1>13
<1> QED
  BY <1>11, <1>14 DEF s
=============================================================================
