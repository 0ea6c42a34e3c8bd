---------------------------- MODULE Lists_proofs ----------------------------
(***************************************************************************)
(* What Total and Left are, without induction: each argues by the least    *)
(* element of the set of numbers for which it would fail.                  *)
(***************************************************************************)
EXTENDS Lists, SequenceTheorems, FiniteSetTheorems, WellFoundedInduction, TLAPS

-----------------------------------------------------------------------------
(* Numbers: what stands for induction, which needs no operator parameter.  *)

LEMMA LeastOf ==
  ASSUME NEW S \in SUBSET Nat, S # {}
  PROVE  \E n \in S : \A m \in S : n <= m
PROOF
  <1> DEFINE R == {ss \in Nat \X Nat : ss[1] < ss[2]}
  <1>1. IsWellFoundedOn(R, Nat)
    BY NatLessThanWellFounded DEF OpToRel
  <1>2. \A x, y \in S : <<y, x>> \in R <=> y < x
    OBVIOUS
  <1> HIDE DEF R
  <1>3. \E x \in S : \A y \in S : ~ (<<y, x>> \in R)
    BY <1>1, WFMin
  <1>4. PICK x \in S : \A y \in S : ~ (y < x)
    BY <1>2, <1>3
  <1>5. \A y \in S : x <= y
    BY <1>4
  <1> QED
    BY <1>5

\* So has a set of the first N values of a function a largest.
LEMMA BoundOf ==
  ASSUME NEW N \in Nat, NEW f \in [1 .. N -> Nat]
  PROVE  \E u \in Nat : \A i \in 1 .. N : f[i] <= u
PROOF
  <1> DEFINE Good(n) == \E u \in Nat : \A i \in 1 .. n : f[i] <= u
             Bad == {n \in 0 .. N : ~Good(n)}
  <1>1. Bad = {}
    <2>1. SUFFICES ASSUME Bad # {} PROVE FALSE
      OBVIOUS
    <2>2. Bad \in SUBSET Nat
      OBVIOUS
    <2>3. PICK n \in Bad : \A m \in Bad : n <= m
      <3> HIDE DEF Bad
      <3> QED
        BY <2>1, <2>2, LeastOf
    <2>4. Good(0)
      <3>1. \A i \in 1 .. 0 : f[i] <= 0
        OBVIOUS
      <3> QED
        BY <3>1
    <2> HIDE DEF Good
    <2>5. n \in 1 .. N /\ ~Good(n)
      BY <2>4
    <2>6. n - 1 \in 0 .. N /\ ~(n <= n - 1)
      BY <2>5
    <2>7. Good(n - 1)
      BY <2>3, <2>6
    <2>8. PICK u \in Nat : \A i \in 1 .. n - 1 : f[i] <= u
      BY <2>7 DEF Good
    <2>9. f[n] \in Nat /\ \A i \in 1 .. n : i \in 1 .. n - 1 \/ i = n
      BY <2>5
    <2>10. \A i \in 1 .. n : f[i] \in Nat
      BY <2>5
    <2>11. \A i \in 1 .. n : f[i] <= u + f[n]
      BY <2>8, <2>9, <2>10
    <2>12. Good(n)
      <3>1. u + f[n] \in Nat
        BY <2>9
      <3> QED
        BY <3>1, <2>11 DEF Good
    <2> QED
      BY <2>5, <2>12
  <1>2. N \in 0 .. N
    OBVIOUS
  <1> HIDE DEF Good
  <1>3. Good(N)
    BY <1>1, <1>2
  <1> QED
    BY <1>3 DEF Good

LEMMA LargestOf ==
  ASSUME NEW N \in Nat, NEW f \in [1 .. N -> Nat], NEW D \in SUBSET (1 .. N), D # {}
  PROVE  \E m \in D : \A i \in D : f[i] <= f[m]
PROOF
  <1> DEFINE U == {u \in Nat : \A i \in D : f[i] <= u}
  <1>1. U \in SUBSET Nat /\ U # {}
    BY BoundOf
  <1>2. PICK u \in U : \A v \in U : u <= v
    <2> HIDE DEF U
    <2> QED
      BY <1>1, LeastOf
  <1>3. u \in Nat /\ \A i \in D : f[i] <= u /\ f[i] \in Nat
    OBVIOUS
  <1>4. \E m \in D : f[m] = u
    <2> SUFFICES ASSUME \A m \in D : f[m] # u
                 PROVE  FALSE
      OBVIOUS
    <2>1. \A i \in D : f[i] <= u - 1
      BY <1>3
    <2>2. u - 1 \in Nat
      <3>1. PICK i \in D : TRUE
        OBVIOUS
      <3>2. f[i] \in Nat /\ f[i] <= u /\ f[i] # u
        BY <1>3
      <3> QED
        BY <1>3, <3>2
    <2>3. u - 1 \in U
      BY <2>1, <2>2
    <2> HIDE DEF U
    <2> QED
      BY <1>2, <1>3, <2>3
  <1> QED
    BY <1>3, <1>4

\* A recursive function on 0 .. N exists.
StepsOn(G, N, T) == N \in Nat /\ G \in [(1 .. N) \X T -> T]
Recursive(f, N, T, base, G) ==
  /\ f \in [0 .. N -> T] /\ f[0] = base
  /\ \A n \in 1 .. N : f[n] = G[<<n, f[n - 1]>>]

LEMMA Recursion ==
  ASSUME NEW N, NEW T, NEW base \in T, NEW G, StepsOn(G, N, T)
  PROVE  \E f : Recursive(f, N, T, base, G)
PROOF
  <1>0. N \in Nat /\ G \in [(1 .. N) \X T -> T]
    BY DEF StepsOn
  <1> DEFINE Good(k) == \E f \in [0 .. k -> T] :
                          f[0] = base /\ \A n \in 1 .. k : f[n] = G[<<n, f[n - 1]>>]
             Bad == {k \in 0 .. N : ~ Good(k)}
  <1>1. Good(0)
    <2> DEFINE f == [n \in 0 .. 0 |-> base]
    <2>1. f \in [0 .. 0 -> T] /\ f[0] = base /\ \A n \in 1 .. 0 : f[n] = G[<<n, f[n - 1]>>]
      OBVIOUS
    <2> QED
      BY <2>1
  <1>2. ASSUME NEW k \in 1 .. N, Good(k - 1) PROVE Good(k)
    <2>1. PICK f \in [0 .. k - 1 -> T] :
            f[0] = base /\ \A n \in 1 .. k - 1 : f[n] = G[<<n, f[n - 1]>>]
      BY <1>2
    <2> DEFINE g == [n \in 0 .. k |-> IF n = k THEN G[<<k, f[k - 1]>>] ELSE f[n]]
    <2>2. G[<<k, f[k - 1]>>] \in T
      BY <1>0
    <2>3. g \in [0 .. k -> T]
      BY <1>0, <2>2
    <2>4. /\ \A n \in 0 .. k - 1 : g[n] = f[n]
          /\ g[k] = G[<<k, f[k - 1]>>]
      BY <1>0
    <2> HIDE DEF g
    <2>5. g[0] = base
      BY <2>1, <2>4
    <2>6. \A n \in 1 .. k : g[n] = G[<<n, g[n - 1]>>]
      <3>1. SUFFICES ASSUME NEW n \in 1 .. k PROVE g[n] = G[<<n, g[n - 1]>>]
        OBVIOUS
      <3>2. n - 1 \in 0 .. k - 1 /\ g[n - 1] = f[n - 1]
        BY <2>4
      <3>3. CASE n = k
        BY <2>4, <3>2, <3>3
      <3>4. CASE n # k
        BY <2>1, <2>4, <3>2, <3>4
      <3> QED
        BY <3>3, <3>4
    <2> QED
      BY <2>3, <2>5, <2>6
  <1> HIDE DEF Good
  <1>3. Bad = {}
    <2>1. SUFFICES ASSUME Bad # {} PROVE FALSE
      OBVIOUS
    <2>2. Bad \in SUBSET Nat
      BY <1>0
    <2>3. PICK k \in Bad : \A m \in Bad : k <= m
      BY <2>1, <2>2, LeastOf
    <2>4. k \in 1 .. N /\ k - 1 \in 0 .. N /\ ~ (k <= k - 1)
      BY <1>0, <1>1, <2>3
    <2>5. Good(k - 1)
      BY <2>3, <2>4
    <2> QED
      BY <1>2, <2>3, <2>4, <2>5
  <1> QED
    BY <1>0, <1>3 DEF Good, Recursive

\* A sum of natural numbers is one, and counts what is added to one of them.
LEMMA TotalIsSum ==
  ASSUME NEW N \in Nat, NEW G \in [1 .. N -> Nat]
  PROVE  \E f \in [0 .. N -> Nat] :
           /\ Total(G, N) = f[N] /\ f[0] = 0
           /\ \A n \in 1 .. N : f[n] = f[n - 1] + G[n]
PROOF
  <1> DEFINE H == [x \in (1 .. N) \X Nat |-> x[2] + G[x[1]]]
             Def(f) == f = [n \in 0 .. N |-> IF n = 0 THEN 0 ELSE f[n - 1] + G[n]]
  <1>1. StepsOn(H, N, Nat)
    <2>1. H \in [(1 .. N) \X Nat -> Nat]
      OBVIOUS
    <2> HIDE DEF H
    <2> QED
      BY <2>1 DEF StepsOn
  <1>2. \E f : Recursive(f, N, Nat, 0, H)
    <2> HIDE DEF H
    <2> QED
      BY <1>1, Recursion
  <1>3. PICK f : Recursive(f, N, Nat, 0, H)
    BY <1>2
  <1>4. f \in [0 .. N -> Nat] /\ f[0] = 0 /\ \A n \in 1 .. N : f[n] = H[<<n, f[n - 1]>>]
    BY <1>3 DEF Recursive
  <1>5. \A n \in 1 .. N : H[<<n, f[n - 1]>>] = f[n - 1] + G[n]
    <2>1. SUFFICES ASSUME NEW n \in 1 .. N PROVE H[<<n, f[n - 1]>>] = f[n - 1] + G[n]
      OBVIOUS
    <2>2. f[n - 1] \in Nat
      BY <1>4
    <2> QED
      BY <2>2
  <1> HIDE DEF H
  <1>6. \A n \in 0 .. N : f[n] = IF n = 0 THEN 0 ELSE f[n - 1] + G[n]
    <2>1. SUFFICES ASSUME NEW n \in 0 .. N
                   PROVE  f[n] = IF n = 0 THEN 0 ELSE f[n - 1] + G[n]
      OBVIOUS
    <2>2. CASE n = 0
      BY <1>4, <2>2
    <2>3. CASE n # 0
      <3>1. n \in 1 .. N
        BY <2>3
      <3>2. f[n] = f[n - 1] + G[n]
        BY <1>4, <1>5, <3>1
      <3> QED
        BY ONLY <2>3, <3>2
    <2> QED
      BY <2>2, <2>3
  <1>7. Def(f)
    BY ONLY <1>4, <1>6 DEF Def
  <1> DEFINE h == CHOOSE h : Def(h)
  <1>8. Def(h)
    BY <1>7
  <1>9. Total(G, N) = h[N]
    BY DEF Total
  <1> HIDE DEF h
  <1>10. \A n \in 0 .. N : h[n] = IF n = 0 THEN 0 ELSE h[n - 1] + G[n]
    BY <1>8
  <1>11. h[0] = 0 /\ \A n \in 1 .. N : h[n] = h[n - 1] + G[n]
    BY <1>10
  <1>12. DOMAIN h = 0 .. N /\ h = [n \in 0 .. N |-> h[n]]
    BY ONLY <1>8 DEF Def
  <1> HIDE DEF Def
  <1> DEFINE Bad == {n \in 0 .. N : h[n] \notin Nat}
  <1>13. Bad = {}
    <2>1. SUFFICES ASSUME Bad # {} PROVE FALSE
      OBVIOUS
    <2>2. PICK k \in Bad : \A m \in Bad : k <= m
      <3>1. Bad \in SUBSET Nat
        OBVIOUS
      <3> QED
        BY <2>1, <3>1, LeastOf
    <2>3. k \in 1 .. N /\ k - 1 \in 0 .. N /\ ~ (k <= k - 1)
      BY <1>11, <2>2
    <2>4. h[k - 1] \in Nat /\ h[k] = h[k - 1] + G[k]
      BY <1>11, <2>2, <2>3
    <2> QED
      BY <2>2, <2>3, <2>4
  <1>14. h \in [0 .. N -> Nat]
    BY <1>12, <1>13
  <1> QED
    BY <1>9, <1>11, <1>14

LEMMA TotalGrows ==
  ASSUME NEW N \in Nat, NEW G \in [1 .. N -> Nat], NEW H \in [1 .. N -> Nat],
         NEW k \in 1 .. N, H[k] = G[k] + 1, \A n \in 1 .. N : n # k => H[n] = G[n]
  PROVE  Total(G, N) \in Nat /\ Total(H, N) = Total(G, N) + 1
PROOF
  <1>1. PICK f \in [0 .. N -> Nat] :
          /\ Total(G, N) = f[N] /\ f[0] = 0
          /\ \A n \in 1 .. N : f[n] = f[n - 1] + G[n]
    BY TotalIsSum
  <1>2. PICK h \in [0 .. N -> Nat] :
          /\ Total(H, N) = h[N] /\ h[0] = 0
          /\ \A n \in 1 .. N : h[n] = h[n - 1] + H[n]
    BY TotalIsSum
  <1> DEFINE Good(n) == h[n] = IF n < k THEN f[n] ELSE f[n] + 1
             Bad == {n \in 0 .. N : ~ Good(n)}
  <1>3. Bad = {}
    <2>1. SUFFICES ASSUME Bad # {} PROVE FALSE
      OBVIOUS
    <2>2. PICK j \in Bad : \A m \in Bad : j <= m
      <3>1. Bad \in SUBSET Nat
        OBVIOUS
      <3> HIDE DEF Bad
      <3> QED
        BY <2>1, <3>1, LeastOf
    <2>3. j \in 1 .. N /\ j - 1 \in 0 .. N /\ ~ (j <= j - 1)
      BY <1>1, <1>2, <2>2
    <2>4. Good(j - 1)
      BY <2>2, <2>3
    <2>5. /\ h[j] = h[j - 1] + H[j] /\ f[j] = f[j - 1] + G[j]
          /\ f[j] \in Nat /\ f[j - 1] \in Nat /\ G[j] \in Nat
      BY <1>1, <1>2, <2>3
    <2>6. CASE j < k
      BY <2>2, <2>3, <2>4, <2>5, <2>6
    <2>7. CASE j = k
      BY <2>2, <2>3, <2>4, <2>5, <2>7
    <2>8. CASE k < j
      <3>1. ~ (j - 1 < k) /\ H[j] = G[j] /\ ~ (j < k)
        BY <2>3, <2>8
      <3> QED
        BY <2>2, <2>3, <2>4, <2>5, <3>1
    <2> QED
      BY <2>3, <2>6, <2>7, <2>8
  <1>4. Good(N)
    <2>1. N \in 0 .. N
      OBVIOUS
    <2> HIDE DEF Good
    <2> QED
      BY <1>3, <2>1
  <1> QED
    BY <1>1, <1>2, <1>4

LEMMA TotalOfNothing ==
  ASSUME NEW N \in Nat, NEW G \in [1 .. N -> Nat], \A n \in 1 .. N : G[n] = 0
  PROVE  Total(G, N) = 0
PROOF
  <1>1. PICK f \in [0 .. N -> Nat] :
          /\ Total(G, N) = f[N] /\ f[0] = 0
          /\ \A n \in 1 .. N : f[n] = f[n - 1] + G[n]
    BY TotalIsSum
  <1> DEFINE Bad == {n \in 0 .. N : f[n] # 0}
  <1>2. Bad = {}
    <2>1. SUFFICES ASSUME Bad # {} PROVE FALSE
      OBVIOUS
    <2>2. PICK j \in Bad : \A m \in Bad : j <= m
      <3>1. Bad \in SUBSET Nat
        OBVIOUS
      <3> HIDE DEF Bad
      <3> QED
        BY <2>1, <3>1, LeastOf
    <2>3. j \in 1 .. N /\ j - 1 \in 0 .. N /\ ~ (j <= j - 1)
      BY <1>1, <2>2
    <2>4. f[j - 1] = 0 /\ f[j] = f[j - 1] + G[j] /\ G[j] = 0
      BY <1>1, <2>2, <2>3
    <2> QED
      BY <2>2, <2>4
  <1> QED
    BY <1>1, <1>2

\* The n-th sum of h is that of g d places on.
AlikeAt(h, g, n, d) == h[n] = g[n + d]

\* From a to b the sums of h are and grow as those of g d places on.
GrowAlike(h, g, a, b, d) ==
  /\ {a, b, d} \subseteq Nat /\ a <= b /\ h[a] = g[a + d]
  /\ \A n \in a + 1 .. b : \E x \in Nat : h[n] = h[n - 1] + x /\ g[n + d] = g[(n - 1) + d] + x

\* Two lists of sums that begin alike and grow alike end alike.
LEMMA SumsAgree ==
  ASSUME NEW a, NEW b, NEW d, NEW g, NEW h, GrowAlike(h, g, a, b, d)
  PROVE  AlikeAt(h, g, b, d)
PROOF
  <1>0. a \in Nat /\ b \in Nat /\ d \in Nat /\ a <= b /\ h[a] = g[a + d]
    BY DEF GrowAlike
  <1> DEFINE Bad == {n \in a .. b : h[n] # g[n + d]}
  <1>1. Bad = {}
    <2>1. SUFFICES ASSUME Bad # {} PROVE FALSE
      OBVIOUS
    <2>2. PICK j \in Bad : \A m \in Bad : j <= m
      <3>1. Bad \in SUBSET Nat
        BY <1>0
      <3> HIDE DEF Bad
      <3> QED
        BY <2>1, <3>1, LeastOf
    <2>3. j \in a + 1 .. b /\ j \in Nat
      BY <1>0
    <2>4. j - 1 \in a .. b /\ j - 1 < j /\ j - 1 \in Nat
      BY <1>0, <2>3
    <2>5. j - 1 \notin Bad
      <3> HIDE DEF Bad
      <3> QED
        BY <2>2, <2>3, <2>4
    <2>6. h[j - 1] = g[(j - 1) + d]
      BY <2>4, <2>5
    <2>7. h[j] = g[j + d]
      BY <2>3, <2>6 DEF GrowAlike
    <2> QED
      BY <2>2, <2>7
  <1> QED
    BY <1>0, <1>1 DEF AlikeAt

\* Nothing is lost when entries that count for nothing are cut out after p.
LEMMA TotalOfCut ==
  ASSUME NEW N \in Nat, NEW G \in [1 .. N -> Nat], NEW p \in 0 .. N, NEW f \in p + 1 .. N + 1,
         \A i \in p + 1 .. f - 1 : G[i] = 0,
         NEW M \in Nat, M = p + (N + 1 - f), NEW H \in [1 .. M -> Nat],
         \A i \in 1 .. p : H[i] = G[i],
         \A i \in p + 1 .. M : H[i] = G[i + (f - 1 - p)]
  PROVE  Total(H, M) = Total(G, N)
PROOF
  <1>1. PICK g \in [0 .. N -> Nat] :
          /\ Total(G, N) = g[N] /\ g[0] = 0
          /\ \A n \in 1 .. N : g[n] = g[n - 1] + G[n]
    BY TotalIsSum
  <1>2. PICK h \in [0 .. M -> Nat] :
          /\ Total(H, M) = h[M] /\ h[0] = 0
          /\ \A n \in 1 .. M : h[n] = h[n - 1] + H[n]
    BY TotalIsSum
  <1>3. h[p] = g[p]
    <2>1. \A n \in 0 + 1 .. p : \E x \in Nat :
            h[n] = h[n - 1] + x /\ g[n + 0] = g[(n - 1) + 0] + x
      <3> TAKE n \in 0 + 1 .. p
      <3>1. n \in 1 .. M /\ n \in 1 .. N /\ n + 0 = n /\ (n - 1) + 0 = n - 1
        OBVIOUS
      <3>2. H[n] \in Nat /\ H[n] = G[n]
        BY <3>1
      <3>3. h[n] = h[n - 1] + H[n] /\ g[n + 0] = g[(n - 1) + 0] + H[n]
        BY <1>1, <1>2, <3>1, <3>2
      <3> QED
        BY <3>2, <3>3
    <2>2. h[0] = g[0 + 0] /\ p + 0 = p /\ {0, p} \subseteq Nat /\ 0 <= p
      BY <1>1, <1>2
    <2>3. GrowAlike(h, g, 0, p, 0)
      BY <2>1, <2>2 DEF GrowAlike
    <2>4. h[p] = g[p + 0]
      <3>1. AlikeAt(h, g, p, 0)
        BY <2>3, SumsAgree
      <3> QED
        BY <3>1 DEF AlikeAt
    <2> QED
      BY <2>2, <2>4
  <1>4. g[p] = g[f - 1]
    <2> DEFINE k == [n \in 0 .. N |-> g[p]]
    <2>1. \A n \in p + 1 .. f - 1 : \E x \in Nat :
            k[n] = k[n - 1] + x /\ g[n + 0] = g[(n - 1) + 0] + x
      <3> TAKE n \in p + 1 .. f - 1
      <3>1. n \in 1 .. N /\ n - 1 \in 0 .. N /\ n + 0 = n /\ (n - 1) + 0 = n - 1 /\ n \in 0 .. N
        OBVIOUS
      <3>2. G[n] = 0 /\ g[p] \in Nat /\ g[n - 1] \in Nat
        BY <3>1
      <3>3. g[n] = g[n - 1] + G[n]
        BY <1>1, <3>1
      <3>4. k[n] = k[n - 1] + 0 /\ g[n + 0] = g[(n - 1) + 0] + 0
        BY <3>1, <3>2, <3>3
      <3> QED
        BY <3>4
    <2>2. k[p] = g[p + 0] /\ {p, f - 1, 0} \subseteq Nat /\ p <= f - 1 /\ (f - 1) + 0 = f - 1
      OBVIOUS
    <2>3. k[f - 1] = g[p]
      OBVIOUS
    <2> HIDE DEF k
    <2>4. GrowAlike(k, g, p, f - 1, 0)
      BY <2>1, <2>2 DEF GrowAlike
    <2>5. k[f - 1] = g[(f - 1) + 0]
      BY <2>4, SumsAgree DEF AlikeAt
    <2> QED
      BY <2>2, <2>3, <2>5
  <1>5. h[M] = g[N]
    <2> DEFINE d == f - 1 - p
    <2>1. d \in Nat /\ p + d = f - 1 /\ M + d = N /\ {p, M, d} \subseteq Nat /\ p <= M
      OBVIOUS
    <2>2. \A n \in p + 1 .. M : H[n] = G[n + d]
      OBVIOUS
    <2> HIDE DEF d
    <2>3. \A n \in p + 1 .. M : \E x \in Nat :
            h[n] = h[n - 1] + x /\ g[n + d] = g[(n - 1) + d] + x
      <3> TAKE n \in p + 1 .. M
      <3>1. n \in 1 .. M /\ n + d \in 1 .. N /\ (n - 1) + d = (n + d) - 1
        BY <2>1
      <3>2. H[n] \in Nat /\ H[n] = G[n + d]
        BY <2>2, <3>1
      <3>3. h[n] = h[n - 1] + H[n]
        BY <1>2, <3>1
      <3>4. g[n + d] = g[(n - 1) + d] + H[n]
        BY <1>1, <3>1, <3>2
      <3> QED
        BY <3>2, <3>3, <3>4
    <2>4. h[p] = g[p + d]
      BY <1>3, <1>4, <2>1
    <2>5. GrowAlike(h, g, p, M, d)
      BY <2>1, <2>3, <2>4 DEF GrowAlike
    <2>6. h[M] = g[M + d]
      <3>1. AlikeAt(h, g, M, d)
        BY <2>5, SumsAgree
      <3> QED
        BY <3>1 DEF AlikeAt
    <2> QED
      BY <2>1, <2>6
  <1> QED
    BY <1>1, <1>2, <1>5

-----------------------------------------------------------------------------
(* Sequences. *)

\* t is what is left of s at the places K, in their order.
LeavesOnly(t, s, K) ==
  \E g \in [1 .. Len(t) -> K] :
    /\ \A i \in 1 .. Len(t) : t[i] = s[g[i]]
    /\ \A i, j \in 1 .. Len(t) : i < j => g[i] < g[j]
    /\ \A n \in K : \E i \in 1 .. Len(t) : g[i] = n

\* One place is left out.
LEMMA OneRemoved ==
  ASSUME NEW S, NEW s \in Seq(S), NEW o \in 1 .. Len(s),
         NEW t, t = SubSeq(s, 1, o - 1) \o SubSeq(s, o + 1, Len(s))
  PROVE  t \in Seq(S) /\ Len(t) = Len(s) - 1 /\ LeavesOnly(t, s, (1 .. Len(s)) \ {o})
PROOF
  <1> DEFINE L == Len(s)
             a == SubSeq(s, 1, o - 1)
             b == SubSeq(s, o + 1, L)
             g == [i \in 1 .. L - 1 |-> IF i < o THEN i ELSE i + 1]
  <1>0. L \in Nat /\ o \in Nat /\ 1 <= o /\ o <= L
    OBVIOUS
  <1>1. a \in Seq(S) /\ Len(a) = o - 1 /\ \A i \in 1 .. o - 1 : a[i] = s[i]
    <2>1. \A i \in 1 .. o - 1 : s[i] \in S
      BY <1>0
    <2>2. /\ a \in Seq(S)
          /\ Len(a) = IF 1 <= o - 1 THEN (o - 1) - 1 + 1 ELSE 0
          /\ \A i \in 1 .. (o - 1) - 1 + 1 : a[i] = s[1 + i - 1]
      BY <1>0, <2>1, SubSeqProperties
    <2> HIDE DEF a, L
    <2>3. (o - 1) - 1 + 1 = o - 1 /\ \A i \in 1 .. o - 1 : 1 + i - 1 = i
      BY <1>0
    <2>4. Len(a) = o - 1
      <3> DEFINE la == Len(a)
      <3>1. la = IF 1 <= o - 1 THEN (o - 1) - 1 + 1 ELSE 0
        BY <2>2
      <3> HIDE DEF la
      <3>2. la = o - 1
        BY <1>0, <3>1
      <3> QED
        BY <3>2 DEF la
    <2> QED
      BY <2>2, <2>3, <2>4
  <1>2. b \in Seq(S) /\ Len(b) = L - o /\ \A i \in 1 .. L - o : b[i] = s[o + i]
    <2>1. \A i \in o + 1 .. L : s[i] \in S
      OBVIOUS
    <2>2. /\ b \in Seq(S)
          /\ Len(b) = IF o + 1 <= L THEN L - (o + 1) + 1 ELSE 0
          /\ \A i \in 1 .. L - (o + 1) + 1 : b[i] = s[o + 1 + i - 1]
      BY <1>0, <2>1, SubSeqProperties
    <2> HIDE DEF b, L
    <2>3. L - (o + 1) + 1 = L - o /\ \A i \in 1 .. L - o : o + 1 + i - 1 = o + i
      BY <1>0
    <2>4. Len(b) = L - o
      <3> DEFINE lb == Len(b)
      <3>1. lb = IF o + 1 <= L THEN L - (o + 1) + 1 ELSE 0
        BY <2>2
      <3> HIDE DEF lb
      <3>2. lb = L - o
        BY <1>0, <3>1
      <3> QED
        BY <3>2 DEF lb
    <2> QED
      BY <2>2, <2>3, <2>4
  <1>3. t = a \o b
    OBVIOUS
  <1> HIDE DEF a, b, L
  <1>4. /\ t \in Seq(S) /\ Len(t) = Len(a) + Len(b)
        /\ \A i \in 1 .. Len(a) + Len(b) :
             t[i] = IF i <= Len(a) THEN a[i] ELSE b[i - Len(a)]
    <2>1. /\ a \o b \in Seq(S) /\ Len(a \o b) = Len(a) + Len(b)
          /\ \A i \in 1 .. Len(a) + Len(b) :
               (a \o b)[i] = IF i <= Len(a) THEN a[i] ELSE b[i - Len(a)]
      BY ONLY <1>1, <1>2, ConcatProperties
    <2> QED
      BY ONLY <1>3, <2>1
  <1>5. Len(a) + Len(b) = L - 1
    BY <1>0, <1>1, <1>2
  <1>6. /\ g \in [1 .. L - 1 -> (1 .. L) \ {o}]
        /\ \A i, j \in 1 .. L - 1 : i < j => g[i] < g[j]
    BY <1>0
  <1>7. \A i \in 1 .. L - 1 : t[i] = s[g[i]]
    <2>1. SUFFICES ASSUME NEW i \in 1 .. L - 1 PROVE t[i] = s[g[i]]
      OBVIOUS
    <2>2. CASE i < o
      <3>1. i \in 1 .. o - 1 /\ g[i] = i /\ i <= Len(a)
        BY <1>0, <1>1, <2>1, <2>2
      <3> QED
        BY <1>1, <1>4, <1>5, <2>1, <3>1
    <2>3. CASE ~ (i < o)
      <3>1. g[i] = i + 1 /\ ~ (i <= o - 1)
        BY <1>0, <2>1, <2>3
      <3>2. i - (o - 1) \in 1 .. L - o /\ o + (i - (o - 1)) = i + 1
        BY <1>0, <2>1, <2>3
      <3>3. b[i - (o - 1)] = s[i + 1]
        BY <1>2, <3>2
      <3> QED
        BY <1>1, <1>4, <1>5, <2>1, <3>1, <3>3
    <2> QED
      BY <2>2, <2>3
  <1>8. \A n \in (1 .. L) \ {o} : \E i \in 1 .. L - 1 : g[i] = n
    <2>1. SUFFICES ASSUME NEW n \in (1 .. L) \ {o} PROVE \E i \in 1 .. L - 1 : g[i] = n
      OBVIOUS
    <2>2. CASE n < o
      <3>1. n \in 1 .. L - 1 /\ g[n] = n
        BY <1>0, <2>2
      <3> QED
        BY <3>1
    <2>3. CASE ~ (n < o)
      <3>1. n - 1 \in 1 .. L - 1 /\ ~ (n - 1 < o) /\ (n - 1) + 1 = n
        BY <1>0, <2>3
      <3>2. g[n - 1] = n
        BY <3>1
      <3> QED
        BY <3>1, <3>2
    <2> QED
      BY <2>2, <2>3
  <1>9. t \in Seq(S) /\ Len(t) = L - 1
    BY <1>4, <1>5
  <1> HIDE DEF g
  <1>10. LeavesOnly(t, s, (1 .. L) \ {o})
    <2> DEFINE W == (1 .. L) \ {o}
    <2>1. /\ g \in [1 .. Len(t) -> W]
          /\ \A i \in 1 .. Len(t) : t[i] = s[g[i]]
          /\ \A i, j \in 1 .. Len(t) : i < j => g[i] < g[j]
          /\ \A n \in W : \E i \in 1 .. Len(t) : g[i] = n
      BY <1>6, <1>7, <1>8, <1>9
    <2> HIDE DEF W
    <2>2. LeavesOnly(t, s, W)
      BY ONLY <2>1 DEF LeavesOnly
    <2> QED
      BY <2>2 DEF W
  <1> QED
    BY <1>9, <1>10 DEF L

\* Several are.
LEMMA SomeLeft ==
  ASSUME NEW S, NEW s \in Seq(S), NEW K \in SUBSET (1 .. Len(s))
  PROVE  Left(s, K) \in Seq(S) /\ LeavesOnly(Left(s, K), s, K)
PROOF
  <1> DEFINE N == Len(s)
             T == Seq(S)
             G == [x \in (1 .. N) \X T |-> IF x[1] \in K THEN Append(x[2], s[x[1]]) ELSE x[2]]
             Def(f) == f = [n \in 0 .. N |->
                              IF n = 0 THEN << >>
                              ELSE IF n \in K THEN Append(f[n - 1], s[n]) ELSE f[n - 1]]
  <1>0. N \in Nat /\ << >> \in T /\ \A n \in 1 .. N : s[n] \in S
    OBVIOUS
  <1>1. G \in [(1 .. N) \X T -> T]
    <2>1. SUFFICES ASSUME NEW x \in (1 .. N) \X T
                   PROVE  (IF x[1] \in K THEN Append(x[2], s[x[1]]) ELSE x[2]) \in T
      OBVIOUS
    <2>2. PICK n \in 1 .. N, t \in Seq(S) : x[1] = n /\ x[2] = t
      BY <2>1
    <2>3. Append(t, s[n]) \in Seq(S)
      BY <1>0, <2>2
    <2> QED
      BY <2>2, <2>3
  <1>2. PICK f \in [0 .. N -> T] :
          f[0] = << >> /\ \A n \in 1 .. N : f[n] = G[<<n, f[n - 1]>>]
    <2> DEFINE base == << >>
    <2>1. base \in T /\ StepsOn(G, N, T)
      BY <1>0, <1>1 DEF StepsOn
    <2> HIDE DEF G, N, T, base
    <2>2. \E f : Recursive(f, N, T, base, G)
      BY ONLY <2>1, Recursion
    <2>3. PICK f : Recursive(f, N, T, base, G)
      BY <2>2
    <2>4. f \in [0 .. N -> T] /\ f[0] = base /\ \A n \in 1 .. N : f[n] = G[<<n, f[n - 1]>>]
      BY <2>3 DEF Recursive
    <2> QED
      BY <2>4 DEF base
  <1>3. \A n \in 1 .. N :
          G[<<n, f[n - 1]>>] = IF n \in K THEN Append(f[n - 1], s[n]) ELSE f[n - 1]
    <2>1. SUFFICES ASSUME NEW n \in 1 .. N
                   PROVE  G[<<n, f[n - 1]>>]
                            = IF n \in K THEN Append(f[n - 1], s[n]) ELSE f[n - 1]
      OBVIOUS
    <2>2. n - 1 \in 0 .. N /\ f[n - 1] \in T
      <3> HIDE DEF G, T, Def, N
      <3> QED
        BY <1>0
    <2>3. <<n, f[n - 1]>> \in (1 .. N) \X T
      BY <2>2
    <2> QED
      BY <2>3
  <1>4. f \in [0 .. N -> T] /\ Def(f)
    <2> HIDE DEF G, N, T
    <2>1. \A n \in 0 .. N :
            f[n] = IF n = 0 THEN << >>
                   ELSE IF n \in K THEN Append(f[n - 1], s[n]) ELSE f[n - 1]
      <3>1. SUFFICES ASSUME NEW n \in 0 .. N
                     PROVE  f[n] = IF n = 0 THEN << >>
                                   ELSE IF n \in K THEN Append(f[n - 1], s[n]) ELSE f[n - 1]
        OBVIOUS
      <3>2. CASE n = 0
        BY <1>2, <3>2
      <3>3. CASE n # 0
        <4>1. n \in 1 .. N
          BY <1>0, <3>3
        <4>2. f[n] = G[<<n, f[n - 1]>>]
          BY <1>2, <4>1
        <4>3. G[<<n, f[n - 1]>>] = IF n \in K THEN Append(f[n - 1], s[n]) ELSE f[n - 1]
          BY <1>3, <4>1
        <4> QED
          BY ONLY <3>3, <4>2, <4>3
      <3> QED
        BY <3>2, <3>3
    <2> QED
      BY ONLY <2>1, f \in [0 .. N -> T] DEF Def
  <1> HIDE DEF G
  <1> DEFINE h == CHOOSE h : Def(h)
  <1>5. Def(h)
    BY <1>4
  <1>6. Left(s, K) = h[N]
    BY DEF Left
  <1> HIDE DEF h
  <1>7. h[0] = << >>
        /\ \A n \in 1 .. N : h[n] = IF n \in K THEN Append(h[n - 1], s[n]) ELSE h[n - 1]
    <2> HIDE DEF N, T
    <2>1. \A n \in 0 .. N :
            h[n] = IF n = 0 THEN << >>
                   ELSE IF n \in K THEN Append(h[n - 1], s[n]) ELSE h[n - 1]
      BY ONLY <1>5 DEF Def
    <2>2. 0 \in 0 .. N /\ \A n \in 1 .. N : n \in 0 .. N /\ n # 0
      BY <1>0
    <2> QED
      BY ONLY <2>1, <2>2
  <1> HIDE DEF Def
  <1> DEFINE Good(n) == h[n] \in Seq(S) /\ LeavesOnly(h[n], s, K \cap (1 .. n))
             Bad == {n \in 0 .. N : ~ Good(n)}
  <1>8. Good(0)
    <2>1. Len(h[0]) = 0 /\ h[0] \in Seq(S) /\ 1 .. 0 = {}
      BY <1>7
    <2> QED
      BY <2>1 DEF LeavesOnly
  <1>9. ASSUME NEW n \in 1 .. N, Good(n - 1) PROVE Good(n)
    <2> DEFINE u == h[n - 1]
               v == h[n]
    <2>1. u \in Seq(S) /\ Len(u) \in Nat /\ n \in Nat /\ n >= 1
      BY <1>0, <1>9
    <2>2. v = IF n \in K THEN Append(u, s[n]) ELSE u
      BY <1>7
    <2>3. PICK g \in [1 .. Len(u) -> K \cap (1 .. n - 1)] :
            /\ \A i \in 1 .. Len(u) : u[i] = s[g[i]]
            /\ \A i, j \in 1 .. Len(u) : i < j => g[i] < g[j]
            /\ \A m \in K \cap (1 .. n - 1) : \E i \in 1 .. Len(u) : g[i] = m
      BY <1>9 DEF LeavesOnly
    <2> HIDE DEF u, v, N
    <2>4. CASE n \notin K
      <3>1. K \cap (1 .. n) = K \cap (1 .. n - 1) /\ v = u
        BY <2>1, <2>2, <2>4
      <3> QED
        BY <1>9, <3>1 DEF u, v
    <2>5. CASE n \in K
      <3> DEFINE l == Len(u)
                 k == [i \in 1 .. l + 1 |-> IF i = l + 1 THEN n ELSE g[i]]
      <3>1. /\ v \in Seq(S) /\ Len(v) = l + 1 /\ v[l + 1] = s[n]
            /\ \A i \in 1 .. l : v[i] = u[i]
        BY <1>0, <2>1, <2>2, <2>5
      <3> HIDE DEF l
      <3>2. l \in Nat
        BY <2>1 DEF l
      <3>3. \A i \in 1 .. l : g[i] \in K /\ g[i] \in 1 .. n - 1 /\ g[i] \in 1 .. n /\ g[i] < n
        BY <2>1, <2>3 DEF l
      <3>4. /\ k \in [1 .. l + 1 -> K \cap (1 .. n)]
            /\ k[l + 1] = n /\ \A i \in 1 .. l : k[i] = g[i]
        BY <2>1, <2>5, <3>2, <3>3
      <3> HIDE DEF k
      <3>5. \A i \in 1 .. l + 1 : v[i] = s[k[i]]
        <4>1. SUFFICES ASSUME NEW i \in 1 .. l + 1 PROVE v[i] = s[k[i]]
          OBVIOUS
        <4>2. i \in 1 .. l \/ i = l + 1
          BY <3>2
        <4> QED
          BY <2>3, <3>1, <3>4, <4>2 DEF l
      <3>6. \A i, j \in 1 .. l + 1 : i < j => k[i] < k[j]
        <4>1. SUFFICES ASSUME NEW i \in 1 .. l + 1, NEW j \in 1 .. l + 1, i < j
                       PROVE  k[i] < k[j]
          OBVIOUS
        <4>2. i \in 1 .. l /\ (j \in 1 .. l \/ j = l + 1)
          BY <3>2, <4>1
        <4> QED
          BY <2>3, <3>3, <3>4, <4>1, <4>2 DEF l
      <3>7. \A m \in K \cap (1 .. n) : \E i \in 1 .. l + 1 : k[i] = m
        <4>1. SUFFICES ASSUME NEW m \in K \cap (1 .. n) PROVE \E i \in 1 .. l + 1 : k[i] = m
          OBVIOUS
        <4>2. CASE m = n
          BY <3>2, <3>4, <4>2
        <4>3. CASE m # n
          <5>1. m \in K \cap (1 .. n - 1)
            BY <2>1, <4>3
          <5>2. PICK i \in 1 .. l : g[i] = m
            BY <2>3, <5>1 DEF l
          <5> QED
            BY <3>2, <3>4, <5>2
        <4> QED
          BY <4>2, <4>3
      <3>8. LeavesOnly(v, s, K \cap (1 .. n))
        <4> DEFINE W == K \cap (1 .. n)
        <4>1. /\ k \in [1 .. Len(v) -> W]
              /\ \A i \in 1 .. Len(v) : v[i] = s[k[i]]
              /\ \A i, j \in 1 .. Len(v) : i < j => k[i] < k[j]
              /\ \A m \in W : \E i \in 1 .. Len(v) : k[i] = m
          BY <3>1, <3>4, <3>5, <3>6, <3>7
        <4> HIDE DEF W, T, Good, Bad
        <4>2. LeavesOnly(v, s, W)
          BY <4>1 DEF LeavesOnly
        <4> QED
          BY <4>2 DEF W
      <3> QED
        BY <3>1, <3>8 DEF v
    <2> QED
      BY <2>4, <2>5
  <1> HIDE DEF Good
  <1>10. Bad = {}
    <2>1. SUFFICES ASSUME Bad # {} PROVE FALSE
      OBVIOUS
    <2>0. Bad \in SUBSET Nat
      OBVIOUS
    <2>2. PICK k \in Bad : \A m \in Bad : k <= m
      BY <2>0, <2>1, LeastOf
    <2>3. k \in 1 .. N /\ k - 1 \in 0 .. N /\ ~ (k <= k - 1)
      BY <1>0, <1>8, <2>2
    <2>4. Good(k - 1)
      BY <2>2, <2>3
    <2> QED
      BY <1>9, <2>2, <2>3, <2>4
  <1>11. Good(N)
    BY <1>0, <1>10
  <1>12. K \cap (1 .. N) = K
    OBVIOUS
  <1> QED
    BY <1>6, <1>11, <1>12 DEF Good
=============================================================================
