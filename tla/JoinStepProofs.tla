--------------------------- MODULE JoinStepProofs ---------------------------
(***************************************************************************)
(* For every table and every query: the rows of a join step are of the     *)
(* types they should be, WHERE is applied before LIMIT, and, for the joins *)
(* the engine makes as SQL does, a join returns every row as often as SQL  *)
(* says.                                                                   *)
(***************************************************************************)
EXTENDS JoinStep, Integers, FiniteSetTheorems, WellFoundedInduction, TLAPS

-----------------------------------------------------------------------------
(* Numbers: every set of numbers has a least one, and the places of a      *)
(* product of two lists are the pairs of their places.                     *)

LEMMA BelowIsWellFounded ==
  IsWellFoundedOn({p \in Nat \X Nat : p[1] < p[2]}, Nat)
BY NatLessThanWellFounded DEF OpToRel

LEMMA LeastNumber ==
  ASSUME NEW T \in SUBSET Nat, T # {}
  PROVE  \E x \in T : \A y \in T : x <= y
<1> DEFINE R == {p \in Nat \X Nat : p[1] < p[2]}
<1>1. PICK x \in T : \A y \in T : ~ (<<y, x>> \in R)
  <2> HIDE DEF R
  <2> IsWellFoundedOn(R, Nat)
    BY BelowIsWellFounded DEF R
  <2> QED BY WFMin
<1>2. ASSUME NEW y \in T PROVE x <= y
  <2>1. <<y, x>> \notin R
    BY <1>1
  <2>2. x \in Nat /\ y \in Nat
    OBVIOUS
  <2>3. ~(y < x)
    BY <2>1, <2>2
  <2> QED BY <2>2, <2>3
<1> QED BY <1>2

(* What holds of 0 and, if of n - 1, then of n, holds up to N.             *)
LEMMA UpTo ==
  ASSUME NEW N \in Nat, NEW P, 0 \in P, \A n \in 1..N : n - 1 \in P => n \in P
  PROVE  \A n \in 0..N : n \in P
<1> DEFINE T == {n \in 0..N : n \notin P}
<1>1. SUFFICES ASSUME T # {} PROVE FALSE
  OBVIOUS
<1>2. T \in SUBSET Nat
  OBVIOUS
<1>3. PICK x \in T : \A y \in T : x <= y
  <2> HIDE DEF T
  <2> QED BY <1>1, <1>2, LeastNumber
<1>4. x # 0 /\ x \in 0..N /\ x \notin P
  OBVIOUS
<1>5. x - 1 \in 0..N /\ x \in 1..N /\ ~(x <= x - 1)
  BY <1>4
<1>6. x - 1 \in P
  BY <1>3, <1>5
<1> QED BY <1>4, <1>5, <1>6

Recursive(g, N, S, s0, next) ==
  g \in [0..N -> S] /\ g[0] = s0 /\ \A n \in 1..N : g[n] = next[<<n, g[n - 1]>>]

(* Recursion up to N defines a function.                                   *)
LEMMA Recursion ==
  ASSUME NEW N \in Nat, NEW S, NEW s0 \in S, NEW next \in [(1..N) \X S -> S]
  PROVE  \E g : Recursive(g, N, S, s0, next)
<1> USE DEF Recursive
<1> DEFINE Def(g, m) == Recursive(g, m, S, s0, next)
           P == {m \in 0..N : \E g : Def(g, m)}
<1>1. 0 \in P
  <2> DEFINE f == [n \in 0..0 |-> s0]
  <2>1. Def(f, 0)
    OBVIOUS
  <2>2. \E g : Def(g, 0)
    <3> HIDE DEF f, Def
    <3> QED BY <2>1
  <2>3. 0 \in 0..N
    OBVIOUS
  <2> QED BY <2>2, <2>3
<1>2. ASSUME NEW m \in 1..N, m - 1 \in P PROVE m \in P
  <2>1. PICK g : Def(g, m - 1)
    BY <1>2
  <2> DEFINE f == [n \in 0..m |-> IF n = m THEN next[<<m, g[m - 1]>>] ELSE g[n]]
  <2>2. g[m - 1] \in S
    BY <2>1
  <2>3. f \in [0..m -> S]
    <3>1. next[<<m, g[m - 1]>>] \in S
      BY <2>2
    <3>2. ASSUME NEW n \in 0..m, n # m PROVE g[n] \in S
      <4>1. n \in 0..(m - 1)
        BY <3>2
      <4> QED BY <2>1, <4>1
    <3> QED BY <3>1, <3>2
  <2>4. f[0] = s0
    BY <2>1
  <2>5. ASSUME NEW n \in 1..m PROVE f[n] = next[<<n, f[n - 1]>>]
    <3>1. n - 1 \in 0..m /\ n - 1 # m
      OBVIOUS
    <3>2. f[n - 1] = g[n - 1]
      BY <3>1
    <3>3. CASE n = m
      BY <3>2, <3>3, SMTT(60)
    <3>4. CASE n # m
      <4>1. n \in 1..(m - 1) /\ f[n] = g[n]
        BY <3>4
      <4> QED BY <2>1, <3>2, <4>1
    <3> QED BY <3>3, <3>4
  <2>6. Def(f, m)
    BY <2>3, <2>4, <2>5
  <2>7. \E h : Def(h, m)
    <3> HIDE DEF f, Def
    <3> QED BY <2>6
  <2>8. m \in 0..N
    OBVIOUS
  <2> QED BY <2>7, <2>8
<1>3. \A n \in 0..N : n \in P
  <2> HIDE DEF P
  <2> QED BY <1>1, <1>2, UpTo
<1>4. N \in 0..N
  OBVIOUS
<1>5. PICK g : Def(g, N)
  BY <1>3, <1>4
<1> QED BY <1>5

LEMMA Division ==
  ASSUME NEW a \in Nat, NEW L \in Nat, L > 0
  PROVE  a \div L \in Nat /\ a % L \in 0..(L - 1) /\ a = L * (a \div L) + (a % L)
OBVIOUS

LEMMA TimesGrows ==
  ASSUME NEW L \in Nat, NEW p \in Nat, NEW q \in Nat, p < q
  PROVE  L * p + L <= L * q
OBVIOUS

LEMMA DivisionIsUnique ==
  ASSUME NEW L \in Nat, NEW p \in Nat, NEW q \in Nat, NEW r \in 0..(L - 1), NEW s \in 0..(L - 1),
         L * p + r = L * q + s
  PROVE  p = q /\ r = s
<1>1. ~(p < q) /\ ~(q < p)
  <2>1. L * p \in Nat /\ L * q \in Nat
    OBVIOUS
  <2> QED BY TimesGrows, <2>1
<1>2. p = q
  BY <1>1
<1>3. L * p = L * q
  BY <1>2
<1>4. L * p \in Nat
  OBVIOUS
<1> QED BY <1>2, <1>3, <1>4

LEMMA PlaceInProduct ==
  ASSUME NEW K \in Nat, NEW L \in Nat, NEW q \in 0..(K - 1), NEW r \in 0..(L - 1)
  PROVE  L * q + r + 1 \in 1..(K * L)
<1>1. L * q + L <= L * K
  BY TimesGrows
<1>2. L * q \in Nat /\ L * K = K * L
  OBVIOUS
<1> QED BY <1>1, <1>2

LEMMA PlacesOfProduct ==
  ASSUME NEW K \in Nat, NEW L \in Nat, NEW n \in 1..(K * L)
  PROVE  L > 0 /\ (n - 1) \div L \in 0..(K - 1) /\ (n - 1) % L \in 0..(L - 1)
<1>1. L > 0
  <2>1. L = 0 => K * L = 0
    OBVIOUS
  <2> QED BY <2>1
<1> DEFINE q == (n - 1) \div L
<1>2. q \in Nat /\ n - 1 = L * q + ((n - 1) % L) /\ (n - 1) % L \in 0..(L - 1)
  BY Division, <1>1
<1> HIDE DEF q
<1>3. SUFFICES ASSUME q >= K PROVE FALSE
  BY <1>1, <1>2 DEF q
<1>4. L * K <= L * q
  BY <1>2, <1>3, TimesGrows
<1>5. L * q \in Nat /\ L * K = K * L
  BY <1>2
<1> QED BY <1>2, <1>4, <1>5

-----------------------------------------------------------------------------
(* Lists: `rows` holds the row F[x] of every x of S, once for each x.      *)

IsListing(g, rows, S, F) ==
  /\ g \in [DOMAIN rows -> S]
  /\ \A m, n \in DOMAIN rows : g[m] = g[n] => m = n
  /\ \A x \in S : \E n \in DOMAIN rows : g[n] = x
  /\ \A n \in DOMAIN rows : rows[n] = F[g[n]]

Lists(rows, S, F) == \E g : IsListing(g, rows, S, F)

LEMMA PlacesOfList ==
  ASSUME NEW R, NEW rows \in Seq(R)
  PROVE  Len(rows) \in Nat /\ DOMAIN rows = 1..Len(rows)
OBVIOUS

LEMMA RowOfList ==
  ASSUME NEW R, NEW rows \in Seq(R), NEW n \in 1..Len(rows)
  PROVE  rows[n] \in R
OBVIOUS

LEMMA FunctionIsList ==
  ASSUME NEW R, NEW N \in Nat, NEW f \in [1..N -> R]
  PROVE  f \in Seq(R)
OBVIOUS

LEMMA EmptyList ==
  ASSUME NEW F
  PROVE  Lists(<<>>, {}, F)
<1> DEFINE g == [n \in {} |-> 0]
<1>1. DOMAIN <<>> = {}
  OBVIOUS
<1>2. IsListing(g, <<>>, {}, F)
  BY <1>1 DEF IsListing
<1> HIDE DEF g
<1> QED BY <1>2 DEF Lists

LEMMA ListOfNothing ==
  ASSUME NEW R, NEW rows \in Seq(R), NEW S, NEW F, Lists(rows, S, F)
  PROVE  rows = <<>> <=> S = {}
<1>1. PICK g : IsListing(g, rows, S, F)
  BY DEF Lists
<1>2. DOMAIN rows = 1..Len(rows) /\ Len(rows) \in Nat
  OBVIOUS
<1>3. ASSUME S = {} PROVE rows = <<>>
  <2>1. \A n \in 1..Len(rows) : g[n] \in S
    BY <1>1, <1>2 DEF IsListing
  <2>2. Len(rows) = 0
    <3>1. Len(rows) > 0 => 1 \in 1..Len(rows)
      BY <1>2
    <3> QED BY <1>2, <1>3, <2>1, <3>1
  <2> QED BY <2>2
<1>4. ASSUME rows = <<>>, NEW x \in S PROVE FALSE
  <2>1. DOMAIN rows = {}
    BY <1>4
  <2> QED BY <1>1, <2>1 DEF IsListing
<1> QED BY <1>3, <1>4

LEMMA ListOfOne ==
  ASSUME NEW x, NEW F
  PROVE  Lists(<<F[x]>>, {x}, F)
<1> DEFINE rows == <<F[x]>>
           g == [n \in 1..1 |-> x]
<1>1. DOMAIN rows = 1..1 /\ rows[1] = F[x]
  OBVIOUS
<1>2. \A m, n \in 1..1 : m = n /\ m = 1
  OBVIOUS
<1>3. IsListing(g, rows, {x}, F)
  <2> HIDE DEF rows
  <2> QED BY <1>1, <1>2 DEF IsListing
<1> HIDE DEF g
<1> QED BY <1>3 DEF Lists

LEMMA ListsTogether ==
  ASSUME NEW R, NEW r \in Seq(R), NEW s \in Seq(R), NEW S, NEW T, NEW F,
         Lists(r, S, F), Lists(s, T, F), S \cap T = {}
  PROVE  Lists(r \o s, S \union T, F)
<1>1. PICK g : IsListing(g, r, S, F)
  BY DEF Lists
<1>2. PICK h : IsListing(h, s, T, F)
  BY DEF Lists
<1> DEFINE K == Len(r)
           both == r \o s
           N == K + Len(s)
           f == [n \in 1..N |-> IF n <= K THEN g[n] ELSE h[n - K]]
<1>3. /\ K \in Nat /\ Len(s) \in Nat /\ N \in Nat
      /\ DOMAIN r = 1..K /\ DOMAIN s = 1..Len(s) /\ DOMAIN both = 1..N
      /\ \A n \in 1..N : both[n] = IF n <= K THEN r[n] ELSE s[n - K]
  OBVIOUS
<1>4. \A n \in 1..N : IF n <= K THEN n \in 1..K ELSE n - K \in 1..Len(s)
  BY <1>3
<1> HIDE DEF K, both
<1>5. f \in [1..N -> S \union T]
  <2>1. ASSUME NEW n \in 1..N PROVE IF n <= K THEN g[n] \in S ELSE h[n - K] \in T
    BY <1>1, <1>2, <1>3, <1>4 DEF IsListing
  <2> QED BY <2>1
<1>6. ASSUME NEW m \in 1..N, NEW n \in 1..N, f[m] = f[n] PROVE m = n
  <2>1. CASE m <= K /\ n <= K
    <3>1. m \in 1..K /\ n \in 1..K /\ g[m] = g[n]
      BY <1>4, <1>6, <2>1
    <3> QED BY <1>1, <1>3, <3>1 DEF IsListing
  <2>2. CASE ~(m <= K) /\ ~(n <= K)
    <3>1. m - K \in 1..Len(s) /\ n - K \in 1..Len(s) /\ h[m - K] = h[n - K]
      BY <1>4, <1>6, <2>2
    <3>2. m - K = n - K
      BY <1>2, <1>3, <3>1 DEF IsListing
    <3> QED BY <1>3, <3>2
  <2>3. CASE m <= K /\ ~(n <= K)
    <3>1. m \in 1..K /\ n - K \in 1..Len(s) /\ g[m] = h[n - K]
      BY <1>4, <1>6, <2>3
    <3>2. g[m] \in S /\ h[n - K] \in T
      BY <1>1, <1>2, <1>3, <3>1 DEF IsListing
    <3> QED BY <3>1, <3>2
  <2>4. CASE ~(m <= K) /\ n <= K
    <3>1. n \in 1..K /\ m - K \in 1..Len(s) /\ g[n] = h[m - K]
      BY <1>4, <1>6, <2>4
    <3>2. g[n] \in S /\ h[m - K] \in T
      BY <1>1, <1>2, <1>3, <3>1 DEF IsListing
    <3> QED BY <3>1, <3>2
  <2> QED BY <2>1, <2>2, <2>3, <2>4
<1>7. ASSUME NEW x \in S \union T PROVE \E n \in 1..N : f[n] = x
  <2>1. CASE x \in S
    <3>1. PICK n \in 1..K : g[n] = x
      BY <1>1, <1>3, <2>1 DEF IsListing
    <3>2. n \in 1..N /\ n <= K
      BY <1>3
    <3> QED BY <3>1, <3>2
  <2>2. CASE x \in T
    <3>1. PICK n \in 1..Len(s) : h[n] = x
      BY <1>2, <1>3, <2>2 DEF IsListing
    <3>2. K + n \in 1..N /\ ~(K + n <= K) /\ (K + n) - K = n
      BY <1>3
    <3>3. f[K + n] = h[n]
      BY <3>2
    <3> QED BY <3>1, <3>2, <3>3
  <2> QED BY <2>1, <2>2
<1>8. ASSUME NEW n \in 1..N PROVE both[n] = F[f[n]]
  <2>1. CASE n <= K
    <3>1. n \in 1..K
      BY <1>4, <2>1
    <3> QED BY <1>1, <1>3, <2>1, <3>1 DEF IsListing
  <2>2. CASE ~(n <= K)
    <3>1. n - K \in 1..Len(s)
      BY <1>4, <2>2
    <3> QED BY <1>2, <1>3, <2>2, <3>1 DEF IsListing
  <2> QED BY <2>1, <2>2
<1>9. IsListing(f, both, S \union T, F)
  <2> HIDE DEF f, N
  <2> QED BY <1>3, <1>5, <1>6, <1>7, <1>8 DEF IsListing
<1>10. \E l : IsListing(l, both, S \union T, F)
  <2> HIDE DEF f
  <2> QED BY <1>9
<1> QED BY <1>10 DEF Lists, both

LEMMA ListOneMore ==
  ASSUME NEW R, NEW r \in Seq(R), NEW S, NEW F, NEW x, x \notin S, F[x] \in R,
         Lists(r, S, F)
  PROVE  Lists(Append(r, F[x]), S \union {x}, F)
<1>1. <<F[x]>> \in Seq(R)
  OBVIOUS
<1>2. Append(r, F[x]) = r \o <<F[x]>>
  OBVIOUS
<1>3. S \cap {x} = {}
  OBVIOUS
<1>4. Lists(<<F[x]>>, {x}, F)
  BY ListOfOne
<1>5. Lists(r \o <<F[x]>>, S \union {x}, F)
  <2> DEFINE s == <<F[x]>>
             T == {x}
  <2>1. s \in Seq(R) /\ S \cap T = {} /\ Lists(s, T, F)
    BY <1>1, <1>3, <1>4
  <2> HIDE DEF s, T
  <2>2. Lists(r \o s, S \union T, F)
    BY <2>1, ListsTogether
  <2> QED BY <2>2 DEF s, T
<1> QED BY <1>2, <1>5

Concatenates(H, S, T, F, G) == \A x \in S, y \in T : H[<<x, y>>] = F[x] \o G[y]

LEMMA ListsOfPairs ==
  ASSUME NEW Q, NEW R, NEW as \in Seq(Q), NEW bs \in Seq(R), NEW S, NEW T, NEW F, NEW G, NEW H,
         Lists(as, S, F), Lists(bs, T, G), Concatenates(H, S, T, F, G)
  PROVE  Lists(Product(as, bs), S \X T, H)
<1>1. PICK g : IsListing(g, as, S, F)
  BY DEF Lists
<1>2. PICK h : IsListing(h, bs, T, G)
  BY DEF Lists
<1> DEFINE K == Len(as)
           L == Len(bs)
           rows == Product(as, bs)
           q(n) == (n - 1) \div L
           r(n) == (n - 1) % L
           l == [n \in 1..(K * L) |-> <<g[q(n) + 1], h[r(n) + 1]>>]
<1>3. K \in Nat /\ L \in Nat /\ DOMAIN as = 1..K /\ DOMAIN bs = 1..L
  BY PlacesOfList
<1>4. /\ DOMAIN rows = 1..(K * L)
      /\ \A n \in 1..(K * L) : rows[n] = as[q(n) + 1] \o bs[r(n) + 1]
  BY DEF Product
<1> HIDE DEF K, L, rows
<1>5. ASSUME NEW n \in 1..(K * L)
      PROVE  /\ L > 0 /\ q(n) \in 0..(K - 1) /\ r(n) \in 0..(L - 1)
             /\ n - 1 = L * q(n) + r(n)
             /\ q(n) + 1 \in 1..K /\ r(n) + 1 \in 1..L
  <2>1. L > 0 /\ q(n) \in 0..(K - 1) /\ r(n) \in 0..(L - 1)
    BY <1>3, PlacesOfProduct
  <2>2. n - 1 \in Nat
    BY <1>3
  <2>3. n - 1 = L * q(n) + r(n)
    BY <1>3, <2>1, <2>2, Division
  <2>4. \A i \in 0..(K - 1) : i + 1 \in 1..K
    BY <1>3
  <2>5. \A i \in 0..(L - 1) : i + 1 \in 1..L
    BY <1>3
  <2> HIDE DEF q, r
  <2> QED BY <2>1, <2>3, <2>4, <2>5
<1> HIDE DEF q, r
<1>6. ASSUME NEW n \in 1..(K * L) PROVE g[q(n) + 1] \in S /\ h[r(n) + 1] \in T
  BY <1>1, <1>2, <1>3, <1>5 DEF IsListing
<1>7. l \in [1..(K * L) -> S \X T]
  BY <1>6
<1>8. ASSUME NEW m \in 1..(K * L), NEW n \in 1..(K * L), l[m] = l[n] PROVE m = n
  <2>1. g[q(m) + 1] = g[q(n) + 1] /\ h[r(m) + 1] = h[r(n) + 1]
    BY <1>8
  <2>2. q(m) + 1 = q(n) + 1 /\ r(m) + 1 = r(n) + 1
    BY <1>1, <1>2, <1>3, <1>5, <2>1 DEF IsListing
  <2>3. q(m) = q(n) /\ r(m) = r(n)
    <3>1. q(m) \in Int /\ q(n) \in Int /\ r(m) \in Int /\ r(n) \in Int
      BY <1>3, <1>5
    <3> QED BY <2>2, <3>1
  <2>4. m - 1 = n - 1
    BY <1>5, <2>3
  <2>5. m \in Int /\ n \in Int
    BY <1>3
  <2> QED BY <2>4, <2>5
<1>9. ASSUME NEW x \in S, NEW y \in T PROVE \E n \in 1..(K * L) : l[n] = <<x, y>>
  <2>1. PICK i \in 1..K : g[i] = x
    BY <1>1, <1>3 DEF IsListing
  <2>2. PICK j \in 1..L : h[j] = y
    BY <1>2, <1>3 DEF IsListing
  <2> DEFINE n == L * (i - 1) + (j - 1) + 1
  <2>3. i - 1 \in 0..(K - 1) /\ j - 1 \in 0..(L - 1) /\ i - 1 \in Nat
    BY <1>3
  <2>4. n \in 1..(K * L)
    BY <1>3, <2>3, PlaceInProduct
  <2>5. n - 1 = L * (i - 1) + (j - 1)
    <3>1. L * (i - 1) \in Nat
      BY <1>3, <2>3
    <3> QED BY <2>3, <3>1
  <2> HIDE DEF n
  <2>6. L * q(n) + r(n) = L * (i - 1) + (j - 1)
    BY <1>5, <2>4, <2>5
  <2>7. q(n) = i - 1 /\ r(n) = j - 1
    <3>1. q(n) \in Nat /\ r(n) \in 0..(L - 1)
      BY <1>3, <1>5, <2>4
    <3> DEFINE a == i - 1
               b == j - 1
               qn == q(n)
               rn == r(n)
    <3>2. /\ a \in Nat /\ b \in 0..(L - 1) /\ qn \in Nat /\ rn \in 0..(L - 1)
          /\ L * qn + rn = L * a + b
      BY <2>3, <2>6, <3>1
    <3> HIDE DEF a, b, qn, rn
    <3>3. qn = a /\ rn = b
      BY <1>3, <3>2, DivisionIsUnique
    <3> QED BY <3>3 DEF a, b, qn, rn
  <2>8. (i - 1) + 1 = i /\ (j - 1) + 1 = j
    BY <1>3
  <2> QED BY <2>1, <2>2, <2>4, <2>7, <2>8
<1>10. ASSUME NEW n \in 1..(K * L) PROVE rows[n] = H[l[n]]
  <2>1. as[q(n) + 1] = F[g[q(n) + 1]] /\ bs[r(n) + 1] = G[h[r(n) + 1]]
    BY <1>1, <1>2, <1>3, <1>5 DEF IsListing
  <2> QED BY <1>4, <1>6, <2>1 DEF Concatenates
<1>11. IsListing(l, rows, S \X T, H)
  <2>1. ASSUME NEW p \in S \X T PROVE \E n \in 1..(K * L) : l[n] = p
    <3>1. p = <<p[1], p[2]>> /\ p[1] \in S /\ p[2] \in T
      OBVIOUS
    <3> HIDE DEF l
    <3> QED BY <1>9, <3>1
  <2> HIDE DEF l
  <2> QED BY <1>4, <1>7, <1>8, <1>10, <2>1 DEF IsListing
<1>12. \E k : IsListing(k, rows, S \X T, H)
  <2> HIDE DEF l
  <2> QED BY <1>11
<1> QED BY <1>12 DEF Lists, rows

-----------------------------------------------------------------------------
(* Filtering                                                               *)

LEMMA KeptStepByStep ==
  ASSUME NEW R, NEW rows \in Seq(R), NEW c
  PROVE  /\ KeptOf(c, rows) \in [0..Len(rows) -> Seq(R)]
         /\ KeptOf(c, rows)[0] = <<>>
         /\ \A n \in 1..Len(rows) :
              KeptOf(c, rows)[n] = IF Holds(c, rows[n])
                                   THEN Append(KeptOf(c, rows)[n - 1], rows[n])
                                   ELSE KeptOf(c, rows)[n - 1]
<1> DEFINE N == Len(rows)
           Body(f) == [n \in 0..N |-> IF n = 0 THEN <<>>
                                      ELSE IF Holds(c, rows[n]) THEN Append(f[n - 1], rows[n])
                                      ELSE f[n - 1]]
           kept == KeptOf(c, rows)
           next == [p \in (1..N) \X Seq(R) |-> IF Holds(c, rows[p[1]]) THEN Append(p[2], rows[p[1]])
                                               ELSE p[2]]
<1>1. N \in Nat /\ <<>> \in Seq(R) /\ \A n \in 1..N : rows[n] \in R
  OBVIOUS
<1>2. kept = CHOOSE f : f = Body(f)
  BY DEF KeptOf
<1> HIDE DEF N, kept
<1>3. next \in [(1..N) \X Seq(R) -> Seq(R)]
  <2>1. ASSUME NEW n \in 1..N, NEW s \in Seq(R) PROVE Append(s, rows[n]) \in Seq(R)
    BY <1>1
  <2> QED BY <2>1
<1>4. PICK g \in [0..N -> Seq(R)] : g[0] = <<>> /\ \A n \in 1..N : g[n] = next[<<n, g[n - 1]>>]
  <2> DEFINE S == Seq(R)
             s0 == <<>>
  <2>1. N \in Nat /\ s0 \in S /\ next \in [(1..N) \X S -> S]
    BY <1>1, <1>3
  <2> HIDE DEF next, S, s0
  <2>2. \E g : Recursive(g, N, S, s0, next)
    BY <2>1, Recursion
  <2> QED BY <2>2 DEF S, s0, Recursive
<1>5. g = Body(g)
  <2>1. ASSUME NEW n \in 0..N PROVE g[n] = Body(g)[n]
    <3>1. CASE n = 0
      BY <1>4, <3>1
    <3>2. CASE n # 0
      <4>1. n \in 1..N /\ n - 1 \in 0..N
        BY <3>2, <1>1
      <4>2. g[n - 1] \in Seq(R)
        BY <4>1
      <4> QED BY <1>4, <3>2, <4>1, <4>2
    <3> QED BY <3>1, <3>2
  <2>2. Body(g) = [n \in 0..N |-> Body(g)[n]]
    OBVIOUS
  <2>3. g = [n \in 0..N |-> g[n]]
    OBVIOUS
  <2> HIDE DEF Body
  <2> QED BY <2>1, <2>2, <2>3
<1>6. kept = Body(kept)
  <2> HIDE DEF Body
  <2> QED BY <1>2, <1>5
<1>7. kept[0] = <<>>
  <2>1. 0 \in 0..N /\ Body(kept)[0] = <<>>
    BY <1>1
  <2> HIDE DEF Body
  <2> QED BY <1>6, <2>1
<1>8. ASSUME NEW n \in 1..N
      PROVE  kept[n] = IF Holds(c, rows[n]) THEN Append(kept[n - 1], rows[n]) ELSE kept[n - 1]
  <2>1. n \in 0..N /\ n # 0
    BY <1>1
  <2>2. Body(kept)[n] = IF Holds(c, rows[n]) THEN Append(kept[n - 1], rows[n]) ELSE kept[n - 1]
    BY <2>1
  <2> HIDE DEF Body
  <2> QED BY <1>6, <2>2
<1> DEFINE P == {n \in 0..N : kept[n] \in Seq(R)}
<1>9. \A n \in 0..N : n \in P
  <2>1. 0 \in P
    <3>1. 0 \in 0..N
      BY <1>1
    <3>2. <<>> \in Seq(R)
      OBVIOUS
    <3> QED BY <1>7, <3>1, <3>2
  <2>2. ASSUME NEW n \in 1..N, n - 1 \in P PROVE n \in P
    <3>1. n \in 0..N /\ n - 1 \in 0..N
      BY <1>1
    <3>2. kept[n - 1] \in Seq(R)
      BY <2>2, <3>1
    <3>3. rows[n] \in R
      BY <1>1
    <3>4. Append(kept[n - 1], rows[n]) \in Seq(R)
      BY <3>2, <3>3
    <3>5. kept[n] \in Seq(R)
      BY <1>8, <3>2, <3>4
    <3> QED BY <3>1, <3>5
  <2> HIDE DEF P
  <2> QED BY <1>1, <2>1, <2>2, UpTo
<1>10. kept \in [0..N -> Seq(R)]
  <2>1. \A n \in 0..N : kept[n] \in Seq(R)
    BY <1>9
  <2>2. kept = [n \in 0..N |-> Body(kept)[n]]
    BY <1>6
  <2>3. DOMAIN kept = 0..N
    <3> HIDE DEF Body
    <3> QED BY <2>2
  <2>4. kept = [n \in 0..N |-> kept[n]]
    <3> HIDE DEF Body
    <3> QED BY <2>2
  <2> QED BY <2>1, <2>4
<1> QED BY <1>7, <1>8, <1>10 DEF N, kept

LEMMA KeptAreRows ==
  ASSUME NEW R, NEW rows \in Seq(R), NEW c
  PROVE  Kept(c, rows) \in Seq(R)
<1>1. Len(rows) \in 0..Len(rows)
  OBVIOUS
<1> QED BY <1>1, KeptStepByStep DEF Kept

(* What is kept of a list lists those of which the condition holds.        *)
LEMMA KeptOfList ==
  ASSUME NEW R, NEW rows \in Seq(R), NEW c, NEW S, NEW F, Lists(rows, S, F)
  PROVE  Lists(Kept(c, rows), {x \in S : Holds(c, F[x])}, F)
<1>1. PICK g : IsListing(g, rows, S, F)
  BY DEF Lists
<1> DEFINE N == Len(rows)
           kept == KeptOf(c, rows)
           Taken(n) == {g[i] : i \in {j \in 1..n : Holds(c, rows[j])}}
           P == {n \in 0..N : Lists(kept[n], Taken(n), F)}
<1>2. N \in Nat /\ DOMAIN rows = 1..N
  BY PlacesOfList
<1>3. /\ kept \in [0..N -> Seq(R)]
      /\ kept[0] = <<>>
      /\ \A n \in 1..N : kept[n] = IF Holds(c, rows[n]) THEN Append(kept[n - 1], rows[n]) ELSE kept[n - 1]
  BY KeptStepByStep
<1>4. \A n \in 1..N : rows[n] \in R
  OBVIOUS
<1> HIDE DEF N, kept
<1>5. 0 \in P
  <2>1. Taken(0) = {} /\ 0 \in 0..N
    BY <1>2
  <2>2. Lists(kept[0], Taken(0), F)
    <3> HIDE DEF Taken
    <3> QED BY <1>3, <2>1, EmptyList
  <2> QED BY <2>1, <2>2
<1>6. ASSUME NEW n \in 1..N, n - 1 \in P PROVE n \in P
  <2>1. n - 1 \in 0..N /\ n \in 0..N /\ n \in 1..n /\ n \notin 1..(n - 1)
    BY <1>2
  <2>2. Lists(kept[n - 1], Taken(n - 1), F) /\ kept[n - 1] \in Seq(R)
    BY <1>3, <1>6, <2>1
  <2>3. \A j : j \in 1..n <=> j \in 1..(n - 1) \/ j = n
    BY <1>2
  <2>4. CASE Holds(c, rows[n])
    <3>1. Taken(n) = Taken(n - 1) \union {g[n]}
      BY <2>3, <2>4
    <3>2. g[n] \notin Taken(n - 1)
      <4>1. ASSUME NEW j \in 1..(n - 1), g[j] = g[n] PROVE FALSE
        <5>1. j \in 1..N /\ j # n
          BY <1>2
        <5> QED BY <1>1, <1>2, <4>1, <5>1 DEF IsListing
      <4> QED BY <4>1
    <3>3. rows[n] = F[g[n]] /\ F[g[n]] \in R
      BY <1>1, <1>2, <1>4 DEF IsListing
    <3>4. kept[n] = Append(kept[n - 1], F[g[n]])
      BY <1>3, <2>4, <3>3
    <3>5. Lists(kept[n], Taken(n), F)
      <4> HIDE DEF Taken
      <4>1. Lists(Append(kept[n - 1], F[g[n]]), Taken(n - 1) \union {g[n]}, F)
        BY <2>2, <3>2, <3>3, ListOneMore
      <4> QED BY <3>1, <3>4, <4>1
    <3> QED BY <2>1, <3>5
  <2>5. CASE ~Holds(c, rows[n])
    <3>1. Taken(n) = Taken(n - 1)
      BY <2>3, <2>5
    <3>2. kept[n] = kept[n - 1]
      BY <1>3, <2>5
    <3>3. Lists(kept[n], Taken(n), F)
      <4> HIDE DEF Taken
      <4> QED BY <2>2, <3>1, <3>2
    <3> QED BY <2>1, <3>3
  <2> QED BY <2>4, <2>5
<1>7. N \in P
  <2>1. \A n \in 0..N : n \in P
    <3> HIDE DEF P
    <3> QED BY <1>2, <1>5, <1>6, UpTo
  <2>2. N \in 0..N
    BY <1>2
  <2> HIDE DEF P
  <2> QED BY <2>1, <2>2
<1>8. Taken(N) = {x \in S : Holds(c, F[x])}
  <2>1. ASSUME NEW x \in Taken(N) PROVE x \in S /\ Holds(c, F[x])
    <3>1. PICK j \in 1..N : x = g[j] /\ Holds(c, rows[j])
      OBVIOUS
    <3>2. g[j] \in S /\ rows[j] = F[g[j]]
      BY <1>1, <1>2 DEF IsListing
    <3> QED BY <3>1, <3>2
  <2>2. ASSUME NEW x \in S, Holds(c, F[x]) PROVE x \in Taken(N)
    <3>1. PICK j \in 1..N : g[j] = x
      BY <1>1, <1>2 DEF IsListing
    <3>2. rows[j] = F[x]
      BY <1>1, <1>2, <3>1 DEF IsListing
    <3> QED BY <2>2, <3>1, <3>2
  <2> HIDE DEF Taken
  <2> QED BY <2>1, <2>2
<1>9. Lists(kept[N], {x \in S : Holds(c, F[x])}, F)
  <2> HIDE DEF Taken
  <2> QED BY <1>7, <1>8
<1> QED BY <1>9 DEF Kept, kept, N

Prefix(s, t) == Len(s) <= Len(t) /\ \A i \in 1..Len(s) : s[i] = t[i]

(* What is kept of the first m rows begins what is kept of all.            *)
LEMMA KeptSoFar ==
  ASSUME NEW R, NEW rows \in Seq(R), NEW c, NEW m \in 0..Len(rows)
  PROVE  Prefix(KeptOf(c, rows)[m], Kept(c, rows))
<1> DEFINE N == Len(rows)
           kept == KeptOf(c, rows)
           P == {d \in 0..(N - m) : Prefix(kept[m], kept[m + d])}
<1>1. N \in Nat /\ m \in 0..N
  OBVIOUS
<1>2. /\ kept \in [0..N -> Seq(R)]
      /\ \A n \in 1..N : kept[n] = IF Holds(c, rows[n]) THEN Append(kept[n - 1], rows[n]) ELSE kept[n - 1]
  BY KeptStepByStep
<1>3. \A n \in 1..N : rows[n] \in R
  OBVIOUS
<1> HIDE DEF N, kept
<1>4. N - m \in Nat /\ m + 0 = m /\ m + (N - m) = N /\ 0 \in 0..(N - m) /\ N - m \in 0..(N - m)
  BY <1>1
<1>5. 0 \in P
  <2>1. kept[m] \in Seq(R)
    BY <1>1, <1>2
  <2>2. Len(kept[m]) <= Len(kept[m])
    BY <2>1
  <2> QED BY <1>4, <2>2 DEF Prefix
<1>6. ASSUME NEW d \in 1..(N - m), d - 1 \in P PROVE d \in P
  <2> DEFINE n == m + d
  <2>1. n \in 1..N /\ n - 1 \in 0..N /\ m + (d - 1) = n - 1 /\ d \in 0..(N - m)
    BY <1>1
  <2> HIDE DEF n
  <2>2. Prefix(kept[m], kept[n - 1]) /\ kept[m] \in Seq(R) /\ kept[n - 1] \in Seq(R) /\ rows[n] \in R
    BY <1>1, <1>2, <1>3, <1>6, <2>1
  <2>3. Prefix(kept[m], Append(kept[n - 1], rows[n]))
    <3> DEFINE s == kept[m]
               t == kept[n - 1]
    <3>1. s \in Seq(R) /\ t \in Seq(R) /\ rows[n] \in R /\ Prefix(s, t)
      BY <2>2
    <3> HIDE DEF s, t
    <3>2. Len(Append(t, rows[n])) = Len(t) + 1 /\ \A i \in 1..Len(t) : Append(t, rows[n])[i] = t[i]
      BY <3>1
    <3>3. Len(s) \in Nat /\ Len(t) \in Nat
      BY <3>1
    <3>4. Prefix(s, Append(t, rows[n]))
      BY <3>1, <3>2, <3>3 DEF Prefix
    <3> QED BY <3>4 DEF s, t
  <2>4. Prefix(kept[m], kept[n])
    BY <1>2, <2>1, <2>2, <2>3
  <2> QED BY <2>1, <2>4 DEF n
<1>7. N - m \in P
  <2>1. \A d \in 0..(N - m) : d \in P
    <3> HIDE DEF P
    <3> QED BY <1>4, <1>5, <1>6, UpTo
  <2> QED BY <1>4, <2>1
<1>8. Prefix(kept[m], kept[N])
  BY <1>4, <1>7
<1> QED BY <1>8 DEF Kept, kept, N

LEMMA PrefixIsSubSeq ==
  ASSUME NEW R, NEW s \in Seq(R), NEW t \in Seq(R), Prefix(s, t)
  PROVE  s = SubSeq(t, 1, Len(s))
<1>1. Len(s) \in Nat /\ Len(t) \in Nat /\ Len(s) <= Len(t)
  BY DEF Prefix
<1>2. SubSeq(t, 1, Len(s)) = [i \in 1..Len(s) |-> t[i]]
  BY <1>1
<1>3. s = [i \in 1..Len(s) |-> s[i]]
  OBVIOUS
<1> QED BY <1>1, <1>2, <1>3 DEF Prefix

LEMMA SameLengthPrefix ==
  ASSUME NEW R, NEW s \in Seq(R), NEW t \in Seq(R), Prefix(s, t), Len(s) = Len(t)
  PROVE  s = t
<1>1. s = [i \in 1..Len(s) |-> s[i]] /\ t = [i \in 1..Len(t) |-> t[i]]
  OBVIOUS
<1> QED BY <1>1 DEF Prefix

(* No condition keeps every row.                                           *)
LEMMA KeptWithoutCondition ==
  ASSUME NEW R, NEW rows \in Seq(R)
  PROVE  Kept({}, rows) = rows
<1> DEFINE N == Len(rows)
           kept == KeptOf({}, rows)
           P == {n \in 0..N : Len(kept[n]) = n /\ \A i \in 1..n : kept[n][i] = rows[i]}
<1>1. N \in Nat
  OBVIOUS
<1>2. /\ kept \in [0..N -> Seq(R)] /\ kept[0] = <<>>
      /\ \A n \in 1..N : kept[n] = Append(kept[n - 1], rows[n])
  <2> DEFINE c == {}
  <2>1. \A row : Holds(c, row)
    BY DEF Holds
  <2> HIDE DEF c
  <2>2. /\ KeptOf(c, rows) \in [0..N -> Seq(R)] /\ KeptOf(c, rows)[0] = <<>>
        /\ \A n \in 1..N : KeptOf(c, rows)[n] = IF Holds(c, rows[n]) THEN Append(KeptOf(c, rows)[n - 1], rows[n])
                                                ELSE KeptOf(c, rows)[n - 1]
    BY KeptStepByStep
  <2> HIDE DEF N
  <2>3. \A n \in 1..N : KeptOf(c, rows)[n] = Append(KeptOf(c, rows)[n - 1], rows[n])
    BY <2>1, <2>2
  <2> QED BY <2>2, <2>3 DEF c
<1>3. \A n \in 1..N : rows[n] \in R
  OBVIOUS
<1> HIDE DEF N, kept
<1>4. 0 \in P
  <2>1. Len(kept[0]) = 0 /\ 0 \in 0..N /\ 1..0 = {}
    BY <1>1, <1>2
  <2> QED BY <2>1
<1>5. ASSUME NEW n \in 1..N, n - 1 \in P PROVE n \in P
  <2> DEFINE s == kept[n - 1]
  <2>1. n \in 0..N /\ n - 1 \in 0..N
    BY <1>1
  <2>2. s \in Seq(R) /\ rows[n] \in R /\ Len(s) = n - 1 /\ (\A i \in 1..(n - 1) : s[i] = rows[i])
        /\ kept[n] = Append(s, rows[n])
    BY <1>2, <1>3, <1>5, <2>1
  <2> HIDE DEF s
  <2>3. Len(Append(s, rows[n])) = n
    BY <2>1, <2>2
  <2>4. ASSUME NEW i \in 1..n PROVE Append(s, rows[n])[i] = rows[i]
    <3>1. i \in 1..Len(s) \/ i = Len(s) + 1
      BY <2>1, <2>2
    <3> QED BY <2>2, <3>1
  <2> QED BY <2>1, <2>2, <2>3, <2>4
<1>6. N \in P
  <2>1. \A n \in 0..N : n \in P
    <3> HIDE DEF P
    <3> QED BY <1>1, <1>4, <1>5, UpTo
  <2> QED BY <1>1, <2>1
<1>7. kept[N] = rows
  <2>1. kept[N] \in Seq(R)
    BY <1>1, <1>2
  <2>2. kept[N] = [i \in 1..Len(kept[N]) |-> kept[N][i]]
    BY <2>1
  <2>3. rows = [i \in 1..N |-> rows[i]]
    BY DEF N
  <2> QED BY <1>6, <2>2, <2>3
<1> QED BY <1>7 DEF Kept, kept, N

-----------------------------------------------------------------------------
(* Counting                                                                *)

LEMMA ListingIsBijection ==
  ASSUME NEW A, NEW B, NEW g \in [A -> B],
         \A m, n \in A : g[m] = g[n] => m = n, \A x \in B : \E n \in A : g[n] = x
  PROVE  ExistsBijection(A, B)
<1>1. g \in Bijection(A, B)
  BY DEF Bijection, Injection, Surjection, IsInjective
<1> QED BY <1>1 DEF ExistsBijection

Places(rows, row) == {n \in DOMAIN rows : rows[n] = row}
Elements(S, F, row) == {x \in S : F[x] = row}

(* A list has as many rows as S has elements, and a row comes in it as     *)
(* often as an element of S has it.                                        *)
LEMMA CountOfList ==
  ASSUME NEW R, NEW rows \in Seq(R), NEW S, NEW F, Lists(rows, S, F)
  PROVE  /\ Len(rows) = Cardinality(S)
         /\ \A row : Cardinality(Places(rows, row)) = Cardinality(Elements(S, F, row))
<1>1. PICK g : IsListing(g, rows, S, F)
  BY DEF Lists
<1> DEFINE N == Len(rows)
<1>2. N \in Nat /\ DOMAIN rows = 1..N
  BY PlacesOfList
<1> HIDE DEF N
<1>3. IsFiniteSet(1..N) /\ Cardinality(1..N) = N
  <2>1. 1 \in Int /\ N \in Int /\ (IF 1 > N THEN 0 ELSE N - 1 + 1) = N
    BY <1>2
  <2> QED BY <2>1, FS_Interval
<1>4. ExistsBijection(1..N, S)
  BY <1>1, <1>2, ListingIsBijection DEF IsListing
<1>5. N = Cardinality(S)
  BY <1>3, <1>4, FS_Bijection
<1>6. ASSUME NEW row
      PROVE  Cardinality({n \in 1..N : rows[n] = row}) = Cardinality({x \in S : F[x] = row})
  <2> DEFINE A == {n \in 1..N : rows[n] = row}
             B == {x \in S : F[x] = row}
             h == [n \in A |-> g[n]]
  <2>1. IsFiniteSet(A)
    <3>1. A \in SUBSET (1..N)
      OBVIOUS
    <3> HIDE DEF A
    <3> QED BY <1>3, <3>1, FS_Subset
  <2>2. h \in [A -> B]
    <3>1. ASSUME NEW n \in A PROVE g[n] \in B
      BY <1>1, <1>2 DEF IsListing
    <3> QED BY <3>1
  <2>3. \A m, n \in A : h[m] = h[n] => m = n
    BY <1>1, <1>2 DEF IsListing
  <2>4. ASSUME NEW x \in B PROVE \E n \in A : h[n] = x
    <3>1. PICK n \in 1..N : g[n] = x
      BY <1>1, <1>2 DEF IsListing
    <3>2. n \in A
      BY <1>1, <1>2, <3>1 DEF IsListing
    <3> QED BY <3>1, <3>2
  <2>5. ExistsBijection(A, B)
    <3> HIDE DEF A, B, h
    <3> QED BY <2>2, <2>3, <2>4, ListingIsBijection
  <2>6. Cardinality(B) = Cardinality(A)
    <3> HIDE DEF A, B
    <3> QED BY <2>1, <2>5, FS_Bijection
  <2> QED BY <2>6
<1> QED BY <1>2, <1>5, <1>6 DEF N, Places, Elements

-----------------------------------------------------------------------------
(* The invariant.  While a join is made, `table` lists pairs of a row of   *)
(* the source and a row of the joined table, 0 standing for the row of     *)
(* nulls, and the dictionary lists the rows read so far under their keys.  *)

LeftRow == [m \in 0..Len(source) |-> IF m = 0 THEN Nulls(done + 1)[1] ELSE source[m]]
RightRow == [n \in 0..Len(Joined) |-> IF n = 0 THEN Nulls(1)[1] ELSE Joined[n]]
PairRow ==
  [p \in (0..Len(source)) \X (0..Len(Joined)) |-> LeftRow[p[1]] \o RightRow[p[2]]]

SourceOf(key, n) == {m \in 1..n : source[m][Current.key] = key}
JoinedOf(key, n) == {m \in 1..n : Joined[m][1] = key}

(* A dictionary of so many rows of the source and of the joined table.     *)
DictInv(dict, ofSource, ofJoined) ==
  /\ \A k, l \in DOMAIN dict : dict[k].key = dict[l].key => k = l
  /\ \A k \in DOMAIN dict :
       /\ Lists(dict[k].a, SourceOf(dict[k].key, ofSource), LeftRow)
       /\ Lists(dict[k].b, JoinedOf(dict[k].key, ofJoined), RightRow)
  /\ \A m \in 1..ofSource : \E k \in DOMAIN dict : dict[k].key = source[m][Current.key]
  /\ \A m \in 1..ofJoined : \E k \in DOMAIN dict : dict[k].key = Joined[m][1]

OrNull(rows, side) == IF Current.side = side /\ rows = {} THEN {0} ELSE rows

(* The pairs that an entry of the complete dictionary stands for.          *)
EntryPairs(key) ==
  OrNull(SourceOf(key, Len(source)), "RIGHT") \X OrNull(JoinedOf(key, Len(Joined)), "LEFT")

Emitted(n) == UNION {EntryPairs(results[k].key) : k \in 1..n}

(* The pairs a hash join makes, those a nested loop makes.                 *)
SameKey(m, n) == source[m][Current.key] = Joined[n][1]

WithKey ==
  {p \in (DOMAIN source) \X (DOMAIN Joined) : SameKey(p[1], p[2])}
    \union (IF Current.side = "LEFT"
            THEN {<<m, 0>> : m \in {k \in DOMAIN source : \A n \in DOMAIN Joined : ~SameKey(k, n)}}
            ELSE {})
    \union (IF Current.side = "RIGHT"
            THEN {<<0, n>> : n \in {k \in DOMAIN Joined : \A m \in DOMAIN source : ~SameKey(m, k)}}
            ELSE {})

Candidates == IF Current.key # 0 THEN WithKey ELSE (DOMAIN source) \X (DOMAIN Joined)

InJoin == phase \in {"source", "joined", "emit", "nested", "filter", "made"}

ControlInv ==
  /\ inputs \in Columns /\ joins \in Joins
  /\ limit \in IF projects THEN Limits ELSE {Infinity}
  /\ InJoin => done < Len(joins)
  /\ phase \in {"source", "joined", "emit"} => Current.key # 0
  /\ phase = "nested" => Current.key = 0
  /\ phase \in {"project", "done"} => done = Len(joins)
  /\ phase \notin {"project", "done"} => sink = <<>>
  /\ phase \in {"source", "nested", "project"} => read <= Len(source)
  /\ phase = "joined" => read <= Len(Joined)
  /\ phase = "emit" => read <= Len(results)

IInv == TypeOK /\ ControlInv

JoinInv ==
  /\ phase = "source" => DictInv(results, read, 0) /\ table = <<>>
  /\ phase = "joined" => DictInv(results, Len(source), read) /\ table = <<>>
  /\ phase = "emit" => /\ DictInv(results, Len(source), Len(Joined))
                       /\ Lists(table, Emitted(read), PairRow)
  /\ phase = "nested" => Lists(table, (1..read) \X (DOMAIN Joined), PairRow)
  /\ phase = "filter" => Lists(table, Candidates, PairRow)
  /\ phase = "made" => Lists(table, Pairs, PairRow)

SinkInv ==
  /\ phase = "project" => /\ sink = KeptOf(where, source)[read]
                          /\ limit # Infinity => Len(sink) <= limit
  /\ phase = "done" => WhereThenLimit

-----------------------------------------------------------------------------
(* Types                                                                   *)

LEMMA CurrentIsJoin ==
  ASSUME IInv, done < Len(joins)
  PROVE  /\ Current \in JoinType /\ Current.key \in 0..(done + 1)
         /\ done + 1 \in DOMAIN joins /\ Joined \in Seq(Rows(1)) /\ done + 1 \in Nat
<1>1. done + 1 \in DOMAIN joins /\ done + 2 \in DOMAIN inputs
  BY DEF IInv, TypeOK
<1>2. Current \in JoinType /\ Joined \in Seq(Rows(1))
  BY <1>1 DEF IInv, TypeOK, Current, Joined
<1>3. Current.key <= done + 1
  <2>1. joins \in Joins
    BY DEF IInv, ControlInv
  <2> QED BY <1>1, <2>1, JoinAssumption DEF Current
<1> QED BY <1>1, <1>2, <1>3 DEF JoinType, IInv, TypeOK

LEMMA RowsTogether ==
  ASSUME NEW m \in Nat, NEW n \in Nat, NEW x \in Rows(m), NEW y \in Rows(n)
  PROVE  x \o y \in Rows(m + n)
<1>1. x \in Seq(Cell) /\ Len(x) = m /\ y \in Seq(Cell) /\ Len(y) = n
  BY DEF Rows
<1> DEFINE z == x \o y
<1>2. z \in Seq(Cell) /\ Len(z) = m + n
  BY <1>1
<1> HIDE DEF z
<1>3. z \in [1..Len(z) -> Cell]
  BY <1>2
<1> QED BY <1>2, <1>3 DEF Rows, z

LEMMA NullsAreRows ==
  ASSUME NEW n \in Nat
  PROVE  Nulls(n) \in Seq(Rows(n)) /\ Nulls(n) = <<Nulls(n)[1]>> /\ Nulls(n)[1] \in Rows(n)
<1>1. [k \in 1..n |-> Null] \in Rows(n)
  BY DEF Rows, Cell
<1> QED BY <1>1 DEF Nulls

LEMMA ProductOfRows ==
  ASSUME NEW m \in Nat, NEW k \in Nat, NEW as \in Seq(Rows(m)), NEW bs \in Seq(Rows(k))
  PROVE  Product(as, bs) \in Seq(Rows(m + k))
<1> DEFINE K == Len(as)
           L == Len(bs)
<1>1. K \in Nat /\ L \in Nat /\ DOMAIN as = 1..K /\ DOMAIN bs = 1..L
  BY PlacesOfList
<1>2. ASSUME NEW i \in 1..(K * L)
      PROVE  as[((i - 1) \div L) + 1] \o bs[((i - 1) % L) + 1] \in Rows(m + k)
  <2>1. (i - 1) \div L \in 0..(K - 1) /\ (i - 1) % L \in 0..(L - 1)
    <3> HIDE DEF K, L
    <3> QED BY <1>1, PlacesOfProduct
  <2> DEFINE q == (i - 1) \div L
             r == (i - 1) % L
  <2> HIDE DEF q, r
  <2>2. q + 1 \in 1..K /\ r + 1 \in 1..L
    <3>1. q \in 0..(K - 1) /\ r \in 0..(L - 1)
      BY <2>1 DEF q, r
    <3> HIDE DEF K, L
    <3> QED BY <1>1, <3>1
  <2>3. as[q + 1] \in Rows(m) /\ bs[r + 1] \in Rows(k)
    BY <2>2, RowOfList
  <2>4. as[q + 1] \o bs[r + 1] \in Rows(m + k)
    BY <2>3, RowsTogether
  <2> QED BY <2>4 DEF q, r
<1>3. Product(as, bs) \in [1..(K * L) -> Rows(m + k)]
  BY <1>2 DEF Product
<1>4. K * L \in Nat
  <2> HIDE DEF K, L
  <2> QED BY <1>1
<1> QED BY <1>3, <1>4, FunctionIsList

NewEntry(key) == [key |-> key, a |-> <<>>, b |-> <<>>]

(* An entry with one row more.                                             *)
More(entry, field, row) ==
  [key |-> entry.key,
   a |-> IF field = "a" THEN Append(entry.a, row) ELSE entry.a,
   b |-> IF field = "b" THEN Append(entry.b, row) ELSE entry.b]

LEMMA MoreByField ==
  ASSUME NEW K, NEW S, NEW T, NEW entry \in [key : K, a : S, b : T], NEW row, NEW field \in {"a", "b"}
  PROVE  [entry EXCEPT ![field] = Append(@, row)] = More(entry, field, row)
<1> DEFINE more == More(entry, field, row)
           new == [entry EXCEPT ![field] = Append(@, row)]
<1>1. /\ DOMAIN more = {"key", "a", "b"} /\ more["key"] = entry["key"]
      /\ more["a"] = IF field = "a" THEN Append(entry["a"], row) ELSE entry["a"]
      /\ more["b"] = IF field = "b" THEN Append(entry["b"], row) ELSE entry["b"]
  BY DEF More
<1>2. DOMAIN entry = {"key", "a", "b"}
  OBVIOUS
<1>3. new = [f \in {"key", "a", "b"} |-> IF f = field THEN Append(entry[f], row) ELSE entry[f]]
  BY <1>2
<1>4. more = [f \in {"key", "a", "b"} |-> more[f]]
  BY <1>1 DEF More
<1> HIDE DEF more, new
<1>5. \A f \in {"key", "a", "b"} : more[f] = IF f = field THEN Append(entry[f], row) ELSE entry[f]
  BY <1>1
<1> QED BY <1>3, <1>4, <1>5 DEF more, new

(* What Insert makes of the dictionary: the entries of other keys are as   *)
(* they were, and the entry of the key has one row more.                   *)
(* The dictionary after one more row has been put under a key.             *)
RowAdded(new, key, field, row) ==
  /\ new \in Seq(Entry)
  /\ (\A k, l \in DOMAIN results : results[k].key = results[l].key => k = l)
       => (\A k, l \in DOMAIN new : new[k].key = new[l].key => k = l)
  /\ \A k \in DOMAIN new : new[k].key # key => \E l \in DOMAIN results : new[k] = results[l]
  /\ \A k \in DOMAIN new : new[k].key = key =>
       \/ \E l \in DOMAIN results :
            results[l].key = key /\ new[k] = More(results[l], field, row)
       \/ /\ \A l \in DOMAIN results : results[l].key # key
          /\ new[k] = More(NewEntry(key), field, row)
  /\ \A l \in DOMAIN results : \E k \in DOMAIN new : new[k].key = results[l].key
  /\ \E k \in DOMAIN new : new[k].key = key

LEMMA InsertAddsRow ==
  ASSUME results \in Seq(Entry), NEW key \in Cell, NEW field \in {"a", "b"}, NEW row,
         row \in IF field = "a" THEN Rows(done + 1) ELSE Rows(1),
         NEW new, new = Insert(key, field, row)
  PROVE  RowAdded(new, key, field, row)
<1> USE DEF RowAdded
<1> DEFINE N == Len(results)
<1>1. N \in Nat /\ DOMAIN results = 1..N /\ \A k \in 1..N : results[k] \in Entry
  OBVIOUS
<1>2. ASSUME NEW entry \in Entry
      PROVE  /\ [entry EXCEPT ![field] = Append(@, row)] = More(entry, field, row)
             /\ More(entry, field, row) \in Entry /\ More(entry, field, row).key = entry.key
  <2>1. /\ entry.key \in Cell /\ entry.a \in Seq(Rows(done + 1)) /\ entry.b \in Seq(Rows(1))
        /\ entry = [key |-> entry.key, a |-> entry.a, b |-> entry.b]
    BY DEF Entry
  <2>2. [entry EXCEPT ![field] = Append(@, row)] = More(entry, field, row)
    BY MoreByField DEF Entry
  <2>3. /\ IF field = "a" THEN Append(entry.a, row) \in Seq(Rows(done + 1)) ELSE TRUE
        /\ IF field = "b" THEN Append(entry.b, row) \in Seq(Rows(1)) ELSE TRUE
    <3>1. CASE field = "a"
      BY <2>1, <3>1
    <3>2. CASE field = "b"
      BY <2>1, <3>2
    <3> QED BY <3>1, <3>2
  <2>4. More(entry, field, row) \in Entry
    BY <2>1, <2>3 DEF More, Entry
  <2> QED BY <2>2, <2>4 DEF More
<1>3. /\ NewEntry(key) \in Entry /\ NewEntry(key).key = key
      /\ [NewEntry(key) EXCEPT ![field] = <<row>>] = More(NewEntry(key), field, row)
  <2>1. CASE field = "a"
    BY <2>1 DEF Entry, More, NewEntry
  <2>2. CASE field = "b"
    BY <2>2 DEF Entry, More, NewEntry
  <2> QED BY <2>1, <2>2
<1>4. CASE \E k \in 1..N : results[k].key = key
  <2>1. new = [k \in 1..N |-> IF results[k].key = key THEN More(results[k], field, row) ELSE results[k]]
    BY <1>1, <1>2, <1>4 DEF Insert
  <2>2. /\ new \in [1..N -> Entry]
        /\ \A k \in 1..N : new[k].key = results[k].key
    BY <1>1, <1>2, <2>1
  <2>3. new \in Seq(Entry) /\ DOMAIN new = 1..N
    BY <1>1, <2>2
  <2> HIDE DEF N
  <2>4. \A k \in 1..N : new[k] = IF results[k].key = key THEN More(results[k], field, row) ELSE results[k]
    BY <2>1
  <2>5. (\A k, l \in DOMAIN results : results[k].key = results[l].key => k = l)
           => (\A k, l \in DOMAIN new : new[k].key = new[l].key => k = l)
    BY <1>1, <2>2, <2>3
  <2>6. ASSUME NEW k \in 1..N
        PROVE  /\ new[k].key # key => new[k] = results[k]
               /\ new[k].key = key => results[k].key = key /\ new[k] = More(results[k], field, row)
    BY <2>2, <2>4
  <2>7. \E k \in DOMAIN new : new[k].key = key
    BY <1>4, <2>2, <2>3
  <2>8. \A l \in DOMAIN results : \E k \in DOMAIN new : new[k].key = results[l].key
    BY <1>1, <2>2, <2>3
  <2>9. /\ \A k \in DOMAIN new : new[k].key # key => \E l \in DOMAIN results : new[k] = results[l]
        /\ \A k \in DOMAIN new : new[k].key = key =>
             \E l \in DOMAIN results : results[l].key = key /\ new[k] = More(results[l], field, row)
    BY <1>1, <2>3, <2>6
  <2> QED BY <2>3, <2>5, <2>7, <2>8, <2>9
<1>5. CASE ~ \E k \in 1..N : results[k].key = key
  <2> DEFINE e == More(NewEntry(key), field, row)
  <2>1. new = Append(results, e)
    BY <1>1, <1>3, <1>5 DEF Insert, NewEntry
  <2>2. e \in Entry /\ e.key = key
    BY <1>2, <1>3
  <2> HIDE DEF e
  <2>3. /\ new \in Seq(Entry) /\ DOMAIN new = 1..(N + 1)
        /\ \A k \in 1..N : new[k] = results[k]
        /\ new[N + 1] = e
    BY <2>1, <2>2
  <2> HIDE DEF N
  <2>4. \A k : k \in 1..(N + 1) <=> k \in 1..N \/ k = N + 1
    BY <1>1
  <2> QED BY <1>1, <1>5, <2>2, <2>3, <2>4 DEF e
<1> QED BY <1>4, <1>5

LEMMA InitTypes == Init => IInv
<1> SUFFICES ASSUME Init PROVE IInv
  OBVIOUS
<1>1. /\ inputs \in Columns /\ joins \in Joins /\ Len(joins) = Len(inputs) - 1
      /\ phase = "next" /\ done = 0 /\ source = inputs[1] /\ read = 0 /\ sink = <<>>
      /\ limit \in IF projects THEN Limits ELSE {Infinity}
  BY DEF Init
<1>2. inputs \in Seq(Seq(Rows(1))) /\ joins \in Seq(JoinType)
  BY <1>1, JoinAssumption DEF Rows
<1>3. Len(inputs) = Len(joins) + 1 /\ 1 \in 1..Len(inputs) /\ Len(joins) \in Nat
  BY <1>1, <1>2
<1>4. source \in Seq(Rows(done + 1))
  <2>1. inputs[1] \in Seq(Rows(1)) /\ 0 + 1 = 1
    BY <1>2, <1>3
  <2> QED BY <1>1, <2>1
<1>5. TypeOK
  <2>1. <<>> \in Seq(Rows(done + 1)) /\ 0 \in Nat /\ 0 \in 0..Len(joins)
    BY <1>3
  <2> QED BY <1>1, <1>2, <1>3, <1>4, <2>1 DEF TypeOK
<1>6. ControlInv
  BY <1>1 DEF ControlInv, InJoin
<1> QED BY <1>5, <1>6 DEF IInv

LEMMA BeginTypes == IInv /\ Begin => IInv'
<1> SUFFICES ASSUME IInv, Begin PROVE IInv'
  OBVIOUS
<1>1. TypeOK'
  <2>1. <<>> \in Seq(Rows(done + 2)) /\ <<>> \in Seq(Entry) /\ 0 \in Nat
    OBVIOUS
  <2> QED BY <2>1 DEF IInv, TypeOK, Begin, query, Entry
<1>2. ControlInv'
  <2>1. 0 <= Len(source)
    BY DEF IInv, TypeOK
  <2> QED BY <2>1 DEF IInv, TypeOK, ControlInv, Begin, query, InJoin, Current
<1> QED BY <1>1, <1>2 DEF IInv

LEMMA HashSourceTypes == IInv /\ HashSource => IInv'
<1> SUFFICES ASSUME IInv, HashSource PROVE IInv'
  OBVIOUS
<1>1. /\ phase = "source" /\ done < Len(joins) /\ Current.key # 0 /\ results \in Seq(Entry)
      /\ read \in Nat /\ source \in Seq(Rows(done + 1)) /\ read <= Len(source) /\ Len(source) \in Nat
  BY DEF IInv, TypeOK, ControlInv, HashSource, InJoin
<1>2. Current.key \in 1..(done + 1) /\ done + 1 \in Nat /\ Len(Joined) \in Nat
  BY <1>1, CurrentIsJoin
<1>3. Current' = Current /\ Joined' = Joined /\ Entry' = Entry
  BY DEF HashSource, query, Current, Joined, Entry
<1>4. CASE read < Len(source)
  <2>1. read + 1 \in 1..Len(source) /\ read + 1 <= Len(source) /\ read + 1 \in Nat
    BY <1>1, <1>4
  <2>2. source[read + 1] \in Rows(done + 1) /\ source[read + 1][Current.key] \in Cell
    BY <1>1, <1>2, <2>1 DEF Rows
  <2>3. results' \in Seq(Entry)
    <3>1. results' = Insert(source[read + 1][Current.key], "a", source[read + 1])
      BY <1>4 DEF HashSource
    <3> QED BY <1>1, <2>2, <3>1, InsertAddsRow DEF RowAdded
  <2>4. /\ phase' = phase /\ read' = read + 1
        /\ UNCHANGED <<inputs, joins, where, limit, projects, done, source, table, sink>>
    BY <1>4 DEF HashSource, query
  <2>5. TypeOK'
    BY <1>1, <1>3, <2>1, <2>3, <2>4 DEF IInv, TypeOK
  <2>6. ControlInv'
    BY <1>1, <1>3, <2>1, <2>4 DEF IInv, ControlInv, InJoin
  <2> QED BY <2>5, <2>6 DEF IInv
<1>5. CASE ~(read < Len(source))
  <2>1. /\ phase' = "joined" /\ read' = 0
        /\ UNCHANGED <<inputs, joins, where, limit, projects, done, source, results, table, sink>>
    BY <1>5 DEF HashSource, query
  <2>2. TypeOK'
    BY <1>1, <1>3, <2>1 DEF IInv, TypeOK
  <2>3. ControlInv'
    BY <1>1, <1>2, <1>3, <2>1 DEF IInv, ControlInv, InJoin
  <2> QED BY <2>2, <2>3 DEF IInv
<1> QED BY <1>4, <1>5

LEMMA HashJoinedTypes == IInv /\ HashJoined => IInv'
<1> SUFFICES ASSUME IInv, HashJoined PROVE IInv'
  OBVIOUS
<1>1. /\ phase = "joined" /\ done < Len(joins) /\ Current.key # 0 /\ results \in Seq(Entry)
      /\ read \in Nat /\ read <= Len(Joined)
  BY DEF IInv, TypeOK, ControlInv, HashJoined, InJoin
<1>2. Joined \in Seq(Rows(1)) /\ Len(Joined) \in Nat
  BY <1>1, CurrentIsJoin
<1>3. Current' = Current /\ Joined' = Joined /\ Entry' = Entry
  BY DEF HashJoined, query, Current, Joined, Entry
<1>4. CASE read < Len(Joined)
  <2>1. read + 1 \in 1..Len(Joined) /\ read + 1 <= Len(Joined) /\ read + 1 \in Nat
    BY <1>1, <1>2, <1>4
  <2>2. Joined[read + 1] \in Rows(1) /\ Joined[read + 1][1] \in Cell
    BY <1>2, <2>1 DEF Rows
  <2>3. results' \in Seq(Entry)
    <3>1. results' = Insert(Joined[read + 1][1], "b", Joined[read + 1])
      BY <1>4 DEF HashJoined
    <3> QED BY <1>1, <2>2, <3>1, InsertAddsRow DEF RowAdded
  <2>4. /\ phase' = phase /\ read' = read + 1
        /\ UNCHANGED <<inputs, joins, where, limit, projects, done, source, table, sink>>
    BY <1>4 DEF HashJoined, query
  <2>5. TypeOK'
    BY <1>1, <1>3, <2>1, <2>3, <2>4 DEF IInv, TypeOK
  <2>6. ControlInv'
    BY <1>1, <1>3, <2>1, <2>4 DEF IInv, ControlInv, InJoin
  <2> QED BY <2>5, <2>6 DEF IInv
<1>5. CASE ~(read < Len(Joined))
  <2>1. /\ phase' = "emit" /\ read' = 0
        /\ UNCHANGED <<inputs, joins, where, limit, projects, done, source, results, table, sink>>
    BY <1>5 DEF HashJoined, query
  <2>2. TypeOK'
    BY <1>1, <1>3, <2>1 DEF IInv, TypeOK
  <2>3. ControlInv'
    BY <1>1, <1>2, <1>3, <2>1 DEF IInv, ControlInv, InJoin
  <2> QED BY <2>2, <2>3 DEF IInv
<1> QED BY <1>4, <1>5

LEMMA EmitTypes == IInv /\ Emit => IInv'
<1> SUFFICES ASSUME IInv, Emit PROVE IInv'
  OBVIOUS
<1>1. /\ phase = "emit" /\ done < Len(joins) /\ Current.key # 0 /\ results \in Seq(Entry)
      /\ read \in Nat /\ read <= Len(results) /\ done \in Nat /\ table \in Seq(Rows(done + 2))
  BY DEF IInv, TypeOK, ControlInv, Emit, InJoin
<1>2. Current' = Current /\ Joined' = Joined /\ Entry' = Entry
  BY DEF Emit, query, Current, Joined, Entry
<1>3. CASE read < Len(results)
  <2>1. read + 1 \in 1..Len(results) /\ read + 1 <= Len(results) /\ read + 1 \in Nat
    BY <1>1, <1>3
  <2> DEFINE groups == GroupsOf(results[read + 1])
  <2>2. groups.a \in Seq(Rows(done + 1)) /\ groups.b \in Seq(Rows(1))
    <3>1. /\ results[read + 1] \in Entry
          /\ Nulls(1) \in Seq(Rows(1)) /\ Nulls(done + 1) \in Seq(Rows(done + 1))
      BY <1>1, <2>1, NullsAreRows, SMTT(60)
    <3> QED BY <3>1 DEF GroupsOf, Entry
  <2>3. /\ phase' = phase /\ read' = read + 1 /\ table' = table \o Product(groups.a, groups.b)
        /\ UNCHANGED <<inputs, joins, where, limit, projects, done, source, results, sink>>
    BY <1>3 DEF Emit, query
  <2> HIDE DEF groups
  <2>4. table' \in Seq(Rows(done + 2))
    <3>1. done + 1 \in Nat /\ 1 \in Nat /\ (done + 1) + 1 = done + 2
      BY <1>1
    <3>2. Product(groups.a, groups.b) \in Seq(Rows((done + 1) + 1))
      BY <2>2, <3>1, ProductOfRows
    <3> QED BY <1>1, <2>3, <3>1, <3>2
  <2>5. TypeOK'
    BY <1>1, <1>2, <2>1, <2>3, <2>4 DEF IInv, TypeOK
  <2>6. ControlInv'
    BY <1>1, <1>2, <2>1, <2>3 DEF IInv, ControlInv, InJoin
  <2> QED BY <2>5, <2>6 DEF IInv
<1>4. CASE ~(read < Len(results))
  <2>1. /\ phase' = "filter" /\ read' = 0
        /\ UNCHANGED <<inputs, joins, where, limit, projects, done, source, results, table, sink>>
    BY <1>4 DEF Emit, query
  <2>2. TypeOK'
    BY <1>1, <1>2, <2>1 DEF IInv, TypeOK
  <2>3. ControlInv'
    BY <1>1, <1>2, <2>1 DEF IInv, ControlInv, InJoin
  <2> QED BY <2>2, <2>3 DEF IInv
<1> QED BY <1>3, <1>4

LEMMA NestedLoopTypes == IInv /\ NestedLoop => IInv'
<1> SUFFICES ASSUME IInv, NestedLoop PROVE IInv'
  OBVIOUS
<1>1. /\ phase = "nested" /\ done < Len(joins) /\ Current.key = 0
      /\ read \in Nat /\ read <= Len(source) /\ done \in Nat /\ table \in Seq(Rows(done + 2))
      /\ source \in Seq(Rows(done + 1)) /\ Len(source) \in Nat
  BY DEF IInv, TypeOK, ControlInv, NestedLoop, InJoin
<1>2. Current' = Current /\ Joined' = Joined /\ Entry' = Entry
  BY DEF NestedLoop, query, Current, Joined, Entry
<1>3. CASE read < Len(source)
  <2>1. read + 1 \in 1..Len(source) /\ read + 1 <= Len(source) /\ read + 1 \in Nat
    BY <1>1, <1>3
  <2> DEFINE row == <<source[read + 1]>>
  <2>2. row \in Seq(Rows(done + 1)) /\ Joined \in Seq(Rows(1))
    <3>1. source[read + 1] \in Rows(done + 1)
      BY <1>1, <2>1
    <3> QED BY <1>1, <3>1, CurrentIsJoin
  <2>3. /\ phase' = phase /\ read' = read + 1 /\ table' = table \o Product(row, Joined)
        /\ UNCHANGED <<inputs, joins, where, limit, projects, done, source, results, sink>>
    BY <1>3 DEF NestedLoop, query
  <2> HIDE DEF row
  <2>4. table' \in Seq(Rows(done + 2))
    <3>1. done + 1 \in Nat /\ 1 \in Nat /\ (done + 1) + 1 = done + 2
      BY <1>1
    <3>2. Product(row, Joined) \in Seq(Rows((done + 1) + 1))
      BY <2>2, <3>1, ProductOfRows
    <3> QED BY <1>1, <2>3, <3>1, <3>2
  <2>5. TypeOK'
    BY <1>1, <1>2, <2>1, <2>3, <2>4 DEF IInv, TypeOK
  <2>6. ControlInv'
    BY <1>1, <1>2, <2>1, <2>3 DEF IInv, ControlInv, InJoin
  <2> QED BY <2>5, <2>6 DEF IInv
<1>4. CASE ~(read < Len(source))
  <2>1. /\ phase' = "filter" /\ read' = 0
        /\ UNCHANGED <<inputs, joins, where, limit, projects, done, source, results, table, sink>>
    BY <1>4 DEF NestedLoop, query
  <2>2. TypeOK'
    BY <1>1, <1>2, <2>1 DEF IInv, TypeOK
  <2>3. ControlInv'
    BY <1>1, <1>2, <2>1 DEF IInv, ControlInv, InJoin
  <2> QED BY <2>2, <2>3 DEF IInv
<1> QED BY <1>3, <1>4

LEMMA FilterTypes == IInv /\ Filter => IInv'
<1> SUFFICES ASSUME IInv, Filter PROVE IInv'
  OBVIOUS
<1>1. phase = "filter" /\ done < Len(joins) /\ table \in Seq(Rows(done + 2))
  BY DEF IInv, TypeOK, ControlInv, Filter, InJoin
<1>2. /\ phase' = "made" /\ table' \in Seq(Rows(done + 2))
      /\ UNCHANGED <<inputs, joins, where, limit, projects, done, source, read, results, sink>>
  BY <1>1, KeptAreRows DEF Filter, query
<1>3. TypeOK'
  BY <1>1, <1>2 DEF IInv, TypeOK
<1>4. ControlInv'
  BY <1>1, <1>2 DEF IInv, ControlInv, InJoin
<1> QED BY <1>3, <1>4 DEF IInv

LEMMA ContinueTypes == IInv /\ Continue => IInv'
<1> SUFFICES ASSUME IInv, Continue PROVE IInv'
  OBVIOUS
<1>1. phase = "made" /\ done < Len(joins) /\ table \in Seq(Rows(done + 2)) /\ sink = <<>>
  BY DEF IInv, TypeOK, ControlInv, Continue, InJoin
<1>2. /\ phase' = "next" /\ source' = table /\ done' = done + 1
      /\ UNCHANGED <<inputs, joins, where, limit, projects, read, results, table, sink>>
  BY DEF Continue, query
<1>3. done + 1 \in 0..Len(joins) /\ (done + 1) + 1 = done + 2
  BY <1>1 DEF IInv, TypeOK
<1>4. TypeOK'
  <2>1. source' \in Seq(Rows(done' + 1)) /\ sink' \in Seq(Rows(done' + 1))
    BY <1>1, <1>2, <1>3
  <2> QED BY <1>2, <1>3, <2>1 DEF IInv, TypeOK
<1>5. ControlInv'
  BY <1>1, <1>2 DEF IInv, ControlInv, InJoin
<1> QED BY <1>4, <1>5 DEF IInv

LEMMA LastJoinMadeTypes == IInv /\ LastJoinMade => IInv'
<1> SUFFICES ASSUME IInv, LastJoinMade PROVE IInv'
  OBVIOUS
<1>1. /\ phase = "next" /\ done = Len(joins) /\ phase' \in {"done", "project"} /\ sink' \in {sink, source}
      /\ read' = 0
      /\ UNCHANGED <<inputs, joins, where, limit, projects, done, source, results, table>>
  BY DEF LastJoinMade, query
<1>2. TypeOK'
  BY <1>1 DEF IInv, TypeOK
<1>3. ControlInv'
  <2>1. 0 <= Len(source)
    BY DEF IInv, TypeOK
  <2> QED BY <1>1, <2>1 DEF IInv, ControlInv, InJoin
<1> QED BY <1>2, <1>3 DEF IInv

LEMMA ProjectTypes == IInv /\ Project => IInv'
<1> SUFFICES ASSUME IInv, Project PROVE IInv'
  OBVIOUS
<1>1. /\ phase = "project" /\ read \in Nat /\ read <= Len(source) /\ Len(source) \in Nat
      /\ source \in Seq(Rows(done + 1)) /\ sink \in Seq(Rows(done + 1))
      /\ UNCHANGED <<inputs, joins, where, limit, projects, done, source, results, table>>
  BY DEF IInv, TypeOK, ControlInv, Project, query
<1>2. CASE phase' = "done" /\ UNCHANGED <<read, sink>>
  <2>1. TypeOK'
    BY <1>1, <1>2 DEF IInv, TypeOK
  <2>2. ControlInv'
    BY <1>1, <1>2 DEF IInv, ControlInv, InJoin
  <2> QED BY <2>1, <2>2 DEF IInv
<1>3. CASE /\ read # Len(source) /\ phase' = phase /\ read' = read + 1
           /\ sink' = IF Holds(where, source[read + 1]) THEN Append(sink, source[read + 1]) ELSE sink
  <2>1. read + 1 \in Nat /\ read + 1 <= Len(source) /\ source[read + 1] \in Rows(done + 1)
    BY <1>1, <1>3
  <2>2. sink' \in Seq(Rows(done + 1))
    <3>1. Append(sink, source[read + 1]) \in Seq(Rows(done + 1))
      BY <1>1, <2>1
    <3> QED BY <1>1, <1>3, <3>1
  <2>3. TypeOK'
    BY <1>1, <1>3, <2>1, <2>2 DEF IInv, TypeOK
  <2>4. ControlInv'
    BY <1>1, <1>3, <2>1 DEF IInv, ControlInv, InJoin
  <2> QED BY <2>3, <2>4 DEF IInv
<1> QED BY <1>2, <1>3 DEF Project

LEMMA StutterTypes == IInv /\ UNCHANGED vars => IInv'
BY DEF IInv, TypeOK, ControlInv, vars, query, InJoin, Entry, Current, Joined

LEMMA StepTypes == IInv /\ [Next]_vars => IInv'
BY BeginTypes, HashSourceTypes, HashJoinedTypes, EmitTypes, NestedLoopTypes, FilterTypes,
   ContinueTypes, LastJoinMadeTypes, ProjectTypes, StutterTypes DEF Next, Done

LEMMA TypesHold == Spec => []IInv
BY InitTypes, StepTypes, PTL DEF Spec

(* Every row of the step, at any moment, has a cell of each table joined   *)
(* so far, those completed with nulls too, and no loop reads past the end  *)
(* of its table.                                                           *)
THEOREM TypeCorrect == Spec => []TypeOK
<1>1. IInv => TypeOK
  BY DEF IInv
<1> QED BY TypesHold, <1>1, PTL

-----------------------------------------------------------------------------
(* WHERE and LIMIT                                                         *)

LEMMA LimitIsNumber ==
  ASSUME IInv, limit # Infinity
  PROVE  limit \in Nat
<1>1. limit \in Limits
  BY DEF IInv, ControlInv
<1> QED BY <1>1, JoinAssumption

LEMMA LastJoinMadeSink == IInv /\ LastJoinMade => SinkInv'
<1> SUFFICES ASSUME IInv, LastJoinMade PROVE SinkInv'
  OBVIOUS
<1>1. /\ phase = "next" /\ sink = <<>> /\ source \in Seq(Rows(done + 1)) /\ read' = 0
      /\ UNCHANGED <<where, limit, projects, source>>
  BY DEF IInv, TypeOK, ControlInv, LastJoinMade, query
<1>2. CASE where = {} /\ ~projects
  <2>1. phase' = "done" /\ sink' = source /\ limit = Infinity
    BY <1>2 DEF LastJoinMade, IInv, ControlInv
  <2>2. Kept(where, source) = source
    BY <1>1, <1>2, KeptWithoutCondition
  <2> QED BY <1>1, <2>1, <2>2 DEF SinkInv, WhereThenLimit
<1>3. CASE ~(where = {} /\ ~projects)
  <2>1. phase' = "project" /\ sink' = <<>>
    BY <1>1, <1>3 DEF LastJoinMade
  <2>2. KeptOf(where, source)[0] = <<>>
    BY <1>1, KeptStepByStep
  <2>3. limit # Infinity => Len(<<>>) <= limit
    BY LimitIsNumber
  <2> QED BY <1>1, <2>1, <2>2, <2>3 DEF SinkInv
<1> QED BY <1>2, <1>3

LEMMA ProjectSink == IInv /\ SinkInv /\ Project => SinkInv'
<1> SUFFICES ASSUME IInv, SinkInv, Project PROVE SinkInv'
  OBVIOUS
<1> DEFINE R == Rows(done + 1)
           N == Len(source)
           kept == Kept(where, source)
<1>1. /\ read \in 0..N /\ source \in Seq(R) /\ sink \in Seq(R) /\ N \in Nat
      /\ sink = KeptOf(where, source)[read]
      /\ limit # Infinity => Len(sink) <= limit /\ limit \in Nat
      /\ UNCHANGED <<where, limit, source>>
  BY LimitIsNumber DEF IInv, TypeOK, ControlInv, SinkInv, Project, query
<1>2. kept \in Seq(R) /\ Prefix(sink, kept)
  BY <1>1, KeptAreRows, KeptSoFar
<1> HIDE DEF R
<1>3. CASE read = N \/ (limit # Infinity /\ Len(sink) >= limit)
  <2>1. phase' = "done" /\ sink' = sink
    BY <1>3 DEF Project
  <2>2. Len(sink) \in Nat /\ Len(kept) \in Nat
    BY <1>1, <1>2
  <2>3. sink = IF limit # Infinity /\ limit < Len(kept) THEN SubSeq(kept, 1, limit) ELSE kept
    <3>1. CASE limit # Infinity /\ Len(sink) >= limit
      <4>1. limit = Len(sink) /\ sink = SubSeq(kept, 1, Len(sink))
        BY <1>1, <1>2, <2>2, <3>1, PrefixIsSubSeq
      <4>2. ~(limit < Len(kept)) => Len(sink) = Len(kept)
        BY <1>2, <2>2, <4>1 DEF Prefix
      <4>3. Len(sink) = Len(kept) => sink = kept
        BY <1>1, <1>2, SameLengthPrefix
      <4> QED BY <3>1, <4>1, <4>2, <4>3
    <3>2. CASE read = N
      <4>1. sink = kept
        BY <1>1, <3>2 DEF Kept
      <4> QED BY <1>1, <2>2, <4>1
    <3> QED BY <1>3, <3>1, <3>2
  <2> QED BY <1>1, <2>1, <2>3 DEF SinkInv, WhereThenLimit
<1>4. CASE ~(read = N \/ (limit # Infinity /\ Len(sink) >= limit))
  <2>1. /\ phase' = "project" /\ read' = read + 1 /\ read + 1 \in 1..N /\ (read + 1) - 1 = read
        /\ sink' = IF Holds(where, source[read + 1]) THEN Append(sink, source[read + 1]) ELSE sink
    BY <1>1, <1>4 DEF Project
  <2>2. sink' = KeptOf(where, source)[read + 1]
    <3>1. KeptOf(where, source)[read + 1]
            = IF Holds(where, source[read + 1])
              THEN Append(KeptOf(where, source)[(read + 1) - 1], source[read + 1])
              ELSE KeptOf(where, source)[(read + 1) - 1]
      BY <1>1, <2>1, KeptStepByStep
    <3> QED BY <1>1, <2>1, <3>1
  <2>3. limit # Infinity => Len(sink') <= limit
    <3>1. source[read + 1] \in R
      BY <1>1, <2>1
    <3>2. Len(Append(sink, source[read + 1])) = Len(sink) + 1
      BY <1>1, <3>1
    <3>3. Len(sink) \in Nat
      BY <1>1
    <3>4. sink' = sink \/ sink' = Append(sink, source[read + 1])
      BY <2>1
    <3> QED BY <1>1, <1>4, <3>2, <3>3, <3>4
  <2> QED BY <1>1, <2>1, <2>2, <2>3 DEF SinkInv
<1> QED BY <1>3, <1>4

LEMMA StepSink == IInv /\ SinkInv /\ [Next]_vars => SinkInv'
<1> SUFFICES ASSUME IInv, SinkInv, [Next]_vars PROVE SinkInv'
  OBVIOUS
<1>1. CASE UNCHANGED vars
  BY <1>1 DEF vars, query, SinkInv, WhereThenLimit
<1>2. CASE LastJoinMade
  BY <1>2, LastJoinMadeSink
<1>3. CASE Project
  BY <1>3, ProjectSink
<1>4. CASE Begin \/ HashSource \/ HashJoined \/ Emit \/ NestedLoop \/ Filter \/ Continue
  <2>1. phase' \notin {"project", "done"}
    BY <1>4 DEF Begin, HashSource, HashJoined, Emit, NestedLoop, Filter, Continue
  <2> QED BY <2>1 DEF SinkInv
<1> QED BY <1>1, <1>2, <1>3, <1>4 DEF Next, Done

(* _project_and_filter stops at the limit of the rows WHERE holds of, and  *)
(* never at rows it reads: the step returns the first rows of the join of  *)
(* which WHERE holds, as many as LIMIT allows, or all of them; a step with *)
(* neither returns the join.                                               *)
THEOREM WhereComesFirst == Spec => []WhereThenLimit
<1>1. Init => SinkInv
  BY DEF Init, SinkInv
<1>2. SinkInv => WhereThenLimit
  BY DEF SinkInv, WhereThenLimit
<1> QED BY <1>1, <1>2, TypesHold, StepSink, PTL DEF Spec

-----------------------------------------------------------------------------
(* The dictionary                                                          *)

LEMMA RowFacts ==
  ASSUME IInv, done < Len(joins)
  PROVE  /\ Len(source) \in Nat /\ DOMAIN source = 1..Len(source)
         /\ Len(Joined) \in Nat /\ DOMAIN Joined = 1..Len(Joined)
         /\ LeftRow[0] = Nulls(done + 1)[1] /\ RightRow[0] = Nulls(1)[1]
         /\ \A m \in 1..Len(source) : LeftRow[m] = source[m] /\ source[m] \in Rows(done + 1)
         /\ \A n \in 1..Len(Joined) : RightRow[n] = Joined[n] /\ Joined[n] \in Rows(1)
         /\ \A m \in 0..Len(source), n \in 0..Len(Joined) :
              PairRow[<<m, n>>] = LeftRow[m] \o RightRow[n]
<1>1. source \in Seq(Rows(done + 1)) /\ Joined \in Seq(Rows(1))
  BY CurrentIsJoin DEF IInv, TypeOK
<1>2. /\ Len(source) \in Nat /\ DOMAIN source = 1..Len(source)
      /\ Len(Joined) \in Nat /\ DOMAIN Joined = 1..Len(Joined)
  BY <1>1
<1>3. \A m \in 1..Len(source) : m \in 0..Len(source) /\ m # 0 /\ source[m] \in Rows(done + 1)
  BY <1>1
<1>4. \A m \in 1..Len(Joined) : m \in 0..Len(Joined) /\ m # 0 /\ Joined[m] \in Rows(1)
  BY <1>1
<1>5. LeftRow[0] = Nulls(done + 1)[1] /\ \A m \in 1..Len(source) : LeftRow[m] = source[m]
  BY <1>2, <1>3 DEF LeftRow
<1>6. RightRow[0] = Nulls(1)[1] /\ \A m \in 1..Len(Joined) : RightRow[m] = Joined[m]
  BY <1>2, <1>4 DEF RightRow
<1>7. \A m \in 0..Len(source), n \in 0..Len(Joined) : PairRow[<<m, n>>] = LeftRow[m] \o RightRow[n]
  BY DEF PairRow
<1> QED BY <1>2, <1>3, <1>4, <1>5, <1>6, <1>7

(* No entry of a key that no row read so far has.                          *)
LEMMA RowOfPair ==
  ASSUME IInv, done < Len(joins), NEW m \in 0..Len(source), NEW n \in 0..Len(Joined)
  PROVE  PairRow[<<m, n>>] = LeftRow[m] \o RightRow[n]
BY RowFacts

LEMMA NoRowsOfNewKey ==
  ASSUME NEW dict, NEW m, NEW n, DictInv(dict, m, n), NEW key, \A l \in DOMAIN dict : dict[l].key # key
  PROVE  /\ Lists(NewEntry(key).a, SourceOf(key, m), LeftRow)
         /\ Lists(NewEntry(key).b, JoinedOf(key, n), RightRow)
<1>1. SourceOf(key, m) = {} /\ JoinedOf(key, n) = {}
  BY DEF DictInv, SourceOf, JoinedOf
<1> QED BY <1>1, EmptyList DEF NewEntry

LEMMA SourceRowRead ==
  ASSUME IInv, done < Len(joins), Current.key # 0, results \in Seq(Entry),
         NEW n \in Nat, n < Len(source), DictInv(results, n, 0),
         NEW new, new = Insert(source[n + 1][Current.key], "a", source[n + 1])
  PROVE  DictInv(new, n + 1, 0)
<1> DEFINE row == source[n + 1]
           key == row[Current.key]
<1>1. /\ n + 1 \in 1..Len(source) /\ row \in Rows(done + 1) /\ LeftRow[n + 1] = row
      /\ key \in Cell
  <2>1. n + 1 \in 1..Len(source)
    BY RowFacts
  <2>2. row \in Rows(done + 1) /\ LeftRow[n + 1] = row
    BY <2>1, RowFacts
  <2>3. Current.key \in 1..(done + 1)
    BY CurrentIsJoin
  <2> QED BY <2>1, <2>2, <2>3 DEF Rows
<1>2. /\ \A k, l \in DOMAIN new : new[k].key = new[l].key => k = l
      /\ \A k \in DOMAIN new : new[k].key # key => \E l \in DOMAIN results : new[k] = results[l]
      /\ \A k \in DOMAIN new : new[k].key = key =>
           \/ \E l \in DOMAIN results :
                results[l].key = key /\ new[k] = More(results[l], "a", row)
           \/ /\ \A l \in DOMAIN results : results[l].key # key
              /\ new[k] = More(NewEntry(key), "a", row)
      /\ \A l \in DOMAIN results : \E k \in DOMAIN new : new[k].key = results[l].key
      /\ \E k \in DOMAIN new : new[k].key = key
  <2> HIDE DEF row, key
  <2>1. new = Insert(key, "a", row)
    BY DEF key, row
  <2>2. \A k, l \in DOMAIN results : results[k].key = results[l].key => k = l
    BY DEF DictInv
  <2>3. row \in IF "a" = "a" THEN Rows(done + 1) ELSE Rows(1)
    BY <1>1
  <2>4. key \in Cell
    BY <1>1
  <2>5. RowAdded(new, key, "a", row)
    BY <2>1, <2>3, <2>4, InsertAddsRow
  <2> QED BY <2>2, <2>5 DEF RowAdded
<1>3. \A m : m \in 1..(n + 1) <=> m \in 1..n \/ m = n + 1
  OBVIOUS
<1>4. n + 1 \notin 1..n
  OBVIOUS
<1>5. \A k : SourceOf(k, n + 1) = IF k = key THEN SourceOf(k, n) \union {n + 1} ELSE SourceOf(k, n)
  BY <1>3 DEF SourceOf
<1>6. \A l \in DOMAIN results : results[l].a \in Seq(Rows(done + 1))
  <2>1. \A l \in DOMAIN results : results[l] \in Entry
    OBVIOUS
  <2> QED BY <2>1 DEF Entry
<1> HIDE DEF row, key
<1>7. ASSUME NEW entry, entry.a \in Seq(Rows(done + 1)),
             Lists(entry.a, SourceOf(key, n), LeftRow), Lists(entry.b, JoinedOf(key, 0), RightRow),
             NEW more, more = More(entry, "a", row)
      PROVE  Lists(more.a, SourceOf(key, n + 1), LeftRow) /\ Lists(more.b, JoinedOf(key, 0), RightRow)
  <2>1. more.a = Append(entry.a, LeftRow[n + 1]) /\ more.b = entry.b
    BY <1>1, <1>7 DEF More
  <2>2. n + 1 \notin SourceOf(key, n)
    BY <1>4 DEF SourceOf
  <2>3. Lists(Append(entry.a, LeftRow[n + 1]), SourceOf(key, n) \union {n + 1}, LeftRow)
    BY <1>1, <1>7, <2>2, ListOneMore
  <2> QED BY <1>5, <1>7, <2>1, <2>3
<1>8. ASSUME NEW k \in DOMAIN new
      PROVE  /\ Lists(new[k].a, SourceOf(new[k].key, n + 1), LeftRow)
             /\ Lists(new[k].b, JoinedOf(new[k].key, 0), RightRow)
  <2>1. CASE new[k].key # key
    <3>1. PICK l \in DOMAIN results : new[k] = results[l]
      BY <1>2, <2>1
    <3>2. SourceOf(new[k].key, n + 1) = SourceOf(new[k].key, n)
      BY <1>5, <2>1
    <3> QED BY <3>1, <3>2 DEF DictInv
  <2>2. CASE new[k].key = key
    <3>1. CASE \E l \in DOMAIN results : results[l].key = key /\ new[k] = More(results[l], "a", row)
      <4>1. PICK l \in DOMAIN results : results[l].key = key /\ new[k] = More(results[l], "a", row)
        BY <3>1
      <4>2. /\ Lists(results[l].a, SourceOf(key, n), LeftRow)
            /\ Lists(results[l].b, JoinedOf(key, 0), RightRow)
        BY <4>1 DEF DictInv
      <4> QED BY <1>6, <1>7, <2>2, <4>1, <4>2
    <3>2. CASE /\ \A l \in DOMAIN results : results[l].key # key
               /\ new[k] = More(NewEntry(key), "a", row)
      <4>1. NewEntry(key).a \in Seq(Rows(done + 1))
        BY DEF NewEntry
      <4>2. /\ Lists(NewEntry(key).a, SourceOf(key, n), LeftRow)
            /\ Lists(NewEntry(key).b, JoinedOf(key, 0), RightRow)
        BY <3>2, NoRowsOfNewKey
      <4> QED BY <1>7, <2>2, <3>2, <4>1, <4>2
    <3> QED BY <1>2, <2>2, <3>1, <3>2
  <2> QED BY <2>1, <2>2
<1>9. \A m \in 1..(n + 1) : \E k \in DOMAIN new : new[k].key = source[m][Current.key]
  <2>1. \A m \in 1..n : \E l \in DOMAIN results : results[l].key = source[m][Current.key]
    BY DEF DictInv
  <2>2. source[n + 1][Current.key] = key
    BY DEF row, key
  <2> QED BY <1>2, <1>3, <2>1, <2>2
<1>10. \A m \in 1..0 : \E k \in DOMAIN new : new[k].key = Joined[m][1]
  OBVIOUS
<1> QED BY <1>2, <1>8, <1>9, <1>10 DEF DictInv

LEMMA JoinedRowRead ==
  ASSUME IInv, done < Len(joins), Current.key # 0, results \in Seq(Entry),
         NEW n \in Nat, n < Len(Joined), DictInv(results, Len(source), n),
         NEW new, new = Insert(Joined[n + 1][1], "b", Joined[n + 1])
  PROVE  DictInv(new, Len(source), n + 1)
<1> DEFINE row == Joined[n + 1]
           key == row[1]
<1>1. /\ n + 1 \in 1..Len(Joined) /\ row \in Rows(1) /\ RightRow[n + 1] = row
      /\ key \in Cell
  <2>1. n + 1 \in 1..Len(Joined)
    BY RowFacts
  <2>2. row \in Rows(1) /\ RightRow[n + 1] = row
    BY <2>1, RowFacts
  <2> QED BY <2>1, <2>2 DEF Rows
<1>2. /\ \A k, l \in DOMAIN new : new[k].key = new[l].key => k = l
      /\ \A k \in DOMAIN new : new[k].key # key => \E l \in DOMAIN results : new[k] = results[l]
      /\ \A k \in DOMAIN new : new[k].key = key =>
           \/ \E l \in DOMAIN results :
                results[l].key = key /\ new[k] = More(results[l], "b", row)
           \/ /\ \A l \in DOMAIN results : results[l].key # key
              /\ new[k] = More(NewEntry(key), "b", row)
      /\ \A l \in DOMAIN results : \E k \in DOMAIN new : new[k].key = results[l].key
      /\ \E k \in DOMAIN new : new[k].key = key
  <2> HIDE DEF row, key
  <2>1. new = Insert(key, "b", row)
    BY DEF key, row
  <2>2. \A k, l \in DOMAIN results : results[k].key = results[l].key => k = l
    BY DEF DictInv
  <2>3. row \in IF "b" = "a" THEN Rows(done + 1) ELSE Rows(1)
    BY <1>1
  <2>4. key \in Cell
    BY <1>1
  <2>5. RowAdded(new, key, "b", row)
    BY <2>1, <2>3, <2>4, InsertAddsRow
  <2> QED BY <2>2, <2>5 DEF RowAdded
<1>3. \A m : m \in 1..(n + 1) <=> m \in 1..n \/ m = n + 1
  OBVIOUS
<1>4. n + 1 \notin 1..n
  OBVIOUS
<1>5. \A k : JoinedOf(k, n + 1) = IF k = key THEN JoinedOf(k, n) \union {n + 1} ELSE JoinedOf(k, n)
  BY <1>3 DEF JoinedOf
<1>6. \A l \in DOMAIN results : results[l].b \in Seq(Rows(1))
  <2>1. \A l \in DOMAIN results : results[l] \in Entry
    OBVIOUS
  <2> QED BY <2>1 DEF Entry
<1> HIDE DEF row, key
<1>7. ASSUME NEW entry, entry.b \in Seq(Rows(1)),
             Lists(entry.a, SourceOf(key, Len(source)), LeftRow), Lists(entry.b, JoinedOf(key, n), RightRow),
             NEW more, more = More(entry, "b", row)
      PROVE  /\ Lists(more.a, SourceOf(key, Len(source)), LeftRow)
             /\ Lists(more.b, JoinedOf(key, n + 1), RightRow)
  <2>1. more.b = Append(entry.b, RightRow[n + 1]) /\ more.a = entry.a
    BY <1>1, <1>7 DEF More
  <2>2. n + 1 \notin JoinedOf(key, n)
    BY <1>4 DEF JoinedOf
  <2>3. Lists(Append(entry.b, RightRow[n + 1]), JoinedOf(key, n) \union {n + 1}, RightRow)
    BY <1>1, <1>7, <2>2, ListOneMore
  <2> QED BY <1>5, <1>7, <2>1, <2>3
<1>8. ASSUME NEW k \in DOMAIN new
      PROVE  /\ Lists(new[k].a, SourceOf(new[k].key, Len(source)), LeftRow)
             /\ Lists(new[k].b, JoinedOf(new[k].key, n + 1), RightRow)
  <2>1. CASE new[k].key # key
    <3>1. PICK l \in DOMAIN results : new[k] = results[l]
      BY <1>2, <2>1
    <3>2. JoinedOf(new[k].key, n + 1) = JoinedOf(new[k].key, n)
      BY <1>5, <2>1
    <3> QED BY <3>1, <3>2 DEF DictInv
  <2>2. CASE new[k].key = key
    <3>1. CASE \E l \in DOMAIN results : results[l].key = key /\ new[k] = More(results[l], "b", row)
      <4>1. PICK l \in DOMAIN results : results[l].key = key /\ new[k] = More(results[l], "b", row)
        BY <3>1
      <4>2. /\ Lists(results[l].a, SourceOf(key, Len(source)), LeftRow)
            /\ Lists(results[l].b, JoinedOf(key, n), RightRow)
        BY <4>1 DEF DictInv
      <4> QED BY <1>6, <1>7, <2>2, <4>1, <4>2
    <3>2. CASE /\ \A l \in DOMAIN results : results[l].key # key
               /\ new[k] = More(NewEntry(key), "b", row)
      <4>1. NewEntry(key).b \in Seq(Rows(1))
        BY DEF NewEntry
      <4>2. /\ Lists(NewEntry(key).a, SourceOf(key, Len(source)), LeftRow)
            /\ Lists(NewEntry(key).b, JoinedOf(key, n), RightRow)
        BY <3>2, NoRowsOfNewKey
      <4> QED BY <1>7, <2>2, <3>2, <4>1, <4>2
    <3> QED BY <1>2, <2>2, <3>1, <3>2
  <2> QED BY <2>1, <2>2
<1>9. \A m \in 1..(n + 1) : \E k \in DOMAIN new : new[k].key = Joined[m][1]
  <2>1. \A m \in 1..n : \E l \in DOMAIN results : results[l].key = Joined[m][1]
    BY DEF DictInv
  <2>2. Joined[n + 1][1] = key
    BY DEF row, key
  <2> QED BY <1>2, <1>3, <2>1, <2>2, SMTT(60)
<1>10. \A m \in 1..Len(source) : \E k \in DOMAIN new : new[k].key = source[m][Current.key]
  BY <1>2 DEF DictInv
<1> QED BY <1>2, <1>8, <1>9, <1>10 DEF DictInv

-----------------------------------------------------------------------------
(* The pairs                                                               *)

(* Two entries of the dictionary stand for no pair in common.              *)
LEMMA EntriesApart ==
  ASSUME IInv, done < Len(joins), NEW k, NEW l, k # l
  PROVE  EntryPairs(k) \cap EntryPairs(l) = {}
<1> SUFFICES ASSUME NEW p \in EntryPairs(k) \cap EntryPairs(l) PROVE FALSE
  OBVIOUS
<1>1. /\ p[1] \in OrNull(SourceOf(k, Len(source)), "RIGHT")
      /\ p[1] \in OrNull(SourceOf(l, Len(source)), "RIGHT")
      /\ p[2] \in OrNull(JoinedOf(k, Len(Joined)), "LEFT")
      /\ p[2] \in OrNull(JoinedOf(l, Len(Joined)), "LEFT")
  BY DEF EntryPairs
<1>2. p[1] = 0 /\ Current.side = "RIGHT"
  <2>1. SourceOf(k, Len(source)) \cap SourceOf(l, Len(source)) = {} /\ ~ (0 \in 1..Len(source))
    BY DEF SourceOf
  <2>2. 0 \notin SourceOf(k, Len(source)) /\ 0 \notin SourceOf(l, Len(source))
    BY <2>1 DEF SourceOf
  <2> QED BY <1>1, <2>1, <2>2 DEF OrNull
<1>3. p[2] \in JoinedOf(k, Len(Joined)) /\ p[2] \in JoinedOf(l, Len(Joined))
  BY <1>1, <1>2 DEF OrNull
<1> QED BY <1>3 DEF JoinedOf

(* All entries of the dictionary stand for the pairs of a join by key.     *)
LEMMA EntriesAreWithKey ==
  ASSUME IInv, done < Len(joins), results \in Seq(Entry),
         DictInv(results, Len(source), Len(Joined))
  PROVE  Emitted(Len(results)) = WithKey
<1> DEFINE N == Len(source)
           M == Len(Joined)
<1>1. /\ N \in Nat /\ M \in Nat /\ DOMAIN source = 1..N /\ DOMAIN Joined = 1..M
      /\ DOMAIN results = 1..Len(results)
  BY RowFacts
<1>2. /\ \A m \in 1..N : \E k \in 1..Len(results) : results[k].key = source[m][Current.key]
      /\ \A n \in 1..M : \E k \in 1..Len(results) : results[k].key = Joined[n][1]
  BY <1>1 DEF DictInv
<1>3. /\ \A k, m : m \in SourceOf(k, N) <=> m \in 1..N /\ source[m][Current.key] = k
      /\ \A k, n : n \in JoinedOf(k, M) <=> n \in 1..M /\ Joined[n][1] = k
  BY DEF SourceOf, JoinedOf
<1>4. ASSUME NEW k \in 1..Len(results), NEW p \in EntryPairs(results[k].key) PROVE p \in WithKey
  <2> DEFINE key == results[k].key
  <2>1. /\ p = <<p[1], p[2]>>
        /\ p[1] \in OrNull(SourceOf(key, N), "RIGHT") /\ p[2] \in OrNull(JoinedOf(key, M), "LEFT")
    BY <1>4 DEF EntryPairs
  <2> HIDE DEF key, N, M
  <2>2. CASE p[1] \in SourceOf(key, N) /\ p[2] \in JoinedOf(key, M)
    <3>1. p[1] \in DOMAIN source /\ p[2] \in DOMAIN Joined /\ SameKey(p[1], p[2])
      BY <1>1, <1>3, <2>2 DEF SameKey
    <3> QED BY <2>1, <3>1 DEF WithKey
  <2>3. CASE Current.side = "RIGHT" /\ SourceOf(key, N) = {} /\ p[1] = 0 /\ p[2] \in JoinedOf(key, M)
    <3>1. p[2] \in DOMAIN Joined /\ \A m \in DOMAIN source : ~SameKey(m, p[2])
      <4>1. p[2] \in 1..M /\ Joined[p[2]][1] = key
        BY <1>3, <2>3
      <4>2. \A m \in 1..N : source[m][Current.key] # key
        BY <1>3, <2>3
      <4> QED BY <1>1, <4>1, <4>2 DEF SameKey
    <3> QED BY <2>1, <2>3, <3>1 DEF WithKey
  <2>4. CASE Current.side = "LEFT" /\ JoinedOf(key, M) = {} /\ p[2] = 0 /\ p[1] \in SourceOf(key, N)
    <3>1. p[1] \in DOMAIN source /\ \A n \in DOMAIN Joined : ~SameKey(p[1], n)
      BY <1>1, <1>3, <2>4 DEF SameKey
    <3> QED BY <2>1, <2>4, <3>1 DEF WithKey
  <2> QED BY <2>1, <2>2, <2>3, <2>4 DEF OrNull
<1>5. ASSUME NEW p \in WithKey PROVE \E k \in 1..Len(results) : p \in EntryPairs(results[k].key)
  <2> HIDE DEF N, M
  <2>1. CASE p \in (DOMAIN source) \X (DOMAIN Joined) /\ SameKey(p[1], p[2])
    <3>1. p[1] \in 1..N /\ p[2] \in 1..M /\ p = <<p[1], p[2]>>
      BY <1>1, <2>1
    <3>2. PICK k \in 1..Len(results) : results[k].key = source[p[1]][Current.key]
      BY <1>2, <3>1
    <3>3. p[1] \in SourceOf(results[k].key, N) /\ p[2] \in JoinedOf(results[k].key, M)
      BY <1>3, <2>1, <3>1, <3>2 DEF SameKey
    <3>4. p \in EntryPairs(results[k].key)
      BY <3>1, <3>3 DEF EntryPairs, OrNull, N, M
    <3> QED BY <3>4
  <2>2. CASE \E m \in DOMAIN source :
               Current.side = "LEFT" /\ p = <<m, 0>> /\ \A n \in DOMAIN Joined : ~SameKey(m, n)
    <3>1. PICK m \in 1..N :
            Current.side = "LEFT" /\ p = <<m, 0>> /\ \A n \in 1..M : ~SameKey(m, n)
      BY <1>1, <2>2
    <3>2. PICK k \in 1..Len(results) : results[k].key = source[m][Current.key]
      BY <1>2
    <3>3. m \in SourceOf(results[k].key, N) /\ JoinedOf(results[k].key, M) = {}
      BY <1>3, <3>1, <3>2, SMTT(60) DEF SameKey
    <3>4. p \in EntryPairs(results[k].key)
      BY <3>1, <3>3 DEF EntryPairs, OrNull, N, M
    <3> QED BY <3>4
  <2>3. CASE \E n \in DOMAIN Joined :
               Current.side = "RIGHT" /\ p = <<0, n>> /\ \A m \in DOMAIN source : ~SameKey(m, n)
    <3>1. PICK n \in 1..M :
            Current.side = "RIGHT" /\ p = <<0, n>> /\ \A m \in 1..N : ~SameKey(m, n)
      BY <1>1, <2>3
    <3>2. PICK k \in 1..Len(results) : results[k].key = Joined[n][1]
      BY <1>2
    <3>3. n \in JoinedOf(results[k].key, M) /\ SourceOf(results[k].key, N) = {}
      BY <1>3, <3>1, <3>2 DEF SameKey
    <3>4. p \in EntryPairs(results[k].key)
      BY <3>1, <3>3 DEF EntryPairs, OrNull, N, M
    <3> QED BY <3>4
  <2> QED BY <2>1, <2>2, <2>3 DEF WithKey
<1> QED BY <1>4, <1>5 DEF Emitted

(* The rows an entry emits list its pairs.                                 *)
LEMMA EntryListsPairs ==
  ASSUME IInv, done < Len(joins), NEW entry \in Entry, NEW groups, groups = GroupsOf(entry),
         Lists(entry.a, SourceOf(entry.key, Len(source)), LeftRow),
         Lists(entry.b, JoinedOf(entry.key, Len(Joined)), RightRow)
  PROVE  /\ groups.a \in Seq(Rows(done + 1)) /\ groups.b \in Seq(Rows(1))
         /\ Lists(Product(groups.a, groups.b), EntryPairs(entry.key), PairRow)
<1> DEFINE S == SourceOf(entry.key, Len(source))
           T == JoinedOf(entry.key, Len(Joined))
<1>1. entry.a \in Seq(Rows(done + 1)) /\ entry.b \in Seq(Rows(1))
  BY DEF Entry
<1>2. (entry.a = <<>> <=> S = {}) /\ (entry.b = <<>> <=> T = {})
  BY <1>1, ListOfNothing
<1>3. /\ Nulls(done + 1) \in Seq(Rows(done + 1)) /\ Nulls(1) \in Seq(Rows(1))
      /\ Nulls(done + 1) = <<LeftRow[0]>> /\ Nulls(1) = <<RightRow[0]>>
  <2>1. done + 1 \in Nat /\ 1 \in Nat
    BY DEF IInv, TypeOK
  <2> QED BY <2>1, NullsAreRows, RowFacts
<1>4. Lists(Nulls(done + 1), {0}, LeftRow) /\ Lists(Nulls(1), {0}, RightRow)
  BY <1>3, ListOfOne
<1>5. groups.a = IF Current.side = "RIGHT" /\ S = {} THEN Nulls(done + 1) ELSE entry.a
  BY <1>2 DEF GroupsOf
<1>6. groups.b = IF Current.side = "LEFT" /\ T = {} THEN Nulls(1) ELSE entry.b
  BY <1>2 DEF GroupsOf
<1>7. Lists(groups.a, OrNull(S, "RIGHT"), LeftRow) /\ groups.a \in Seq(Rows(done + 1))
  BY <1>1, <1>3, <1>4, <1>5 DEF OrNull
<1>8. Lists(groups.b, OrNull(T, "LEFT"), RightRow) /\ groups.b \in Seq(Rows(1))
  BY <1>1, <1>3, <1>4, <1>6 DEF OrNull
<1>9. /\ \A m \in OrNull(S, "RIGHT") : m \in 0..Len(source)
      /\ \A n \in OrNull(T, "LEFT") : n \in 0..Len(Joined)
  <2>1. Len(source) \in Nat /\ Len(Joined) \in Nat
    BY RowFacts
  <2> QED BY <2>1 DEF OrNull, SourceOf, JoinedOf
<1> DEFINE A == OrNull(S, "RIGHT")
           B == OrNull(T, "LEFT")
<1>10. Concatenates(PairRow, A, B, LeftRow, RightRow)
  BY <1>9, RowFacts DEF Concatenates
<1>11. Lists(Product(groups.a, groups.b), A \X B, PairRow)
  <2> DEFINE as == groups.a
             bs == groups.b
             Q == Rows(done + 1)
             R == Rows(1)
  <2>1. as \in Seq(Q) /\ bs \in Seq(R) /\ Lists(as, A, LeftRow) /\ Lists(bs, B, RightRow)
    BY <1>7, <1>8
  <2> HIDE DEF A, B, as, bs, Q, R
  <2>2. Lists(Product(as, bs), A \X B, PairRow)
    BY <1>10, <2>1, ListsOfPairs
  <2> QED BY <2>2 DEF as, bs
<1> QED BY <1>7, <1>8, <1>11 DEF EntryPairs

LEMMA ListOfAll ==
  ASSUME NEW R, NEW rows \in Seq(R), NEW F, \A n \in 1..Len(rows) : F[n] = rows[n]
  PROVE  Lists(rows, 1..Len(rows), F)
<1> DEFINE g == [n \in 1..Len(rows) |-> n]
<1>1. DOMAIN rows = 1..Len(rows)
  BY PlacesOfList
<1>2. IsListing(g, rows, 1..Len(rows), F)
  BY <1>1 DEF IsListing
<1> HIDE DEF g
<1> QED BY <1>2 DEF Lists

-----------------------------------------------------------------------------
(* The join, step by step                                                  *)

(* What the loops of a join leave alone.                                   *)
LEMMA SameJoin ==
  ASSUME UNCHANGED <<query, done, source>>
  PROVE  /\ LeftRow' = LeftRow /\ RightRow' = RightRow /\ PairRow' = PairRow
         /\ Current' = Current /\ Joined' = Joined /\ Len(source)' = Len(source)
         /\ WithKey' = WithKey /\ Candidates' = Candidates /\ Pairs' = Pairs
         /\ \A k, n : SourceOf(k, n)' = SourceOf(k, n) /\ JoinedOf(k, n)' = JoinedOf(k, n)
         /\ \A k : EntryPairs(k)' = EntryPairs(k)
         /\ \A dict, m, n : DictInv(dict, m, n)' = DictInv(dict, m, n)
<1>1. Current' = Current /\ Joined' = Joined /\ source' = source /\ done' = done
  BY DEF Current, Joined, query
<1>2. LeftRow' = LeftRow /\ RightRow' = RightRow
  BY <1>1 DEF LeftRow, RightRow
<1>3. PairRow' = PairRow
  BY <1>1, <1>2 DEF PairRow
<1>4. WithKey' = WithKey /\ Candidates' = Candidates
  BY <1>1 DEF WithKey, Candidates, SameKey
<1>5. Pairs' = Pairs
  BY <1>1 DEF Pairs, Matches
<1>6. \A k, n : SourceOf(k, n)' = SourceOf(k, n) /\ JoinedOf(k, n)' = JoinedOf(k, n)
  BY <1>1 DEF SourceOf, JoinedOf
<1>7. \A k : EntryPairs(k)' = EntryPairs(k)
  BY <1>1, <1>6 DEF EntryPairs, OrNull
<1>8. \A dict, m, n : DictInv(dict, m, n)' = DictInv(dict, m, n)
  BY <1>1, <1>2, <1>6 DEF DictInv
<1> QED BY <1>1, <1>2, <1>3, <1>4, <1>5, <1>6, <1>7, <1>8

LEMMA BeginJoin == IInv /\ Begin => JoinInv'
<1> SUFFICES ASSUME IInv, Begin PROVE JoinInv'
  OBVIOUS
<1>1. /\ phase' = IF Current.key # 0 THEN "source" ELSE "nested"
      /\ read' = 0 /\ results' = <<>> /\ table' = <<>>
  BY DEF Begin
<1>2. DictInv(<<>>, 0, 0)'
  <2>1. DOMAIN <<>> = {} /\ 1..0 = {}
    OBVIOUS
  <2> QED BY <2>1 DEF DictInv
<1>3. Lists(<<>>, (1..0) \X (DOMAIN Joined)', PairRow')
  <2>1. (1..0) \X (DOMAIN Joined)' = {}
    OBVIOUS
  <2> QED BY <2>1, EmptyList
<1> QED BY <1>1, <1>2, <1>3 DEF JoinInv

LEMMA HashSourceJoin == IInv /\ JoinInv /\ HashSource => JoinInv'
<1> SUFFICES ASSUME IInv, JoinInv, HashSource PROVE JoinInv'
  OBVIOUS
<1>1. /\ phase = "source" /\ done < Len(joins) /\ Current.key # 0 /\ results \in Seq(Entry)
      /\ read \in Nat /\ read <= Len(source) /\ Len(source) \in Nat /\ table = <<>>
      /\ DictInv(results, read, 0)
  BY DEF IInv, TypeOK, ControlInv, HashSource, InJoin, JoinInv
<1>2. UNCHANGED <<query, done, source>> /\ table' = <<>>
  BY <1>1 DEF HashSource
<1>3. CASE read < Len(source)
  <2>1. /\ phase' = "source" /\ read' = read + 1
        /\ results' = Insert(source[read + 1][Current.key], "a", source[read + 1])
    BY <1>1, <1>3 DEF HashSource
  <2>2. DictInv(results', read + 1, 0)
    BY <1>1, <1>3, <2>1, SourceRowRead
  <2>3. DictInv(results, read, 0)'
    BY <1>2, <2>1, <2>2, SameJoin
  <2> QED BY <1>2, <2>1, <2>3 DEF JoinInv
<1>4. CASE ~(read < Len(source))
  <2>1. phase' = "joined" /\ read' = 0 /\ results' = results /\ read = Len(source)
    BY <1>1, <1>4 DEF HashSource
  <2>2. DictInv(results, Len(source), read)'
    BY <1>1, <1>2, <2>1, SameJoin
  <2> QED BY <1>2, <2>1, <2>2 DEF JoinInv
<1> QED BY <1>3, <1>4

LEMMA HashJoinedJoin == IInv /\ JoinInv /\ HashJoined => JoinInv'
<1> SUFFICES ASSUME IInv, JoinInv, HashJoined PROVE JoinInv'
  OBVIOUS
<1>1. /\ phase = "joined" /\ done < Len(joins) /\ Current.key # 0 /\ results \in Seq(Entry)
      /\ read \in Nat /\ read <= Len(Joined) /\ table = <<>>
      /\ DictInv(results, Len(source), read)
  BY DEF IInv, TypeOK, ControlInv, HashJoined, InJoin, JoinInv
<1>2. UNCHANGED <<query, done, source>> /\ table' = <<>>
  BY <1>1 DEF HashJoined
<1>3. CASE read < Len(Joined)
  <2>1. /\ phase' = "joined" /\ read' = read + 1
        /\ results' = Insert(Joined[read + 1][1], "b", Joined[read + 1])
    BY <1>1, <1>3 DEF HashJoined
  <2>2. DictInv(results', Len(source), read + 1)
    BY <1>1, <1>3, <2>1, JoinedRowRead
  <2>3. DictInv(results, Len(source), read)'
    BY <1>2, <2>1, <2>2, SameJoin
  <2> QED BY <1>2, <2>1, <2>3 DEF JoinInv
<1>4. CASE ~(read < Len(Joined))
  <2>1. phase' = "emit" /\ read' = 0 /\ results' = results /\ read = Len(Joined)
    <3>1. Len(Joined) \in Nat
      BY <1>1, RowFacts
    <3> QED BY <1>1, <1>4, <3>1 DEF HashJoined
  <2>2. DictInv(results, Len(source), Len(Joined))'
    BY <1>1, <1>2, <2>1, SameJoin
  <2>3. Emitted(0)' = {}
    <3>1. 1..0 = {}
      OBVIOUS
    <3> QED BY <3>1 DEF Emitted
  <2>4. Lists(table', Emitted(read)', PairRow')
    BY <1>2, <2>1, <2>3, EmptyList
  <2> QED BY <2>1, <2>2, <2>4 DEF JoinInv
<1> QED BY <1>3, <1>4

LEMMA EmitJoin == IInv /\ JoinInv /\ Emit => JoinInv'
<1> SUFFICES ASSUME IInv, JoinInv, Emit PROVE JoinInv'
  OBVIOUS
<1>1. /\ phase = "emit" /\ done < Len(joins) /\ Current.key # 0 /\ results \in Seq(Entry)
      /\ read \in Nat /\ read <= Len(results) /\ Len(results) \in Nat
      /\ table \in Seq(Rows(done + 2)) /\ done \in Nat
      /\ DictInv(results, Len(source), Len(Joined)) /\ Lists(table, Emitted(read), PairRow)
  BY DEF IInv, TypeOK, ControlInv, Emit, InJoin, JoinInv
<1>2. UNCHANGED <<query, done, source, results>>
  BY DEF Emit
<1>3. DictInv(results, Len(source), Len(Joined))'
  <2>1. Len(source)' = Len(source) /\ Len(Joined)' = Len(Joined) /\ results' = results
    BY <1>2, SameJoin
  <2> QED BY <1>1, <1>2, <2>1, SameJoin
<1>4. Emitted(read') = Emitted(read)'
  BY <1>2, SameJoin DEF Emitted
<1>5. PairRow' = PairRow
  BY <1>2, SameJoin
<1>6. CASE read < Len(results)
  <2> DEFINE entry == results[read + 1]
             groups == GroupsOf(entry)
             new == Product(groups.a, groups.b)
  <2>1. read + 1 \in 1..Len(results) /\ entry \in Entry /\ read + 1 \notin 1..read
    BY <1>1, <1>6
  <2>2. phase' = "emit" /\ read' = read + 1 /\ table' = table \o new
    BY <1>1, <1>6 DEF Emit
  <2>3. /\ Lists(entry.a, SourceOf(entry.key, Len(source)), LeftRow)
        /\ Lists(entry.b, JoinedOf(entry.key, Len(Joined)), RightRow)
    BY <1>1, <2>1 DEF DictInv
  <2> HIDE DEF entry
  <2>4. /\ groups.a \in Seq(Rows(done + 1)) /\ groups.b \in Seq(Rows(1))
        /\ Lists(new, EntryPairs(entry.key), PairRow)
    <3> HIDE DEF groups
    <3>1. groups = GroupsOf(entry)
      BY DEF groups
    <3> QED BY <1>1, <2>1, <2>3, <3>1, EntryListsPairs
  <2>5. new \in Seq(Rows(done + 2))
    <3>1. done + 1 \in Nat /\ 1 \in Nat /\ (done + 1) + 1 = done + 2
      BY <1>1
    <3>2. new \in Seq(Rows((done + 1) + 1))
      <4> HIDE DEF groups
      <4> QED BY <2>4, <3>1, ProductOfRows
    <3> QED BY <3>1, <3>2
  <2> HIDE DEF new, groups
  <2>6. Emitted(read) \cap EntryPairs(entry.key) = {}
    <3>1. ASSUME NEW k \in 1..read PROVE EntryPairs(results[k].key) \cap EntryPairs(entry.key) = {}
      <4>1. k \in DOMAIN results /\ read + 1 \in DOMAIN results /\ k # read + 1
        BY <1>1, <1>6
      <4>2. results[k].key # entry.key
        BY <1>1, <4>1 DEF DictInv, entry
      <4> QED BY <1>1, <4>2, EntriesApart
    <3> QED BY <3>1 DEF Emitted
  <2>7. Emitted(read + 1) = Emitted(read) \union EntryPairs(entry.key)
    <3>1. \A k : k \in 1..(read + 1) <=> k \in 1..read \/ k = read + 1
      BY <1>1
    <3> QED BY <3>1 DEF Emitted, entry
  <2>8. Lists(table', Emitted(read + 1), PairRow)
    <3> DEFINE S == Emitted(read)
               T == EntryPairs(entry.key)
               R == Rows(done + 2)
    <3>1. Lists(table, S, PairRow) /\ Lists(new, T, PairRow) /\ S \cap T = {}
          /\ table \in Seq(R) /\ new \in Seq(R)
      BY <1>1, <2>4, <2>5, <2>6
    <3> HIDE DEF S, T, R
    <3>2. Lists(table \o new, S \union T, PairRow)
      BY <3>1, ListsTogether
    <3> QED BY <2>2, <2>7, <3>2 DEF S, T
  <2>9. Lists(table', Emitted(read)', PairRow')
    BY <1>4, <1>5, <2>2, <2>8
  <2> QED BY <1>3, <2>2, <2>9 DEF JoinInv
<1>7. CASE ~(read < Len(results))
  <2>1. phase' = "filter" /\ table' = table /\ read = Len(results)
    BY <1>1, <1>7 DEF Emit
  <2>2. Lists(table, Candidates, PairRow)
    BY <1>1, <2>1, EntriesAreWithKey DEF Candidates
  <2>3. Lists(table', Candidates', PairRow')
    BY <1>2, <2>1, <2>2, SameJoin
  <2> QED BY <2>1, <2>3 DEF JoinInv
<1> QED BY <1>6, <1>7

LEMMA NestedLoopJoin == IInv /\ JoinInv /\ NestedLoop => JoinInv'
<1> SUFFICES ASSUME IInv, JoinInv, NestedLoop PROVE JoinInv'
  OBVIOUS
<1> DEFINE M == DOMAIN Joined
<1>1. /\ phase = "nested" /\ done < Len(joins) /\ Current.key = 0
      /\ read \in Nat /\ read <= Len(source) /\ Len(source) \in Nat
      /\ table \in Seq(Rows(done + 2)) /\ done \in Nat
      /\ Lists(table, (1..read) \X M, PairRow)
  BY DEF IInv, TypeOK, ControlInv, NestedLoop, InJoin, JoinInv
<1>2. UNCHANGED <<query, done, source>>
  BY DEF NestedLoop
<1>3. PairRow' = PairRow /\ (DOMAIN Joined)' = M /\ Candidates' = Candidates
  BY <1>2, SameJoin
<1>4. CASE read < Len(source)
  <2> DEFINE rows == <<source[read + 1]>>
             new == Product(rows, Joined)
  <2>1. phase' = "nested" /\ read' = read + 1 /\ table' = table \o new
    BY <1>1, <1>4 DEF NestedLoop
  <2>2. read + 1 \in 1..Len(source) /\ LeftRow[read + 1] = source[read + 1]
    BY <1>1, <1>4, RowFacts
  <2>3. /\ rows \in Seq(Rows(done + 1)) /\ Joined \in Seq(Rows(1))
        /\ M = 1..Len(Joined) /\ \A n \in 1..Len(Joined) : RightRow[n] = Joined[n]
    BY <1>1, <2>2, RowFacts, CurrentIsJoin
  <2>4. Lists(rows, {read + 1}, LeftRow)
    <3>1. Lists(<<LeftRow[read + 1]>>, {read + 1}, LeftRow)
      BY ListOfOne
    <3> QED BY <2>2, <3>1
  <2> HIDE DEF rows, new
  <2>5. Lists(Joined, M, RightRow)
    BY <2>3, ListOfAll
  <2>6. Lists(new, {read + 1} \X M, PairRow)
    <3> DEFINE S == {read + 1}
    <3>1. Concatenates(PairRow, S, M, LeftRow, RightRow)
      <4>1. \A n \in M : n \in 0..Len(Joined)
        BY <1>1, <2>3, RowFacts
      <4>2. read + 1 \in 0..Len(source)
        BY <2>2
      <4> QED BY <1>1, <4>1, <4>2, RowFacts DEF Concatenates
    <3>2. Lists(rows, S, LeftRow)
      BY <2>4
    <3> HIDE DEF S, M
    <3>3. Lists(Product(rows, Joined), S \X M, PairRow)
      BY <2>3, <2>5, <3>1, <3>2, ListsOfPairs
    <3> QED BY <3>3 DEF new, S
  <2>7. new \in Seq(Rows(done + 2))
    <3>1. done + 1 \in Nat /\ 1 \in Nat /\ (done + 1) + 1 = done + 2
      BY <1>1
    <3>2. new \in Seq(Rows((done + 1) + 1))
      BY <2>3, <3>1, ProductOfRows DEF new
    <3> QED BY <3>1, <3>2
  <2>8. Lists(table \o new, (1..(read + 1)) \X M, PairRow)
    <3> DEFINE S == (1..read) \X M
               T == {read + 1} \X M
               R == Rows(done + 2)
    <3>1. S \cap T = {}
      <4>1. read + 1 \notin 1..read
        BY <1>1
      <4> QED BY <4>1
    <3>2. (1..(read + 1)) \X M = S \union T
      <4>1. \A k : k \in 1..(read + 1) <=> k \in 1..read \/ k = read + 1
        BY <1>1
      <4> QED BY <4>1
    <3>3. /\ Lists(table, S, PairRow) /\ Lists(new, T, PairRow)
          /\ table \in Seq(R) /\ new \in Seq(R)
      BY <1>1, <2>6, <2>7
    <3> HIDE DEF S, T, R
    <3>4. Lists(table \o new, S \union T, PairRow)
      BY <3>1, <3>3, ListsTogether
    <3> QED BY <3>2, <3>4
  <2>9. Lists(table', (1..read') \X (DOMAIN Joined)', PairRow')
    BY <1>3, <2>1, <2>8
  <2> QED BY <2>1, <2>9 DEF JoinInv
<1>5. CASE ~(read < Len(source))
  <2>1. phase' = "filter" /\ table' = table /\ read = Len(source)
    BY <1>1, <1>5 DEF NestedLoop
  <2>2. Candidates = (1..read) \X M
    BY <1>1, <2>1, RowFacts DEF Candidates
  <2>3. Lists(table', Candidates', PairRow')
    BY <1>1, <1>3, <2>1, <2>2
  <2> QED BY <2>1, <2>3 DEF JoinInv
<1> QED BY <1>4, <1>5

(* The candidates of which the rest of the condition holds are the pairs   *)
(* SQL joins.                                                              *)
LEMMA CandidatesThatHold ==
  ASSUME SafeQueries, IInv, done < Len(joins)
  PROVE  {p \in Candidates : Holds(Current.condition, PairRow[p])} = Pairs
<1> DEFINE N == DOMAIN source
           M == DOMAIN Joined
           both == {p \in N \X M : Matches(p[1], p[2])}
           chosen == {p \in Candidates : Holds(Current.condition, PairRow[p])}
<1>1. /\ Current.side \in {"INNER", "LEFT", "RIGHT"}
      /\ Current.side # "INNER" => Current.key # 0 /\ Current.condition = {}
  <2>1. joins \in Joins /\ done + 1 \in DOMAIN joins
    BY CurrentIsJoin DEF IInv, ControlInv
  <2> QED BY <2>1 DEF SafeQueries, Current
<1>2. \A n \in M : Joined[n][1] # Null
  <2>1. inputs \in Columns /\ done + 2 \in 2..Len(inputs)
    <3>1. done \in 0..Len(joins) /\ Len(joins) \in Nat /\ Len(inputs) = Len(joins) + 1
      BY DEF IInv, TypeOK
    <3>2. inputs \in Columns
      BY DEF IInv, ControlInv
    <3> QED BY <3>1, <3>2
  <2>2. Joined \in Seq([1..1 -> Value])
    BY <2>1 DEF SafeQueries, Joined
  <2>3. ASSUME NEW n \in M PROVE Joined[n][1] \in Value
    <3>1. Joined[n] \in [1..1 -> Value]
      BY <2>2
    <3> QED BY <3>1
  <2> QED BY <2>3, JoinAssumption
<1>3. \A m \in N, n \in M :
        Matches(m, n) <=> /\ Current.key # 0 => SameKey(m, n)
                          /\ Holds(Current.condition, PairRow[<<m, n>>])
  <2>1. ASSUME NEW m \in N, NEW n \in M PROVE PairRow[<<m, n>>] = source[m] \o Joined[n]
    <3>1. m \in 1..Len(source) /\ n \in 1..Len(Joined)
      BY RowFacts
    <3>2. m \in 0..Len(source) /\ n \in 0..Len(Joined)
      BY <3>1
    <3>3. PairRow[<<m, n>>] = LeftRow[m] \o RightRow[n]
      BY <3>2, RowOfPair
    <3>4. LeftRow[m] = source[m] /\ RightRow[n] = Joined[n]
      BY <3>1, RowFacts
    <3> QED BY <3>3, <3>4
  <2> QED BY <1>2, <2>1 DEF Matches, SameKey
<1>4. \A p \in N \X M : p = <<p[1], p[2]>> /\ p[1] \in N /\ p[2] \in M
  OBVIOUS
<1>5. CASE Current.key = 0
  <2>1. Candidates = N \X M /\ Current.side = "INNER"
    BY <1>1, <1>5 DEF Candidates
  <2>2. Pairs = both
    BY <2>1 DEF Pairs
  <2>3. \A p \in N \X M : Matches(p[1], p[2]) <=> Holds(Current.condition, PairRow[p])
    BY <1>3, <1>4, <1>5
  <2> HIDE DEF N, M
  <2> QED BY <2>1, <2>2, <2>3
<1>6. CASE Current.key # 0 /\ Current.side = "INNER"
  <2>1. Candidates = {p \in N \X M : SameKey(p[1], p[2])}
    BY <1>6 DEF Candidates, WithKey
  <2>2. Pairs = both
    BY <1>6 DEF Pairs
  <2>3. \A p \in N \X M :
          Matches(p[1], p[2]) <=> SameKey(p[1], p[2]) /\ Holds(Current.condition, PairRow[p])
    BY <1>3, <1>4, <1>6
  <2> HIDE DEF N, M
  <2> QED BY <2>1, <2>2, <2>3
<1>7. CASE Current.key # 0 /\ Current.side \in {"LEFT", "RIGHT"}
  <2>1. chosen = WithKey
    <3>1. Current.condition = {}
      BY <1>1, <1>7
    <3> QED BY <1>7, <3>1 DEF Candidates, Holds
  <2>2. \A m \in N, n \in M : Matches(m, n) <=> SameKey(m, n)
    BY <1>1, <1>3, <1>7 DEF Holds
  <2>3. both = {p \in N \X M : SameKey(p[1], p[2])}
    BY <1>4, <2>2
  <2>4. /\ \A m \in N : (\A p \in both : p[1] # m) <=> (\A n \in M : ~SameKey(m, n))
        /\ \A n \in M : (\A p \in both : p[2] # n) <=> (\A m \in N : ~SameKey(m, n))
    <3>1. ASSUME NEW m \in N, NEW n \in M, SameKey(m, n)
          PROVE  <<m, n>> \in both /\ <<m, n>>[1] = m /\ <<m, n>>[2] = n
      BY <2>3, <3>1
    <3>2. \A p \in both : p[1] \in N /\ p[2] \in M /\ SameKey(p[1], p[2])
      BY <2>3
    <3> HIDE DEF both, N, M
    <3>3. ASSUME NEW m \in N
          PROVE  (\A p \in both : p[1] # m) <=> (\A n \in M : ~SameKey(m, n))
      BY <3>1, <3>2, ZenonT(60)
    <3>4. ASSUME NEW n \in M
          PROVE  (\A p \in both : p[2] # n) <=> (\A m \in N : ~SameKey(m, n))
      BY <3>1, <3>2
    <3> QED BY <3>3, <3>4
  <2> DEFINE loneLeft == {k \in N : \A p \in both : p[1] # k}
             loneRight == {k \in M : \A p \in both : p[2] # k}
  <2>5. /\ loneLeft = {k \in N : \A n \in M : ~SameKey(k, n)}
        /\ loneRight = {k \in M : \A m \in N : ~SameKey(m, k)}
    BY <2>4
  <2>6. Pairs = both \union (IF Current.side = "LEFT" THEN {<<m, 0>> : m \in loneLeft} ELSE {})
                     \union (IF Current.side = "RIGHT" THEN {<<0, n>> : n \in loneRight} ELSE {})
    BY <1>7 DEF Pairs
  <2>7. WithKey = both \union (IF Current.side = "LEFT" THEN {<<m, 0>> : m \in loneLeft} ELSE {})
                       \union (IF Current.side = "RIGHT" THEN {<<0, n>> : n \in loneRight} ELSE {})
    <3> HIDE DEF both, loneLeft, loneRight
    <3> QED BY <2>3, <2>5 DEF WithKey
  <2> HIDE DEF both, loneLeft, loneRight, chosen
  <2> QED BY <2>1, <2>6, <2>7 DEF chosen
<1> QED BY <1>1, <1>5, <1>6, <1>7

LEMMA FilterJoin == SafeQueries /\ IInv /\ JoinInv /\ Filter => JoinInv'
<1> SUFFICES ASSUME SafeQueries, IInv, JoinInv, Filter PROVE JoinInv'
  OBVIOUS
<1>1. /\ done < Len(joins) /\ table \in Seq(Rows(done + 2)) /\ Lists(table, Candidates, PairRow)
  BY DEF IInv, TypeOK, ControlInv, Filter, InJoin, JoinInv
<1>2. UNCHANGED <<query, done, source>> /\ phase' = "made" /\ table' = Kept(Current.condition, table)
  BY DEF Filter
<1>3. Lists(table', {p \in Candidates : Holds(Current.condition, PairRow[p])}, PairRow)
  BY <1>1, <1>2, KeptOfList
<1>4. Lists(table', Pairs, PairRow)
  BY <1>1, <1>3, CandidatesThatHold
<1>5. Lists(table', Pairs', PairRow')
  BY <1>2, <1>4, SameJoin
<1> QED BY <1>2, <1>5 DEF JoinInv

LEMMA StepJoin == SafeQueries /\ IInv /\ JoinInv /\ [Next]_vars => JoinInv'
<1> SUFFICES ASSUME SafeQueries, IInv, JoinInv, [Next]_vars PROVE JoinInv'
  OBVIOUS
<1>1. CASE UNCHANGED vars
  <2>1. UNCHANGED <<query, done, source>> /\ UNCHANGED <<phase, read, results, table>>
    BY <1>1 DEF vars
  <2>2. /\ \A m, n : DictInv(results, m, n)' = DictInv(results, m, n)
        /\ PairRow' = PairRow /\ Emitted(read)' = Emitted(read)
    BY <2>1, SameJoin DEF Emitted
  <2>3. /\ Candidates' = Candidates /\ Pairs' = Pairs /\ Joined' = Joined
        /\ Len(source)' = Len(source) /\ Len(Joined)' = Len(Joined)
    BY <2>1, SameJoin
  <2> QED BY <2>1, <2>2, <2>3 DEF JoinInv
<1>2. CASE Continue \/ LastJoinMade \/ Project
  <2>1. phase' \in {"next", "project", "done"}
    BY <1>2 DEF Continue, LastJoinMade, Project
  <2> QED BY <2>1 DEF JoinInv
<1> QED BY <1>1, <1>2, BeginJoin, HashSourceJoin, HashJoinedJoin, EmitJoin, NestedLoopJoin, FilterJoin
        DEF Next, Done

(* A list of the pairs of SQL's join has every row as often as the join.   *)
LEMMA ListOfPairsIsSQL ==
  ASSUME IInv, JoinInv
  PROVE  JoinIsSQL
<1> SUFFICES ASSUME phase = "made"
             PROVE  /\ Len(table) = Cardinality(Pairs)
                    /\ \A p \in Pairs :
                         Cardinality({n \in DOMAIN table : table[n] = RowOf(p)})
                           = Cardinality({q \in Pairs : RowOf(q) = RowOf(p)})
  BY DEF JoinIsSQL
<1>1. done < Len(joins) /\ table \in Seq(Rows(done + 2)) /\ Lists(table, Pairs, PairRow)
  BY DEF IInv, TypeOK, ControlInv, InJoin, JoinInv
<1>2. ASSUME NEW p \in Pairs PROVE PairRow[p] = RowOf(p)
  <2>1. p = <<p[1], p[2]>> /\ p[1] \in 0..Len(source) /\ p[2] \in 0..Len(Joined)
    <3>1. /\ DOMAIN source = 1..Len(source) /\ DOMAIN Joined = 1..Len(Joined)
          /\ Len(source) \in Nat /\ Len(Joined) \in Nat
      BY <1>1, RowFacts
    <3>2. \/ p \in (DOMAIN source) \X (DOMAIN Joined)
          \/ \E m \in DOMAIN source : p = <<m, 0>>
          \/ \E n \in DOMAIN Joined : p = <<0, n>>
      BY DEF Pairs
    <3> QED BY <3>1, <3>2
  <2>2. PairRow[p] = LeftRow[p[1]] \o RightRow[p[2]]
    <3>1. PairRow[<<p[1], p[2]>>] = LeftRow[p[1]] \o RightRow[p[2]]
      <4>1. p[1] \in 0..Len(source) /\ p[2] \in 0..Len(Joined)
        BY <2>1
      <4> QED BY <1>1, <4>1, RowOfPair
    <3> QED BY <2>1, <3>1
  <2> QED BY <2>1, <2>2 DEF RowOf, LeftRow, RightRow
<1>3. Len(table) = Cardinality(Pairs)
  BY <1>1, CountOfList
<1>4. ASSUME NEW p \in Pairs
      PROVE  Cardinality({n \in DOMAIN table : table[n] = RowOf(p)})
               = Cardinality({q \in Pairs : RowOf(q) = RowOf(p)})
  <2>1. Cardinality({n \in DOMAIN table : table[n] = RowOf(p)})
          = Cardinality({q \in Pairs : PairRow[q] = RowOf(p)})
    <3>1. Cardinality(Places(table, RowOf(p))) = Cardinality(Elements(Pairs, PairRow, RowOf(p)))
      BY <1>1, CountOfList
    <3> QED BY <3>1 DEF Places, Elements
  <2>2. {q \in Pairs : PairRow[q] = RowOf(p)} = {q \in Pairs : RowOf(q) = RowOf(p)}
    BY <1>2
  <2> QED BY <2>1, <2>2
<1> QED BY <1>3, <1>4

(* Where the queries are those it is safe for, a join by dictionary or by  *)
(* nested loop makes the rows SQL says, each as often: rows with equal     *)
(* keys in all their combinations, a row of an outer side without a        *)
(* partner once, with nulls, and no other.                                 *)
THEOREM JoinsAreSQL == ASSUME SafeQueries PROVE Spec => []JoinIsSQL
<1>1. Init => JoinInv
  BY DEF Init, JoinInv
<1>2. IInv /\ JoinInv /\ [Next]_vars => JoinInv'
  BY StepJoin
<1>3. IInv /\ JoinInv => JoinIsSQL
  BY ListOfPairsIsSQL
<1> QED BY <1>1, <1>2, <1>3, TypesHold, PTL DEF Spec
=============================================================================
