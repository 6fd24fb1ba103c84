------------------------- MODULE DeclarationProofs -------------------------
(***************************************************************************)
(* What the build script makes of any header, any declaration and any glob *)
(* it reads: the theorems of Declaration.                                  *)
(***************************************************************************)
EXTENDS Declaration, SequenceTheorems, FiniteSetTheorems, WellFoundedInduction, TLAPS

\* A set of natural numbers with something in it has a least element: what
\* stands in for induction below is a first place where something fails.
LEMMA LeastOf ==
    ASSUME NEW T \in SUBSET Nat, T # {}
    PROVE  \E n \in T : \A m \in T : n <= m
<1>1. PICK n \in T : \A m \in T : ~(<<m, n>> \in OpToRel(<, Nat))
  BY WFMin, NatLessThanWellFounded
<1>2. \A m \in T : ~(m < n)
  BY <1>1 DEF OpToRel
<1> QED
  BY <1>2

\* First finds the least.
LEMMA FirstIsLeast ==
    ASSUME NEW T \in SUBSET Nat, T # {}
    PROVE  First(T) \in T /\ \A m \in T : First(T) <= m
<1>1. \E n \in T : \A m \in T : n <= m
  BY LeastOf
<1> QED
  BY <1>1 DEF First

\* One with a bound has a greatest.
LEMMA GreatestOf ==
    ASSUME NEW T \in SUBSET Nat, T # {}, NEW b \in Nat, \A n \in T : n <= b
    PROVE  \E n \in T : \A m \in T : m <= n
<1> DEFINE U == {k \in Nat : \E n \in T : k = b - n}
<1>1. PICK k \in U : \A m \in U : k <= m
  <2>1. \A n \in T : b - n \in U
    OBVIOUS
  <2>2. U # {} /\ U \in SUBSET Nat
    BY <2>1
  <2> HIDE DEF U
  <2> QED
    BY <2>2, LeastOf
<1>2. PICK n \in T : k = b - n
  BY <1>1
<1>3. ASSUME NEW m \in T PROVE m <= n
  <2>1. b - m \in U
    OBVIOUS
  <2>2. k <= b - m
    BY <1>1, <2>1
  <2> QED
    BY <1>2, <2>2
<1> QED
  BY <1>3

-----------------------------------------------------------------------------
(* Globs: a part of one above a part of a version *)

\* The characters b + 1 .. d of V stand under the characters a + 1 .. c of P.
Aligned(P, V, a, b, c, d, above) ==
    /\ above \in [b + 1 .. d -> a + 1 .. c]
    /\ \A n \in b + 1 .. d : P[above[n]] = "*" \/ P[above[n]] = V[n]
    /\ \A n, m \in b + 1 .. d :
          n < m => \/ above[n] < above[m]
                   \/ above[n] = above[m] /\ P[above[n]] = "*"
    /\ \A k \in a + 1 .. c : P[k] = "*" \/ \E n \in b + 1 .. d : above[n] = k

Fits(P, V, a, b, c, d) == \E above : Aligned(P, V, a, b, c, d, above)

\* Characters only, and the same as in the version.
Plain(P, a, c)      == \A k \in a + 1 .. c : P[k] # "*"
Same(P, V, a, b, n) == \A j \in 1 .. n : P[a + j] = V[b + j]

\* To be covered is to fit from the first character to the last.
LEMMA CoversIsFits ==
    ASSUME NEW P \in Seq(STRING), NEW V \in Seq(STRING)
    PROVE  Covers(P, V) <=> Fits(P, V, 0, 0, Len(P), Len(V))
<1>1. DOMAIN P = 0 + 1 .. Len(P) /\ DOMAIN V = 0 + 1 .. Len(V)
  OBVIOUS
<1>2. ASSUME Covers(P, V) PROVE Fits(P, V, 0, 0, Len(P), Len(V))
  <2>1. PICK f \in [DOMAIN V -> DOMAIN P] :
          /\ \A n \in DOMAIN V : P[f[n]] \in {"*", V[n]}
          /\ \A n, m \in DOMAIN V :
                n < m => f[n] < f[m] \/ (f[n] = f[m] /\ P[f[n]] = "*")
          /\ \A k \in DOMAIN P : P[k] = "*" \/ \E n \in DOMAIN V : f[n] = k
    BY <1>2 DEF Covers
  <2>2. Aligned(P, V, 0, 0, Len(P), Len(V), f)
    BY <1>1, <2>1 DEF Aligned
  <2> QED
    BY <2>2 DEF Fits
<1>3. ASSUME Fits(P, V, 0, 0, Len(P), Len(V)) PROVE Covers(P, V)
  <2>1. PICK f : Aligned(P, V, 0, 0, Len(P), Len(V), f)
    BY <1>3 DEF Fits
  <2>2. f \in [DOMAIN V -> DOMAIN P]
    BY <1>1, <2>1 DEF Aligned
  <2>3. \A n \in DOMAIN V : P[f[n]] \in {"*", V[n]}
    BY <1>1, <2>1 DEF Aligned
  <2>4. \A n, m \in DOMAIN V :
           n < m => f[n] < f[m] \/ (f[n] = f[m] /\ P[f[n]] = "*")
    BY <1>1, <2>1 DEF Aligned
  <2>5. \A k \in DOMAIN P : P[k] = "*" \/ \E n \in DOMAIN V : f[n] = k
    BY <1>1, <2>1 DEF Aligned
  <2> QED
    BY <2>2, <2>3, <2>4, <2>5, Zenon DEF Covers
<1> QED
  BY <1>2, <1>3

\* Nothing fits nothing.
LEMMA NothingFits ==
    ASSUME NEW P, NEW V, NEW a \in Nat, NEW b \in Nat
    PROVE  Fits(P, V, a, b, a, b)
<1> DEFINE f == [n \in b + 1 .. b |-> 0]
<1>1. Aligned(P, V, a, b, a, b, f)
  BY DEF Aligned
<1> QED
  BY <1>1 DEF Fits

\* A character that equals the next of the glob fits under it.
LEMMA OneMoreFits ==
    ASSUME NEW P, NEW V, NEW a \in Nat, NEW b \in Nat, NEW c \in Nat, NEW d \in Nat,
           a <= c, b <= d, Fits(P, V, a, b, c, d), P[c + 1] = V[d + 1]
    PROVE  Fits(P, V, a, b, c + 1, d + 1)
<1>1. PICK f : Aligned(P, V, a, b, c, d, f)
  BY DEF Fits
<1> DEFINE g == [n \in b + 1 .. d + 1 |-> IF n = d + 1 THEN c + 1 ELSE f[n]]
<1>2. \A n \in b + 1 .. d : g[n] = f[n] /\ f[n] \in a + 1 .. c
  BY <1>1 DEF Aligned
<1>3. g[d + 1] = c + 1
  OBVIOUS
<1>4. \A n \in b + 1 .. d + 1 : n = d + 1 \/ n \in b + 1 .. d
  OBVIOUS
<1>5. g \in [b + 1 .. d + 1 -> a + 1 .. c + 1]
  <2>1. \A n \in b + 1 .. d + 1 : g[n] \in a + 1 .. c + 1
    <3> HIDE DEF g
    <3> QED
      BY <1>2, <1>3, <1>4
  <2> QED
    BY <2>1
<1> HIDE DEF g
<1>6. \A n \in b + 1 .. d + 1 : P[g[n]] = "*" \/ P[g[n]] = V[n]
  BY <1>1, <1>2, <1>3, <1>4 DEF Aligned
<1>7. \A n, m \in b + 1 .. d + 1 :
         n < m => g[n] < g[m] \/ (g[n] = g[m] /\ P[g[n]] = "*")
  <2> SUFFICES ASSUME NEW n \in b + 1 .. d + 1, NEW m \in b + 1 .. d + 1, n < m
               PROVE  g[n] < g[m] \/ (g[n] = g[m] /\ P[g[n]] = "*")
      OBVIOUS
  <2>1. n \in b + 1 .. d
    OBVIOUS
  <2>2. CASE m = d + 1
    BY <1>2, <1>3, <2>1, <2>2
  <2>3. CASE m \in b + 1 .. d
    BY <1>1, <1>2, <2>1, <2>3 DEF Aligned
  <2> QED
    BY <1>4, <2>2, <2>3
<1>8. \A k \in a + 1 .. c + 1 : P[k] = "*" \/ \E n \in b + 1 .. d + 1 : g[n] = k
  <2> SUFFICES ASSUME NEW k \in a + 1 .. c + 1, P[k] # "*"
               PROVE  \E n \in b + 1 .. d + 1 : g[n] = k
      OBVIOUS
  <2>1. CASE k = c + 1
    BY <1>3, <2>1
  <2>2. CASE k \in a + 1 .. c
    <3>1. PICK n \in b + 1 .. d : f[n] = k
      BY <1>1, <2>2 DEF Aligned
    <3> QED
      BY <1>2, <3>1
  <2> QED
    BY <2>1, <2>2
<1>9. Aligned(P, V, a, b, c + 1, d + 1, g)
  BY <1>5, <1>6, <1>7, <1>8, Zenon DEF Aligned
<1> QED
  BY <1>9, Zenon DEF Fits

\* A star fits above nothing.
LEMMA StarFits ==
    ASSUME NEW P, NEW V, NEW a \in Nat, NEW b \in Nat, NEW c \in Nat, NEW d \in Nat,
           a <= c, b <= d, Fits(P, V, a, b, c, d), P[c + 1] = "*"
    PROVE  Fits(P, V, a, b, c + 1, d)
<1>1. PICK f : Aligned(P, V, a, b, c, d, f)
  BY DEF Fits
<1>2. f \in [b + 1 .. d -> a + 1 .. c + 1]
  <2>1. f \in [b + 1 .. d -> a + 1 .. c] /\ a + 1 .. c \subseteq a + 1 .. c + 1
    BY <1>1 DEF Aligned
  <2> QED
    BY <2>1
<1>3. \A k \in a + 1 .. c + 1 : P[k] = "*" \/ \E n \in b + 1 .. d : f[n] = k
  <2> SUFFICES ASSUME NEW k \in a + 1 .. c + 1, P[k] # "*"
               PROVE  \E n \in b + 1 .. d : f[n] = k
      OBVIOUS
  <2>1. k \in a + 1 .. c
    OBVIOUS
  <2> QED
    BY <1>1, <2>1 DEF Aligned
<1>4. Aligned(P, V, a, b, c + 1, d, f)
  BY <1>1, <1>2, <1>3 DEF Aligned
<1> QED
  BY <1>4 DEF Fits

\* The last star of a part fits above one character more.
LEMMA StarSwallows ==
    ASSUME NEW P, NEW V, NEW a \in Nat, NEW b \in Nat, NEW c \in Nat, NEW d \in Nat,
           a < c, b <= d, Fits(P, V, a, b, c, d), P[c] = "*"
    PROVE  Fits(P, V, a, b, c, d + 1)
<1>1. PICK f : Aligned(P, V, a, b, c, d, f)
  BY DEF Fits
<1> DEFINE g == [n \in b + 1 .. d + 1 |-> IF n = d + 1 THEN c ELSE f[n]]
<1>2. \A n \in b + 1 .. d : g[n] = f[n] /\ f[n] \in a + 1 .. c
  BY <1>1 DEF Aligned
<1>3. g[d + 1] = c
  OBVIOUS
<1>4. \A n \in b + 1 .. d + 1 : n = d + 1 \/ n \in b + 1 .. d
  OBVIOUS
<1>5. g \in [b + 1 .. d + 1 -> a + 1 .. c]
  <2>1. \A n \in b + 1 .. d + 1 : g[n] \in a + 1 .. c
    <3> HIDE DEF g
    <3> QED
      BY <1>2, <1>3, <1>4
  <2> QED
    BY <2>1
<1> HIDE DEF g
<1>6. \A n \in b + 1 .. d + 1 : P[g[n]] = "*" \/ P[g[n]] = V[n]
  BY <1>1, <1>2, <1>3, <1>4 DEF Aligned
<1>7. \A n, m \in b + 1 .. d + 1 :
         n < m => g[n] < g[m] \/ (g[n] = g[m] /\ P[g[n]] = "*")
  <2> SUFFICES ASSUME NEW n \in b + 1 .. d + 1, NEW m \in b + 1 .. d + 1, n < m
               PROVE  g[n] < g[m] \/ (g[n] = g[m] /\ P[g[n]] = "*")
      OBVIOUS
  <2>1. n \in b + 1 .. d
    OBVIOUS
  <2>2. CASE m = d + 1
    BY <1>2, <1>3, <2>1, <2>2
  <2>3. CASE m \in b + 1 .. d
    BY <1>1, <1>2, <2>1, <2>3 DEF Aligned
  <2> QED
    BY <1>4, <2>2, <2>3
<1>8. \A k \in a + 1 .. c : P[k] = "*" \/ \E n \in b + 1 .. d + 1 : g[n] = k
  <2> SUFFICES ASSUME NEW k \in a + 1 .. c, P[k] # "*"
               PROVE  \E n \in b + 1 .. d + 1 : g[n] = k
      OBVIOUS
  <2>1. PICK n \in b + 1 .. d : f[n] = k
    BY <1>1 DEF Aligned
  <2> QED
    BY <1>2, <2>1
<1>9. Aligned(P, V, a, b, c, d + 1, g)
  BY <1>5, <1>6, <1>7, <1>8, Zenon DEF Aligned
<1> QED
  BY <1>9, Zenon DEF Fits

\* Where a glob is cut, the version can be cut as well.
LEMMA FitsApart ==
    ASSUME NEW P, NEW V, NEW a \in Nat, NEW b \in Nat, NEW c \in Nat, NEW d \in Nat,
           b <= d, Fits(P, V, a, b, c, d), NEW k \in a .. c
    PROVE  \E u \in b .. d : Fits(P, V, a, b, k, u) /\ Fits(P, V, k, u, c, d)
<1>1. PICK f : Aligned(P, V, a, b, c, d, f)
  BY DEF Fits
<1> DEFINE T == {u \in b .. d : \A n \in b + 1 .. u : f[n] <= k}
<1>2. PICK u \in T : \A m \in T : m <= u
  <2>1. b \in T
    OBVIOUS
  <2>2. T \in SUBSET Nat /\ \A n \in T : n <= d
    OBVIOUS
  <2> HIDE DEF T
  <2> QED
    BY <2>1, <2>2, GreatestOf
<1>3. f \in [b + 1 .. d -> a + 1 .. c]
  BY <1>1 DEF Aligned
<1>4. u \in b .. d /\ \A n \in b + 1 .. u : f[n] <= k
  BY <1>2
<1>5. \A m \in u + 1 .. d : \E n \in b + 1 .. m : f[n] > k
  <2> SUFFICES ASSUME NEW m \in u + 1 .. d, \A n \in b + 1 .. m : ~(f[n] > k)
               PROVE  FALSE
      OBVIOUS
  <2>1. m \in b .. d /\ \A n \in b + 1 .. m : f[n] <= k
    BY <1>3, <1>4
  <2> QED
    BY <1>2, <1>4, <2>1
<1> HIDE DEF T
<1>6. \A n \in b + 1 .. u : f[n] \in a + 1 .. k
  BY <1>3, <1>4
<1>7. \A n \in u + 1 .. d : f[n] \in k + 1 .. c
  <2> SUFFICES ASSUME NEW n \in u + 1 .. d PROVE f[n] \in k + 1 .. c
      OBVIOUS
  <2>1. n \in b + 1 .. d /\ f[n] \in a + 1 .. c
    BY <1>3, <1>4
  <2>2. PICK m \in b + 1 .. n : f[m] > k
    BY <1>5
  <2>3. m \in b + 1 .. d /\ f[m] \in a + 1 .. c
    BY <1>3, <2>1
  <2>4. f[m] <= f[n]
    <3>1. CASE m = n
      BY <2>1, <3>1
    <3>2. CASE m < n
      BY <1>1, <2>1, <2>3, <3>2 DEF Aligned
    <3> QED
      BY <2>2, <3>1, <3>2
  <2> QED
    BY <2>1, <2>2, <2>3, <2>4
<1> DEFINE g == [n \in b + 1 .. u |-> f[n]]
           h == [n \in u + 1 .. d |-> f[n]]
<1>8. Aligned(P, V, a, b, k, u, g)
  <2>1. \A n \in b + 1 .. u : n \in b + 1 .. d /\ g[n] = f[n]
    BY <1>4
  <2>2. g \in [b + 1 .. u -> a + 1 .. k]
    BY <1>6
  <2> HIDE DEF g
  <2>3. \A j \in a + 1 .. k : P[j] = "*" \/ \E n \in b + 1 .. u : g[n] = j
    <3> SUFFICES ASSUME NEW j \in a + 1 .. k, P[j] # "*"
                 PROVE  \E n \in b + 1 .. u : g[n] = j
        OBVIOUS
    <3>1. PICK n \in b + 1 .. d : f[n] = j
      BY <1>1 DEF Aligned
    <3>2. n \notin u + 1 .. d
      BY <1>7, <3>1
    <3>3. n \in b + 1 .. u
      BY <1>4, <3>2
    <3> QED
      BY <2>1, <3>1, <3>3
  <2> QED
    BY <1>1, <2>1, <2>2, <2>3 DEF Aligned
<1>9. Aligned(P, V, k, u, c, d, h)
  <2>1. \A n \in u + 1 .. d : n \in b + 1 .. d /\ h[n] = f[n]
    BY <1>4
  <2>2. h \in [u + 1 .. d -> k + 1 .. c]
    BY <1>7
  <2> HIDE DEF h
  <2>3. \A j \in k + 1 .. c : P[j] = "*" \/ \E n \in u + 1 .. d : h[n] = j
    <3> SUFFICES ASSUME NEW j \in k + 1 .. c, P[j] # "*"
                 PROVE  \E n \in u + 1 .. d : h[n] = j
        OBVIOUS
    <3>1. PICK n \in b + 1 .. d : f[n] = j
      BY <1>1 DEF Aligned
    <3>2. n \notin b + 1 .. u
      BY <1>6, <3>1
    <3>3. n \in u + 1 .. d
      BY <1>4, <3>2
    <3> QED
      BY <2>1, <3>1, <3>3
  <2> QED
    BY <1>1, <2>1, <2>2, <2>3 DEF Aligned
<1> QED
  BY <1>4, <1>8, <1>9 DEF Fits

\* Without a star, character stands under character.
LEMMA LiteralsFit ==
    ASSUME NEW P, NEW V, NEW a \in Nat, NEW b \in Nat, NEW c \in Nat, NEW d \in Nat,
           a <= c, b <= d, Fits(P, V, a, b, c, d), Plain(P, a, c)
    PROVE  d - b = c - a /\ Same(P, V, a, b, c - a)
<1>1. PICK f : Aligned(P, V, a, b, c, d, f)
  BY DEF Fits
<1>2. f \in [b + 1 .. d -> a + 1 .. c]
  BY <1>1 DEF Aligned
<1>3. \A n, m \in b + 1 .. d : n < m => f[n] < f[m]
  BY <1>1, <1>2 DEF Aligned, Plain
<1>4. \A k \in a + 1 .. c : \E n \in b + 1 .. d : f[n] = k
  BY <1>1 DEF Aligned, Plain
<1> DEFINE T == {n \in b + 1 .. d : f[n] # a + (n - b)}
<1>5. T = {}
  <2> SUFFICES ASSUME T # {} PROVE FALSE
      OBVIOUS
  <2>1. PICK n \in T : \A m \in T : n <= m
    <3>1. T \in SUBSET Nat
      OBVIOUS
    <3> HIDE DEF T
    <3> QED
      BY <3>1, LeastOf
  <2>2. n \in b + 1 .. d /\ f[n] # a + (n - b) /\ f[n] \in a + 1 .. c
    BY <1>2, <2>1
  <2>3. \A m \in b + 1 .. n - 1 : m \in b + 1 .. d /\ f[m] = a + (m - b)
    BY <2>1, <2>2
  <2>4. f[n] > a + (n - b)
    <3>1. CASE n = b + 1
      BY <2>2, <3>1
    <3>2. CASE n # b + 1
      <4>1. n - 1 \in b + 1 .. n - 1 /\ n - 1 \in b + 1 .. d
        BY <2>2, <3>2
      <4>2. f[n - 1] = a + (n - 1 - b) /\ f[n - 1] < f[n]
        BY <1>3, <2>2, <2>3, <4>1
      <4> QED
        BY <2>2, <4>2
    <3> QED
      BY <3>1, <3>2
  <2>5. PICK m \in b + 1 .. d : f[m] = a + (n - b)
    <3>1. a + (n - b) \in a + 1 .. c
      BY <2>2, <2>4
    <3> QED
      BY <1>4, <3>1
  <2>6. ~(m > n)
    BY <1>2, <1>3, <2>2, <2>4, <2>5
  <2>7. ~(m < n)
    BY <2>2, <2>3, <2>5
  <2> QED
    BY <2>2, <2>5, <2>6, <2>7
<1>6. \A n \in b + 1 .. d : f[n] = a + (n - b)
  BY <1>5
<1> HIDE DEF T
<1>7. d - b <= c - a
  <2>1. CASE d = b
    BY <2>1
  <2>2. CASE d # b
    <3>1. d \in b + 1 .. d
      BY <2>2
    <3>2. f[d] = a + (d - b) /\ f[d] \in a + 1 .. c
      BY <1>2, <1>6, <3>1
    <3> QED
      BY <3>2
  <2> QED
    BY <2>1, <2>2
<1>8. c - a <= d - b
  <2>1. CASE c = a
    BY <2>1
  <2>2. CASE c # a
    <3>1. PICK n \in b + 1 .. d : f[n] = c
      BY <1>4, <2>2
    <3>2. c = a + (n - b)
      BY <1>6, <3>1
    <3> QED
      BY <3>2
  <2> QED
    BY <2>1, <2>2
<1>9. d - b = c - a
  BY <1>7, <1>8
<1>10. ASSUME NEW j \in 1 .. c - a PROVE P[a + j] = V[b + j]
  <2>1. b + j \in b + 1 .. d /\ a + j \in a + 1 .. c
    BY <1>9
  <2>2. f[b + j] = a + j
    BY <1>6, <2>1
  <2>3. P[f[b + j]] = "*" \/ P[f[b + j]] = V[b + j]
    BY <1>1, <2>1 DEF Aligned
  <2> QED
    BY <2>1, <2>2, <2>3 DEF Plain
<1> QED
  BY <1>9, <1>10 DEF Same

\* A part of a glob that has no star, above as much of the version: what the rest
\* fits above begins where that part ends.
LEMMA LiteralsThenRest ==
    ASSUME NEW P, NEW V, NEW a \in Nat, NEW b \in Nat, NEW c \in Nat, NEW d \in Nat,
           NEW k \in a .. c, b <= d, Fits(P, V, a, b, c, d), Plain(P, a, k)
    PROVE  /\ b + (k - a) \in b .. d
           /\ Fits(P, V, k, b + (k - a), c, d)
           /\ Same(P, V, a, b, k - a)
<1>1. PICK u \in b .. d : Fits(P, V, a, b, k, u) /\ Fits(P, V, k, u, c, d)
  BY FitsApart
<1>2. k \in Nat /\ u \in Nat /\ a <= k /\ b <= u
  OBVIOUS
<1>3. u - b = k - a /\ Same(P, V, a, b, k - a)
  BY <1>1, <1>2, LiteralsFit
<1>4. u = b + (k - a)
  BY <1>2, <1>3
<1> QED
  BY <1>1, <1>3, <1>4

\* What ends is no longer than what it must fit above.
LEMMA TooLong ==
    ASSUME NEW P, NEW V, NEW a \in Nat, NEW b \in Nat, NEW d \in Nat,
           b <= d, Fits(P, V, a, b, a, d)
    PROVE  b = d
<1>1. a <= a /\ Plain(P, a, a)
  BY DEF Plain
<1>2. d - b = a - a
  BY <1>1, LiteralsFit
<1> QED
  BY <1>2

\* Where characters differ, the glob does not fit from its last star on.
LEMMA Mismatch ==
    ASSUME NEW P, NEW V, NEW a \in Nat, NEW b \in Nat, NEW c \in Nat, NEW d \in Nat,
           NEW k \in a .. c, b + (k - a) < d, Plain(P, a, k),
           k < c => P[k + 1] # "*" /\ P[k + 1] # V[b + (k - a) + 1]
    PROVE  ~Fits(P, V, a, b, c, d)
<1> SUFFICES ASSUME Fits(P, V, a, b, c, d) PROVE FALSE
    OBVIOUS
<1>b. b <= d
  OBVIOUS
<1>1. CASE k = c
  <2>1. b + (k - a) \in b .. d /\ Fits(P, V, k, b + (k - a), c, d)
    BY <1>b, LiteralsThenRest
  <2>2. b + (k - a) \in Nat /\ b + (k - a) <= d
    BY <2>1
  <2>3. b + (k - a) = d
    BY <1>1, <2>1, <2>2, TooLong
  <2> QED
    BY <2>3
<1>2. CASE k < c
  <2>1. PICK m \in Nat : m = k + 1
    OBVIOUS
  <2>2. m \in a .. c /\ Plain(P, a, m)
    BY <1>2, <2>1 DEF Plain
  <2>3. Same(P, V, a, b, m - a)
    BY <1>b, <2>2, LiteralsThenRest
  <2>4. m - a \in 1 .. m - a /\ a + (m - a) = k + 1 /\ b + (m - a) = b + (k - a) + 1
    BY <2>1
  <2>5. P[a + (m - a)] = V[b + (m - a)]
    BY <2>3, <2>4 DEF Same
  <2> QED
    BY <1>2, <2>4, <2>5
<1> QED
  BY <1>1, <1>2

-----------------------------------------------------------------------------
(* glob_matches: what its two loops keep true *)

\* The version and the glob it is asked about.
Texts ==
    /\ world \in Worlds
    /\ compat = [key \in KEYS |-> compat[key]]
    /\ compat["native_artifact_versions"] \in Seq(STRING) \cup {None}

\* Where the part begins that is being matched: behind the last star.
Behind == IF star = None THEN 0 ELSE star + 1

Bounds ==
    /\ p \in 0 .. Len(pattern) /\ v \in 0 .. Len(value) /\ resume \in 0 .. v
    /\ star # None => star \in 0 .. p - 1 /\ pattern[star + 1] = "*"
    /\ star = None => resume = 0

\* What has been matched fits, up to the last star and up to here.
Matched ==
    /\ Fits(pattern, value, 0, 0, Behind, resume)
    /\ Fits(pattern, value, 0, 0, p, v)

\* Behind the last star there are characters only, as many as in the version, and
\* then, once the version is read, stars.
Literals ==
    \E q \in Behind .. p :
        /\ Plain(pattern, Behind, q)
        /\ q - Behind = v - resume
        /\ \A k \in q + 1 .. p : pattern[k] = "*"
        /\ q < p => v = Len(value)

\* Nothing was given up: where the glob fits at all, it fits with what is behind the
\* last star no further to the left than it is being tried.
NothingLost ==
    Fits(pattern, value, 0, 0, Len(pattern), Len(value)) =>
        \E w \in resume .. Len(value) :
            /\ Fits(pattern, value, Behind, w, Len(pattern), Len(value))
            /\ star = None => w = 0

GlobInv ==
    /\ Texts
    /\ phase \in {"header", "declaration", "glob", "accepted", "refused"}
    /\ i \in Nat /\ line \in Nat \ {0}
    /\ phase \in {"header", "declaration"} =>
          p = 0 /\ v = 0 /\ star = None /\ resume = 0
    /\ phase # "refused" => (matched = None \/ phase = "accepted")
    /\ phase = "glob" =>
          /\ pattern \in Seq(STRING)
          /\ Bounds /\ Matched /\ Literals /\ NothingLost
    /\ GlobIsExact

-----------------------------------------------------------------------------
(* A turn of glob_matches keeps the invariant *)

\* What a turn of the first loop may rely on.
Turning ==
    /\ pattern \in Seq(STRING) /\ value \in Seq(STRING)
    /\ Bounds /\ Matched /\ Literals /\ NothingLost
    /\ v < Len(value)

\* The arithmetic of a turn, from what it may rely on.
LEMMA TurningFacts ==
    ASSUME Turning
    PROVE  /\ p \in Nat /\ v \in Nat /\ resume \in Nat /\ Behind \in Nat
           /\ Len(pattern) \in Nat /\ Len(value) \in Nat
           /\ Behind <= p /\ p <= Len(pattern) /\ resume <= v
           /\ p - Behind = v - resume
           /\ Plain(pattern, Behind, p)
<1>1. Len(pattern) \in Nat /\ Len(value) \in Nat
  BY LenProperties DEF Turning
<1>2. p \in Nat /\ v \in Nat /\ resume \in Nat /\ Behind \in Nat /\ Behind <= p
        /\ p <= Len(pattern) /\ resume <= v
  BY <1>1, NoneAssumption DEF Turning, Bounds, Behind
<1>3. PICK q \in Behind .. p :
         /\ Plain(pattern, Behind, q)
         /\ q - Behind = v - resume
         /\ q < p => v = Len(value)
  BY DEF Turning, Literals
<1>4. q = p
  BY <1>1, <1>2, <1>3 DEF Turning
<1> QED
  BY <1>1, <1>2, <1>3, <1>4

\* A star is the last now, and nothing is lost by it: what is before it is
\* characters only, and what is behind it has to go somewhere further on.
LEMMA StarTurn ==
    ASSUME Turning, At(pattern, p + 1, "*"),
           star' = p, p' = p + 1, resume' = v, v' = v,
           pattern' = pattern, value' = value
    PROVE  Bounds' /\ Matched' /\ Literals' /\ NothingLost'
<1>1. /\ p \in Nat /\ v \in Nat /\ resume \in Nat /\ Behind \in Nat
      /\ Len(pattern) \in Nat /\ Len(value) \in Nat
      /\ Behind <= p /\ p <= Len(pattern) /\ resume <= v
      /\ p - Behind = v - resume
      /\ Plain(pattern, Behind, p)
  BY TurningFacts
<1>2. p < Len(pattern) /\ pattern[p + 1] = "*" /\ v < Len(value)
  BY <1>1 DEF At, Turning
<1>3. star' # None /\ Behind' = p + 1
  BY <1>1, NoneAssumption DEF Behind
<1>4. Bounds'
  BY <1>1, <1>2, <1>3 DEF Bounds
<1>5. Fits(pattern, value, 0, 0, p + 1, v)
  BY <1>1, <1>2, StarFits DEF Turning, Matched
<1>6. Matched'
  BY <1>3, <1>5 DEF Matched
<1>7. Literals'
  <2>1. Plain(pattern, p + 1, p + 1)
    BY <1>1 DEF Plain
  <2> QED
    BY <1>1, <1>3, <2>1 DEF Literals
<1>8. NothingLost'
  <2> SUFFICES ASSUME Fits(pattern, value, 0, 0, Len(pattern), Len(value))
               PROVE  \E w \in v .. Len(value) :
                          Fits(pattern, value, p + 1, w, Len(pattern), Len(value))
      BY <1>3 DEF NothingLost
  <2>1. PICK w \in resume .. Len(value) :
           Fits(pattern, value, Behind, w, Len(pattern), Len(value))
    BY DEF Turning, NothingLost
  <2>2. w \in Nat /\ w <= Len(value) /\ p \in Behind .. Len(pattern)
    BY <1>1, <2>1
  <2>3. PICK u \in Nat : u = w + (p - Behind)
    BY <1>1, <2>2
  <2>4. u \in w .. Len(value) /\ Fits(pattern, value, p, u, Len(pattern), Len(value))
    BY <1>1, <2>1, <2>2, <2>3, LiteralsThenRest
  <2>5. u <= Len(value) /\ v <= u
    BY <1>1, <2>1, <2>2, <2>3, <2>4
  <2>6. p + 1 \in p .. Len(pattern)
    BY <1>1, <1>2
  <2>7. PICK w2 \in u .. Len(value) :
           Fits(pattern, value, p + 1, w2, Len(pattern), Len(value))
    BY <1>1, <2>4, <2>5, <2>6, FitsApart
  <2>8. w2 \in v .. Len(value)
    BY <1>1, <2>5, <2>7
  <2> QED
    BY <2>7, <2>8
<1> QED
  BY <1>4, <1>6, <1>7, <1>8

\* A character more.
LEMMA LiteralTurn ==
    ASSUME Turning, ~At(pattern, p + 1, "*"), At(pattern, p + 1, value[v + 1]),
           p' = p + 1, v' = v + 1, star' = star, resume' = resume,
           pattern' = pattern, value' = value
    PROVE  Bounds' /\ Matched' /\ Literals' /\ NothingLost'
<1>1. /\ p \in Nat /\ v \in Nat /\ resume \in Nat /\ Behind \in Nat
      /\ Len(pattern) \in Nat /\ Len(value) \in Nat
      /\ Behind <= p /\ p <= Len(pattern) /\ resume <= v
      /\ p - Behind = v - resume
      /\ Plain(pattern, Behind, p)
  BY TurningFacts
<1>2. p < Len(pattern) /\ pattern[p + 1] = value[v + 1] /\ pattern[p + 1] # "*" /\ v < Len(value)
  BY <1>1 DEF At, Turning
<1>3. Behind' = Behind
  BY DEF Behind
<1>4. Bounds'
  BY <1>1, <1>2 DEF Bounds, Turning
<1>5. Fits(pattern, value, 0, 0, p + 1, v + 1)
  BY <1>1, <1>2, OneMoreFits DEF Turning, Matched
<1>6. Matched'
  BY <1>3, <1>5 DEF Matched, Turning
<1>7. Literals'
  <2>1. Plain(pattern, Behind, p + 1)
    BY <1>1, <1>2 DEF Plain
  <2>2. p + 1 \in Behind .. p + 1 /\ (p + 1) - Behind = (v + 1) - resume
    BY <1>1
  <2>3. \A k \in p + 1 + 1 .. p + 1 : pattern[k] = "*"
    BY <1>1
  <2>4. ~(p + 1 < p + 1)
    BY <1>1
  <2> QED
    BY <1>3, <2>1, <2>2, <2>3, <2>4 DEF Literals
<1>8. NothingLost'
  BY <1>3 DEF NothingLost, Turning
<1> QED
  BY <1>4, <1>6, <1>7, <1>8

\* Where characters differ, what is behind the last star does not fit where it is
\* being tried.
LEMMA NotHere ==
    ASSUME Turning, ~At(pattern, p + 1, "*"), ~At(pattern, p + 1, value[v + 1])
    PROVE  ~Fits(pattern, value, Behind, resume, Len(pattern), Len(value))
<1>1. /\ p \in Nat /\ v \in Nat /\ resume \in Nat /\ Behind \in Nat
      /\ Len(pattern) \in Nat /\ Len(value) \in Nat
      /\ Behind <= p /\ p <= Len(pattern) /\ resume <= v
      /\ p - Behind = v - resume
      /\ Plain(pattern, Behind, p)
  BY TurningFacts
<1>2. v = resume + (p - Behind) /\ v < Len(value) /\ p \in Behind .. Len(pattern)
  BY <1>1 DEF Turning
<1>3. p < Len(pattern) => pattern[p + 1] # "*" /\ pattern[p + 1] # value[v + 1]
  BY <1>1 DEF At
<1> QED
  BY <1>1, <1>2, <1>3, Mismatch

\* Going back to the last star: one more place is ruled out, and no other.
LEMMA BacktrackTurn ==
    ASSUME Turning, ~At(pattern, p + 1, "*"), ~At(pattern, p + 1, value[v + 1]),
           star # None, Backtrack, star' = star,
           pattern' = pattern, value' = value
    PROVE  Bounds' /\ Matched' /\ Literals' /\ NothingLost'
<1>1. /\ p \in Nat /\ v \in Nat /\ resume \in Nat /\ Behind \in Nat
      /\ Len(pattern) \in Nat /\ Len(value) \in Nat
      /\ Behind <= p /\ p <= Len(pattern) /\ resume <= v
      /\ p - Behind = v - resume
      /\ Plain(pattern, Behind, p)
  BY TurningFacts
<1>2. star \in 0 .. p - 1 /\ pattern[star + 1] = "*" /\ Behind = star + 1 /\ v < Len(value)
  BY DEF Turning, Bounds, Behind
<1>3. Behind' = Behind /\ p' = Behind /\ resume' = resume + 1 /\ v' = resume + 1
  BY <1>2 DEF Behind, Backtrack
<1>4. Bounds'
  BY <1>1, <1>2, <1>3 DEF Bounds
<1>5. Fits(pattern, value, 0, 0, Behind, resume + 1)
  BY <1>1, <1>2, StarSwallows DEF Turning, Matched
<1>6. Matched'
  BY <1>3, <1>5 DEF Matched
<1>7. Literals'
  <2>1. Plain(pattern, Behind, Behind)
    BY <1>1 DEF Plain
  <2> QED
    BY <1>1, <1>3, <2>1 DEF Literals
<1>8. NothingLost'
  <2> SUFFICES ASSUME Fits(pattern, value, 0, 0, Len(pattern), Len(value))
               PROVE  \E w \in resume + 1 .. Len(value) :
                          Fits(pattern, value, Behind, w, Len(pattern), Len(value))
      BY <1>3 DEF NothingLost
  <2>1. PICK w \in resume .. Len(value) :
           Fits(pattern, value, Behind, w, Len(pattern), Len(value))
    BY DEF Turning, NothingLost
  <2>2. w # resume
    BY <2>1, NotHere
  <2>3. w \in resume + 1 .. Len(value)
    BY <1>1, <2>1, <2>2
  <2> QED
    BY <2>1, <2>3
<1> QED
  BY <1>4, <1>6, <1>7, <1>8

\* Without a star to go back to, there is nowhere else to try.
LEMMA NoStarNoMatch ==
    ASSUME Turning, ~At(pattern, p + 1, "*"), ~At(pattern, p + 1, value[v + 1]),
           star = None
    PROVE  ~Covers(pattern, value)
<1>1. Behind = 0 /\ resume = 0
  BY DEF Turning, Bounds, Behind
<1>2. ~Fits(pattern, value, 0, 0, Len(pattern), Len(value))
  BY <1>1, NotHere
<1> QED
  BY <1>2, CoversIsFits DEF Turning

-----------------------------------------------------------------------------
(* The end of the version *)

Ending ==
    /\ pattern \in Seq(STRING) /\ value \in Seq(STRING)
    /\ Bounds /\ Matched /\ Literals /\ NothingLost
    /\ v >= Len(value)

\* The arithmetic of the second loop.
LEMMA EndingFacts ==
    ASSUME Ending
    PROVE  /\ p \in Nat /\ v \in Nat /\ resume \in Nat /\ Behind \in Nat
           /\ Len(pattern) \in Nat /\ Len(value) \in Nat
           /\ Behind <= p /\ p <= Len(pattern) /\ resume <= v /\ v = Len(value)
<1>1. Len(pattern) \in Nat /\ Len(value) \in Nat
  BY LenProperties DEF Ending
<1> QED
  BY <1>1, NoneAssumption DEF Ending, Bounds, Behind

\* A star more at the end is above nothing.
LEMMA StarAtEnd ==
    ASSUME Ending, At(pattern, p + 1, "*"),
           p' = p + 1, v' = v, star' = star, resume' = resume,
           pattern' = pattern, value' = value
    PROVE  Bounds' /\ Matched' /\ Literals' /\ NothingLost'
<1>1. /\ p \in Nat /\ v \in Nat /\ resume \in Nat /\ Behind \in Nat
      /\ Len(pattern) \in Nat /\ Len(value) \in Nat
      /\ Behind <= p /\ p <= Len(pattern) /\ resume <= v /\ v = Len(value)
  BY EndingFacts
<1>2. p < Len(pattern) /\ pattern[p + 1] = "*"
  BY <1>1 DEF At
<1>3. Behind' = Behind
  BY DEF Behind
<1>4. Bounds'
  BY <1>1, <1>2 DEF Bounds, Ending
<1>5. Fits(pattern, value, 0, 0, p + 1, v)
  BY <1>1, <1>2, StarFits DEF Ending, Matched
<1>6. Matched'
  BY <1>3, <1>5 DEF Matched, Ending
<1>7. Literals'
  <2>1. PICK q \in Behind .. p :
           /\ Plain(pattern, Behind, q)
           /\ q - Behind = v - resume
           /\ \A k \in q + 1 .. p : pattern[k] = "*"
    BY DEF Ending, Literals
  <2>2. \A k \in q + 1 .. p + 1 : pattern[k] = "*"
    BY <1>1, <1>2, <2>1
  <2>3. q \in Behind .. p + 1
    BY <1>1, <2>1
  <2> QED
    BY <1>1, <1>3, <2>1, <2>2, <2>3 DEF Literals
<1>8. NothingLost'
  BY <1>3 DEF NothingLost, Ending
<1> QED
  BY <1>4, <1>6, <1>7, <1>8

\* The glob covers the version exactly if nothing is left of it.
LEMMA AnswerIsRight ==
    ASSUME Ending, ~At(pattern, p + 1, "*")
    PROVE  Covers(pattern, value) <=> p = Len(pattern)
<1>1. /\ p \in Nat /\ v \in Nat /\ resume \in Nat /\ Behind \in Nat
      /\ Len(pattern) \in Nat /\ Len(value) \in Nat
      /\ Behind <= p /\ p <= Len(pattern) /\ resume <= v /\ v = Len(value)
  BY EndingFacts
<1>2. Covers(pattern, value) <=> Fits(pattern, value, 0, 0, Len(pattern), Len(value))
  BY CoversIsFits DEF Ending
<1>3. ASSUME p = Len(pattern) PROVE Fits(pattern, value, 0, 0, Len(pattern), Len(value))
  BY <1>1, <1>3 DEF Ending, Matched
<1>4. ASSUME p # Len(pattern), Fits(pattern, value, 0, 0, Len(pattern), Len(value))
      PROVE  FALSE
  <2>1. PICK w \in resume .. Len(value) :
           Fits(pattern, value, Behind, w, Len(pattern), Len(value))
    BY <1>4 DEF Ending, NothingLost
  <2>2. PICK q \in Behind .. p :
           /\ Plain(pattern, Behind, q)
           /\ q - Behind = v - resume
           /\ \A k \in q + 1 .. p : pattern[k] = "*"
    BY DEF Ending, Literals
  <2>3. w \in Nat /\ w <= Len(value) /\ q \in Nat /\ q \in Behind .. Len(pattern)
    BY <1>1, <2>1, <2>2
  <2>4. w + (q - Behind) \in w .. Len(value)
        /\ Fits(pattern, value, q, w + (q - Behind), Len(pattern), Len(value))
    BY <1>1, <2>1, <2>2, <2>3, LiteralsThenRest
  <2>5. w + (q - Behind) = v
    BY <1>1, <2>1, <2>2, <2>3, <2>4
  <2>6. Fits(pattern, value, q, v, Len(pattern), v)
    BY <1>1, <2>4, <2>5
  <2>7. p \in q .. Len(pattern)
    BY <1>1, <2>2
  <2>8. PICK u \in v .. v : Fits(pattern, value, p, u, Len(pattern), v)
    BY <1>1, <2>3, <2>6, <2>7, FitsApart
  <2>9. Fits(pattern, value, p, v, Len(pattern), v)
    BY <1>1, <2>8
  <2>10. PICK k \in Nat : k = p + 1
    BY <1>1
  <2>11. k \in p .. Len(pattern) /\ Plain(pattern, p, k)
    BY <1>1, <1>4, <2>10 DEF At, Plain
  <2>12. v <= v /\ p <= k
    BY <1>1, <2>10
  <2>13. PICK x \in v .. v : Fits(pattern, value, p, v, k, x)
    BY <1>1, <2>9, <2>11, <2>12, FitsApart
  <2>14. Fits(pattern, value, p, v, k, v)
    BY <1>1, <2>13
  <2>15. v - v = k - p
    BY <1>1, <2>10, <2>11, <2>12, <2>14, LiteralsFit
  <2> QED
    BY <1>1, <2>10, <2>15
<1> QED
  BY <1>2, <1>3, <1>4

-----------------------------------------------------------------------------
(* The declaration: what a line can put into the slot of the glob *)

\* A part of a text is one.
LEMMA PartIsText ==
    ASSUME NEW s \in Seq(STRING), NEW m \in Nat, m >= 1, NEW n \in Int, n <= Len(s)
    PROVE  SubSeq(s, m, n) \in Seq(STRING)
<1>1. \A k \in m .. n : s[k] \in STRING
  BY ElementOfSeq
<1> QED
  BY <1>1, SubSeqProperties

\* Whatever may be said of the archive's version is a text.
LEMMA GlobIsText ==
    ASSUME NEW s \in Seq(STRING), strip_comment(s) # None, Len(strip_comment(s)) >= 2,
           ValueOf("native_artifact_versions", Rest(strip_comment(s))) # None
    PROVE  ValueOf("native_artifact_versions", Rest(strip_comment(s))) \in Seq(STRING)
<1> DEFINE hashes == {n \in DOMAIN s : s[n] = "#" /\ ~Quoted(s, n)}
           t == strip_comment(s)
<1>1. t \in Seq(STRING)
  <2>1. CASE hashes # {}
    <3>1. hashes \in SUBSET Nat
      OBVIOUS
    <3>2. First(hashes) \in hashes
      <4> HIDE DEF hashes
      <4> QED
        BY <2>1, <3>1, FirstIsLeast
    <3>3. First(hashes) \in 1 .. Len(s)
      BY <3>2
    <3>4. t = SubSeq(s, 1, First(hashes) - 1)
      BY <2>1 DEF strip_comment
    <3> HIDE DEF hashes
    <3>5. PICK n \in Int : n <= Len(s) /\ n = First(hashes) - 1
      BY <3>3
    <3>6. 1 \in Nat /\ 1 >= 1
      OBVIOUS
    <3>7. SubSeq(s, 1, n) \in Seq(STRING)
      BY <3>5, <3>6, PartIsText
    <3> QED
      BY <3>4, <3>5, <3>7
  <2>2. CASE hashes = {}
    BY <2>2 DEF strip_comment
  <2> QED
    BY <2>1, <2>2
<1> HIDE DEF t
<1>2. Rest(t) \in Seq(STRING)
  BY <1>1, PartIsText DEF Rest, t
<1>3. ValueOf("native_artifact_versions", Rest(t)) = string(Rest(t))
  BY DEF ValueOf
<1>4. ASSUME NEW r \in Seq(STRING), string(r) # None PROVE string(r) \in Seq(STRING)
  <2>1. Len(r) >= 2 /\ string(r) = SubSeq(r, 2, Len(r) - 1)
    BY <1>4 DEF string
  <2> QED
    BY <2>1, PartIsText
<1> QED
  BY <1>2, <1>3, <1>4 DEF t

-----------------------------------------------------------------------------
(* The theorems about globs *)

\* The glob is where it was while the script goes through its characters.
LEMMA TextsStay ==
    ASSUME world' = world, compat' = compat
    PROVE  pattern' = pattern /\ value' = value /\ (Texts => Texts')
BY DEF pattern, value, Texts

\* Before the first turn, nothing has been matched and nothing lost.
LEMMA GlobBegins ==
    ASSUME pattern \in Seq(STRING), value \in Seq(STRING),
           p = 0, v = 0, star = None, resume = 0
    PROVE  Bounds /\ Matched /\ Literals /\ NothingLost
<1>1. Len(pattern) \in Nat /\ Len(value) \in Nat
  BY LenProperties
<1>2. Behind = 0
  BY DEF Behind
<1>3. Bounds
  BY <1>1 DEF Bounds
<1>4. Fits(pattern, value, 0, 0, 0, 0)
  BY NothingFits
<1>5. Matched
  BY <1>2, <1>4 DEF Matched
<1>6. Plain(pattern, 0, 0) /\ 0 \in 0 .. 0
  BY DEF Plain
<1>7. Literals
  BY <1>2, <1>6 DEF Literals
<1>8. NothingLost
  BY <1>1, <1>2 DEF NothingLost
<1> QED
  BY <1>3, <1>5, <1>7, <1>8

\* GlobInv holds at first.
LEMMA GlobInit == Init => GlobInv
<1> SUFFICES ASSUME Init PROVE GlobInv
    OBVIOUS
<1>1. Texts
  BY DEF Init, Texts, KEYS
<1> QED
  BY <1>1 DEF Init, GlobInv, GlobIsExact

\* The versions of the archive are asked about with a glob that is a text.
LEMMA GlobStep == GlobInv /\ [Next]_vars => GlobInv'
<1> SUFFICES ASSUME GlobInv, [Next]_vars PROVE GlobInv'
    OBVIOUS
<1>0. value \in Seq(STRING)
  BY WorldsAssumption DEF GlobInv, Texts, value
<1>1. CASE StripComments
  <2>1. /\ world' = world /\ compat' = compat /\ line' = line /\ phase' = phase
        /\ UNCHANGED <<p, v, star, resume, matched>>
        /\ phase = "header" /\ i' \in Nat
    BY <1>1 DEF StripComments, parsing, matching, GlobInv
  <2>2. matched = None
    BY <2>1 DEF GlobInv
  <2>3. GlobIsExact'
    BY <2>1, <2>2 DEF GlobIsExact
  <2> QED
    BY <2>1, <2>2, <2>3, TextsStay DEF GlobInv
<1>2. CASE ReadDefines
  <2>1. /\ world' = world /\ compat' = compat /\ line' = line /\ i' = i
        /\ phase' \in {"declaration", "refused"}
        /\ UNCHANGED <<p, v, star, resume, matched>>
        /\ phase = "header"
    BY <1>2 DEF ReadDefines, Refuse, reading, parsing, matching
  <2>2. matched = None
    BY <2>1 DEF GlobInv
  <2>3. GlobIsExact'
    BY <2>1, <2>2 DEF GlobIsExact
  <2> QED
    BY <2>1, <2>2, <2>3, TextsStay DEF GlobInv
<1>3. CASE ReadLine
  <2>1. /\ world' = world /\ i' = i
        /\ phase' \in {"declaration", "refused"}
        /\ UNCHANGED <<p, v, star, resume, matched>>
        /\ phase = "declaration" /\ line' \in Nat \ {0}
    BY <1>3 DEF ReadLine, Refuse, reading, parsing, matching, GlobInv
  <2>2. matched = None
    BY <2>1 DEF GlobInv
  <2>3. GlobIsExact'
    BY <2>1, <2>2 DEF GlobIsExact
  <2>4. Texts'
    <3>1. CASE compat' = compat
      BY <2>1, <3>1, TextsStay DEF GlobInv
    <3>2. CASE compat' # compat
      <4> DEFINE s == strip_comment(world.declaration[line])
      <4>1. Sets(s) /\ compat' = [compat EXCEPT ![Key(s)] = ValueOf(Key(s), Rest(s))]
        BY <1>3, <3>2 DEF ReadLine, Refuse, parsing
      <4>2. s # None /\ Len(s) >= 2 /\ ValueOf(Key(s), Rest(s)) # None /\ Key(s) \in KEYS
        BY <4>1 DEF Sets, Key
      <4>3. world.declaration[line] \in Seq(STRING)
        <5>1. world.declaration \in Seq(Seq(STRING)) /\ line \in 1 .. Len(world.declaration)
          BY <1>3, WorldsAssumption, LenProperties DEF ReadLine, GlobInv, Texts
        <5> QED
          BY <5>1
      <4>4. Key(s) = "native_artifact_versions" => ValueOf(Key(s), Rest(s)) \in Seq(STRING)
        BY <4>2, <4>3, GlobIsText
      <4> HIDE DEF s
      <4>5. /\ compat' = [key \in KEYS |-> compat'[key]]
            /\ compat'["native_artifact_versions"] \in Seq(STRING) \cup {None}
        BY <4>1, <4>2, <4>4 DEF GlobInv, Texts, KEYS
      <4> QED
        BY <2>1, <4>5 DEF GlobInv, Texts
    <3> QED
      BY <3>1, <3>2
  <2> QED
    BY <2>1, <2>2, <2>3, <2>4 DEF GlobInv
<1>4. CASE CheckHeader
  <2>1. /\ world' = world /\ compat' = compat /\ line' = line /\ i' = i
        /\ phase' \in {"glob", "refused"}
        /\ UNCHANGED <<p, v, star, resume, matched>>
        /\ phase = "declaration" /\ (phase' = "glob" => Complete)
    BY <1>4 DEF CheckHeader, Refuse, reading, parsing, matching
  <2>2. matched = None
    BY <2>1 DEF GlobInv
  <2>3. GlobIsExact'
    BY <2>1, <2>2 DEF GlobIsExact
  <2>4. Texts' /\ pattern' = pattern /\ value' = value
    BY <2>1, TextsStay DEF GlobInv
  <2>5. ASSUME phase' = "glob"
        PROVE  pattern' \in Seq(STRING) /\ Bounds' /\ Matched' /\ Literals' /\ NothingLost'
    <3>1. pattern \in Seq(STRING)
      BY <2>1, <2>5 DEF Complete, KEYS, GlobInv, Texts, pattern
    <3>2. Bounds /\ Matched /\ Literals /\ NothingLost
      BY <1>0, <2>1, <3>1, GlobBegins DEF GlobInv
    <3> QED
      BY <2>1, <2>4, <3>1, <3>2
         DEF Bounds, Matched, Literals, NothingLost, Behind
  <2> QED
    BY <2>1, <2>2, <2>3, <2>4, <2>5 DEF GlobInv
<1>5. CASE GlobTurn
  <2>1. /\ world' = world /\ compat' = compat /\ line' = line /\ i' = i
        /\ phase = "glob" /\ matched = None
        /\ Texts' /\ pattern' = pattern /\ value' = value /\ pattern \in Seq(STRING)
    BY <1>5, TextsStay DEF GlobTurn, GlobInv, reading, parsing
  <2>2. Turning
    <3>1. v \in Nat /\ v < Len(value)
      BY <1>5 DEF GlobTurn, GlobInv, Bounds
    <3> QED
      BY <1>0, <2>1, <3>1 DEF Turning, GlobInv
  <2>3. ASSUME phase' = "glob", matched' = None,
               Bounds' /\ Matched' /\ Literals' /\ NothingLost'
        PROVE  GlobInv'
    BY <2>1, <2>3 DEF GlobInv, GlobIsExact
  <2>4. CASE At(pattern, p + 1, "*")
    <3>1. /\ star' = p /\ p' = p + 1 /\ resume' = v /\ v' = v
          /\ phase' = "glob" /\ matched' = None
      BY <1>5, <2>1, <2>4 DEF GlobTurn
    <3> QED
      BY <2>1, <2>2, <2>3, <2>4, <3>1, StarTurn
  <2>5. CASE ~At(pattern, p + 1, "*") /\ At(pattern, p + 1, value[v + 1])
    <3>1. /\ p' = p + 1 /\ v' = v + 1 /\ star' = star /\ resume' = resume
          /\ phase' = "glob" /\ matched' = None
      BY <1>5, <2>1, <2>5 DEF GlobTurn
    <3> QED
      BY <2>1, <2>2, <2>3, <2>5, <3>1, LiteralTurn
  <2>6. CASE ~At(pattern, p + 1, "*") /\ ~At(pattern, p + 1, value[v + 1]) /\ star # None
    <3>1. Backtrack /\ star' = star /\ phase' = "glob" /\ matched' = None
      BY <1>5, <2>1, <2>6 DEF GlobTurn
    <3> QED
      BY <2>1, <2>2, <2>3, <2>6, <3>1, BacktrackTurn
  <2>7. CASE ~At(pattern, p + 1, "*") /\ ~At(pattern, p + 1, value[v + 1]) /\ star = None
    <3>1. matched' = FALSE /\ phase' = "refused"
      BY <1>5, <2>1, <2>7 DEF GlobTurn
    <3>2. ~Covers(pattern, value)
      BY <2>2, <2>7, NoStarNoMatch
    <3>3. ~Covers(pattern', value')
      BY <2>1, <3>2
    <3>4. GlobIsExact'
      BY <3>1, <3>3 DEF GlobIsExact
    <3> QED
      BY <2>1, <3>1, <3>4 DEF GlobInv
  <2> QED
    BY <2>4, <2>5, <2>6, <2>7
<1>6. CASE GlobEnd
  <2>1. /\ world' = world /\ compat' = compat /\ line' = line /\ i' = i
        /\ v' = v /\ star' = star /\ resume' = resume
        /\ phase = "glob" /\ matched = None
        /\ Texts' /\ pattern' = pattern /\ value' = value /\ pattern \in Seq(STRING)
    BY <1>6, TextsStay DEF GlobEnd, GlobInv, reading, parsing
  <2>2. Ending
    BY <1>0, <1>6, <2>1 DEF Ending, GlobInv, GlobEnd
  <2>3. CASE At(pattern, p + 1, "*")
    <3>1. p' = p + 1 /\ phase' = "glob" /\ matched' = None
      BY <1>6, <2>1, <2>3 DEF GlobEnd
    <3>2. Bounds' /\ Matched' /\ Literals' /\ NothingLost'
      BY <2>1, <2>2, <2>3, <3>1, StarAtEnd
    <3> QED
      BY <2>1, <3>1, <3>2 DEF GlobInv, GlobIsExact
  <2>4. CASE ~At(pattern, p + 1, "*")
    <3>1. /\ matched' = (p = Len(pattern))
          /\ phase' = IF /\ p = Len(pattern)
                         /\ world.acadsharp_version \in compat["acadsharp_versions"]
                      THEN "accepted" ELSE "refused"
      BY <1>6, <2>1, <2>4 DEF GlobEnd
    <3>2. Covers(pattern, value) <=> p = Len(pattern)
      BY <2>2, <2>4, AnswerIsRight
    <3>3. Covers(pattern', value') <=> p = Len(pattern)
      BY <2>1, <3>2
    <3>4. matched' # None => (matched' <=> Covers(pattern', value'))
      BY <3>1, <3>3
    <3>5. phase' = "accepted" =>
             /\ matched'
             /\ world'.acadsharp_version \in compat'["acadsharp_versions"]
      BY <2>1, <3>1
    <3>6. GlobIsExact'
      BY <3>4, <3>5 DEF GlobIsExact
    <3>7. phase' \in {"accepted", "refused"}
      BY <3>1
    <3> QED
      BY <2>1, <3>6, <3>7 DEF GlobInv
  <2> QED
    BY <2>3, <2>4
<1>7. CASE UNCHANGED vars
  <2>1. UNCHANGED <<world, phase, i, line, compat, p, v, star, resume, matched>>
    BY <1>7 DEF vars, reading, parsing, matching
  <2> QED
    BY <2>1 DEF GlobInv, Texts, pattern, value, Bounds, Matched, Literals, NothingLost,
                Behind, GlobIsExact
<1> QED
  BY <1>1, <1>2, <1>3, <1>4, <1>5, <1>6, <1>7 DEF Next, Turn, Ended

\* What the two loops of glob_matches keep true is true whenever they run.
THEOREM GlobInvHolds == Spec => []GlobInv
<1>1. Init => GlobInv
  BY GlobInit
<1>2. GlobInv /\ [Next]_vars => GlobInv'
  BY GlobStep
<1> QED
  BY <1>1, <1>2, PTL DEF Spec

\* "Exact for any number of *": whatever the glob and whatever the version, the one
\* place that glob_matches goes back to is enough, and what it answers is whether the
\* version is covered.
THEOREM GlobsAreExact == Spec => []GlobIsExact
<1>1. GlobInv => GlobIsExact
  BY DEF GlobInv
<1> QED
  BY <1>1, GlobInvHolds, PTL

\* One turn, which the bounds of the invariant hold in.
LEMMA TurnGetsOn == GlobInv /\ GlobInv' /\ Next => GetsOn \/ UNCHANGED vars
<1> SUFFICES ASSUME GlobInv, GlobInv', Next PROVE GetsOn \/ UNCHANGED vars
    OBVIOUS
<1>0. i \in Nat /\ line \in Nat
  BY DEF GlobInv
<1>1. CASE StripComments
  <2>1. phase = "header" /\ phase' = phase /\ (i' = i + 1 \/ i' = i + 2)
    BY <1>1 DEF StripComments
  <2> QED
    BY <1>0, <2>1 DEF GetsOn
<1>2. CASE ReadDefines
  <2>1. phase = "header" /\ phase' \in {"declaration", "refused"}
    BY <1>2 DEF ReadDefines, Refuse
  <2> QED
    BY <2>1 DEF GetsOn
<1>3. CASE ReadLine
  <2>1. phase = "declaration" /\ (phase' = "refused" \/ (phase' = phase /\ line' = line + 1))
    BY <1>3 DEF ReadLine, Refuse
  <2> QED
    BY <1>0, <2>1 DEF GetsOn
<1>4. CASE CheckHeader
  <2>1. phase = "declaration" /\ phase' \in {"glob", "refused"}
    BY <1>4 DEF CheckHeader, Refuse
  <2> QED
    BY <2>1 DEF GetsOn
<1>5. ASSUME phase = "glob", phase' = "glob", world' = world, compat' = compat
      PROVE  /\ p \in Nat /\ v \in Nat /\ resume \in Nat /\ resume <= v
             /\ resume' <= v' /\ v' <= Len(value) /\ p' <= Len(pattern)
  <2>1. Bounds /\ Bounds' /\ pattern' = pattern /\ value' = value
    BY <1>5, TextsStay DEF GlobInv
  <2>2. Len(pattern) \in Nat /\ Len(value) \in Nat
    <3>1. pattern \in Seq(STRING) /\ value \in Seq(STRING)
      BY <1>5, WorldsAssumption DEF GlobInv, Texts, value
    <3> QED
      BY <3>1, LenProperties
  <2>3. v' \in 0 .. Len(value) /\ p' \in 0 .. Len(pattern) /\ resume' \in 0 .. v'
    BY <2>1 DEF Bounds
  <2> QED
    BY <2>1, <2>2, <2>3 DEF Bounds
<1>6. CASE GlobTurn
  <2>1. phase = "glob" /\ world' = world /\ compat' = compat
    BY <1>6 DEF GlobTurn, parsing
  <2>2. CASE phase' = "glob"
    <3>1. \/ p' = p + 1 /\ resume' = v /\ v' = v
          \/ p' = p + 1 /\ v' = v + 1 /\ resume' = resume
          \/ resume' = resume + 1
      BY <1>6, <2>2 DEF GlobTurn, Backtrack
    <3>2. \/ resume < resume'
          \/ resume = resume' /\ v < v'
          \/ resume = resume' /\ v = v' /\ p < p'
      BY <1>5, <2>1, <2>2, <3>1
    <3> QED
      BY <1>5, <2>1, <2>2, <3>2 DEF GetsOn
  <2>3. CASE phase' # "glob"
    BY <1>6, <2>1, <2>3 DEF GlobTurn, GetsOn
  <2> QED
    BY <2>2, <2>3
<1>7. CASE GlobEnd
  <2>1. phase = "glob" /\ world' = world /\ compat' = compat /\ v' = v /\ resume' = resume
    BY <1>7 DEF GlobEnd, parsing
  <2>2. CASE At(pattern, p + 1, "*")
    <3>1. phase' = "glob" /\ p' = p + 1
      BY <1>7, <2>1, <2>2 DEF GlobEnd
    <3> QED
      BY <1>5, <2>1, <3>1 DEF GetsOn
  <2>3. CASE ~At(pattern, p + 1, "*")
    BY <1>7, <2>3 DEF GlobEnd, GetsOn
  <2> QED
    BY <2>2, <2>3
<1> QED
  BY <1>1, <1>2, <1>3, <1>4, <1>6, <1>7 DEF Next, Turn, Ended

\* No turn of any of the loops leaves the script where it was, for any text: the step
\* back of glob_matches is paid for by what its star swallows, and no index passes the
\* end of what it goes through.
THEOREM TurnsGetOn == Spec => EveryTurnGetsOn
<1>1. GlobInv /\ GlobInv' /\ [Next]_vars => [GetsOn]_vars
  BY TurnGetsOn
<1> QED
  BY <1>1, GlobInvHolds, PTL DEF Spec, EveryTurnGetsOn

-----------------------------------------------------------------------------
(* The header: comments *)

\* Up to n, S has the openers of the comments of s.
Opening(s, S, n) ==
    /\ S \subseteq 1 .. n - 1
    /\ \A k \in 1 .. n - 1 :
          k \in S <=> Opens(s, k) /\ ~\E m \in S : m < k /\ k <= Closer(s, m)

Hidden(s, S, n) == \E m \in S : m <= n /\ n <= Closer(s, m)

\* What the comments of S leave of the first n - 1 symbols: all that is outside of
\* them, and the ends of lines.
Left(s, S, n) == {k \in 1 .. n - 1 : ~Hidden(s, S, k) \/ s[k] = "nl"}

\* t is what s has at the places K, in order.
Restricts(s, K, t, at) ==
    /\ t \in Seq(STRING)
    /\ at \in [1 .. Len(t) -> K]
    /\ \A k \in 1 .. Len(t) : t[k] = s[at[k]]
    /\ \A j, k \in 1 .. Len(t) : j < k => at[j] < at[k]
    /\ \A n \in K : \E k \in 1 .. Len(t) : at[k] = n

\* Nothing ends the comment that is opened at n before k.
Open(s, n, k) == \A m \in n + 2 .. k - 1 : ~Closes(s, m)

\* A comment ends at a place.
LEMMA CloserIsNat ==
    ASSUME NEW s \in Seq(STRING), NEW n \in Nat
    PROVE  Closer(s, n) \in Nat
<1> DEFINE ends == {m \in n + 2 .. Len(s) : Closes(s, m)}
<1>1. CASE ends = {}
  BY <1>1, LenProperties DEF Closer
<1>2. CASE ends # {}
  <2>1. ends \in SUBSET Nat
    BY LenProperties
  <2>2. Closer(s, n) = First(ends) + 1
    BY <1>2 DEF Closer
  <2> HIDE DEF ends
  <2>3. First(ends) \in ends
    BY <1>2, <2>1, FirstIsLeast
  <2>4. PICK m \in ends : m = First(ends)
    BY <2>3
  <2>5. m \in Nat
    BY <2>1
  <2> QED
    BY <2>1, <2>2, <2>4, <2>5
<1> QED
  BY <1>1, <1>2

\* A comment goes at least as far as nothing has ended it.
LEMMA CloserIsLater ==
    ASSUME NEW s \in Seq(STRING), NEW n \in Nat, NEW k \in Nat, k <= Len(s), Open(s, n, k)
    PROVE  k <= Closer(s, n)
<1> DEFINE ends == {m \in n + 2 .. Len(s) : Closes(s, m)}
<1>1. CASE ends = {}
  BY <1>1 DEF Closer
<1>2. CASE ends # {}
  <2>1. ends \in SUBSET Nat /\ \A m \in ends : m >= k
    BY LenProperties DEF Open
  <2>2. Closer(s, n) = First(ends) + 1
    BY <1>2 DEF Closer
  <2> HIDE DEF ends
  <2>3. First(ends) \in ends
    BY <1>2, <2>1, FirstIsLeast
  <2>4. PICK m \in ends : m = First(ends)
    BY <2>3
  <2>5. m \in Nat
    BY <2>1
  <2> QED
    BY <2>1, <2>2, <2>4, <2>5
<1> QED
  BY <1>1, <1>2

\* The first to end it ends it.
LEMMA CloserIsHere ==
    ASSUME NEW s \in Seq(STRING), NEW n \in Nat, NEW k \in Nat, n + 2 <= k,
           Open(s, n, k), Closes(s, k)
    PROVE  Closer(s, n) = k + 1 /\ k + 1 <= Len(s)
<1> DEFINE ends == {m \in n + 2 .. Len(s) : Closes(s, m)}
<1>1. k + 1 <= Len(s) /\ Len(s) \in Nat
  BY LenProperties DEF Closes, At
<1>2. k \in ends /\ ends \in SUBSET Nat /\ \A m \in ends : k <= m
  BY <1>1 DEF Open
<1>3. Closer(s, n) = First(ends) + 1
  BY <1>2 DEF Closer
<1> HIDE DEF ends
<1>4. First(ends) \in ends /\ \A m \in ends : First(ends) <= m
  BY <1>2, FirstIsLeast
<1>5. PICK m \in ends : m = First(ends)
  BY <1>4
<1>6. m \in Nat /\ k <= m /\ m <= k
  BY <1>2, <1>4, <1>5
<1>7. m = k
  BY <1>6
<1> QED
  BY <1>1, <1>3, <1>5, <1>7

\* There is one way to say which openers are one.
LEMMA OpeningIsOpeners ==
    ASSUME NEW s \in Seq(STRING), NEW S, Opening(s, S, Len(s) + 1)
    PROVE  S = Openers(s)
<1>0. Len(s) \in Nat /\ DOMAIN s = 1 .. Len(s) /\ 1 .. (Len(s) + 1) - 1 = 1 .. Len(s)
  BY LenProperties
<1> DEFINE Fine(T) ==
              \A n \in DOMAIN s :
                  n \in T <=> Opens(s, n) /\ ~\E m \in T : m < n /\ n <= Closer(s, m)
           All == {n \in DOMAIN s : Opens(s, n)}
<1>1. S \in SUBSET All /\ Fine(S)
  BY <1>0 DEF Opening
<1>2. Openers(s) = CHOOSE T \in SUBSET All : Fine(T)
  BY DEF Openers
<1>3. Openers(s) \in SUBSET All /\ Fine(Openers(s))
  <2> HIDE DEF Fine, All
  <2> QED
    BY <1>1, <1>2
<1>4. PICK T : T = Openers(s)
  OBVIOUS
<1>5. T \in SUBSET All /\ Fine(T)
  BY <1>3, <1>4
<1> DEFINE Diff == {n \in 1 .. Len(s) : ~(n \in S <=> n \in T)}
<1>6. Diff = {}
  <2> SUFFICES ASSUME Diff # {} PROVE FALSE
      OBVIOUS
  <2>1. Diff \in SUBSET Nat
    BY <1>0
  <2>2. PICK n \in Diff : \A m \in Diff : n <= m
    <3> HIDE DEF Diff
    <3> QED
      BY <2>1, LeastOf
  <2>3. n \in DOMAIN s /\ ~(n \in S <=> n \in T)
    BY <1>0, <2>2
  <2>4. \A m \in 1 .. Len(s) : m < n => (m \in S <=> m \in T)
    BY <1>0, <2>2, <2>3
  <2>5. (\E m \in S : m < n /\ n <= Closer(s, m)) <=> (\E m \in T : m < n /\ n <= Closer(s, m))
    BY <1>0, <1>1, <1>5, <2>4
  <2> QED
    BY <1>1, <1>5, <2>3, <2>5
<1>7. \A n : n \in S <=> n \in T
  BY <1>0, <1>1, <1>5, <1>6
<1> QED
  BY <1>4, <1>7

\* One more place of the text, and one more symbol of what is copied.
LEMMA AppendRestricts ==
    ASSUME NEW s \in Seq(STRING), NEW K \in SUBSET Nat, NEW t, NEW at,
           Restricts(s, K, t, at), NEW n \in 1 .. Len(s), \A k \in K : k < n
    PROVE  \E at2 : Restricts(s, K \cup {n}, Append(t, s[n]), at2)
<1> DEFINE N == Len(t) + 1
           u == Append(t, s[n])
           at2 == [k \in 1 .. N |-> IF k = N THEN n ELSE at[k]]
<1>1. /\ t \in Seq(STRING) /\ Len(t) \in Nat
      /\ at \in [1 .. Len(t) -> K]
      /\ \A k \in 1 .. Len(t) : t[k] = s[at[k]]
      /\ \A j, k \in 1 .. Len(t) : j < k => at[j] < at[k]
      /\ \A m \in K : \E k \in 1 .. Len(t) : at[k] = m
  BY LenProperties DEF Restricts
<1>2. s[n] \in STRING
  BY ElementOfSeq
<1>3. /\ u \in Seq(STRING) /\ Len(u) = N
      /\ \A k \in 1 .. Len(t) : u[k] = t[k]
      /\ u[N] = s[n]
  BY <1>1, <1>2, AppendProperties
<1>4. /\ \A k \in 1 .. N : k = N \/ k \in 1 .. Len(t)
      /\ \A k \in 1 .. Len(t) : k \in 1 .. N /\ k < N
      /\ N \in 1 .. N
  BY <1>1
<1>5. /\ at2[N] = n
      /\ \A k \in 1 .. Len(t) : at2[k] = at[k]
      /\ at2 \in [1 .. N -> K \cup {n}]
  BY <1>1, <1>4
<1> HIDE DEF u, at2, N
<1>6. \A k \in 1 .. N : u[k] = s[at2[k]]
  BY <1>1, <1>3, <1>4, <1>5
<1>7. \A j, k \in 1 .. N : j < k => at2[j] < at2[k]
  <2> SUFFICES ASSUME NEW j \in 1 .. N, NEW k \in 1 .. N, j < k
               PROVE  at2[j] < at2[k]
      OBVIOUS
  <2>1. j \in 1 .. Len(t) /\ at[j] \in K
    BY <1>1, <1>4 DEF N
  <2>2. CASE k = N
    BY <1>5, <2>1, <2>2
  <2>3. CASE k \in 1 .. Len(t)
    BY <1>1, <1>5, <2>1, <2>3
  <2> QED
    BY <1>4, <2>2, <2>3
<1>8. \A m \in K \cup {n} : \E k \in 1 .. N : at2[k] = m
  BY <1>1, <1>4, <1>5
<1>9. Restricts(s, K \cup {n}, u, at2)
  BY <1>3, <1>5, <1>6, <1>7, <1>8 DEF Restricts
<1> QED
  BY <1>9 DEF u

-----------------------------------------------------------------------------
(* strip_block_comments: what its loop keeps true *)

\* The comments up to here, one of them open or none; and what they leave is what
\* has been kept.
HeaderRead(S) ==
    /\ Opening(world.header, S, i)
    /\ IF in_comment
       THEN \E m \in S : m + 2 <= i /\ Open(world.header, m, i)
       ELSE \A m \in S : Closer(world.header, m) < i
    /\ \E at : Restricts(world.header, Left(world.header, S, i), out, at)

HeaderInv ==
    /\ world \in Worlds
    /\ phase = "header" =>
          /\ defined = None
          /\ i \in 1 .. Len(world.header) + 1
          /\ \E S \in SUBSET Nat : HeaderRead(S)

\* Before the first turn, nothing has been read.
LEMMA HeaderBegins == Init => HeaderInv
<1> SUFFICES ASSUME Init PROVE HeaderInv
    OBVIOUS
<1>1. world.header \in Seq(STRING) /\ Len(world.header) \in Nat
  BY WorldsAssumption, LenProperties DEF Init
<1>2. Opening(world.header, {}, 1)
  BY DEF Opening
<1>3. Left(world.header, {}, 1) = {}
  BY DEF Left
<1> DEFINE at == [k \in 1 .. 0 |-> 0]
<1>4. << >> \in Seq(STRING) /\ Len(<< >>) = 0 /\ at \in [1 .. 0 -> {}]
  OBVIOUS
<1> HIDE DEF at
<1>5. Restricts(world.header, {}, << >>, at)
  BY <1>4 DEF Restricts
<1>6. HeaderRead({})
  BY <1>2, <1>3, <1>5 DEF HeaderRead, Init
<1> QED
  BY <1>1, <1>6 DEF HeaderInv, Init

\* The comment that is open, if one is.
LEMMA OpenComment ==
    ASSUME NEW h \in Seq(STRING), NEW S, NEW n \in 1 .. Len(h), Opening(h, S, n),
           NEW m \in S, m + 2 <= n, Open(h, m, n)
    PROVE  /\ m \in Nat /\ m < n /\ n <= Closer(h, m)
           /\ \A k \in S : k # m => Closer(h, k) < m
<1>1. Len(h) \in Nat /\ n \in Nat /\ S \subseteq 1 .. n - 1
  BY LenProperties DEF Opening
<1>2. m \in Nat /\ m < n /\ n <= Closer(h, m)
  BY <1>1, CloserIsLater
<1>3. ASSUME NEW k \in S, k # m PROVE Closer(h, k) < m
  <2>1. k \in Nat /\ k < n /\ Closer(h, k) \in Nat /\ Closer(h, m) \in Nat
    BY <1>1, <1>2, CloserIsNat
  <2>2. ~(m < k)
    <3> SUFFICES ASSUME m < k PROVE FALSE
        OBVIOUS
    <3>1. k <= Closer(h, m)
      BY <1>1, <1>2, <2>1
    <3> QED
      BY <1>1, <3>1 DEF Opening
  <2>3. k < m
    BY <1>2, <1>3, <2>1, <2>2
  <2>4. ~(m <= Closer(h, k))
    BY <1>1, <2>3 DEF Opening
  <2> QED
    BY <1>2, <2>1, <2>4
<1> QED
  BY <1>2, <1>3

\* Behind an end of a comment none is open.
LEMMA CommentEnds ==
    ASSUME HeaderInv, StripComments, in_comment, Closes(world.header, i)
    PROVE  HeaderInv'
<1> DEFINE h == world.header
<1>0. /\ h \in Seq(STRING) /\ Len(h) \in Nat /\ i \in Nat /\ i >= 1 /\ i <= Len(h)
      /\ phase = "header" /\ i \in 1 .. Len(h)
  BY WorldsAssumption, LenProperties DEF HeaderInv, StripComments
<1>1. PICK S \in SUBSET Nat : HeaderRead(S)
  BY <1>0 DEF HeaderInv
<1>2. PICK m \in S : m + 2 <= i /\ Open(h, m, i)
  BY <1>1 DEF HeaderRead
<1>3. Opening(h, S, i)
  BY <1>1 DEF HeaderRead
<1>4. PICK at : Restricts(h, Left(h, S, i), out, at)
  BY <1>1 DEF HeaderRead
<1>5. UNCHANGED <<world, phase, defined, out>> /\ i' = i + 2 /\ ~in_comment'
  BY DEF StripComments
<1> HIDE DEF h
<1>6. m \in Nat /\ m < i /\ Closer(h, m) = i + 1 /\ i + 1 <= Len(h)
  BY <1>0, <1>1, <1>2, CloserIsHere DEF h
<1>7. \A k \in S : Closer(h, k) < i + 2
  <2> SUFFICES ASSUME NEW k \in S, k # m PROVE Closer(h, k) < i + 2
      BY <1>0, <1>6
  <2>1. Closer(h, k) < m /\ Closer(h, k) \in Nat
    BY <1>0, <1>1, <1>2, <1>3, OpenComment, CloserIsNat
  <2> QED
    BY <1>0, <1>6, <2>1
<1>8. h[i] = "*" /\ h[i + 1] = "/" /\ ~Opens(h, i)
  BY DEF Closes, Opens, At, h
<1>9. Opening(h, S, i + 2)
  <2>1. S \subseteq 1 .. (i + 2) - 1
    BY <1>0, <1>3 DEF Opening
  <2>2. \A k \in 1 .. (i + 2) - 1 : k \in 1 .. i - 1 \/ k = i \/ k = i + 1
    BY <1>0
  <2>3. i \notin S /\ i + 1 \notin S /\ m < i + 1 /\ i <= Closer(h, m) /\ i + 1 <= Closer(h, m)
    BY <1>0, <1>3, <1>6 DEF Opening
  <2> QED
    BY <1>3, <1>6, <2>1, <2>2, <2>3 DEF Opening
<1>10. Left(h, S, i + 2) = Left(h, S, i)
  <2>1. Hidden(h, S, i) /\ Hidden(h, S, i + 1)
    BY <1>0, <1>2, <1>6 DEF Hidden
  <2>2. \A k \in 1 .. (i + 2) - 1 : k \in 1 .. i - 1 \/ k = i \/ k = i + 1
    BY <1>0
  <2>3. 1 .. i - 1 \subseteq 1 .. (i + 2) - 1
    BY <1>0
  <2> QED
    BY <1>8, <2>1, <2>2, <2>3 DEF Left
<1>11. HeaderRead(S)'
  BY <1>4, <1>5, <1>7, <1>9, <1>10 DEF HeaderRead, h
<1>12. i' \in 1 .. Len(h) + 1
  BY <1>0, <1>5, <1>6
<1> QED
  BY <1>0, <1>1, <1>5, <1>11, <1>12 DEF HeaderInv, h

\* A symbol more of which the comments leave what has been kept.
LEMMA OneMoreLeft ==
    ASSUME NEW h \in Seq(STRING), NEW S, NEW n \in 1 .. Len(h), NEW t, NEW u,
           \E at : Restricts(h, Left(h, S, n), t, at),
           u = IF ~Hidden(h, S, n) \/ h[n] = "nl" THEN Append(t, h[n]) ELSE t
    PROVE  \E at : Restricts(h, Left(h, S, n + 1), u, at)
<1>1. Len(h) \in Nat /\ n \in Nat
  BY LenProperties
<1>2. PICK at : Restricts(h, Left(h, S, n), t, at)
  OBVIOUS
<1>3. Left(h, S, n) \in SUBSET Nat /\ \A k \in Left(h, S, n) : k < n
  BY <1>1 DEF Left
<1>4. \A k : k \in 1 .. (n + 1) - 1 <=> k \in 1 .. n - 1 \/ k = n
  BY <1>1
<1>5. CASE ~Hidden(h, S, n) \/ h[n] = "nl"
  <2>1. Left(h, S, n + 1) = Left(h, S, n) \cup {n}
    BY <1>4, <1>5 DEF Left
  <2>2. PICK K \in SUBSET Nat : K = Left(h, S, n)
    BY <1>3
  <2>3. Restricts(h, K, t, at) /\ \A k \in K : k < n
    BY <1>2, <1>3, <2>2
  <2>4. PICK at2 : Restricts(h, K \cup {n}, Append(t, h[n]), at2)
    BY <2>3, AppendRestricts
  <2> QED
    BY <1>5, <2>1, <2>2, <2>4
<1>6. CASE ~(~Hidden(h, S, n) \/ h[n] = "nl")
  <2>1. Left(h, S, n + 1) = Left(h, S, n)
    BY <1>4, <1>6 DEF Left
  <2> QED
    BY <1>2, <1>6, <2>1
<1> QED
  BY <1>5, <1>6

\* A symbol of a comment.
LEMMA CommentGoesOn ==
    ASSUME HeaderInv, StripComments, in_comment, ~Closes(world.header, i)
    PROVE  HeaderInv'
<1> DEFINE h == world.header
<1>0. /\ h \in Seq(STRING) /\ Len(h) \in Nat /\ i \in Nat /\ i >= 1 /\ i <= Len(h)
      /\ phase = "header" /\ i \in 1 .. Len(h)
  BY WorldsAssumption, LenProperties DEF HeaderInv, StripComments
<1>1. PICK S \in SUBSET Nat : HeaderRead(S)
  BY <1>0 DEF HeaderInv
<1>2. PICK m \in S : m + 2 <= i /\ Open(h, m, i)
  BY <1>1 DEF HeaderRead
<1>3. Opening(h, S, i) /\ \E at : Restricts(h, Left(h, S, i), out, at)
  BY <1>1 DEF HeaderRead
<1>5. UNCHANGED <<world, phase, defined>> /\ i' = i + 1 /\ in_comment'
        /\ out' = IF h[i] = "nl" THEN Append(out, "nl") ELSE out
  BY DEF StripComments
<1>6. ~Closes(h, i)
  OBVIOUS
<1> HIDE DEF h
<1>7. m \in Nat /\ m < i /\ i <= Closer(h, m)
  BY <1>0, <1>2, <1>3, OpenComment
<1>8. Hidden(h, S, i)
  BY <1>0, <1>2, <1>7 DEF Hidden
<1>9. Opening(h, S, i + 1)
  <2>1. S \subseteq 1 .. (i + 1) - 1
    BY <1>0, <1>3 DEF Opening
  <2>2. \A k \in 1 .. (i + 1) - 1 : k \in 1 .. i - 1 \/ k = i
    BY <1>0
  <2>3. i \notin S
    BY <1>0, <1>3 DEF Opening
  <2> QED
    BY <1>3, <1>7, <2>1, <2>2, <2>3 DEF Opening
<1>10. m + 2 <= i + 1 /\ Open(h, m, i + 1)
  <2>1. \A k \in m + 2 .. (i + 1) - 1 : k \in m + 2 .. i - 1 \/ k = i
    BY <1>0, <1>7
  <2> QED
    BY <1>0, <1>2, <1>6, <1>7, <2>1 DEF Open
<1>11. \E at : Restricts(h, Left(h, S, i + 1), out', at)
  <2>1. out' = IF ~Hidden(h, S, i) \/ h[i] = "nl" THEN Append(out, h[i]) ELSE out
    BY <1>5, <1>8
  <2> QED
    BY <1>0, <1>3, <2>1, OneMoreLeft
<1>12. HeaderRead(S)'
  BY <1>2, <1>5, <1>9, <1>10, <1>11 DEF HeaderRead, h
<1>13. i' \in 1 .. Len(h) + 1
  BY <1>0, <1>5
<1> QED
  BY <1>0, <1>1, <1>5, <1>12, <1>13 DEF HeaderInv, h

\* A symbol outside of comments.
LEMMA TextGoesOn ==
    ASSUME HeaderInv, StripComments, ~in_comment, ~Opens(world.header, i)
    PROVE  HeaderInv'
<1> DEFINE h == world.header
<1>0. /\ h \in Seq(STRING) /\ Len(h) \in Nat /\ i \in Nat /\ i >= 1 /\ i <= Len(h)
      /\ phase = "header" /\ i \in 1 .. Len(h)
  BY WorldsAssumption, LenProperties DEF HeaderInv, StripComments
<1>1. PICK S \in SUBSET Nat : HeaderRead(S)
  BY <1>0 DEF HeaderInv
<1>2. \A m \in S : Closer(h, m) < i
  BY <1>1 DEF HeaderRead
<1>3. Opening(h, S, i) /\ \E at : Restricts(h, Left(h, S, i), out, at)
  BY <1>1 DEF HeaderRead
<1>5. UNCHANGED <<world, phase, defined>> /\ i' = i + 1 /\ ~in_comment'
        /\ out' = Append(out, h[i])
  BY DEF StripComments
<1>6. ~Opens(h, i)
  OBVIOUS
<1> HIDE DEF h
<1>7. \A m \in S : Closer(h, m) \in Nat
  BY <1>0, <1>1, CloserIsNat
<1>8. ~Hidden(h, S, i)
  BY <1>0, <1>2, <1>7 DEF Hidden
<1>9. Opening(h, S, i + 1)
  <2>1. S \subseteq 1 .. (i + 1) - 1
    BY <1>0, <1>3 DEF Opening
  <2>2. \A k \in 1 .. (i + 1) - 1 : k \in 1 .. i - 1 \/ k = i
    BY <1>0
  <2>3. i \notin S
    BY <1>0, <1>3 DEF Opening
  <2> QED
    BY <1>3, <1>6, <2>1, <2>2, <2>3 DEF Opening
<1>10. \A m \in S : Closer(h, m) < i + 1
  BY <1>0, <1>2, <1>7
<1>11. \E at : Restricts(h, Left(h, S, i + 1), out', at)
  <2>1. out' = IF ~Hidden(h, S, i) \/ h[i] = "nl" THEN Append(out, h[i]) ELSE out
    BY <1>5, <1>8
  <2> QED
    BY <1>0, <1>3, <2>1, OneMoreLeft
<1>12. HeaderRead(S)'
  BY <1>5, <1>9, <1>10, <1>11 DEF HeaderRead, h
<1>13. i' \in 1 .. Len(h) + 1
  BY <1>0, <1>5
<1> QED
  BY <1>0, <1>1, <1>5, <1>12, <1>13 DEF HeaderInv, h

\* A comment more: the one that begins here.
LEMMA CommentBegins ==
    ASSUME HeaderInv, StripComments, ~in_comment, Opens(world.header, i)
    PROVE  HeaderInv'
<1> DEFINE h == world.header
<1>0. /\ h \in Seq(STRING) /\ Len(h) \in Nat /\ i \in Nat /\ i >= 1 /\ i <= Len(h)
      /\ phase = "header" /\ i \in 1 .. Len(h)
  BY WorldsAssumption, LenProperties DEF HeaderInv, StripComments
<1>1. PICK S \in SUBSET Nat : HeaderRead(S)
  BY <1>0 DEF HeaderInv
<1>2. \A m \in S : Closer(h, m) < i
  BY <1>1 DEF HeaderRead
<1>3. Opening(h, S, i) /\ \E at : Restricts(h, Left(h, S, i), out, at)
  BY <1>1 DEF HeaderRead
<1>5. UNCHANGED <<world, phase, defined>> /\ i' = i + 2 /\ in_comment' /\ out' = out
  BY DEF StripComments
<1>6. Opens(h, i)
  OBVIOUS
<1> HIDE DEF h
<1>7. \A m \in S : Closer(h, m) \in Nat /\ m \in Nat /\ m < i
  BY <1>0, <1>1, <1>3, CloserIsNat DEF Opening
<1>8. h[i] = "/" /\ h[i + 1] = "*" /\ i + 1 <= Len(h) /\ ~Opens(h, i + 1)
  BY <1>6 DEF Opens, At
<1>9. Closer(h, i) \in Nat /\ i + 1 <= Closer(h, i)
  <2>1. PICK k \in Nat : k = i + 1
    BY <1>0
  <2>2. Open(h, i, k) /\ k <= Len(h)
    BY <1>0, <1>8, <2>1 DEF Open
  <2> QED
    BY <1>0, <2>1, <2>2, CloserIsLater, CloserIsNat
<1>t. PICK T \in SUBSET Nat : T = S \cup {i}
  BY <1>0, <1>1
<1>10. \A k \in 1 .. (i + 2) - 1 : k \in 1 .. i - 1 \/ k = i \/ k = i + 1
  BY <1>0
<1>11. Opening(h, T, i + 2)
  <2>1. T \subseteq 1 .. (i + 2) - 1
    BY <1>0, <1>3, <1>t DEF Opening
  <2>2. \A k \in 1 .. i - 1 : k \in T <=> Opens(h, k) /\ ~\E m \in T : m < k /\ k <= Closer(h, m)
    BY <1>0, <1>3, <1>7, <1>t DEF Opening
  <2>3. i \in T /\ ~\E m \in T : m < i /\ i <= Closer(h, m)
    BY <1>0, <1>2, <1>7, <1>t
  <2>4. i + 1 \notin T
    BY <1>0, <1>7, <1>t
  <2> QED
    BY <1>6, <1>8, <1>10, <2>1, <2>2, <2>3, <2>4 DEF Opening
<1>12. Left(h, T, i + 2) = Left(h, S, i)
  <2>1. Hidden(h, T, i) /\ Hidden(h, T, i + 1)
    BY <1>0, <1>9, <1>t DEF Hidden
  <2>2. \A k \in 1 .. i - 1 : Hidden(h, T, k) <=> Hidden(h, S, k)
    BY <1>0, <1>t DEF Hidden
  <2>3. 1 .. i - 1 \subseteq 1 .. (i + 2) - 1
    BY <1>0
  <2>4. h[i] # "nl" /\ h[i + 1] # "nl"
    BY <1>8
  <2> QED
    BY <1>10, <2>1, <2>2, <2>3, <2>4 DEF Left
<1>13. Open(h, i, i + 2) /\ i \in T /\ i + 2 <= i + 2
  BY <1>0, <1>t DEF Open
<1>14. HeaderRead(T)'
  BY <1>3, <1>5, <1>11, <1>12, <1>13 DEF HeaderRead, h
<1>15. i' \in 1 .. Len(h) + 1
  BY <1>0, <1>5, <1>8
<1> QED
  BY <1>0, <1>5, <1>14, <1>15 DEF HeaderInv, h

-----------------------------------------------------------------------------
(* The definitions that are left *)

\* t is what the comments of s leave of it.
Stripped(s, t, at) ==
    /\ Opening(s, Openers(s), Len(s) + 1)
    /\ Restricts(s, Left(s, Openers(s), Len(s) + 1), t, at)

\* Once a header is read, what is hidden is what lies in its comments.
LEMMA CommentedIsHidden ==
    ASSUME NEW s \in Seq(STRING), Opening(s, Openers(s), Len(s) + 1), NEW n \in Nat
    PROVE  n \in Commented(s) <=> Hidden(s, Openers(s), n)
<1>1. \A m \in Openers(s) : m \in Nat /\ Closer(s, m) \in Nat
  BY LenProperties, CloserIsNat DEF Opening
<1>2. n \in Commented(s) <=> \E m \in Openers(s) : n \in m .. Closer(s, m)
  BY DEF Commented
<1> QED
  BY <1>1, <1>2 DEF Hidden

\* What is left when the comments are gone defines what the header defines outside of
\* them, and begins its lines where nothing but comments is before it.
LEMMA LiveIsLeft ==
    ASSUME NEW s \in Seq(STRING), NEW t, NEW at, Stripped(s, t, at)
    PROVE  /\ integer_defines(t) \subseteq 1 .. Len(t)
           /\ \A k \in integer_defines(t) : at[k] \in Live(s)
           /\ \A n \in Live(s) : \E k \in integer_defines(t) : at[k] = n
<1> DEFINE L == Left(s, Openers(s), Len(s) + 1)
           Counts(x) == x \in DOMAIN Defines /\ Defines[x].value # None
<1>1. /\ t \in Seq(STRING) /\ Len(t) \in Nat /\ DOMAIN t = 1 .. Len(t)
      /\ at \in [1 .. Len(t) -> L]
      /\ \A k \in 1 .. Len(t) : t[k] = s[at[k]]
      /\ \A j, k \in 1 .. Len(t) : j < k => at[j] < at[k]
      /\ \A n \in L : \E k \in 1 .. Len(t) : at[k] = n
  BY LenProperties DEF Stripped, Restricts
<1>2. Len(s) \in Nat /\ DOMAIN s = 1 .. Len(s) /\ 1 .. (Len(s) + 1) - 1 = 1 .. Len(s)
  BY LenProperties
<1>3. \A n : n \in L <=> n \in 1 .. Len(s) /\ (n \notin Commented(s) \/ s[n] = "nl")
  BY <1>2, CommentedIsHidden DEF Stripped, Left
<1>4. \A n : n \in Live(s) <=>
             /\ n \in 1 .. Len(s) /\ n \notin Commented(s) /\ Counts(s[n])
             /\ \E m \in 0 .. n - 1 :
                   /\ m = 0 \/ s[m] = "nl"
                   /\ m + 1 .. n - 1 \subseteq Commented(s)
  BY <1>2 DEF Live
<1>5. \A k : k \in integer_defines(t) <=>
             /\ k \in 1 .. Len(t) /\ Counts(t[k])
             /\ k = 1 \/ t[k - 1] = "nl"
  BY <1>1 DEF integer_defines, Starts
<1>6. \A x : Counts(x) => x # "nl"
  BY DefinesAssumption
<1> HIDE DEF L, Counts
<1>7. \A k \in 1 .. Len(t) : at[k] \in L /\ at[k] \in Nat /\ at[k] >= 1 /\ at[k] <= Len(s)
  BY <1>1, <1>2, <1>3
<1>8. ASSUME NEW k \in 1 .. Len(t), k # 1, NEW j \in 1 .. Len(t)
      PROVE  at[j] <= at[k - 1] \/ at[k] <= at[j]
  <2>1. PICK q \in 1 .. Len(t) : q = k - 1
    BY <1>1, <1>8
  <2>2. j < q \/ j = q \/ j = k \/ k < j
    BY <1>1, <2>1
  <2>3. at[j] < at[q] \/ at[j] = at[q] \/ at[j] = at[k] \/ at[k] < at[j]
    BY <1>1, <2>2
  <2>4. at[j] \in Nat /\ at[q] \in Nat /\ at[k] \in Nat
    BY <1>7
  <2>5. at[j] <= at[q] \/ at[k] <= at[j]
    BY <2>3, <2>4
  <2> QED
    BY <2>1, <2>5
<1>9. ASSUME NEW k \in integer_defines(t) PROVE at[k] \in Live(s)
  <2>1. k \in 1 .. Len(t) /\ Counts(t[k]) /\ (k = 1 \/ t[k - 1] = "nl")
    BY <1>5
  <2>2. at[k] \in 1 .. Len(s) /\ at[k] \notin Commented(s) /\ Counts(s[at[k]])
    BY <1>1, <1>2, <1>3, <1>6, <1>7, <2>1
  <2>3. CASE k = 1
    <3>1. ASSUME NEW n \in 0 + 1 .. at[k] - 1 PROVE n \in Commented(s)
      <4> SUFFICES ASSUME n \notin Commented(s) PROVE FALSE
          OBVIOUS
      <4>1. n \in L /\ n < at[k]
        BY <1>2, <1>3, <2>2
      <4>2. PICK j \in 1 .. Len(t) : at[j] = n
        BY <1>1, <4>1
      <4>3. j = 1 \/ at[1] < at[j]
        BY <1>1, <2>1, <2>3, <4>2
      <4> QED
        BY <1>7, <2>1, <2>3, <4>1, <4>2, <4>3
    <3>2. 0 \in 0 .. at[k] - 1
      BY <1>7, <2>1
    <3> QED
      BY <1>4, <2>2, <3>1, <3>2
  <2>4. CASE k # 1 /\ t[k - 1] = "nl"
    <3>1. k - 1 \in 1 .. Len(t) /\ k - 1 < k
      BY <1>1, <2>1, <2>4
    <3>2. s[at[k - 1]] = "nl" /\ at[k - 1] < at[k]
      BY <1>1, <2>1, <2>4, <3>1
    <3>3. ASSUME NEW n \in at[k - 1] + 1 .. at[k] - 1 PROVE n \in Commented(s)
      <4> SUFFICES ASSUME n \notin Commented(s) PROVE FALSE
          OBVIOUS
      <4>1. /\ at[k - 1] \in Nat /\ at[k] \in Nat /\ at[k] <= Len(s)
        BY <1>7, <2>1, <3>1
      <4>2. n \in 1 .. Len(s) /\ n < at[k] /\ at[k - 1] < n
        BY <1>2, <4>1
      <4>3. PICK j \in 1 .. Len(t) : at[j] = n
        BY <1>1, <1>3, <4>2
      <4>4. at[j] <= at[k - 1] \/ at[k] <= at[j]
        BY <1>8, <2>1, <2>4
      <4> QED
        BY <4>1, <4>2, <4>3, <4>4
    <3>4. at[k - 1] \in 0 .. at[k] - 1
      BY <1>7, <2>1, <3>1, <3>2
    <3> QED
      BY <1>4, <2>2, <3>2, <3>3, <3>4
  <2> QED
    BY <2>1, <2>3, <2>4
<1>10. ASSUME NEW n \in Live(s) PROVE \E k \in integer_defines(t) : at[k] = n
  <2>1. /\ n \in 1 .. Len(s) /\ n \notin Commented(s) /\ Counts(s[n])
        /\ \E m \in 0 .. n - 1 :
              /\ m = 0 \/ s[m] = "nl"
              /\ m + 1 .. n - 1 \subseteq Commented(s)
    BY <1>4
  <2>2. PICK m \in 0 .. n - 1 :
           /\ m = 0 \/ s[m] = "nl"
           /\ m + 1 .. n - 1 \subseteq Commented(s)
    BY <2>1
  <2>3. PICK k \in 1 .. Len(t) : at[k] = n
    BY <1>1, <1>3, <2>1
  <2>4. Counts(t[k])
    BY <1>1, <2>1, <2>3
  <2>5. ASSUME k # 1 PROVE t[k - 1] = "nl"
    <3>1. k - 1 \in 1 .. Len(t) /\ k - 1 < k
      BY <1>1, <2>3, <2>5
    <3>2. at[k - 1] \in L /\ at[k - 1] < n /\ t[k - 1] = s[at[k - 1]]
      BY <1>1, <1>7, <2>3, <3>1
    <3>3. CASE at[k - 1] \in m + 1 .. n - 1
      BY <1>3, <2>2, <3>2, <3>3
    <3>4. CASE at[k - 1] = m
      BY <1>7, <2>2, <3>1, <3>2, <3>4
    <3>5. CASE at[k - 1] < m
      <4>1. m \in L
        BY <1>2, <1>3, <1>7, <2>1, <2>2, <3>1, <3>5
      <4>2. PICK j \in 1 .. Len(t) : at[j] = m
        BY <1>1, <4>1
      <4>3. at[j] <= at[k - 1] \/ at[k] <= at[j]
        BY <1>8, <2>3, <2>5
      <4> QED
        BY <1>7, <2>1, <2>2, <2>3, <3>1, <3>5, <4>2, <4>3
    <3> QED
      BY <1>7, <2>1, <2>2, <3>1, <3>2, <3>3, <3>4, <3>5
  <2> QED
    BY <1>5, <2>3, <2>4, <2>5
<1> QED
  BY <1>5, <1>9, <1>10

\* A value that is taken out of what is left is the one value of its name.
LEMMA DefinedOnce ==
    ASSUME NEW s \in Seq(STRING), NEW t, NEW at, Stripped(s, t, at), NEW name,
           u32_define(t, name) # None
    PROVE  \E n \in Live(s) :
              /\ Defines[s[n]].name = name
              /\ u32_define(t, name) = Defines[s[n]].value
              /\ \A k \in Live(s) : Defines[s[k]].name = name => k = n
<1> DEFINE found == {k \in integer_defines(t) : Defines[t[k]].name = name}
<1>1. u32_define(t, name) = integer_define(t, name) /\ integer_define(t, name) # None
  BY SMTT(30) DEF u32_define
<1>2. PICK k \in found : found = {k} /\ integer_define(t, name) = Defines[t[First(found)]].value
  BY <1>1 DEF integer_define
<1>3. /\ integer_defines(t) \subseteq 1 .. Len(t)
      /\ \A j \in integer_defines(t) : at[j] \in Live(s)
      /\ \A n \in Live(s) : \E j \in integer_defines(t) : at[j] = n
  BY LiveIsLeft
<1>4. \A j \in 1 .. Len(t) : t[j] = s[at[j]]
  BY DEF Stripped, Restricts
<1>5. First(found) = k
  <2>1. k \in Nat
    BY <1>3
  <2>2. First({k}) \in {k}
    BY <2>1, FirstIsLeast, SMTT(30)
  <2> QED
    BY <1>2, <2>2
<1>6. /\ at[k] \in Live(s) /\ Defines[s[at[k]]].name = name
      /\ u32_define(t, name) = Defines[s[at[k]]].value
  BY <1>1, <1>2, <1>3, <1>4, <1>5
<1>7. ASSUME NEW n \in Live(s), Defines[s[n]].name = name PROVE n = at[k]
  <2>1. PICK j \in integer_defines(t) : at[j] = n
    BY <1>3
  <2>2. j \in found
    BY <1>3, <1>4, <1>7, <2>1
  <2> QED
    BY <1>2, <2>1, <2>2
<1> QED
  BY <1>6, <1>7

-----------------------------------------------------------------------------
(* The theorem about headers *)

DefinedInv ==
    /\ HeaderInv
    /\ defined # None => \A name \in NAMES : IsTheLiveOne(name)

\* What is taken out of a header are its live definitions.
LEMMA DefinesRead ==
    ASSUME HeaderInv, ReadDefines, defined' # None
    PROVE  \A name \in NAMES : IsTheLiveOne(name)'
<1> DEFINE h == world.header
<1>0. /\ h \in Seq(STRING) /\ Len(h) \in Nat /\ i \in 1 .. Len(h) + 1 /\ i > Len(h)
      /\ phase = "header" /\ defined = None
  BY WorldsAssumption, LenProperties DEF HeaderInv, ReadDefines
<1>1. PICK S \in SUBSET Nat : HeaderRead(S)
  BY <1>0 DEF HeaderInv
<1>2. /\ ~in_comment /\ world' = world
      /\ defined' = [name \in NAMES |-> u32_define(out, name)]
      /\ \A name \in NAMES : u32_define(out, name) # None
  BY <1>0 DEF ReadDefines, Refuse, reading
<1> HIDE DEF h
<1>3. i = Len(h) + 1
  BY <1>0
<1>4. Opening(h, S, Len(h) + 1) /\ \E at : Restricts(h, Left(h, S, Len(h) + 1), out, at)
  BY <1>1, <1>3 DEF HeaderRead, h
<1>5. S = Openers(h)
  BY <1>0, <1>4, OpeningIsOpeners
<1>6. PICK at : Stripped(h, out, at)
  BY <1>4, <1>5 DEF Stripped
<1>7. ASSUME NEW name \in NAMES PROVE IsTheLiveOne(name)'
  <2>1. u32_define(out, name) # None /\ defined'[name] = u32_define(out, name)
    BY <1>2
  <2>2. \E n \in Live(h) :
           /\ Defines[h[n]].name = name
           /\ u32_define(out, name) = Defines[h[n]].value
           /\ \A k \in Live(h) : Defines[h[k]].name = name => k = n
    BY <1>0, <1>6, <2>1, DefinedOnce
  <2>3. world'.header = h
    BY <1>2 DEF h
  <2>4. \E n \in Live(world'.header) :
           /\ Defines[world'.header[n]].name = name
           /\ defined'[name] = Defines[world'.header[n]].value
           /\ \A k \in Live(world'.header) : Defines[world'.header[k]].name = name => k = n
    BY <2>1, <2>2, <2>3
  <2> QED
    BY <2>4 DEF IsTheLiveOne
<1> QED
  BY <1>7

\* Every step keeps it.
LEMMA HeaderStep == DefinedInv /\ [Next]_vars => DefinedInv'
<1> SUFFICES ASSUME DefinedInv, [Next]_vars PROVE DefinedInv'
    OBVIOUS
<1>1. CASE StripComments
  <2>1. HeaderInv'
    BY <1>1, CommentEnds, CommentGoesOn, TextGoesOn, CommentBegins DEF DefinedInv
  <2>2. phase = "header" /\ defined' = defined
    BY <1>1 DEF StripComments
  <2>3. defined = None
    BY <2>2 DEF DefinedInv, HeaderInv
  <2> QED
    BY <2>1, <2>2, <2>3 DEF DefinedInv
<1>2. CASE ReadDefines
  <2>1. world' = world /\ phase' # "header"
    BY <1>2 DEF ReadDefines, Refuse
  <2>2. HeaderInv'
    BY <2>1 DEF DefinedInv, HeaderInv
  <2>3. defined' # None => \A name \in NAMES : IsTheLiveOne(name)'
    BY <1>2, DefinesRead DEF DefinedInv
  <2> QED
    BY <2>2, <2>3 DEF DefinedInv
<1>3. ASSUME world' = world, defined' = defined, phase' # "header" PROVE DefinedInv'
  <2>1. HeaderInv'
    BY <1>3 DEF DefinedInv, HeaderInv
  <2> QED
    BY <1>3, <2>1 DEF DefinedInv, IsTheLiveOne
<1>4. CASE ReadLine \/ CheckHeader \/ GlobTurn \/ GlobEnd
  <2>1. world' = world /\ defined' = defined /\ phase' # "header"
    BY <1>4 DEF ReadLine, CheckHeader, GlobTurn, GlobEnd, Refuse, reading
  <2> QED
    BY <1>3, <2>1
<1>5. CASE UNCHANGED vars
  <2>1. UNCHANGED <<world, phase, i, in_comment, out, defined>>
    BY <1>5 DEF vars, reading
  <2> QED
    BY <2>1 DEF DefinedInv, HeaderInv, HeaderRead, IsTheLiveOne
<1> QED
  BY <1>1, <1>2, <1>4, <1>5 DEF Next, Turn, Ended

\* Whatever the header and wherever its comments begin and end: what the script takes
\* for a version is the value of the one definition of its name that is outside of
\* every comment.
THEOREM LiveDefinitionsCount == Spec => []OnlyLiveDefinitionsCount
<1>1. Init => DefinedInv
  <2>1. Init => HeaderInv /\ defined = None
    BY HeaderBegins DEF Init
  <2> QED
    BY <2>1 DEF DefinedInv
<1>2. DefinedInv /\ [Next]_vars => DefinedInv'
  BY HeaderStep
<1>3. DefinedInv => OnlyLiveDefinitionsCount
  BY DEF DefinedInv, OnlyLiveDefinitionsCount
<1> QED
  BY <1>1, <1>2, <1>3, PTL DEF Spec

-----------------------------------------------------------------------------
(* Quotes *)

\* No string is open where a text begins.
LEMMA QuotedFirst ==
    ASSUME NEW s
    PROVE  ~Quoted(s, 1)
<1>1. {m \in 1 .. 1 - 1 : s[m] = Quote} = {}
  OBVIOUS
<1>2. Cardinality({}) = 0
  BY FS_EmptySet
<1>3. ~(0 % 2 = 1)
  OBVIOUS
<1> QED
  BY <1>1, <1>2, <1>3 DEF Quoted

\* A quote opens a string or closes it, and nothing else does.
LEMMA QuotedMore ==
    ASSUME NEW s, NEW n \in Nat \ {0}
    PROVE  Quoted(s, n + 1) <=> IF s[n] = Quote THEN ~Quoted(s, n) ELSE Quoted(s, n)
<1> DEFINE Q(k) == {m \in 1 .. k - 1 : s[m] = Quote}
<1>1. IsFiniteSet(Q(n)) /\ Cardinality(Q(n)) \in Nat
  <2>1. IsFiniteSet(1 .. n - 1)
    BY FS_Interval
  <2>2. Q(n) \in SUBSET (1 .. n - 1)
    OBVIOUS
  <2> QED
    BY <2>1, <2>2, FS_Subset, FS_CardinalityType
<1>2. \A m : m \in 1 .. (n + 1) - 1 <=> m \in 1 .. n - 1 \/ m = n
  OBVIOUS
<1>3. ASSUME s[n] # Quote PROVE Q(n + 1) = Q(n)
  BY <1>2, <1>3
<1>4. ASSUME s[n] = Quote PROVE Cardinality(Q(n + 1)) = Cardinality(Q(n)) + 1
  <2>1. Q(n + 1) = Q(n) \cup {n} /\ n \notin Q(n)
    BY <1>2, <1>4
  <2> HIDE DEF Q
  <2> QED
    BY <1>1, <2>1, FS_AddElement
<1>5. Quoted(s, n) <=> Cardinality(Q(n)) % 2 = 1
  BY DEF Quoted
<1>6. Quoted(s, n + 1) <=> Cardinality(Q(n + 1)) % 2 = 1
  BY DEF Quoted
<1> HIDE DEF Q
<1>7. PICK c \in Nat : c = Cardinality(Q(n))
  BY <1>1
<1>8. (c + 1) % 2 = 1 <=> ~(c % 2 = 1)
  OBVIOUS
<1> QED
  BY <1>3, <1>4, <1>5, <1>6, <1>7, <1>8

LEMMA QuotedStays ==
    ASSUME NEW s, NEW a \in Nat \ {0}, NEW b \in Nat, a <= b,
           \A m \in a .. b - 1 : s[m] # Quote
    PROVE  Quoted(s, b) <=> Quoted(s, a)
<1> DEFINE Bad == {k \in a .. b : ~(Quoted(s, k) <=> Quoted(s, a))}
<1>1. SUFFICES ASSUME Bad # {} PROVE FALSE
  BY <1>1
<1>2. PICK k \in Bad : \A m \in Bad : k <= m
  <2>1. Bad \in SUBSET Nat
    OBVIOUS
  <2> HIDE DEF Bad
  <2> QED
    BY <1>1, <2>1, LeastOf
<1>3. k \in a .. b /\ k # a
  BY <1>2
<1>4. PICK j \in Nat \ {0} : j = k - 1 /\ j + 1 = k /\ j \in a .. b - 1 /\ j \in a .. b
  BY <1>3
<1>5. Quoted(s, j) <=> Quoted(s, a)
  BY <1>2, <1>4
<1>6. Quoted(s, j + 1) <=> Quoted(s, j)
  BY <1>4, QuotedMore
<1> QED
  BY <1>2, <1>4, <1>5, <1>6

\* The quotes of a text count alike wherever it stands, if no string is open there.
LEMMA QuotedBehind ==
    ASSUME NEW s, NEW u, NEW k \in Nat, NEW len \in Nat,
           \A j \in 1 .. len : s[k + j] = u[j], ~Quoted(s, k + 1)
    PROVE  \A m \in 1 .. len + 1 : Quoted(s, k + m) <=> Quoted(u, m)
<1> DEFINE Bad == {m \in 1 .. len + 1 : ~(Quoted(s, k + m) <=> Quoted(u, m))}
<1>1. SUFFICES ASSUME Bad # {} PROVE FALSE
  BY <1>1
<1>2. PICK m \in Bad : \A j \in Bad : m <= j
  <2>1. Bad \in SUBSET Nat
    OBVIOUS
  <2> HIDE DEF Bad
  <2> QED
    BY <1>1, <2>1, LeastOf
<1>3. m \in 1 .. len + 1 /\ ~(Quoted(s, k + m) <=> Quoted(u, m))
  BY <1>2
<1>4. m # 1
  BY <1>3, QuotedFirst
<1>5. PICK j \in 1 .. len : j + 1 = m
  <2>1. m - 1 \in 1 .. len /\ (m - 1) + 1 = m
    BY <1>3, <1>4
  <2> QED
    BY <2>1
<1>6. Quoted(s, k + j) <=> Quoted(u, j)
  <2>1. j \in 1 .. len + 1 /\ ~(m <= j)
    BY <1>5
  <2>2. j \notin Bad
    BY <1>2, <2>1
  <2> QED
    BY <2>1, <2>2
<1>7. s[k + j] = u[j]
  OBVIOUS
<1>8. Quoted(u, j + 1) <=> IF u[j] = Quote THEN ~Quoted(u, j) ELSE Quoted(u, j)
  BY QuotedMore
<1>9. Quoted(s, (k + j) + 1) <=> IF s[k + j] = Quote THEN ~Quoted(s, k + j) ELSE Quoted(s, k + j)
  <2>1. k + j \in Nat \ {0}
    OBVIOUS
  <2> QED
    BY <2>1, QuotedMore
<1>10. (k + j) + 1 = k + m
  BY <1>5
<1> QED
  BY <1>3, <1>5, <1>6, <1>7, <1>8, <1>9, <1>10

-----------------------------------------------------------------------------
(* No comment begins in what is written of a value *)

\* No comment begins in t, and no string is open behind it.
Whole(t) ==
    /\ \A m \in 1 .. Len(t) : t[m] = "#" => Quoted(t, m)
    /\ ~Quoted(t, Len(t) + 1)

\* What is in front of a text and behind it takes nothing from it.
LEMMA WholeWithin ==
    ASSUME NEW s \in Seq(STRING), NEW u \in Seq(STRING), NEW k \in Nat, NEW l \in Nat,
           Len(s) = k + Len(u) + l, Whole(u),
           \A j \in 1 .. Len(u) : s[k + j] = u[j],
           \A j \in 1 .. k : s[j] \notin {"#", Quote},
           \A j \in k + Len(u) + 1 .. Len(s) : s[j] \notin {"#", Quote}
    PROVE  Whole(s)
<1>1. PICK len \in Nat : len = Len(u)
  BY LenProperties
<1>2. ~Quoted(s, k + 1)
  <2>1. \A m \in 1 .. (k + 1) - 1 : s[m] # Quote
    OBVIOUS
  <2>2. 1 \in Nat \ {0} /\ k + 1 \in Nat /\ 1 <= k + 1
    OBVIOUS
  <2>3. Quoted(s, k + 1) <=> Quoted(s, 1)
    BY <2>1, <2>2, QuotedStays
  <2> QED
    BY <2>3, QuotedFirst
<1>3. \A m \in 1 .. len + 1 : Quoted(s, k + m) <=> Quoted(u, m)
  <2>1. \A j \in 1 .. len : s[k + j] = u[j]
    BY <1>1
  <2> QED
    BY <1>2, <2>1, QuotedBehind
<1>4. ~Quoted(s, k + (len + 1))
  <2>1. len + 1 \in 1 .. len + 1 /\ ~Quoted(u, len + 1)
    BY <1>1 DEF Whole
  <2> QED
    BY <1>3, <2>1
<1>5. ~Quoted(s, Len(s) + 1)
  <2>1. PICK a, b \in Nat \ {0} : a = k + (len + 1) /\ b = Len(s) + 1 /\ a <= b
    BY <1>1
  <2>2. \A m \in a .. b - 1 : s[m] # Quote
    <3>1. \A m \in a .. b - 1 : m \in k + Len(u) + 1 .. Len(s)
      BY <1>1, <2>1
    <3> QED
      BY <3>1
  <2>3. Quoted(s, b) <=> Quoted(s, a)
    BY <2>1, <2>2, QuotedStays
  <2> QED
    BY <1>4, <2>1, <2>3
<1>6. ASSUME NEW m \in 1 .. Len(s), s[m] = "#" PROVE Quoted(s, m)
  <2>1. m \notin 1 .. k /\ m \notin k + Len(u) + 1 .. Len(s)
    BY <1>6
  <2>2. PICK j \in 1 .. len : m = k + j
    <3>1. m - k \in 1 .. len /\ m = k + (m - k)
      BY <1>1, <2>1
    <3> QED
      BY <3>1
  <2>3. u[j] = "#" /\ j \in 1 .. len + 1
    BY <1>1, <1>6, <2>2
  <2>4. Quoted(u, j)
    BY <1>1, <2>3 DEF Whole
  <2> QED
    BY <1>3, <2>2, <2>3, <2>4
<1> QED
  BY <1>5, <1>6 DEF Whole

LEMMA IntegerIsWhole ==
    ASSUME NEW s \in Seq(STRING), Every(s, DIGITS)
    PROVE  Whole(s)
<1>1. PICK len \in Nat : len = Len(s) /\ DOMAIN s = 1 .. len
  BY LenProperties
<1>2. \A m \in 1 .. len : s[m] \notin {"#", Quote}
  BY <1>1 DEF Every, DIGITS, Quote
<1>3. Quoted(s, len + 1) <=> Quoted(s, 1)
  <2>1. 1 \in Nat \ {0} /\ len + 1 \in Nat /\ 1 <= len + 1 /\ \A m \in 1 .. (len + 1) - 1 : s[m] # Quote
    BY <1>2
  <2> QED
    BY <2>1, QuotedStays
<1> QED
  BY <1>1, <1>2, <1>3, QuotedFirst DEF Whole

LEMMA StringIsWhole ==
    ASSUME NEW s \in Seq(STRING), string(s) # None
    PROVE  Whole(s)
<1>1. PICK len \in Nat : len = Len(s)
  BY LenProperties
<1>2. PICK u : u = SubSeq(s, 2, Len(s) - 1)
  OBVIOUS
<1>3. /\ len >= 2 /\ s[1] = Quote /\ s[len] = Quote
      /\ \A n \in DOMAIN u : u[n] \notin {Quote, Escape}
  BY <1>1, <1>2 DEF string
<1>4. \A m \in 2 .. len - 1 : s[m] # Quote
  <2>1. u = [n \in 1 .. len - 2 |-> s[n + 1]]
    BY <1>1, <1>2, <1>3
  <2>2. ASSUME NEW m \in 2 .. len - 1 PROVE s[m] # Quote
    <3>1. PICK n \in 1 .. len - 2 : n + 1 = m
      <4>1. m - 1 \in 1 .. len - 2 /\ (m - 1) + 1 = m
        OBVIOUS
      <4> QED
        BY <4>1
    <3>2. n \in DOMAIN u /\ u[n] = s[m]
      BY <2>1, <3>1
    <3> QED
      BY <1>3, <3>2
  <2> QED
    BY <2>2
<1>5. Quoted(s, 2)
  <2>1. 1 \in Nat \ {0} /\ 1 + 1 = 2
    OBVIOUS
  <2>2. Quoted(s, 1 + 1) <=> IF s[1] = Quote THEN ~Quoted(s, 1) ELSE Quoted(s, 1)
    BY <2>1, QuotedMore
  <2> QED
    BY <1>3, <2>1, <2>2, QuotedFirst
<1>6. ASSUME NEW m \in 2 .. len PROVE Quoted(s, m)
  <2>1. 2 \in Nat \ {0} /\ m \in Nat /\ 2 <= m /\ \A j \in 2 .. m - 1 : s[j] # Quote
    BY <1>4
  <2> QED
    BY <1>5, <2>1, QuotedStays
<1>7. ~Quoted(s, len + 1)
  <2>1. len \in Nat \ {0} /\ Quoted(s, len)
    BY <1>3, <1>6
  <2> QED
    BY <1>3, <2>1, QuotedMore
<1>8. ASSUME NEW m \in 1 .. len, s[m] = "#" PROVE Quoted(s, m)
  <2>1. m # 1
    BY <1>3, <1>8 DEF Quote
  <2> QED
    BY <1>6, <2>1
<1> QED
  BY <1>1, <1>7, <1>8 DEF Whole

AreWhole(pieces) == \A item \in pieces : item # << >> => Whole(item)

\* No comment begins in a text if none begins in a piece of it.
LEMMA PiecesAreWhole ==
    ASSUME NEW s \in Seq(STRING), NEW c, c \notin {"#", Quote}, AreWhole(split(s, c))
    PROVE  Whole(s)
<1> DEFINE ends == {0, Len(s) + 1} \cup {n \in DOMAIN s : s[n] = c}
           Near(a, b) == a < b /\ ~\E n \in ends : a < n /\ n < b
<1>1. PICK len \in Nat : len = Len(s) /\ DOMAIN s = 1 .. len
  BY LenProperties
<1>2. \A n : n \in ends <=> n = 0 \/ n = len + 1 \/ (n \in 1 .. len /\ s[n] = c)
  BY <1>1
<1>3. ends \in SUBSET Nat
  BY <1>1
<1>4. \A a, b \in ends : Near(a, b) => SubSeq(s, a + 1, b - 1) \in split(s, c)
  <2> SUFFICES ASSUME NEW a \in ends, NEW b \in ends, Near(a, b)
               PROVE  SubSeq(s, a + 1, b - 1) \in split(s, c)
      OBVIOUS
  <2>1. <<a, b>> \in {gap \in ends \X ends :
                        gap[1] < gap[2] /\ ~\E n \in ends : gap[1] < n /\ n < gap[2]}
    OBVIOUS
  <2> HIDE DEF Near
  <2>2. SubSeq(s, <<a, b>>[1] + 1, <<a, b>>[2] - 1) \in split(s, c)
    BY <2>1, Zenon DEF split
  <2> QED
    BY <2>2
<1>5. \A a, b \in ends : Near(a, b) => a < b /\ \A n \in ends : ~(a < n /\ n < b)
  OBVIOUS
<1>6. \A a, b \in ends : a < b /\ (\A n \in ends : ~(a < n /\ n < b)) => Near(a, b)
  OBVIOUS
<1> HIDE DEF ends, Near
<1>7. ASSUME NEW a \in ends, NEW b \in ends, Near(a, b), ~Quoted(s, a + 1)
      PROVE  /\ ~Quoted(s, b)
             /\ \A m \in a + 1 .. b - 1 : s[m] = "#" => Quoted(s, m)
  <2>1. a \in Nat /\ b \in Nat /\ a < b /\ b <= len + 1
    BY <1>2, <1>3, <1>5, <1>7
  <2>2. PICK n \in Nat : n = b - a - 1 /\ a + (n + 1) = b
    BY <2>1
  <2>3. PICK u : u = SubSeq(s, a + 1, b - 1)
    OBVIOUS
  <2>4. u \in Seq(STRING) /\ Len(u) = n /\ \A j \in 1 .. n : s[a + j] = u[j]
    BY <1>1, <2>1, <2>2, <2>3
  <2>5. CASE n = 0
    <3>1. b = a + 1 /\ a + 1 .. b - 1 = {}
      BY <2>1, <2>2, <2>5
    <3> QED
      BY <1>7, <3>1
  <2>6. CASE n # 0
    <3>1. u # << >> /\ u \in split(s, c)
      BY <1>4, <1>7, <2>3, <2>4, <2>6
    <3>2. Whole(u)
      BY <3>1 DEF AreWhole
    <3>3. (\A m \in 1 .. n : u[m] = "#" => Quoted(u, m)) /\ ~Quoted(u, n + 1)
      BY <2>4, <3>2 DEF Whole
    <3>4. \A m \in 1 .. n + 1 : Quoted(s, a + m) <=> Quoted(u, m)
      BY <1>7, <2>1, <2>4, QuotedBehind
    <3>5. ~Quoted(s, b)
      <4>1. n + 1 \in 1 .. n + 1
        OBVIOUS
      <4> QED
        BY <2>2, <3>3, <3>4, <4>1
    <3>6. ASSUME NEW m \in a + 1 .. b - 1, s[m] = "#" PROVE Quoted(s, m)
      <4>1. PICK j \in 1 .. n : m = a + j
        <5>1. m - a \in 1 .. n /\ m = a + (m - a)
          BY <2>1, <2>2
        <5> QED
          BY <5>1
      <4>2. u[j] = "#" /\ j \in 1 .. n + 1
        BY <2>4, <3>6, <4>1
      <4> QED
        BY <3>3, <3>4, <4>1, <4>2
    <3> QED
      BY <3>5, <3>6
  <2> QED
    BY <2>5, <2>6
<1>8. ASSUME NEW b \in Nat, b >= 1, b <= len + 1
      PROVE  \E a \in ends : a < b /\ \A n \in ends : ~(a < n /\ n < b)
  <2> DEFINE before == {n \in ends : n < b}
  <2>1. before \in SUBSET Nat /\ 0 \in before /\ \A n \in before : n <= b
    BY <1>2, <1>3, <1>8
  <2>2. PICK a \in before : \A n \in before : n <= a
    <3> HIDE DEF before
    <3> QED
      BY <2>1, GreatestOf
  <2>3. \A n \in ends : n < b => n <= a
    BY <2>2
  <2> QED
    BY <1>3, <2>2, <2>3
<1>9. ASSUME NEW a \in ends, a <= len, a = 0 \/ ~Quoted(s, a) PROVE ~Quoted(s, a + 1)
  <2>1. CASE a = 0
    BY <2>1, QuotedFirst
  <2>2. CASE a # 0
    <3>1. a \in Nat \ {0} /\ s[a] # Quote
      BY <1>1, <1>2, <1>3, <1>9, <2>2
    <3> QED
      BY <1>9, <2>2, <3>1, QuotedMore
  <2> QED
    BY <2>1, <2>2
<1>10. \A b \in ends : b # 0 => ~Quoted(s, b)
  <2> DEFINE Bad == {b \in ends : b # 0 /\ Quoted(s, b)}
  <2> SUFFICES ASSUME Bad # {} PROVE FALSE
      OBVIOUS
  <2>1. PICK b \in Bad : \A n \in Bad : b <= n
    <3>1. Bad \in SUBSET Nat
      BY <1>3
    <3> HIDE DEF Bad
    <3> QED
      BY <3>1, LeastOf
  <2>2. b \in ends /\ b \in Nat /\ b >= 1 /\ b <= len + 1 /\ Quoted(s, b)
    BY <1>1, <1>2, <1>3, <2>1
  <2>3. PICK a \in ends : a < b /\ \A n \in ends : ~(a < n /\ n < b)
    BY <1>8, <2>2
  <2>4. a \in Nat /\ a <= len /\ ~(b <= a)
    BY <1>3, <2>2, <2>3
  <2>5. a = 0 \/ ~Quoted(s, a)
    BY <2>1, <2>4
  <2>6. ~Quoted(s, a + 1)
    BY <1>9, <2>4, <2>5
  <2>7. Near(a, b)
    BY <1>6, <2>2, <2>3
  <2> QED
    BY <1>7, <2>2, <2>6, <2>7
<1>11. ASSUME NEW m \in 1 .. len, s[m] = "#" PROVE Quoted(s, m)
  <2>1. m \notin ends
    BY <1>2, <1>11
  <2>2. PICK a \in ends : a < m /\ \A n \in ends : ~(a < n /\ n < m)
    BY <1>8
  <2>3. PICK b \in ends : m < b /\ \A n \in ends : ~(m < n /\ n < b)
    <3> DEFINE behind == {n \in ends : m < n}
    <3>1. behind \in SUBSET Nat /\ len + 1 \in behind
      BY <1>2, <1>3
    <3>2. PICK b \in behind : \A n \in behind : b <= n
      <4> HIDE DEF behind
      <4> QED
        BY <3>1, LeastOf
    <3> QED
      BY <1>3, <3>2
  <2>4. a \in Nat /\ b \in Nat /\ m \in Nat /\ a <= len
    BY <1>3, <2>2
  <2>5. Near(a, b)
    <3>1. \A n \in ends : ~(a < n /\ n < b)
      BY <1>3, <2>1, <2>2, <2>3
    <3> QED
      BY <1>6, <2>2, <2>3, <2>4, <3>1
  <2>6. ~Quoted(s, a + 1)
    BY <1>9, <1>10, <2>4
  <2>7. m \in a + 1 .. b - 1
    BY <2>2, <2>3, <2>4
  <2> QED
    BY <1>7, <1>11, <2>5, <2>6, <2>7
<1>12. ~Quoted(s, len + 1)
  BY <1>2, <1>10
<1> QED
  BY <1>1, <1>11, <1>12 DEF Whole

\* What is between the ends of a text is a text.
LEMMA BetweenEnds ==
    ASSUME NEW s \in Seq(STRING), Len(s) >= 2
    PROVE  /\ SubSeq(s, 2, Len(s) - 1) \in Seq(STRING)
           /\ Len(SubSeq(s, 2, Len(s) - 1)) = Len(s) - 2
           /\ \A j \in 1 .. Len(s) - 2 : s[1 + j] = SubSeq(s, 2, Len(s) - 1)[j]
<1>1. PICK len \in Nat : len = Len(s) /\ len >= 2
  BY LenProperties
<1> QED
  BY <1>1

\* The pieces of a text are texts.
LEMMA PiecesAreTexts ==
    ASSUME NEW s \in Seq(STRING), NEW c, NEW item \in split(s, c)
    PROVE  item \in Seq(STRING)
<1> DEFINE ends == {0, Len(s) + 1} \cup {n \in DOMAIN s : s[n] = c}
<1>1. PICK len \in Nat : len = Len(s) /\ DOMAIN s = 1 .. len
  BY LenProperties
<1>2. \A n \in ends : n \in 0 .. len + 1
  BY <1>1
<1>3. PICK gap \in ends \X ends : item = SubSeq(s, gap[1] + 1, gap[2] - 1)
  BY DEF split
<1> HIDE DEF ends
<1>4. PICK a \in 0 .. len + 1, b \in 0 .. len + 1 : item = SubSeq(s, a + 1, b - 1)
  BY <1>2, <1>3
<1> QED
  BY <1>1, <1>4

\* Whatever its value, no comment begins in what is written of a key.
LEMMA ValueIsWhole ==
    ASSUME NEW s \in Seq(STRING), NEW key \in KEYS, ValueOf(key, s) # None
    PROVE  Whole(s)
<1>1. CASE key \in {"abi_version", "wire_version"}
  <2>1. integer(s) # None
    BY <1>1 DEF ValueOf
  <2> QED
    BY <2>1, IntegerIsWhole DEF integer
<1>2. CASE key = "abi_header_sha256"
  <2>1. digest(s) # None
    BY <1>2 DEF ValueOf
  <2>2. string(s) # None
    BY <2>1 DEF digest
  <2> QED
    BY <2>2, StringIsWhole
<1>3. CASE key = "native_artifact_versions"
  <2>1. string(s) # None
    BY <1>3 DEF ValueOf
  <2> QED
    BY <2>1, StringIsWhole
<1>4. CASE key = "acadsharp_versions"
  <2>1. string_array(s) # None
    BY <1>4 DEF ValueOf
  <2>2. PICK body, c, open, close :
           body = SubSeq(s, 2, Len(s) - 1) /\ c = "," /\ open = "[" /\ close = "]"
    OBVIOUS
  <2>3. /\ Len(s) >= 2 /\ s[1] = open /\ s[Len(s)] = close
        /\ \A item \in split(body, c) \ {<< >>} : string(item) # None
    BY <2>1, <2>2, Zenon DEF string_array
  <2>4. open \notin {"#", Quote} /\ close \notin {"#", Quote} /\ c \notin {"#", Quote}
    BY <2>2 DEF Quote
  <2>5. /\ body \in Seq(STRING) /\ Len(body) = Len(s) - 2
        /\ \A j \in 1 .. Len(s) - 2 : s[1 + j] = body[j]
    BY <2>2, <2>3, BetweenEnds
  <2>6. AreWhole(split(body, c))
    <3> SUFFICES ASSUME NEW item \in split(body, c), item # << >> PROVE Whole(item)
        BY DEF AreWhole
    <3>1. item \in Seq(STRING) /\ string(item) # None
      BY <2>3, <2>5, PiecesAreTexts
    <3> QED
      BY <3>1, StringIsWhole
  <2>7. Whole(body)
    BY <2>4, <2>5, <2>6, PiecesAreWhole
  <2>8. PICK len \in Nat : len = Len(s) /\ len >= 2 /\ Len(body) = len - 2
    BY <2>3, <2>5, LenProperties
  <2>9. /\ Len(s) = 1 + Len(body) + 1
        /\ \A j \in 1 .. Len(body) : s[1 + j] = body[j]
        /\ \A j \in 1 .. 1 : s[j] \notin {"#", Quote}
        /\ \A j \in 1 + Len(body) + 1 .. Len(s) : s[j] \notin {"#", Quote}
    <3>1. \A j \in 1 .. Len(body) : s[1 + j] = body[j]
      BY <2>5, <2>8
    <3>2. \A j \in 1 .. 1 : j = 1
      OBVIOUS
    <3>3. \A j \in 1 + Len(body) + 1 .. Len(s) : j = Len(s)
      BY <2>8
    <3> QED
      BY <2>3, <2>4, <2>8, <3>1, <3>2, <3>3
  <2> QED
    BY <2>5, <2>7, <2>9, WholeWithin
<1> QED
  BY <1>1, <1>2, <1>3, <1>4 DEF KEYS

-----------------------------------------------------------------------------
(* What a line says: one reading of it, and the one that is meant *)

\* A text in which no comment begins, with a comment or nothing behind it, is what is
\* read.
LEMMA SayingIsRead ==
    ASSUME NEW s \in Seq(STRING), NEW t \in Sayings(s), Whole(t)
    PROVE  strip_comment(s) = t
<1> DEFINE hashes == {n \in DOMAIN s : s[n] = "#" /\ ~Quoted(s, n)}
<1>1. PICK len \in Nat : len = Len(s) /\ DOMAIN s = 1 .. len
  BY LenProperties
<1>2. PICK n \in 0 .. len : t = SubSeq(s, 1, n) /\ (n < len => s[n + 1] = "#")
  BY <1>1 DEF Sayings
<1>3. Len(t) = n /\ \A j \in 1 .. n : s[j] = t[j]
  BY <1>1, <1>2
<1>4. \A m \in 1 .. n + 1 : Quoted(s, m) <=> Quoted(t, m)
  <2>1. PICK k \in Nat : k = 0
    OBVIOUS
  <2>2. (\A j \in 1 .. n : s[k + j] = t[j]) /\ ~Quoted(s, k + 1)
    BY <1>3, <2>1, QuotedFirst
  <2>3. \A m \in 1 .. n + 1 : Quoted(s, k + m) <=> Quoted(t, m)
    BY <2>2, QuotedBehind
  <2>4. \A m \in 1 .. n + 1 : k + m = m
    BY <2>1
  <2> QED
    BY <2>3, <2>4
<1>5. ~Quoted(s, n + 1)
  BY <1>3, <1>4 DEF Whole
<1>6. \A m \in 1 .. n : s[m] = "#" => Quoted(s, m)
  BY <1>3, <1>4 DEF Whole
<1>7. \A m : m \in hashes <=> m \in 1 .. len /\ s[m] = "#" /\ ~Quoted(s, m)
  BY <1>1
<1>8. strip_comment(s) = IF hashes # {} THEN SubSeq(s, 1, First(hashes) - 1)
                         ELSE IF Quoted(s, len + 1) THEN None ELSE s
  BY <1>1 DEF strip_comment
<1> HIDE DEF hashes
<1>9. CASE n = len
  <2>1. hashes = {} /\ ~Quoted(s, len + 1)
    BY <1>5, <1>6, <1>7, <1>9
  <2>2. t = s
    BY <1>1, <1>2, <1>9
  <2> QED
    BY <1>8, <2>1, <2>2
<1>10. CASE n < len
  <2>1. n + 1 \in hashes /\ \A m \in hashes : n + 1 <= m
    BY <1>2, <1>5, <1>6, <1>7, <1>10
  <2>2. hashes \in SUBSET Nat
    BY <1>7
  <2>3. PICK f : f = First(hashes)
    OBVIOUS
  <2>4. f \in hashes /\ f <= n + 1
    BY <2>1, <2>2, <2>3, FirstIsLeast
  <2>5. f \in Nat /\ n + 1 <= f
    BY <2>1, <2>2, <2>4
  <2>6. First(hashes) - 1 = n
    BY <2>3, <2>4, <2>5
  <2> QED
    BY <1>2, <1>8, <2>1, <2>6
<1> QED
  BY <1>9, <1>10

\* What is read has a comment behind it, or nothing.
LEMMA ReadIsSaying ==
    ASSUME NEW s \in Seq(STRING), strip_comment(s) # None
    PROVE  strip_comment(s) \in Sayings(s) /\ strip_comment(s) \in Seq(STRING)
<1> DEFINE hashes == {n \in DOMAIN s : s[n] = "#" /\ ~Quoted(s, n)}
<1>1. PICK len \in Nat : len = Len(s) /\ DOMAIN s = 1 .. len
  BY LenProperties
<1>2. \A m : m \in hashes <=> m \in 1 .. len /\ s[m] = "#" /\ ~Quoted(s, m)
  BY <1>1
<1>3. strip_comment(s) = IF hashes # {} THEN SubSeq(s, 1, First(hashes) - 1)
                         ELSE IF Quoted(s, len + 1) THEN None ELSE s
  BY <1>1 DEF strip_comment
<1> HIDE DEF hashes
<1>4. \A n \in 0 .. len : (n < len => s[n + 1] = "#") => SubSeq(s, 1, n) \in Sayings(s)
  BY <1>1 DEF Sayings
<1>5. CASE hashes = {}
  <2>1. strip_comment(s) = s /\ s = SubSeq(s, 1, len)
    BY <1>1, <1>3, <1>5
  <2>2. len \in 0 .. len /\ ~(len < len)
    OBVIOUS
  <2> QED
    BY <1>4, <2>1, <2>2
<1>6. CASE hashes # {}
  <2>1. hashes \in SUBSET Nat
    BY <1>2
  <2>2. First(hashes) \in hashes
    BY <1>6, <2>1, FirstIsLeast
  <2>3. PICK n \in 0 .. len : n < len /\ n + 1 = First(hashes) /\ n = First(hashes) - 1
    <3>1. First(hashes) \in 1 .. len
      BY <1>2, <2>2
    <3>2. First(hashes) - 1 \in 0 .. len /\ First(hashes) - 1 < len /\ (First(hashes) - 1) + 1 = First(hashes)
      BY <3>1
    <3> QED
      BY <3>2
  <2>4. strip_comment(s) = SubSeq(s, 1, n) /\ s[n + 1] = "#"
    BY <1>2, <1>3, <1>6, <2>2, <2>3
  <2> QED
    BY <1>1, <1>4, <2>4
<1> QED
  BY <1>5, <1>6

\* A line says nothing if nothing is read.
LEMMA NothingIsRead ==
    ASSUME NEW s \in Seq(STRING)
    PROVE  << >> \in Sayings(s) <=> strip_comment(s) = << >>
<1>1. << >> \in Seq(STRING) /\ Len(<< >>) = 0
  OBVIOUS
<1>2. Whole(<< >>)
  <2>1. ~Quoted(<< >>, 0 + 1)
    BY QuotedFirst
  <2> QED
    BY <1>1, <2>1 DEF Whole
<1>3. << >> # None
  BY <1>1, NoneAssumption
<1> QED
  BY <1>2, <1>3, SayingIsRead, ReadIsSaying

\* The text s sets key to x.
SetsTo(s, key, x) ==
    /\ s # None /\ Len(s) >= 2 /\ s[1] = key /\ s[2] = "="
    /\ ValueOf(key, Rest(s)) = x /\ x # None

\* A line tells what is read of it, and nothing else: a comment takes nothing away and
\* adds nothing.
LEMMA ToldIsRead ==
    ASSUME NEW s \in Seq(STRING), NEW key \in KEYS, NEW x
    PROVE  Tells(s, key, x) <=> SetsTo(strip_comment(s), key, x)
<1>1. ASSUME Tells(s, key, x) PROVE SetsTo(strip_comment(s), key, x)
  <2>1. PICK t \in Sayings(s) :
          /\ Len(t) >= 2 /\ t[1] = key /\ t[2] = "="
          /\ x = ValueOf(key, SubSeq(t, 3, Len(t))) /\ x # None
    BY <1>1 DEF Tells
  <2>2. PICK len \in Nat : len = Len(s)
    BY LenProperties
  <2>3. t \in Seq(STRING)
    <3>1. PICK n \in 0 .. len : t = SubSeq(s, 1, n)
      BY <2>2 DEF Sayings
    <3> QED
      BY <2>2, <3>1
  <2>4. PICK u : u = SubSeq(t, 3, Len(t))
    OBVIOUS
  <2>5. /\ u \in Seq(STRING) /\ Len(t) = 2 + Len(u) + 0 /\ Len(u) \in Nat
        /\ \A j \in 1 .. Len(u) : t[2 + j] = u[j]
    <3>1. PICK n \in Nat : n = Len(t) /\ n >= 2
      BY <2>1, <2>3, LenProperties
    <3>2. u = SubSeq(t, 3, n)
      BY <2>4, <3>1
    <3>3. u \in Seq(STRING) /\ Len(u) = n - 2 /\ \A j \in 1 .. n - 2 : u[j] = t[3 + j - 1]
      BY <2>3, <3>1, <3>2
    <3>4. \A j \in 1 .. n - 2 : 3 + j - 1 = 2 + j
      OBVIOUS
    <3> QED
      BY <3>1, <3>3, <3>4
  <2>6. Whole(u)
    BY <2>1, <2>4, <2>5, ValueIsWhole
  <2>7. \A j \in 1 .. 2 : t[j] \notin {"#", Quote}
    <3>1. \A j \in 1 .. 2 : j = 1 \/ j = 2
      OBVIOUS
    <3>2. key \notin {"#", Quote} /\ "=" \notin {"#", Quote}
      BY DEF KEYS, Quote
    <3> QED
      BY <2>1, <3>1, <3>2
  <2>8. \A j \in 2 + Len(u) + 1 .. Len(t) : t[j] \notin {"#", Quote}
    BY <2>5
  <2>9. Whole(t)
    BY <2>3, <2>5, <2>6, <2>7, <2>8, WholeWithin
  <2>10. strip_comment(s) = t /\ t # None
    BY <2>3, <2>9, SayingIsRead, NoneAssumption
  <2> QED
    BY <2>1, <2>10 DEF SetsTo, Rest
<1>2. ASSUME SetsTo(strip_comment(s), key, x) PROVE Tells(s, key, x)
  <2>1. strip_comment(s) \in Sayings(s)
    BY <1>2, ReadIsSaying DEF SetsTo
  <2> QED
    BY <1>2, <2>1 DEF SetsTo, Tells, Rest
<1> QED
  BY <1>1, <1>2

\* A text sets one key, to one value.
LEMMA SetsOnce ==
    ASSUME NEW s, NEW k, NEW l, NEW x, NEW y, SetsTo(s, k, x), SetsTo(s, l, y)
    PROVE  k = l /\ x = y /\ Len(s) >= 2
BY DEF SetsTo

\* What is meant, said of what is read.
LEMMA MeansIsRead ==
    ASSUME NEW lines \in Seq(Seq(STRING)), NEW said
    PROVE  Means(lines, said) <=>
              /\ said = [key \in KEYS |-> said[key]]
              /\ \A n \in 1 .. Len(lines) :
                    \/ strip_comment(lines[n]) = << >>
                    \/ \E key \in KEYS : SetsTo(strip_comment(lines[n]), key, said[key])
              /\ \A key \in KEYS :
                    \E n \in 1 .. Len(lines) :
                        \A m \in 1 .. Len(lines) :
                            SetsTo(strip_comment(lines[m]), key, said[key]) <=> m = n
              /\ said["native_artifact_versions"] # << >> /\ said["acadsharp_versions"] # {}
<1>1. DOMAIN lines = 1 .. Len(lines) /\ \A n \in 1 .. Len(lines) : lines[n] \in Seq(STRING)
  BY LenProperties
<1>2. \A n \in 1 .. Len(lines) :
         /\ << >> \in Sayings(lines[n]) <=> strip_comment(lines[n]) = << >>
         /\ \A key \in KEYS : Tells(lines[n], key, said[key]) <=>
                                 SetsTo(strip_comment(lines[n]), key, said[key])
  BY <1>1, NothingIsRead, ToldIsRead
<1> DEFINE D       == DOMAIN lines
           B(n)    == << >> \in Sayings(lines[n])
           T(n, l) == Tells(lines[n], l, said[l])
           Others  == /\ said = [key \in KEYS |-> said[key]]
                      /\ said["native_artifact_versions"] # << >>
                      /\ said["acadsharp_versions"] # {}
           R(n)    == strip_comment(lines[n]) = << >>
           S(n, l) == SetsTo(strip_comment(lines[n]), l, said[l])
<1>3. Means(lines, said) <=>
         /\ \A n \in D : B(n) \/ \E l \in KEYS : T(n, l)
         /\ \A l \in KEYS : \E n \in D : \A m \in D : T(m, l) <=> m = n
         /\ Others
  BY DEF Means
<1>4. D = 1 .. Len(lines) /\ \A n \in D : (B(n) <=> R(n)) /\ \A l \in KEYS : T(n, l) <=> S(n, l)
  BY <1>1, <1>2
<1> HIDE DEF D, B, T, R, S
<1>5. Means(lines, said) <=>
         /\ \A n \in 1 .. Len(lines) : R(n) \/ \E l \in KEYS : S(n, l)
         /\ \A l \in KEYS : \E n \in 1 .. Len(lines) : \A m \in 1 .. Len(lines) : S(m, l) <=> m = n
         /\ Others
  BY <1>3, <1>4
<1> QED
  BY <1>5 DEF R, S

-----------------------------------------------------------------------------
(* Lines read one after the other *)

\* The first n lines are read: each set its key or nothing, and what is set was set by
\* one of them.
SoFar(lines, c, n) ==
    /\ \A m \in 1 .. n :
          \/ strip_comment(lines[m]) = << >>
          \/ \E key \in KEYS : SetsTo(strip_comment(lines[m]), key, c[key])
    /\ \A key \in KEYS :
          c[key] # None =>
             \E k \in 1 .. n :
                 \A m \in 1 .. n : SetsTo(strip_comment(lines[m]), key, c[key]) <=> m = k

\* A line that says nothing sets nothing.
LEMMA BlankLine ==
    ASSUME NEW lines, NEW c, NEW n \in Nat,
           SoFar(lines, c, n), strip_comment(lines[n + 1]) = << >>
    PROVE  SoFar(lines, c, n + 1)
<1>1. \A m \in 1 .. n + 1 : m \in 1 .. n \/ m = n + 1
  OBVIOUS
<1>2. \A key \in KEYS : ~SetsTo(strip_comment(lines[n + 1]), key, c[key])
  <2>1. Len(<< >>) = 0
    OBVIOUS
  <2> QED
    BY <2>1 DEF SetsTo
<1>3. ASSUME NEW key \in KEYS, c[key] # None
      PROVE  \E k \in 1 .. n + 1 :
                 \A m \in 1 .. n + 1 : SetsTo(strip_comment(lines[m]), key, c[key]) <=> m = k
  <2>1. PICK k \in 1 .. n :
          \A m \in 1 .. n : SetsTo(strip_comment(lines[m]), key, c[key]) <=> m = k
    BY <1>3 DEF SoFar
  <2>2. k \in 1 .. n + 1 /\ k # n + 1
    OBVIOUS
  <2> QED
    BY <1>1, <1>2, <2>1, <2>2
<1> QED
  BY <1>1, <1>3 DEF SoFar

\* A line that sets a key that is free sets it once.
LEMMA SettingLine ==
    ASSUME NEW lines, NEW c, NEW n \in Nat, NEW key \in KEYS, NEW x, NEW d,
           SoFar(lines, c, n), SetsTo(strip_comment(lines[n + 1]), key, x), c[key] = None,
           d[key] = x, \A l \in KEYS : l # key => d[l] = c[l]
    PROVE  SoFar(lines, d, n + 1)
<1> DEFINE Told(m, l, y) == SetsTo(strip_comment(lines[m]), l, y)
<1>0. \A m, l, y, k, z : Told(m, l, y) /\ Told(m, k, z) => l = k /\ y = z /\ y # None
  BY SetsOnce DEF SetsTo
<1>1. \A m \in 1 .. n : strip_comment(lines[m]) = << >> \/ \E l \in KEYS : Told(m, l, c[l])
  BY DEF SoFar
<1>2. \A l \in KEYS : c[l] # None => \E k \in 1 .. n : \A m \in 1 .. n : Told(m, l, c[l]) <=> m = k
  BY DEF SoFar
<1>3. Told(n + 1, key, x)
  OBVIOUS
<1>4. \A m, l, y : Told(m, l, y) => strip_comment(lines[m]) # << >>
  <2>1. Len(<< >>) = 0
    OBVIOUS
  <2> QED
    BY <2>1 DEF SetsTo
<1>5. (\A m \in 1 .. n + 1 : strip_comment(lines[m]) = << >> \/ \E l \in KEYS : Told(m, l, d[l]))
      /\ (\A l \in KEYS : d[l] # None =>
             \E k \in 1 .. n + 1 : \A m \in 1 .. n + 1 : Told(m, l, d[l]) <=> m = k)
      => SoFar(lines, d, n + 1)
  BY DEF SoFar
<1> HIDE DEF Told
<1>6. \A m \in 1 .. n + 1 : m \in 1 .. n \/ m = n + 1
  OBVIOUS
<1>7. \A m \in 1 .. n : \A y : ~Told(m, key, y)
  BY <1>0, <1>1, <1>4
<1>8. ASSUME NEW m \in 1 .. n + 1
      PROVE  strip_comment(lines[m]) = << >> \/ \E l \in KEYS : Told(m, l, d[l])
  <2>1. CASE m = n + 1
    BY <1>3, <2>1
  <2>2. CASE m \in 1 .. n
    BY <1>1, <1>7, <2>2
  <2> QED
    BY <1>6, <2>1, <2>2
<1>9. ASSUME NEW l \in KEYS, d[l] # None
      PROVE  \E k \in 1 .. n + 1 : \A m \in 1 .. n + 1 : Told(m, l, d[l]) <=> m = k
  <2>1. CASE l = key
    <3>1. n + 1 \in 1 .. n + 1 /\ n + 1 \notin 1 .. n
      OBVIOUS
    <3> QED
      BY <1>3, <1>6, <1>7, <2>1, <3>1
  <2>2. CASE l # key
    <3>1. d[l] = c[l]
      BY <2>2
    <3>2. PICK k \in 1 .. n : \A m \in 1 .. n : Told(m, l, c[l]) <=> m = k
      BY <1>2, <1>9, <3>1
    <3>3. k \in 1 .. n + 1 /\ k # n + 1
      OBVIOUS
    <3>4. ~Told(n + 1, l, c[l])
      BY <1>0, <1>3, <2>2
    <3> QED
      BY <1>6, <3>1, <3>2, <3>3, <3>4
  <2> QED
    BY <2>1, <2>2
<1> QED
  BY <1>5, <1>8, <1>9

\* A line of a declaration that means something is not refused.
LEMMA LineIsFine ==
    ASSUME NEW lines \in Seq(Seq(STRING)), NEW said, Means(lines, said),
           NEW c, NEW n \in Nat, n + 1 <= Len(lines), SoFar(lines, c, n),
           strip_comment(lines[n + 1]) # << >>
    PROVE  \E key \in KEYS :
              SetsTo(strip_comment(lines[n + 1]), key, said[key]) /\ c[key] = None
<1> DEFINE Told(m, l, y) == SetsTo(strip_comment(lines[m]), l, y)
<1>0. \A m, l, y, k, z : Told(m, l, y) /\ Told(m, k, z) => l = k /\ y = z
  BY SetsOnce
<1>1. \A m, l, y : Told(m, l, y) => strip_comment(lines[m]) # << >>
  <2>1. Len(<< >>) = 0
    OBVIOUS
  <2> QED
    BY <2>1 DEF SetsTo
<1>2. Len(lines) \in Nat
  BY LenProperties
<1>3. /\ \A m \in 1 .. Len(lines) :
            strip_comment(lines[m]) = << >> \/ \E l \in KEYS : Told(m, l, said[l])
      /\ \A l \in KEYS :
            \E k \in 1 .. Len(lines) : \A m \in 1 .. Len(lines) : Told(m, l, said[l]) <=> m = k
  BY MeansIsRead
<1>4. \A l \in KEYS : c[l] # None => \E k \in 1 .. n : Told(k, l, c[l])
  BY DEF SoFar
<1>5. n + 1 \in 1 .. Len(lines) /\ \A k \in 1 .. n : k \in 1 .. Len(lines) /\ k # n + 1
  BY <1>2
<1> HIDE DEF Told
<1>6. PICK key \in KEYS : Told(n + 1, key, said[key])
  BY <1>3, <1>5
<1>7. ASSUME c[key] # None PROVE FALSE
  <2>1. PICK k \in 1 .. n : Told(k, key, c[key])
    BY <1>4, <1>7
  <2>2. PICK l \in KEYS : Told(k, l, said[l])
    BY <1>1, <1>3, <1>5, <2>1
  <2>3. Told(k, key, said[key])
    BY <1>0, <2>1, <2>2
  <2> QED
    BY <1>3, <1>5, <1>6, <2>3
<1> QED
  BY <1>6, <1>7 DEF Told

\* What is read of a declaration that means something is what it means.
LEMMA AllIsRead ==
    ASSUME NEW lines \in Seq(Seq(STRING)), NEW said, Means(lines, said),
           NEW c, c = [key \in KEYS |-> c[key]], SoFar(lines, c, Len(lines))
    PROVE  /\ c = said
           /\ \A key \in KEYS : c[key] # None
           /\ c["native_artifact_versions"] # << >> /\ c["acadsharp_versions"] # {}
<1> DEFINE Told(m, l, y) == SetsTo(strip_comment(lines[m]), l, y)
<1>0. \A m, l, y, k, z : Told(m, l, y) /\ Told(m, k, z) => l = k /\ y = z /\ y # None
  BY SetsOnce DEF SetsTo
<1>1. \A m, l, y : Told(m, l, y) => strip_comment(lines[m]) # << >>
  <2>1. Len(<< >>) = 0
    OBVIOUS
  <2> QED
    BY <2>1 DEF SetsTo
<1>2. /\ \A l \in KEYS : \E k \in 1 .. Len(lines) : Told(k, l, said[l])
      /\ said = [key \in KEYS |-> said[key]]
      /\ said["native_artifact_versions"] # << >> /\ said["acadsharp_versions"] # {}
  BY MeansIsRead
<1>3. \A m \in 1 .. Len(lines) :
         strip_comment(lines[m]) = << >> \/ \E l \in KEYS : Told(m, l, c[l])
  BY DEF SoFar
<1> HIDE DEF Told
<1>4. \A key \in KEYS : c[key] = said[key] /\ c[key] # None
  BY <1>0, <1>1, <1>2, <1>3
<1>5. c = said
  BY <1>2, <1>4
<1> QED
  BY <1>2, <1>4, <1>5

\* What is read of a declaration is something it means.
LEMMA ReadIsMeant ==
    ASSUME NEW lines \in Seq(Seq(STRING)), NEW c, c = [key \in KEYS |-> c[key]],
           SoFar(lines, c, Len(lines)), \A key \in KEYS : c[key] # None,
           c["native_artifact_versions"] # << >>, c["acadsharp_versions"] # {}
    PROVE  Means(lines, c)
BY MeansIsRead DEF SoFar

\* Whatever a declaration means is among what it might mean.
LEMMA MeaningIsOne ==
    ASSUME NEW lines, NEW said, Means(lines, said)
    PROVE  said \in Meanings(lines)
<1> DEFINE all == UNION {Sayings(lines[n]) : n \in DOMAIN lines}
           texts(key) == {t \in all : Len(t) >= 2 /\ t[1] = key}
           Is(t, key) == t \in texts(key) /\ said[key] = ValueOf(key, SubSeq(t, 3, Len(t)))
           f == [key \in KEYS |-> CHOOSE t : Is(t, key)]
<1>1. said = [key \in KEYS |-> said[key]]
  BY DEF Means
<1>2. ASSUME NEW key \in KEYS PROVE \E t : Is(t, key)
  <2>1. PICK n \in DOMAIN lines : Tells(lines[n], key, said[key])
    BY DEF Means
  <2>2. PICK t \in Sayings(lines[n]) :
          /\ Len(t) >= 2 /\ t[1] = key
          /\ said[key] = ValueOf(key, SubSeq(t, 3, Len(t)))
    BY <2>1 DEF Tells
  <2>3. t \in all
    OBVIOUS
  <2> QED
    BY <2>2, <2>3
<1>3. \A key \in KEYS : Is(f[key], key)
  <2> HIDE DEF Is
  <2> QED
    BY <1>2
<1>4. f \in {g \in [KEYS -> UNION {texts(key) : key \in KEYS}] :
                 \A key \in KEYS : g[key] \in texts(key)}
  <2>1. \A key \in KEYS : f[key] \in texts(key)
    BY <1>3
  <2> HIDE DEF texts
  <2> QED
    BY <2>1
<1>5. said = [key \in KEYS |-> ValueOf(key, SubSeq(f[key], 3, Len(f[key])))]
  <2>1. \A key \in KEYS : said[key] = ValueOf(key, SubSeq(f[key], 3, Len(f[key])))
    BY <1>3
  <2> HIDE DEF f
  <2> QED
    BY <1>1, <2>1
<1> HIDE DEF f
<1> QED
  BY <1>4, <1>5, Zenon DEF Meanings

-----------------------------------------------------------------------------
(* The theorem about declarations *)

ParseInv ==
    /\ world \in Worlds
    /\ compat = [key \in KEYS |-> compat[key]]
    /\ phase = "header" =>
          line = 1 /\ defined = None /\ \A key \in KEYS : compat[key] = None
    /\ phase = "declaration" =>
          /\ line \in 1 .. Len(world.declaration) + 1
          /\ SoFar(world.declaration, compat, line - 1)
    /\ ReadsWhatIsWritten

\* A line more is read, or one is refused that says nothing that was meant.
LEMMA ParseLine ==
    ASSUME ParseInv, ReadLine
    PROVE  ParseInv'
<1> DEFINE lines == world.declaration
           s     == strip_comment(lines[line])
<1>1. /\ lines \in Seq(Seq(STRING)) /\ Len(lines) \in Nat
      /\ world.written # None => Means(lines, world.written)
  BY WorldsAssumption, LenProperties DEF ParseInv
<1>2. /\ phase = "declaration" /\ line \in 1 .. Len(lines) + 1 /\ line <= Len(lines)
      /\ SoFar(lines, compat, line - 1) /\ world' = world /\ defined' = defined
  BY DEF ParseInv, ReadLine, Refuse, reading
<1>3. PICK n \in Nat : n = line - 1 /\ line = n + 1 /\ n + 1 <= Len(lines)
  BY <1>1, <1>2
<1>4. SoFar(lines, compat, n)
  BY <1>2, <1>3
<1>5. CASE s = << >> /\ line' = line + 1 /\ phase' = phase /\ compat' = compat
  <2>1. SoFar(lines, compat, n + 1)
    BY <1>3, <1>4, <1>5, BlankLine
  <2>2. line' \in 1 .. Len(lines) + 1 /\ line' - 1 = n + 1
    BY <1>1, <1>3, <1>5
  <2> QED
    BY <1>2, <1>5, <2>1, <2>2 DEF ParseInv, ReadsWhatIsWritten
<1>6. CASE /\ Sets(s) /\ line' = line + 1 /\ phase' = phase
           /\ compat' = [compat EXCEPT ![Key(s)] = ValueOf(Key(s), Rest(s))]
  <2>1. PICK key \in KEYS : key = Key(s)
    BY <1>6 DEF Sets, Key
  <2>x. PICK x : x = ValueOf(key, Rest(s))
    OBVIOUS
  <2>2. SetsTo(s, key, x) /\ compat[key] = None
    BY <1>6, <2>1, <2>x DEF Sets, SetsTo, IsFree, Key
  <2>3. compat' = [compat EXCEPT ![key] = x]
    BY <1>6, <2>1, <2>x
  <2>4. /\ compat'[key] = x /\ \A l \in KEYS : l # key => compat'[l] = compat[l]
        /\ compat' = [l \in KEYS |-> compat'[l]]
    BY <2>3 DEF ParseInv
  <2>5. PICK d : d = compat'
    OBVIOUS
  <2>6. SoFar(lines, d, n + 1)
    <3>1. SetsTo(strip_comment(lines[n + 1]), key, x)
      BY <1>3, <2>2
    <3>2. d[key] = x /\ \A l \in KEYS : l # key => d[l] = compat[l]
      BY <2>4, <2>5
    <3> QED
      BY <1>4, <2>2, <3>1, <3>2, SettingLine
  <2>7. line' \in 1 .. Len(lines) + 1 /\ line' - 1 = n + 1
    BY <1>1, <1>3, <1>6
  <2> QED
    BY <1>2, <1>6, <2>4, <2>5, <2>6, <2>7 DEF ParseInv, ReadsWhatIsWritten
<1>7. CASE s # << >> /\ ~Sets(s) /\ Refuse
  <2>1. world.written = None
    <3> SUFFICES ASSUME world.written # None PROVE FALSE
        OBVIOUS
    <3>1. PICK said : said = world.written
      OBVIOUS
    <3>2. PICK key \in KEYS : SetsTo(s, key, said[key]) /\ compat[key] = None
      <4>1. Means(lines, said) /\ strip_comment(lines[n + 1]) # << >>
        BY <1>1, <1>3, <1>7, <3>1
      <4>2. \E key \in KEYS :
               SetsTo(strip_comment(lines[n + 1]), key, said[key]) /\ compat[key] = None
        BY <1>1, <1>3, <1>4, <4>1, LineIsFine
      <4> QED
        BY <1>3, <4>2
    <3> QED
      BY <1>7, <3>2 DEF SetsTo, Sets, Key, IsFree
  <2>2. phase' = "refused" /\ world' = world /\ compat' = compat
    BY <1>7 DEF Refuse, parsing
  <2> QED
    BY <2>1, <2>2 DEF ParseInv, ReadsWhatIsWritten
<1>8. \/ s = << >> /\ line' = line + 1 /\ phase' = phase /\ compat' = compat
      \/ /\ Sets(s) /\ line' = line + 1 /\ phase' = phase
         /\ compat' = [compat EXCEPT ![Key(s)] = ValueOf(Key(s), Rest(s))]
      \/ s # << >> /\ ~Sets(s) /\ Refuse
  BY DEF ReadLine
<1> QED
  BY <1>5, <1>6, <1>7, <1>8

\* All lines are read: what is read is what was meant, and if nothing was meant then
\* nothing is read of it.
LEMMA ParseEnds ==
    ASSUME ParseInv, CheckHeader
    PROVE  ParseInv'
<1> DEFINE lines == world.declaration
<1>1. /\ lines \in Seq(Seq(STRING)) /\ Len(lines) \in Nat
      /\ world.written # None => Means(lines, world.written)
      /\ world.written = None => \A said \in Meanings(lines) : ~Means(lines, said)
  BY WorldsAssumption, LenProperties DEF ParseInv
<1>2. /\ phase = "declaration" /\ line \in 1 .. Len(lines) + 1 /\ line > Len(lines)
      /\ SoFar(lines, compat, line - 1) /\ compat = [key \in KEYS |-> compat[key]]
      /\ UNCHANGED <<world, defined, compat>>
  BY DEF ParseInv, CheckHeader, Refuse, reading, parsing
<1>3. SoFar(lines, compat, Len(lines))
  <2>1. line - 1 = Len(lines)
    BY <1>1, <1>2
  <2> QED
    BY <1>2, <2>1
<1>4. CASE world.written # None
  <2>1. compat = world.written /\ Complete
    <3>1. PICK said, c : said = world.written /\ c = compat
      OBVIOUS
    <3>2. /\ lines \in Seq(Seq(STRING)) /\ Means(lines, said)
          /\ c = [key \in KEYS |-> c[key]] /\ SoFar(lines, c, Len(lines))
      BY <1>1, <1>2, <1>3, <1>4, <3>1
    <3> HIDE DEF lines
    <3>3. c = said /\ (\A key \in KEYS : c[key] # None)
          /\ c["native_artifact_versions"] # << >> /\ c["acadsharp_versions"] # {}
      BY <3>2, AllIsRead
    <3> QED
      BY <3>1, <3>3 DEF Complete
  <2>2. CASE Complete /\ check_against_header /\ phase' = "glob"
    BY <1>2, <2>1, <2>2 DEF ParseInv, ReadsWhatIsWritten
  <2>3. CASE ~(Complete /\ check_against_header) /\ phase' = "refused"
    BY <1>2, <2>1, <2>3 DEF ParseInv, ReadsWhatIsWritten, check_against_header
  <2> QED
    BY <2>2, <2>3 DEF CheckHeader, Refuse
<1>5. CASE world.written = None
  <2>1. ~Complete
    <3> SUFFICES ASSUME Complete PROVE FALSE
        OBVIOUS
    <3>1. PICK c : c = compat
      OBVIOUS
    <3>2. Means(lines, c)
      BY <1>1, <1>2, <1>3, <3>1, ReadIsMeant DEF Complete
    <3>3. c \in Meanings(lines)
      BY <3>2, MeaningIsOne
    <3> QED
      BY <1>1, <1>5, <3>2, <3>3
  <2>2. phase' = "refused"
    BY <2>1 DEF CheckHeader, Refuse
  <2> QED
    BY <1>2, <1>5, <2>2 DEF ParseInv, ReadsWhatIsWritten
<1> QED
  BY <1>4, <1>5

\* Every step keeps it.
LEMMA ParseStep == ParseInv /\ [Next]_vars => ParseInv'
<1> SUFFICES ASSUME ParseInv, [Next]_vars PROVE ParseInv'
    OBVIOUS
<1>1. CASE StripComments
  <2>1. phase = "header" /\ UNCHANGED <<world, phase, defined, line, compat, matched>>
    BY <1>1 DEF StripComments, parsing, matching
  <2> QED
    BY <2>1 DEF ParseInv, ReadsWhatIsWritten
<1>2. CASE ReadDefines
  <2>1. /\ phase = "header" /\ line = 1 /\ defined = None
        /\ \A key \in KEYS : compat[key] = None
        /\ UNCHANGED <<world, line, compat>>
    BY <1>2 DEF ReadDefines, Refuse, ParseInv, parsing
  <2>2. CASE phase' = "refused" /\ defined' = defined
    BY <2>1, <2>2 DEF ParseInv, ReadsWhatIsWritten
  <2>3. CASE phase' = "declaration"
    <3>1. line \in 1 .. Len(world.declaration) + 1
      <4>1. Len(world.declaration) \in Nat
        BY WorldsAssumption, LenProperties DEF ParseInv
      <4> QED
        BY <2>1, <4>1
    <3>2. SoFar(world.declaration, compat, line - 1)
      <4>1. 1 .. line - 1 = {}
        BY <2>1
      <4> QED
        BY <2>1, <4>1 DEF SoFar
    <3> QED
      BY <2>1, <2>3, <3>1, <3>2 DEF ParseInv, ReadsWhatIsWritten
  <2> QED
    BY <1>2, <2>2, <2>3 DEF ReadDefines, Refuse, reading
<1>3. CASE ReadLine
  BY <1>3, ParseLine
<1>4. CASE CheckHeader
  BY <1>4, ParseEnds
<1>5. ASSUME phase = "glob", UNCHANGED <<world, defined, line, compat>>,
             phase' = "refused" => matched' # None,
             phase' \in {"glob", "accepted", "refused"}
      PROVE  ParseInv'
  BY <1>5 DEF ParseInv, ReadsWhatIsWritten
<1>6. CASE GlobTurn
  <2>1. FALSE # None
    BY NoneAssumption
  <2> QED
    BY <1>5, <1>6, <2>1 DEF GlobTurn, reading, parsing
<1>7. CASE GlobEnd
  <2>1. (p = Len(pattern)) # None
    BY NoneAssumption
  <2> QED
    BY <1>5, <1>7, <2>1 DEF GlobEnd, reading, parsing
<1>8. CASE UNCHANGED vars
  <2>1. UNCHANGED <<world, phase, defined, line, compat, matched>>
    BY <1>8 DEF vars, reading, parsing, matching
  <2> QED
    BY <2>1 DEF ParseInv, ReadsWhatIsWritten
<1> QED
  BY <1>1, <1>2, <1>3, <1>4, <1>6, <1>7, <1>8 DEF Next, Turn, Ended

\* Of the lines read so far each set its key or nothing, and what is set was set by one of
\* them.
THEOREM ParseInvHolds == Spec => []ParseInv
<1>1. Init => ParseInv
  <2> SUFFICES ASSUME Init PROVE ParseInv
      OBVIOUS
  <2>1. /\ world \in Worlds /\ phase = "header" /\ line = 1 /\ defined = None
        /\ compat = [k \in KEYS |-> None]
    BY DEF Init
  <2> QED
    BY <2>1 DEF ParseInv, ReadsWhatIsWritten
<1>2. ParseInv /\ [Next]_vars => ParseInv'
  BY ParseStep
<1> QED
  BY <1>1, <1>2, PTL DEF Spec

\* Whatever a declaration says and whatever its comments hold: what is read of it is what
\* it means, one that means nothing is refused, and one that means something is refused
\* only if the header says otherwise.
THEOREM DeclarationsAreRead == Spec => []ReadsWhatIsWritten
<1>1. ParseInv => ReadsWhatIsWritten
  BY DEF ParseInv
<1> QED
  BY <1>1, ParseInvHolds, PTL
=============================================================================
