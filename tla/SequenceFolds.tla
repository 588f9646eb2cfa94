--------------------------- MODULE SequenceFolds ---------------------------
(***************************************************************************)
(* The steps of a fold, for modules that instantiate Op with what they     *)
(* fold.                                                                   *)
(***************************************************************************)
EXTENDS Naturals, Folds, TLAPS, WellFoundedInduction

CONSTANT Op(_, _)

LEMMA LeastNumber ==
  ASSUME NEW S \in SUBSET Nat, S # {}
  PROVE  \E m \in S : \A n \in S : m <= n
<1>1. IsWellFoundedOn(OpToRel(<, Nat), Nat)
  BY NatLessThanWellFounded
<1>2. PICK m \in S : \A n \in S : ~(<<n, m>> \in OpToRel(<, Nat))
  BY <1>1, WFMin
<1>3. \A n \in S : ~(n < m)
  BY <1>2 DEF OpToRel
<1> QED BY <1>3

Largest(S) == CHOOSE x \in S : \A y \in S : x >= y
\* FoldLeft of SequencesExt, unfolded.
FoldOf(base, seq) == MapThenFoldSet(LAMBDA x, y : Op(y, x), base, LAMBDA i : seq[i], LAMBDA S : Largest(S), DOMAIN seq)

\* g folds every set of indices up to k, from the largest one down.
FoldsTo(g, base, seq, k) ==
  g = [s \in SUBSET (1..k) |-> IF s = {} THEN base ELSE Op(g[s \ {Largest(s)}], seq[Largest(s)])]

LEMMA LargestIndex ==
  ASSUME NEW k \in Nat, NEW s \in SUBSET (1..(k + 1)), k + 1 \in s
  PROVE  Largest(s) = k + 1
<1>1. \A y \in s : k + 1 >= y /\ y \in 1..(k + 1)
  OBVIOUS
<1>2. \E x \in s : \A y \in s : x >= y
  BY <1>1
<1>3. Largest(s) \in s /\ \A y \in s : Largest(s) >= y
  BY <1>2 DEF Largest
<1> HIDE DEF Largest
<1>4. Largest(s) >= k + 1 /\ Largest(s) \in 1..(k + 1)
  BY <1>1, <1>3
<1> QED BY <1>4

LEMMA FoldsToNext ==
  ASSUME NEW base, NEW seq, NEW k \in Nat, NEW g, FoldsTo(g, base, seq, k)
  PROVE  \E h : FoldsTo(h, base, seq, k + 1)
<1> DEFINE h == [s \in SUBSET (1..(k + 1)) |-> IF k + 1 \in s THEN Op(g[s \ {k + 1}], seq[k + 1]) ELSE g[s]]
           H(s) == IF s = {} THEN base ELSE Op(h[s \ {Largest(s)}], seq[Largest(s)])
<1>1. \A s \in SUBSET (1..k) : g[s] = IF s = {} THEN base ELSE Op(g[s \ {Largest(s)}], seq[Largest(s)])
  BY DEF FoldsTo
<1>2. \A s \in SUBSET (1..(k + 1)) : k + 1 \notin s => s \in SUBSET (1..k)
  OBVIOUS
<1>3. ASSUME NEW s \in SUBSET (1..(k + 1)) PROVE h[s] = H(s)
  <2>1. CASE k + 1 \in s
    <3>1. s \ {k + 1} \in SUBSET (1..(k + 1)) /\ k + 1 \notin s \ {k + 1}
      OBVIOUS
    <3>2. h[s \ {k + 1}] = g[s \ {k + 1}]
      BY <3>1
    <3>3. h[s] = Op(g[s \ {k + 1}], seq[k + 1])
      BY <2>1
    <3> QED BY <2>1, <3>2, <3>3, LargestIndex
  <2>2. CASE k + 1 \notin s
    <3>1. s \in SUBSET (1..k) /\ h[s] = g[s]
      BY <1>2, <2>2
    <3>2. s \ {Largest(s)} \in SUBSET (1..(k + 1)) /\ k + 1 \notin s \ {Largest(s)}
      BY <2>2
    <3>3. h[s \ {Largest(s)}] = g[s \ {Largest(s)}]
      BY <3>2
    <3> QED BY <1>1, <3>1, <3>3
  <2> QED BY <2>1, <2>2
<1>4. h = [s \in SUBSET (1..(k + 1)) |-> h[s]]
  OBVIOUS
<1> HIDE DEF h
<1>5. h = [s \in SUBSET (1..(k + 1)) |-> H(s)]
  BY <1>3, <1>4
<1> QED BY <1>5 DEF FoldsTo

LEMMA FoldsToExists ==
  ASSUME NEW base, NEW seq, NEW n \in Nat
  PROVE  \E g : FoldsTo(g, base, seq, n)
<1> DEFINE Bad == {k \in Nat : ~\E g : FoldsTo(g, base, seq, k)}
<1>1. \E g : FoldsTo(g, base, seq, 0)
  <2> DEFINE g == [s \in SUBSET (1..0) |-> base]
  <2>1. \A s \in SUBSET (1..0) : s = {}
    OBVIOUS
  <2>2. g = [s \in SUBSET (1..0) |-> IF s = {} THEN base ELSE Op(g[s \ {Largest(s)}], seq[Largest(s)])]
    BY <2>1
  <2> QED BY <2>2 DEF FoldsTo
<1>2. ASSUME NEW m \in Bad, \A k \in Bad : m <= k PROVE FALSE
  <2>1. m \in Nat /\ m # 0
    BY <1>1
  <2>2. m - 1 \in Nat /\ (m - 1) + 1 = m /\ ~(m <= m - 1)
    BY <2>1
  <2>3. \E g : FoldsTo(g, base, seq, m - 1)
    BY <1>2, <2>2
  <2> QED BY <2>2, <2>3, FoldsToNext
<1>3. Bad \in SUBSET Nat
  OBVIOUS
<1>4. Bad = {}
  BY <1>2, <1>3, LeastNumber
<1> QED BY <1>4

\* What f has at k is the fold of the first k elements.
Iterates(f, base, seq, n) ==
  /\ DOMAIN f = 0..n /\ f[0] = base /\ f[n] = FoldOf(base, seq)
  /\ \A k \in 0..(n - 1) : f[k + 1] = Op(f[k], seq[k + 1])

\* The fold of a sequence is reached in steps, one for each element: what is known of the
\* base and kept by each step is known of the fold.
THEOREM FoldLeftIterates ==
  ASSUME NEW base, NEW seq, NEW n \in Nat, DOMAIN seq = 1..n
  PROVE  \E f : Iterates(f, base, seq, n)
<1> DEFINE fold == CHOOSE g : g = [s \in SUBSET (1..n) |-> IF s = {} THEN base ELSE Op(g[s \ {Largest(s)}], seq[Largest(s)])]
           f == [k \in 0..n |-> fold[1..k]]
<1>1. FoldOf(base, seq) = fold[1..n]
  BY DEF FoldOf, MapThenFoldSet
<1>2. fold = [s \in SUBSET (1..n) |-> IF s = {} THEN base ELSE Op(fold[s \ {Largest(s)}], seq[Largest(s)])]
  <2>1. \E g : g = [s \in SUBSET (1..n) |-> IF s = {} THEN base ELSE Op(g[s \ {Largest(s)}], seq[Largest(s)])]
    <3>1. PICK g : FoldsTo(g, base, seq, n)
      BY FoldsToExists
    <3>2. g = [s \in SUBSET (1..n) |-> IF s = {} THEN base ELSE Op(g[s \ {Largest(s)}], seq[Largest(s)])]
      BY <3>1, Zenon DEF FoldsTo
    <3> QED BY <3>2, Zenon
  <2> QED BY <2>1, Zenon
<1> HIDE DEF fold
<1>3. \A s \in SUBSET (1..n) : fold[s] = IF s = {} THEN base ELSE Op(fold[s \ {Largest(s)}], seq[Largest(s)])
  BY <1>2
<1>4. f[0] = base
  <2>1. 1..0 = {} /\ 1..0 \in SUBSET (1..n) /\ 0 \in 0..n
    OBVIOUS
  <2> QED BY <1>3, <2>1
<1>5. ASSUME NEW k \in 0..(n - 1) PROVE f[k + 1] = Op(f[k], seq[k + 1])
  <2>1. /\ 1..(k + 1) \in SUBSET (1..n) /\ 1..(k + 1) # {}
        /\ k + 1 \in 1..(k + 1) /\ (1..(k + 1)) \ {k + 1} = 1..k /\ k \in Nat /\ k \in 0..n /\ k + 1 \in 0..n
    <3>1. k \in Nat /\ k + 1 <= n /\ k \in 0..n /\ k + 1 \in 0..n
      OBVIOUS
    <3>2. k + 1 \in 1..(k + 1) /\ \A i \in 1..(k + 1) : i \in 1..n
      BY <3>1
    <3>3. \A i : i \in (1..(k + 1)) \ {k + 1} <=> i \in 1..k
      BY <3>1
    <3> QED BY <3>1, <3>2, <3>3
  <2>2. Largest(1..(k + 1)) = k + 1
    BY <2>1, LargestIndex
  <2>3. fold[1..(k + 1)] = Op(fold[1..k], seq[k + 1])
    BY <1>3, <2>1, <2>2
  <2> QED BY <2>1, <2>3
<1>6. DOMAIN f = 0..n /\ f[n] = fold[1..n]
  OBVIOUS
<1> HIDE DEF f
<1> QED BY <1>1, <1>4, <1>5, <1>6 DEF Iterates

\* Induction up to a number.
LEMMA UpTo ==
  ASSUME NEW n \in Nat, NEW Good, 0 \in Good, \A k \in 0..(n - 1) : k \in Good => k + 1 \in Good
  PROVE  n \in Good
<1> DEFINE Bad == {k \in 0..n : k \notin Good}
<1>1. ASSUME NEW m \in Bad, \A k \in Bad : m <= k PROVE FALSE
  <2>1. m \in 0..n /\ m # 0
    OBVIOUS
  <2>2. m - 1 \in 0..(n - 1) /\ m - 1 \in 0..n /\ (m - 1) + 1 = m /\ ~(m <= m - 1)
    BY <2>1
  <2>3. m - 1 \in Good
    BY <1>1, <2>2
  <2> QED BY <2>2, <2>3
<1>2. Bad \in SUBSET Nat
  OBVIOUS
<1>3. Bad = {}
  BY <1>1, <1>2, LeastNumber
<1>4. n \in 0..n
  OBVIOUS
<1> QED BY <1>3, <1>4
=============================================================================
