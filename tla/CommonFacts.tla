----------------------------- MODULE CommonFacts -----------------------------
(***************************************************************************)
(* What the proofs share: finite sets of numbers (the least, the greatest  *)
(* and the initial segments of such a set), sequences that are used as     *)
(* queues, folds and sums, and what a program does to a Txn.               *)
(***************************************************************************)
EXTENDS TxnTypes, SequencesExt, SequenceTheorems, FiniteSetTheorems, TLAPS

-----------------------------------------------------------------------------
(* Sets of numbers. *)

(* Strict inclusion of the initial segments of S is well founded, and the
   smallest of them ends at the least number. *)
LEMMA LeastNumber ==
  ASSUME NEW S, S \subseteq Nat, S # {}
  PROVE  \E n \in S : \A m \in S : n <= m
<1> DEFINE Upto(n) == {m \in S : m <= n}
           Family  == {Upto(n) : n \in S}
<1>1. ASSUME NEW n \in S PROVE IsFiniteSet(Upto(n))
  BY FS_BoundedSetOfNaturals, Upto(n) \in SUBSET Nat
<1>2. Family \subseteq FiniteSubsetsOf(S) /\ Family # {}
  BY <1>1 DEF FiniteSubsetsOf
<1>3. PICK X \in Family : \A Y \in Family : <<Y, X>> \notin StrictSubsetOrdering(S)
  <2> HIDE DEF Family
  <2> QED
    BY <1>2, FS_StrictSubsetOrderingWellFounded, WFMin
<1>4. PICK n \in S : X = Upto(n)
  OBVIOUS
<1>5. ASSUME NEW m \in S, m < n PROVE FALSE
  <2>0. m \in Nat /\ n \in Nat /\ \A j \in S : j \in Nat
    OBVIOUS
  <2>1. Upto(m) \in Family /\ Upto(m) \subseteq X /\ n \in X /\ n \notin Upto(m)
    <3>1. Upto(m) \in Family
      <4> HIDE DEF Upto
      <4> QED
        OBVIOUS
    <3>2. \A j \in S : j <= m => j <= n
      BY <1>5, <2>0
    <3>4. Upto(m) \subseteq Upto(n)
      BY <3>2
    <3>3. n \in Upto(n) /\ n \notin Upto(m)
      BY <1>5, <2>0
    <3> QED
      BY <1>4, <3>1, <3>4, <3>3
  <2>2. <<Upto(m), X>> \in StrictSubsetOrdering(S)
    <3> HIDE DEF Upto
    <3>1. X \subseteq S
      BY <1>4 DEF Upto
    <3> QED
      BY <2>1, <3>1 DEF StrictSubsetOrdering
  <2> QED
    BY <1>3, <2>1, <2>2
<1> QED
  BY <1>5

LEMMA MinIsLeast ==
  ASSUME NEW S, S \subseteq Nat, S # {}
  PROVE  Min(S) \in S /\ \A m \in S : Min(S) <= m
  BY LeastNumber DEF Min

LEMMA GreatestNumber ==
  ASSUME NEW n \in Nat, NEW S, S \subseteq 1..n, S # {}
  PROVE  \E m \in S : \A j \in S : j <= m
<1>1. PICK d \in {n - j : j \in S} : \A e \in {n - j : j \in S} : d <= e
  <2>1. \A j \in S : n - j \in Nat
    OBVIOUS
  <2>2. {n - j : j \in S} \subseteq Nat /\ {n - j : j \in S} # {}
    BY <2>1
  <2> QED
    BY <2>2, LeastNumber
<1>2. PICK m \in S : d = n - m
  OBVIOUS
<1>3. ASSUME NEW j \in S PROVE j <= m
  <2>1. d <= n - j
    BY <1>1
  <2> QED
    BY <1>2, <2>1
<1> QED
  BY <1>3

(* An initial segment of 1..n is an interval as long as it has members. *)
LEMMA InitialSegment ==
  ASSUME NEW n \in Nat, NEW S, S \subseteq 1..n,
         \A i \in S : \A j \in 1..i : j \in S
  PROVE  /\ Cardinality(S) \in 0..n
         /\ S = 1..Cardinality(S)
<1>1. CASE S = {}
  BY <1>1, FS_EmptySet
<1>2. CASE S # {}
  <2>1. PICK m \in S : \A j \in S : j <= m
    BY <1>2, GreatestNumber
  <2>2. S = 1..m /\ m \in 1..n
    <3>1. m \in 1..n /\ 1..m \subseteq S
      OBVIOUS
    <3>2. \A j \in S : j \in 1..m
      BY <2>1, <3>1
    <3> QED
      BY <3>1, <3>2
  <2>3. Cardinality(1..m) = m
    BY <2>2, FS_Interval
  <2> QED
    BY <2>2, <2>3
<1> QED
  BY <1>1, <1>2

-----------------------------------------------------------------------------
(* Queues as sets. *)

LEMMA QueueIndex ==
  ASSUME NEW S, NEW q \in Seq(S)
  PROVE  /\ Len(q) \in Nat /\ DOMAIN q = 1..Len(q)
         /\ \A i \in DOMAIN q : q[i] \in S /\ q[i] \in ToSet(q)
         /\ ToSet(q) \subseteq S
         /\ q = <<>> <=> ToSet(q) = {}
<1>1. Len(q) \in Nat /\ DOMAIN q = 1..Len(q) /\ q \in [1..Len(q) -> S]
  BY LenProperties
<1>2. q = <<>> <=> Len(q) = 0
  BY EmptySeq
<1>3. \A i \in DOMAIN q : q[i] \in S /\ q[i] \in ToSet(q)
  BY <1>1 DEF ToSet
<1>4. ToSet(q) \subseteq S
  BY <1>1 DEF ToSet
<1>5. Len(q) = 0 <=> ToSet(q) = {}
  <2>1. Len(q) = 0 => DOMAIN q = {}
    BY <1>1
  <2>2. Len(q) # 0 => 1 \in DOMAIN q
    BY <1>1
  <2> QED
    BY <1>3, <2>1, <2>2 DEF ToSet
<1> QED
  BY <1>1, <1>2, <1>3, <1>4, <1>5

LEMMA EmptyQueue == ToSet(<<>>) = {} /\ IsInjective(<<>>)
<1>1. <<>> \in Seq({})
  OBVIOUS
<1>2. DOMAIN <<>> = {}
  OBVIOUS
<1> QED
  BY <1>2 DEF ToSet, IsInjective

LEMMA AppendToQueue ==
  ASSUME NEW S, NEW q \in Seq(S), NEW x \in S
  PROVE  /\ Append(q, x) \in Seq(S)
         /\ Append(q, x) # <<>>
         /\ ToSet(Append(q, x)) = ToSet(q) \union {x}
         /\ IsInjective(q) /\ x \notin ToSet(q) => IsInjective(Append(q, x))
<1>1. /\ Append(q, x) \in Seq(S) /\ Len(Append(q, x)) = Len(q) + 1
      /\ \A i \in 1..Len(q) : Append(q, x)[i] = q[i]
      /\ Append(q, x)[Len(q) + 1] = x
      /\ Append(q, x) # <<>>
  BY AppendProperties
<1>2. /\ Len(q) \in Nat /\ DOMAIN q = 1..Len(q)
      /\ DOMAIN Append(q, x) = 1..(Len(q) + 1)
  BY <1>1, LenProperties
<1>3. ToSet(Append(q, x)) = ToSet(q) \union {x}
  BY <1>1, <1>2 DEF ToSet
<1>4. IsInjective(q) /\ x \notin ToSet(q) => IsInjective(Append(q, x))
  BY <1>1, <1>2 DEF ToSet, IsInjective
<1> QED
  BY <1>1, <1>3, <1>4

LEMMA TakeFromQueue ==
  ASSUME NEW S, NEW q \in Seq(S), q # <<>>
  PROVE  /\ Head(q) \in S /\ Head(q) \in ToSet(q)
         /\ Tail(q) \in Seq(S)
         /\ ToSet(q) = ToSet(Tail(q)) \union {Head(q)}
         /\ IsInjective(q) => /\ IsInjective(Tail(q))
                              /\ ToSet(Tail(q)) = ToSet(q) \ {Head(q)}
<1>1. /\ Head(q) \in S /\ Tail(q) \in Seq(S) /\ Len(Tail(q)) = Len(q) - 1
      /\ \A i \in 1..Len(Tail(q)) : Tail(q)[i] = q[i + 1]
  BY HeadTailProperties
<1>2. /\ Len(q) \in Nat /\ Len(q) # 0 /\ DOMAIN q = 1..Len(q)
      /\ DOMAIN Tail(q) = 1..(Len(q) - 1)
  BY <1>1, LenProperties, EmptySeq
<1>3. Head(q) = q[1]
  OBVIOUS
<1>4. \A i \in 1..(Len(q) - 1) : Tail(q)[i] = q[i + 1]
  BY <1>1
<1>5. ToSet(q) = ToSet(Tail(q)) \union {Head(q)}
  <2>1. ASSUME NEW y \in ToSet(q) PROVE y \in ToSet(Tail(q)) \union {Head(q)}
    <3>1. PICK i \in 1..Len(q) : q[i] = y
      BY <1>2 DEF ToSet
    <3>2. CASE i = 1
      BY <1>3, <3>1, <3>2
    <3>3. CASE i # 1
      <4>1. i - 1 \in 1..(Len(q) - 1) /\ Tail(q)[i - 1] = y
        BY <1>2, <1>4, <3>1, <3>3
      <4> QED
        BY <1>2, <4>1 DEF ToSet
    <3> QED
      BY <3>2, <3>3
  <2>2. ToSet(Tail(q)) \subseteq ToSet(q) /\ Head(q) \in ToSet(q)
    BY <1>2, <1>3, <1>4 DEF ToSet
  <2> QED
    BY <2>1, <2>2
<1>6. IsInjective(q) => IsInjective(Tail(q)) /\ Head(q) \notin ToSet(Tail(q))
  BY <1>2, <1>3, <1>4 DEF ToSet, IsInjective
<1> QED
  BY <1>1, <1>5, <1>6

LEMMA JoinQueues ==
  ASSUME NEW S, NEW p \in Seq(S), NEW q \in Seq(S)
  PROVE  /\ p \o q \in Seq(S)
         /\ ToSet(p \o q) = ToSet(p) \union ToSet(q)
         /\ IsInjective(p) /\ IsInjective(q) /\ ToSet(p) \cap ToSet(q) = {}
              => IsInjective(p \o q)
<1>1. /\ p \o q \in Seq(S) /\ Len(p \o q) = Len(p) + Len(q)
      /\ \A i \in 1..(Len(p) + Len(q)) :
           (p \o q)[i] = IF i <= Len(p) THEN p[i] ELSE q[i - Len(p)]
  BY ConcatProperties
<1>2. /\ Len(p) \in Nat /\ DOMAIN p = 1..Len(p)
      /\ Len(q) \in Nat /\ DOMAIN q = 1..Len(q)
      /\ DOMAIN (p \o q) = 1..(Len(p) + Len(q))
  BY <1>1, LenProperties
<1>3. ToSet(p \o q) = ToSet(p) \union ToSet(q)
  <2>1. ToSet(p \o q) \subseteq ToSet(p) \union ToSet(q)
    BY <1>1, <1>2 DEF ToSet
  <2>2. ToSet(p) \subseteq ToSet(p \o q)
    BY <1>1, <1>2 DEF ToSet
  <2>3. ASSUME NEW y \in ToSet(q) PROVE y \in ToSet(p \o q)
    <3>1. PICK i \in 1..Len(q) : q[i] = y
      BY <1>2 DEF ToSet
    <3>2. i + Len(p) \in 1..(Len(p) + Len(q)) /\ (p \o q)[i + Len(p)] = y
      BY <1>1, <1>2, <3>1
    <3> QED
      BY <1>2, <3>2 DEF ToSet
  <2> QED
    BY <2>1, <2>2, <2>3
<1>4. ASSUME IsInjective(p), IsInjective(q), ToSet(p) \cap ToSet(q) = {}
      PROVE  IsInjective(p \o q)
  <2> SUFFICES ASSUME NEW i \in 1..(Len(p) + Len(q)), NEW j \in 1..(Len(p) + Len(q)),
                      (p \o q)[i] = (p \o q)[j]
               PROVE  i = j
    BY <1>2 DEF IsInjective
  <2>1. CASE i <= Len(p) /\ j <= Len(p)
    BY <1>1, <1>2, <1>4, <2>1 DEF IsInjective
  <2>2. CASE i > Len(p) /\ j > Len(p)
    BY <1>1, <1>2, <1>4, <2>2 DEF IsInjective
  <2>3. CASE i <= Len(p) /\ j > Len(p)
    <3>1. p[i] \in ToSet(p) /\ q[j - Len(p)] \in ToSet(q)
      BY <1>2, <2>3 DEF ToSet
    <3> QED
      BY <1>1, <1>2, <1>4, <2>3, <3>1
  <2>4. CASE i > Len(p) /\ j <= Len(p)
    <3>1. p[j] \in ToSet(p) /\ q[i - Len(p)] \in ToSet(q)
      BY <1>2, <2>4 DEF ToSet
    <3> QED
      BY <1>1, <1>2, <1>4, <2>4, <3>1
  <2> QED
    BY <1>2, <2>1, <2>2, <2>3, <2>4
<1> QED
  BY <1>1, <1>3, <1>4

LEMMA DropFromQueue ==
  ASSUME NEW S, NEW q \in Seq(S), NEW r \in 1..Len(q)
  PROVE  /\ RemoveAt(q, r) \in Seq(S)
         /\ Len(RemoveAt(q, r)) = Len(q) - 1
         /\ \A i \in 1..(Len(q) - 1) :
              RemoveAt(q, r)[i] = IF i < r THEN q[i] ELSE q[i + 1]
<1> DEFINE a == SubSeq(q, 1, r - 1)
           b == SubSeq(q, r + 1, Len(q))
<1>1. Len(q) \in Nat /\ q \in [1..Len(q) -> S]
  BY LenProperties
<1>2. a \in Seq(S) /\ Len(a) = r - 1 /\ \A i \in 1..(r - 1) : a[i] = q[i]
  <2>1. \A i \in 1..(r - 1) : q[i] \in S
    BY <1>1
  <2> QED
    BY <1>1, <2>1, SubSeqProperties, Z3
<1>3. b \in Seq(S) /\ Len(b) = Len(q) - r /\ \A i \in 1..(Len(q) - r) : b[i] = q[r + i]
  <2>1. PICK m \in Int : m = r + 1
    BY <1>1
  <2>6. Len(q) \in Int
    BY <1>1
  <2>0. PICK n \in Int : n = Len(q)
    BY <2>6
  <2>2. \A i \in m..n : q[i] \in S
    BY <1>1, <2>1, <2>0
  <2>3. /\ SubSeq(q, m, n) \in Seq(S)
        /\ Len(SubSeq(q, m, n)) = IF m <= n THEN n - m + 1 ELSE 0
        /\ \A i \in 1..(n - m + 1) : SubSeq(q, m, n)[i] = q[m + i - 1]
    BY <2>2, SubSeqProperties
  <2>4. /\ n - m + 1 = Len(q) - r /\ (m <= n \/ Len(q) - r = 0)
        /\ \A i \in 1..(Len(q) - r) : m + i - 1 = r + i
    <3> HIDE DEF a, b
    <3>1. m = r + 1 /\ n = Len(q) /\ r \in Nat /\ r <= n
      BY <1>1, <2>1, <2>0
    <3> QED
      BY <3>1
  <2>5. b = SubSeq(q, m, n)
    BY <2>1, <2>0
  <2> QED
    <3> HIDE DEF b
    <3> QED
      BY <1>1, <2>3, <2>4, <2>5
<1>4. RemoveAt(q, r) = a \o b
  BY DEF RemoveAt
<1> HIDE DEF a, b
<1>5. /\ a \o b \in Seq(S) /\ Len(a \o b) = Len(a) + Len(b)
      /\ \A i \in 1..(Len(a) + Len(b)) : (a \o b)[i] = IF i <= Len(a) THEN a[i] ELSE b[i - Len(a)]
  BY <1>2, <1>3, ConcatProperties
<1> QED
  BY <1>1, <1>2, <1>3, <1>4, <1>5

(* Two positions of a queue, one before the other, as an Append or a Tail
   leaves them. *)
LEMMA AppendInOrder ==
  ASSUME NEW S, NEW q \in Seq(S), NEW x \in S
  PROVE  LET p == Append(q, x) IN
         \A i, j \in DOMAIN p : i < j =>
           /\ i \in DOMAIN q /\ p[i] = q[i]
           /\ (j \in DOMAIN q /\ p[j] = q[j]) \/ p[j] = x
<1>1. /\ Append(q, x) \in Seq(S) /\ Len(Append(q, x)) = Len(q) + 1
      /\ \A i \in 1..Len(q) : Append(q, x)[i] = q[i]
      /\ Append(q, x)[Len(q) + 1] = x
  BY AppendProperties
<1>2. Len(q) \in Nat /\ DOMAIN q = 1..Len(q) /\ DOMAIN Append(q, x) = 1..(Len(q) + 1)
  BY <1>1, LenProperties
<1> QED
  BY <1>1, <1>2

LEMMA TakeInOrder ==
  ASSUME NEW S, NEW q \in Seq(S), q # <<>>
  PROVE  /\ \A i, j \in DOMAIN Tail(q) : i < j =>
              \E a, b \in DOMAIN q : a < b /\ Tail(q)[i] = q[a] /\ Tail(q)[j] = q[b]
         /\ \A x \in ToSet(Tail(q)) : \E a, b \in DOMAIN q : a < b /\ q[a] = Head(q) /\ q[b] = x
<1>1. /\ Tail(q) \in Seq(S) /\ Len(Tail(q)) = Len(q) - 1
      /\ \A i \in 1..Len(Tail(q)) : Tail(q)[i] = q[i + 1]
  BY HeadTailProperties
<1>2. Len(q) \in Nat /\ Len(q) # 0 /\ DOMAIN q = 1..Len(q) /\ DOMAIN Tail(q) = 1..(Len(q) - 1)
  BY <1>1, LenProperties, EmptySeq
<1>3. Head(q) = q[1]
  OBVIOUS
<1>4. ASSUME NEW i \in DOMAIN Tail(q)
      PROVE  i \in Nat /\ i # 0 /\ i + 1 \in DOMAIN q /\ Tail(q)[i] = q[i + 1]
  BY <1>1, <1>2
<1>5. ASSUME NEW i \in DOMAIN Tail(q), NEW j \in DOMAIN Tail(q), i < j
      PROVE  \E a, b \in DOMAIN q : a < b /\ Tail(q)[i] = q[a] /\ Tail(q)[j] = q[b]
  BY <1>4, <1>5
<1>6. ASSUME NEW x \in ToSet(Tail(q))
      PROVE  \E a, b \in DOMAIN q : a < b /\ q[a] = Head(q) /\ q[b] = x
  <2>1. PICK i \in DOMAIN Tail(q) : Tail(q)[i] = x
    BY DEF ToSet
  <2>2. 1 \in DOMAIN q /\ i + 1 \in DOMAIN q /\ 1 < i + 1 /\ q[i + 1] = x
    BY <1>2, <1>4, <2>1
  <2> QED
    BY <1>3, <2>2
<1> QED
  BY <1>5, <1>6

-----------------------------------------------------------------------------
(* Folds.  What a recursive function on the subsets of a finite set computes is
   proved by taking a least subset for which it would be something else: least
   for inclusion, which is well founded there. *)

(* g is what a fold over T computes for every subset. *)
IsFold(g, T, base, pick, op) ==
  g = [s \in SUBSET T |-> IF s = {} THEN base ELSE op[<<pick[s], g[s \ {pick[s]}]>>]]

LEMMA LeastSubset ==
  ASSUME NEW T, IsFiniteSet(T), NEW F, F \subseteq SUBSET T, F # {}
  PROVE  \E s \in F : \A u \in F : ~(u \subseteq s /\ u # s)
<1>1. F \subseteq FiniteSubsetsOf(T)
  BY FS_FiniteSubsetsOfFinite
<1>2. PICK s \in F : \A u \in F : <<u, s>> \notin StrictSubsetOrdering(T)
  BY <1>1, FS_StrictSubsetOrderingWellFounded, WFMin
<1> QED
  BY <1>2 DEF StrictSubsetOrdering

(* Two folds agree where both are defined. *)
LEMMA FoldsAgree ==
  ASSUME NEW T, NEW U, IsFiniteSet(T), U \subseteq T, NEW g, NEW h, NEW base, NEW pick, NEW op,
         \A s \in SUBSET T : s # {} => pick[s] \in s,
         IsFold(g, T, base, pick, op), IsFold(h, U, base, pick, op)
  PROVE  \A s \in SUBSET U : g[s] = h[s]
<1> DEFINE Bad == {s \in SUBSET U : g[s] # h[s]}
<1>1. SUFFICES ASSUME Bad # {} PROVE FALSE
  OBVIOUS
<1>2. PICK s \in Bad : \A u \in Bad : ~(u \subseteq s /\ u # s)
  <2>1. Bad \subseteq SUBSET T
    OBVIOUS
  <2> HIDE DEF Bad
  <2> QED
    BY <1>1, <2>1, LeastSubset
<1>3. /\ g[s] = IF s = {} THEN base ELSE op[<<pick[s], g[s \ {pick[s]}]>>]
      /\ h[s] = IF s = {} THEN base ELSE op[<<pick[s], h[s \ {pick[s]}]>>]
  BY DEF IsFold
<1>4. s # {} /\ pick[s] \in s
  BY <1>3
<1>5. s \ {pick[s]} \notin Bad /\ s \ {pick[s]} \in SUBSET U
  BY <1>2, <1>4
<1> QED
  BY <1>3, <1>4, <1>5

(* There is one, by induction on the subset. *)
LEMMA FoldExists ==
  ASSUME NEW T, IsFiniteSet(T), NEW base, NEW pick, NEW op,
         \A s \in SUBSET T : s # {} => pick[s] \in s
  PROVE  \E g : IsFold(g, T, base, pick, op)
<1> DEFINE Folded(s) == \E g : IsFold(g, s, base, pick, op)
           Bad == {s \in SUBSET T : ~Folded(s)}
           F(u) == CHOOSE g : IsFold(g, u, base, pick, op)
<1>1. SUFFICES ASSUME Bad # {} PROVE FALSE
  OBVIOUS
<1>2. PICK t \in Bad : \A u \in Bad : ~(u \subseteq t /\ u # t)
  <2>1. Bad \subseteq SUBSET T
    OBVIOUS
  <2> HIDE DEF Bad
  <2> QED
    BY <1>1, <2>1, LeastSubset
<1>3. t \subseteq T /\ \A s \in SUBSET t : IsFiniteSet(s) /\ (s # {} => pick[s] \in s)
  BY FS_Subset
<1>4. \A u \in SUBSET t : u # t => IsFold(F(u), u, base, pick, op)
  <2> TAKE u \in SUBSET t
  <2> HAVE u # t
  <2>1. Folded(u)
    BY <1>2, <1>3
  <2> QED
    BY <2>1
<1> DEFINE g == [s \in SUBSET t |->
                  IF s = {} THEN base ELSE op[<<pick[s], F(s \ {pick[s]})[s \ {pick[s]}]>>]]
<1>5. ASSUME NEW u \in SUBSET t, u # t PROVE g[u] = F(u)[u]
  <2>1. F(u)[u] = IF u = {} THEN base ELSE op[<<pick[u], F(u)[u \ {pick[u]}]>>]
    <3>1. IsFold(F(u), u, base, pick, op) /\ u \in SUBSET u
      BY <1>4, <1>5
    <3> HIDE DEF F
    <3> QED
      BY <3>1 DEF IsFold
  <2>2. CASE u = {}
    BY <2>1, <2>2
  <2>3. CASE u # {}
    <3> DEFINE v == u \ {pick[u]}
    <3>1. v \in SUBSET u /\ v \in SUBSET t /\ v # t
      BY <1>3, <1>5, <2>3
    <3>2. IsFold(F(u), u, base, pick, op) /\ IsFold(F(v), v, base, pick, op)
      BY <1>4, <1>5, <3>1
    <3>3. IsFiniteSet(u) /\ \A s \in SUBSET u : s # {} => pick[s] \in s
      BY <1>3, <1>5
    <3>5. v \subseteq u /\ v \in SUBSET v
      BY <3>1
    <3> HIDE DEF F, v
    <3>4. F(u)[v] = F(v)[v]
      BY <3>2, <3>3, <3>5, FoldsAgree
    <3> QED
      BY <1>5, <2>1, <2>3, <3>4 DEF v
  <2> QED
    BY <2>2, <2>3
<1>6. \A s \in SUBSET t : s # {} =>
        F(s \ {pick[s]})[s \ {pick[s]}] = g[s \ {pick[s]}]
  <2> TAKE s \in SUBSET t
  <2> HAVE s # {}
  <2>1. s \ {pick[s]} \in SUBSET t /\ s \ {pick[s]} # t
    BY <1>3
  <2> HIDE DEF g, F
  <2> QED
    BY <1>5, <2>1
<1>7. \A s \in SUBSET t :
        g[s] = IF s = {} THEN base ELSE op[<<pick[s], g[s \ {pick[s]}]>>]
  <2> HIDE DEF F
  <2> QED
    BY <1>6
<1>8. g = [s \in SUBSET t |-> g[s]]
  OBVIOUS
<1>9. IsFold(g, t, base, pick, op)
  <2> HIDE DEF g
  <2> QED
    BY <1>7, <1>8 DEF IsFold
<1> QED
  BY <1>9

LEMMA FoldValues ==
  ASSUME NEW T, IsFiniteSet(T), NEW g, NEW base, NEW pick, NEW op, NEW V, base \in V,
         \A s \in SUBSET T : s # {} => pick[s] \in s,
         \A x \in T, v \in V : op[<<x, v>>] \in V,
         IsFold(g, T, base, pick, op)
  PROVE  \A s \in SUBSET T : g[s] \in V
<1> DEFINE Bad == {s \in SUBSET T : g[s] \notin V}
<1>1. SUFFICES ASSUME Bad # {} PROVE FALSE
  OBVIOUS
<1>2. PICK s \in Bad : \A u \in Bad : ~(u \subseteq s /\ u # s)
  <2>1. Bad \subseteq SUBSET T
    OBVIOUS
  <2> HIDE DEF Bad
  <2> QED
    BY <1>1, <2>1, LeastSubset
<1>3. g[s] = IF s = {} THEN base ELSE op[<<pick[s], g[s \ {pick[s]}]>>]
  BY DEF IsFold
<1>4. s # {} /\ pick[s] \in s
  BY <1>3
<1>5. s \ {pick[s]} \notin Bad /\ s \ {pick[s]} \in SUBSET T
  BY <1>2, <1>4
<1> QED
  BY <1>3, <1>4, <1>5

-----------------------------------------------------------------------------
(* Sums. *)
SumOver(f, S) == MapThenSumSet(LAMBDA x : f[x], S)

Pick(s) == CHOOSE x \in s : TRUE

IsSum(g, f, S) ==
  g = [s \in SUBSET S |-> IF s = {} THEN 0 ELSE f[Pick(s)] + g[s \ {Pick(s)}]]

Partial(f, S) == CHOOSE g : IsSum(g, f, S)

LEMMA SumIsPartial ==
  ASSUME NEW f, NEW S PROVE SumOver(f, S) = Partial(f, S)[S]
  BY DEF SumOver, MapThenSumSet, MapThenFoldSet, Partial, Pick, IsSum

LEMMA SumFunctionIs ==
  ASSUME NEW f PROVE SumFunction(f) = SumOver(f, DOMAIN f)
  BY DEF SumOver, MapThenSumSet, MapThenFoldSet, SumFunction, SumFunctionOnSet, FoldFunctionOnSet

LEMMA PartialSums ==
  ASSUME NEW S, IsFiniteSet(S), NEW f, \A x \in S : f[x] \in Int
  PROVE  IsSum(Partial(f, S), f, S)
<1> DEFINE pick == [s \in (SUBSET S) \ {{}} |-> Pick(s)]
           op   == [e \in S \X Int |-> f[e[1]] + e[2]]
<1>1. \A s \in SUBSET S : s # {} => pick[s] = Pick(s) /\ pick[s] \in s
  BY DEF Pick
<1>2. \A x \in S, v \in Int : op[<<x, v>>] = f[x] + v /\ op[<<x, v>>] \in Int
  OBVIOUS
<1> HIDE DEF pick, op
<1>3. PICK g : IsFold(g, S, 0, pick, op)
  BY <1>1, FoldExists
<1>4. \A s \in SUBSET S : g[s] \in Int
  BY <1>1, <1>2, <1>3, FoldValues
<1>5. \A s \in SUBSET S : s # {} =>
        op[<<pick[s], g[s \ {pick[s]}]>>] = f[Pick(s)] + g[s \ {Pick(s)}]
  BY <1>1, <1>2, <1>4
<1>6. IsSum(g, f, S)
  BY <1>3, <1>5 DEF IsFold, IsSum
<1> QED
  BY <1>6 DEF Partial

LEMMA PartialAgree ==
  ASSUME NEW S, IsFiniteSet(S), NEW f, \A x \in S : f[x] \in Int, NEW U, U \subseteq S
  PROVE  Partial(f, S)[U] = SumOver(f, U) /\ SumOver(f, U) \in Int
<1> DEFINE g == Partial(f, S)
           h == Partial(f, U)
           Bad == {s \in SUBSET U : g[s] # h[s] \/ h[s] \notin Int}
<1>0. IsSum(g, f, S) /\ IsSum(h, f, U)
  BY FS_Subset, PartialSums
<1> HIDE DEF g, h
<1>1. Bad = {}
  <2>1. SUFFICES ASSUME Bad # {} PROVE FALSE
    OBVIOUS
  <2>2. PICK s \in Bad : \A u \in Bad : ~(u \subseteq s /\ u # s)
    <3>1. Bad \subseteq SUBSET S
      OBVIOUS
    <3> HIDE DEF Bad
    <3> QED
      BY <2>1, <3>1, LeastSubset
  <2>3. /\ g[s] = IF s = {} THEN 0 ELSE f[Pick(s)] + g[s \ {Pick(s)}]
        /\ h[s] = IF s = {} THEN 0 ELSE f[Pick(s)] + h[s \ {Pick(s)}]
    BY <1>0 DEF IsSum
  <2>4. s # {} /\ Pick(s) \in s
    BY <2>3 DEF Pick
  <2>5. s \ {Pick(s)} \notin Bad /\ s \ {Pick(s)} \in SUBSET U /\ f[Pick(s)] \in Int
    BY <2>2, <2>4
  <2> QED
    BY <2>3, <2>4, <2>5
<1> QED
  BY <1>1, SumIsPartial DEF g, h

LEMMA SumEmpty ==
  ASSUME NEW f PROVE SumOver(f, {}) = 0
<1>1. IsSum(Partial(f, {}), f, {})
  BY FS_EmptySet, PartialSums
<1> QED
  BY <1>1, SumIsPartial DEF IsSum

(* A sum less one of its terms, whichever. *)
LEMMA SumRemove ==
  ASSUME NEW S, IsFiniteSet(S), NEW f, \A x \in S : f[x] \in Int, NEW x \in S
  PROVE  /\ SumOver(f, S) = f[x] + SumOver(f, S \ {x})
         /\ SumOver(f, S) \in Int /\ SumOver(f, S \ {x}) \in Int
<1>1. \A U \in SUBSET S : SumOver(f, U) \in Int
  BY PartialAgree
<1>2. ASSUME NEW s \in SUBSET S, s # {}
      PROVE  SumOver(f, s) = f[Pick(s)] + SumOver(f, s \ {Pick(s)})
  <2>1. IsSum(Partial(f, S), f, S) 
    BY PartialSums
  <2>2. Partial(f, S)[s] = f[Pick(s)] + Partial(f, S)[s \ {Pick(s)}]
    BY <1>2, <2>1 DEF IsSum
  <2> QED
    BY <2>2, PartialAgree
<1> DEFINE Bad == {s \in SUBSET S : \E y \in s : SumOver(f, s) # f[y] + SumOver(f, s \ {y})}
<1>3. Bad = {}
  <2>1. SUFFICES ASSUME Bad # {} PROVE FALSE
    OBVIOUS
  <2>2. PICK s \in Bad : \A u \in Bad : ~(u \subseteq s /\ u # s)
    <3>1. Bad \subseteq SUBSET S
      OBVIOUS
    <3> HIDE DEF Bad
    <3> QED
      BY <2>1, <3>1, LeastSubset
  <2>3. PICK y \in s : SumOver(f, s) # f[y] + SumOver(f, s \ {y})
    OBVIOUS
  <2> DEFINE p == Pick(s)
             r == s \ {p, y}
  <2>4. p \in s
    BY <2>3 DEF Pick
  <2>5. SumOver(f, s) = f[p] + SumOver(f, s \ {p})
    BY <1>2, <2>3
  <2>6. p # y
    BY <2>3, <2>5
  <2>7. s \ {p} \notin Bad /\ s \ {y} \notin Bad
    BY <2>2, <2>3, <2>4
  <2>8. (s \ {p}) \ {y} = r /\ (s \ {y}) \ {p} = r
    OBVIOUS
  <2>9. SumOver(f, s \ {p}) = f[y] + SumOver(f, r)
    BY <2>6, <2>7, <2>8
  <2>10. SumOver(f, s \ {y}) = f[p] + SumOver(f, r)
    BY <2>4, <2>6, <2>7, <2>8
  <2>11. f[p] \in Int /\ f[y] \in Int /\ SumOver(f, r) \in Int
    BY <1>1, <2>4
  <2> HIDE DEF p, r
  <2> QED
    BY <2>3, <2>5, <2>9, <2>10, <2>11
<1>4. SumOver(f, S) = f[x] + SumOver(f, S \ {x})
  BY <1>3
<1> QED
  BY <1>1, <1>4

LEMMA SumSame ==
  ASSUME NEW S, NEW f, NEW g, \A x \in S : f[x] = g[x]
  PROVE  SumOver(f, S) = SumOver(g, S)
<1>1. ASSUME NEW h PROVE IsSum(h, f, S) <=> IsSum(h, g, S)
  <2>1. \A s \in SUBSET S : s # {} => f[Pick(s)] = g[Pick(s)]
    BY DEF Pick
  <2>2. [s \in SUBSET S |-> IF s = {} THEN 0 ELSE f[Pick(s)] + h[s \ {Pick(s)}]]
          = [s \in SUBSET S |-> IF s = {} THEN 0 ELSE g[Pick(s)] + h[s \ {Pick(s)}]]
    BY <2>1
  <2> QED
    BY <2>2 DEF IsSum
<1>2. Partial(f, S) = Partial(g, S)
  BY <1>1 DEF Partial
<1> QED
  BY <1>2, SumIsPartial

(* One more term at the end of a sequence. *)
LEMMA SumExtends ==
  ASSUME NEW n \in Nat, NEW f, DOMAIN f = 1..n, NEW g, DOMAIN g = 1..(n + 1),
         \A j \in 1..n : f[j] \in Int /\ g[j] = f[j], g[n + 1] \in Int
  PROVE  SumFunction(g) = SumFunction(f) + g[n + 1] /\ SumFunction(f) \in Int
<1>0. /\ 1..(n + 1) = (1..n) \union {n + 1} /\ n + 1 \notin 1..n
      /\ \A j \in 1..n : g[j] \in Int
  OBVIOUS
<1>1. /\ IsFiniteSet(1..(n + 1)) /\ \A j \in 1..(n + 1) : g[j] \in Int
      /\ n + 1 \in 1..(n + 1) /\ (1..(n + 1)) \ {n + 1} = 1..n
  <2>1. IsFiniteSet(1..(n + 1))
    BY FS_Interval
  <2> QED
    BY <1>0, <2>1
<1>2. /\ SumOver(g, 1..(n + 1)) = g[n + 1] + SumOver(g, 1..n)
      /\ SumOver(g, 1..n) \in Int
  BY <1>1, SumRemove
<1>3. SumOver(g, 1..n) = SumOver(f, 1..n)
  BY SumSame
<1> QED
  BY <1>2, <1>3, SumFunctionIs

-----------------------------------------------------------------------------
(* What a program does to a Txn. *)
IsTxn(x) == x = [status_ |-> x.status_, reads_ |-> x.reads_, writes_ |-> x.writes_]

Stores(K, V) == UNION {[S -> V] : S \in SUBSET K}

(* Values a program stays among: it puts what it was constructed with, or adds
   one to what it has read, or to 0 where it has read nothing. *)
Closed(V)    == 1 \in V /\ \A v \in V : v + 1 \in V
PutsIn(p, V) == p.kind = "Put" => \A k \in DOMAIN p.m : p.m[k] \in V

LEMMA NewIs == IsTxn(NewTxn) /\ NewTxn.status_ = "INCOMPLETE" /\ NewTxn.writes_ = NoRecords
                /\ NewTxn.reads_ = NoRecords
  BY DEF IsTxn, NewTxn

LEMMA StatusIs ==
  ASSUME NEW x, IsTxn(x), NEW s
  PROVE  /\ IsTxn([x EXCEPT !.status_ = s])
         /\ [x EXCEPT !.status_ = s].status_ = s
         /\ [x EXCEPT !.status_ = s].writes_ = x.writes_
         /\ [x EXCEPT !.status_ = s].reads_ = x.reads_
<1>1. [x EXCEPT !.status_ = s] = [status_ |-> s, reads_ |-> x.reads_, writes_ |-> x.writes_]
  BY DEF IsTxn
<1> QED
  BY <1>1 DEF IsTxn

LEMMA VerdictIs ==
  ASSUME NEW x, IsTxn(x)
  PROVE  /\ x.status_ = "COMPLETED_C" => Verdict(x) = [x EXCEPT !.status_ = "COMMITTED"]
         /\ x.status_ = "COMPLETED_A" => Verdict(x) = [x EXCEPT !.status_ = "ABORTED"]
         /\ Verdict(x) # NewTxn
<1>1. Verdict(x) = [status_ |-> IF x.status_ = "COMPLETED_C" THEN "COMMITTED" ELSE "ABORTED",
                    reads_ |-> x.reads_, writes_ |-> x.writes_]
  BY DEF Verdict, IsTxn
<1>2. \A s : [x EXCEPT !.status_ = s] = [status_ |-> s, reads_ |-> x.reads_,
                                         writes_ |-> x.writes_]
  BY DEF IsTxn
<1>3. Verdict(x).status_ # "INCOMPLETE"
  BY <1>1
<1> QED
  BY <1>1, <1>2, <1>3, NewIs

LEMMA WritesAre ==
  ASSUME NEW p, NEW x
  PROVE  DOMAIN Writes(p, x) = WriteSet(p)
  BY DEF Writes, WriteSet, Incremented, NoRecords

LEMMA RunIs ==
  ASSUME NEW p, NEW x, IsTxn(x), x.status_ = "INCOMPLETE", x.writes_ = NoRecords
  PROVE  /\ IsTxn(Run(p, x))
         /\ Run(p, x).status_ \in {"COMPLETED_C", "COMPLETED_A"}
         /\ DOMAIN Run(p, x).writes_ = WriteSet(p)
<1>1. PICK m : m = Writes(p, x)
  OBVIOUS
<1>2. DOMAIN m = WriteSet(p)
  BY <1>1, WritesAre
<1>3. WriteAll(x, m) = [status_ |-> x.status_, reads_ |-> Over(m, x.reads_),
                        writes_ |-> Over(m, NoRecords)]
  BY DEF WriteAll, IsTxn
<1>4. DOMAIN Over(m, NoRecords) = DOMAIN m
  BY DEF Over, NoRecords
<1>5. Run(p, x) = [status_ |-> IF Commits(p, x) THEN "COMPLETED_C" ELSE "COMPLETED_A",
                   reads_ |-> Over(m, x.reads_), writes_ |-> Over(m, NoRecords)]
  BY <1>1, <1>3 DEF Run
<1> QED
  BY <1>2, <1>4, <1>5 DEF IsTxn

LEMMA StoreIs ==
  ASSUME NEW K, NEW V
  PROVE  /\ \A f \in Stores(K, V) : DOMAIN f \subseteq K /\ \A k \in DOMAIN f : f[k] \in V
         /\ NoRecords \in Stores(K, V)
<1>1. ASSUME NEW f \in Stores(K, V)
      PROVE  DOMAIN f \subseteq K /\ \A k \in DOMAIN f : f[k] \in V
  <2>1. PICK S \in SUBSET K : f \in [S -> V]
    BY DEF Stores
  <2> QED
    BY <2>1
<1>2. NoRecords \in [{} -> V] /\ {} \in SUBSET K
  BY DEF NoRecords
<1> QED
  BY <1>1, <1>2 DEF Stores

LEMMA OverIs ==
  ASSUME NEW K, NEW V, NEW f, DOMAIN f \subseteq K, \A k \in DOMAIN f : f[k] \in V,
         NEW g \in Stores(K, V)
  PROVE  Over(f, g) \in Stores(K, V)
<1>1. DOMAIN g \subseteq K /\ \A k \in DOMAIN g : g[k] \in V
  BY StoreIs
<1>2. Over(f, g) \in [DOMAIN f \union DOMAIN g -> V]
  BY <1>1 DEF Over
<1> QED
  BY <1>1, <1>2 DEF Stores

LEMMA WrittenValues ==
  ASSUME NEW K, NEW V, Closed(V), NEW p, WriteSet(p) \subseteq K, PutsIn(p, V),
         NEW x, x.reads_ \in Stores(K, V)
  PROVE  /\ DOMAIN Writes(p, x) \subseteq K
         /\ \A k \in DOMAIN Writes(p, x) : Writes(p, x)[k] \in V
<1>1. DOMAIN Writes(p, x) \subseteq K
  BY WritesAre
<1>2. \A k \in DOMAIN x.reads_ : x.reads_[k] \in V
  BY StoreIs
<1>3. CASE p.kind = "Put"
  BY <1>1, <1>3 DEF Writes, PutsIn
<1>4. CASE p.kind = "RMW"
  <2>1. Writes(p, x) = [k \in p.writeset |-> (IF CanRead(x, k) THEN x.reads_[k] ELSE 0) + 1]
    BY <1>4 DEF Writes, Incremented
  <2>2. ASSUME NEW k PROVE (IF CanRead(x, k) THEN x.reads_[k] ELSE 0) + 1 \in V
    <3>1. CASE CanRead(x, k)
      <4>1. x.reads_[k] \in V
        BY <1>2, <3>1 DEF CanRead
      <4> QED
        BY <3>1, <4>1 DEF Closed
    <3>2. CASE ~CanRead(x, k)
      BY <3>2 DEF Closed
    <3> QED
      BY <3>1, <3>2
  <2> QED
    BY <1>1, <2>1, <2>2
<1>5. CASE p.kind \notin {"Put", "RMW"}
  BY <1>1, <1>5 DEF Writes, NoRecords
<1> QED
  BY <1>3, <1>4, <1>5

LEMMA RunValues ==
  ASSUME NEW K, NEW V, Closed(V), NEW p, WriteSet(p) \subseteq K, PutsIn(p, V),
         NEW x, IsTxn(x), x.status_ = "INCOMPLETE", x.writes_ = NoRecords,
         x.reads_ \in Stores(K, V)
  PROVE  Run(p, x).reads_ \in Stores(K, V) /\ Run(p, x).writes_ \in Stores(K, V)
<1>1. PICK m : m = Writes(p, x)
  OBVIOUS
<1>2. DOMAIN m \subseteq K /\ \A k \in DOMAIN m : m[k] \in V
  BY <1>1, WrittenValues
<1>3. WriteAll(x, m) = [status_ |-> x.status_, reads_ |-> Over(m, x.reads_),
                        writes_ |-> Over(m, NoRecords)]
  BY DEF WriteAll, IsTxn
<1>4. Run(p, x).reads_ = Over(m, x.reads_) /\ Run(p, x).writes_ = Over(m, NoRecords)
  BY <1>1, <1>3 DEF Run
<1>5. NoRecords \in Stores(K, V)
  BY StoreIs
<1>6. Over(m, x.reads_) \in Stores(K, V)
  BY <1>2, OverIs
<1>7. Over(m, NoRecords) \in Stores(K, V)
  BY <1>2, <1>5, OverIs
<1> QED
  BY <1>4, <1>6, <1>7

(* A transaction that has read nothing but one store, and then ran. *)
LEMMA ReadAllIs ==
  ASSUME NEW p, NEW store
  PROVE  /\ IsTxn(ReadAll(p, NewTxn, store))
         /\ ReadAll(p, NewTxn, store).status_ = "INCOMPLETE"
         /\ ReadAll(p, NewTxn, store).writes_ = NoRecords
         /\ ReadAll(p, NewTxn, store).reads_ =
              Over([k \in KeySet(p) \cap DOMAIN store |-> store[k]], NoRecords)
  BY NewIs DEF ReadAll, IsTxn, NewTxn

LEMMA RunOnIs ==
  ASSUME NEW p, NEW store
  PROVE  /\ IsTxn(RunOn(p, NewTxn, store))
         /\ RunOn(p, NewTxn, store).status_ \in {"COMPLETED_C", "COMPLETED_A"}
         /\ DOMAIN RunOn(p, NewTxn, store).writes_ = WriteSet(p)
<1>1. PICK x : x = ReadAll(p, NewTxn, store)
  OBVIOUS
<1>2. IsTxn(x) /\ x.status_ = "INCOMPLETE" /\ x.writes_ = NoRecords
  BY <1>1, ReadAllIs
<1> QED
  BY <1>1, <1>2, RunIs DEF RunOn

LEMMA RunOnValues ==
  ASSUME NEW K, NEW V, Closed(V), NEW p, KeySet(p) \subseteq K, PutsIn(p, V),
         NEW store, \A k \in DOMAIN store : store[k] \in V
  PROVE  /\ RunOn(p, NewTxn, store).reads_ \in Stores(K, V)
         /\ RunOn(p, NewTxn, store).writes_ \in Stores(K, V)
<1>1. PICK x : x = ReadAll(p, NewTxn, store)
  OBVIOUS
<1>2. PICK f : f = [k \in KeySet(p) \cap DOMAIN store |-> store[k]]
  OBVIOUS
<1>3. IsTxn(x) /\ x.status_ = "INCOMPLETE" /\ x.writes_ = NoRecords
      /\ x.reads_ = Over(f, NoRecords)
  BY <1>1, <1>2, ReadAllIs
<1>4. DOMAIN f \subseteq K /\ \A k \in DOMAIN f : f[k] \in V
  BY <1>2
<1>5. NoRecords \in Stores(K, V)
  BY StoreIs
<1>6. x.reads_ \in Stores(K, V)
  BY <1>3, <1>4, <1>5, OverIs
<1>7. WriteSet(p) \subseteq K
  BY DEF KeySet
<1> QED
  BY <1>1, <1>3, <1>6, <1>7, RunValues DEF RunOn
===============================================================================
