------------------------ MODULE LockingSchedulerProofs ------------------------
(***************************************************************************)
(* The locking scheduler for any number of transactions, keys and workers: *)
(* what it is given it keeps and hands back once, whatever lock manager it *)
(* is linked with; and linked with A or B it is a serial database.         *)
(***************************************************************************)
EXTENDS LockingScheduler, CommonFacts

-----------------------------------------------------------------------------
(* The lock table: what the calls of a lock manager do to a table in which
   nobody has asked for a key twice; who holds what, and who waits, afterwards. *)

Requests(S) == [txn_ : S, mode_ : {"SHARED", "EXCLUSIVE"}]

Increasing(s) == \A i, j \in DOMAIN s : i < j => s[i] < s[j]

(* t has a request in queue q. *)
In(q, t) == \E i \in DOMAIN q : q[i].txn_ = t

(* t has a request in queue q, and it does not hold the lock. *)
WaitsIn(q, t) == \E i \in DOMAIN q : q[i].txn_ = t /\ ~Granted(q, i)

(* Nobody has asked twice. *)
Once(q) == \A i, j \in DOMAIN q : q[i].txn_ = q[j].txn_ => i = j

(* The requests of p are requests of q, in the order of q. *)
Thinned(p, q) ==
  /\ \A i \in DOMAIN p : \E a \in DOMAIN q : p[i] = q[a]
  /\ \A i, j \in DOMAIN p : i < j =>
       \E a, b \in DOMAIN q : a < b /\ p[i] = q[a] /\ p[j] = q[b]

-----------------------------------------------------------------------------
LEMMA FiniteNumbers ==
  ASSUME NEW n \in Nat, NEW R, R \subseteq 1..n
  PROVE  IsFiniteSet(R)
<1>1. IsFiniteSet(1..n)
  BY FS_Interval
<1> QED
  BY <1>1, FS_Subset

(* InOrder enumerates a set of numbers. *)
LEMMA Enumerable ==
  ASSUME NEW n \in Nat, NEW R, R \subseteq 1..n
  PROVE  \E s \in [1..Cardinality(R) -> R] : Increasing(s)
<1> DEFINE Listed(T) == \E s \in [1..Cardinality(T) -> T] : Increasing(s)
           Bad       == {T \in SUBSET R : ~Listed(T)}
<1>0. IsFiniteSet(R)
  BY FiniteNumbers
<1>1. Listed({})
  <2>1. Cardinality({}) = 0 /\ 1..0 = {}
    BY FS_EmptySet
  <2>2. [i \in 1..0 |-> 0] \in [1..0 -> {}] /\ Increasing([i \in 1..0 |-> 0])
    BY <2>1 DEF Increasing
  <2> QED
    BY <2>1, <2>2
<1>2. SUFFICES ASSUME Bad # {} PROVE FALSE
  OBVIOUS
<1>3. PICK T \in Bad : \A U \in Bad : <<U, T>> \notin StrictSubsetOrdering(R)
  <2>1. Bad \subseteq FiniteSubsetsOf(R)
    BY <1>0, FS_FiniteSubsetsOfFinite
  <2> HIDE DEF Bad
  <2> QED
    BY <1>2, <2>1, FS_StrictSubsetOrderingWellFounded, WFMin
<1>4. T \subseteq 1..n /\ T # {} /\ IsFiniteSet(T)
  BY <1>0, <1>1, FS_Subset
<1>5. PICK m \in T : \A j \in T : j <= m
  BY <1>4, GreatestNumber
<1> DEFINE U == T \ {m}
           c == Cardinality(U)
<1>6. Listed(U)
  <2>1. <<U, T>> \in StrictSubsetOrdering(R)
    BY DEF StrictSubsetOrdering
  <2>2. U \in SUBSET R
    OBVIOUS
  <2> HIDE DEF Listed
  <2> QED
    BY <1>3, <2>1, <2>2
<1>7. PICK s \in [1..c -> U] : Increasing(s)
  BY <1>6
<1>8. c \in Nat /\ Cardinality(T) = c + 1
  <2>1. IsFiniteSet(U) /\ c = Cardinality(T) - 1
    BY <1>4, FS_RemoveElement
  <2>2. c \in Nat /\ Cardinality(T) \in Nat
    BY <1>4, <2>1, FS_CardinalityType
  <2> QED
    BY <2>1, <2>2
<1> DEFINE e == [i \in 1..(c + 1) |-> IF i = c + 1 THEN m ELSE s[i]]
<1>9. e \in [1..Cardinality(T) -> T]
  <2> HIDE DEF c
  <2> QED
    BY <1>7, <1>8
<1>10. Increasing(e)
  <2>1. \A i \in 1..c : s[i] \in Nat /\ s[i] < m
    <3> HIDE DEF c
    <3>1. \A j \in U : j \in Nat /\ j < m
      BY <1>4, <1>5
    <3> QED
      BY <1>7, <3>1
  <2> HIDE DEF c
  <2> QED
    BY <1>7, <1>8, <2>1 DEF Increasing
<1> QED
  BY <1>9, <1>10

LEMMA InOrderLists ==
  ASSUME NEW n \in Nat, NEW R, R \subseteq 1..n
  PROVE  /\ Cardinality(R) \in Nat
         /\ InOrder(R) \in [1..Cardinality(R) -> R]
         /\ IsInjective(InOrder(R))
         /\ \A r \in R : \E i \in 1..Cardinality(R) : InOrder(R)[i] = r
<1> DEFINE s == InOrder(R)
           c == Cardinality(R)
<1>1. IsFiniteSet(R) /\ c \in Nat
  BY FiniteNumbers, FS_CardinalityType
<1>2. s \in [1..c -> R] /\ Increasing(s)
  BY Enumerable DEF InOrder, Increasing
<1>3. IsInjective(s)
  <2>0. \A x \in R : x \in Nat
    OBVIOUS
  <2> HIDE DEF s, c
  <2>2. \A i \in 1..c : s[i] \in Nat
    BY <1>2, <2>0
  <2>1. \A i, j \in 1..c : i = j \/ i < j \/ j < i
    BY <1>1
  <2> QED
    BY <1>2, <2>1, <2>2 DEF Increasing, IsInjective
<1>4. s \in Surjection(1..c, R)
  <2>1. s \in Injection(1..c, R) /\ IsFiniteSet(1..c) /\ Cardinality(1..c) = c
    BY <1>1, <1>2, <1>3, FS_Interval DEF Injection
  <2> HIDE DEF s, c
  <2>2. Cardinality(R) = c
    BY DEF c
  <2> QED
    BY <1>1, <2>1, <2>2, FS_Injection
<1> QED
  BY <1>1, <1>2, <1>3, <1>4 DEF Surjection

-----------------------------------------------------------------------------
(* The owners of a key are the transactions of its first requests. *)
LEMMA GrantedDownward ==
  ASSUME NEW S, NEW q \in Seq(Requests(S)), NEW i \in DOMAIN q, Granted(q, i), NEW j \in 1..i
  PROVE  j \in DOMAIN q /\ Granted(q, j)
<1>1. Len(q) \in Nat /\ DOMAIN q = 1..Len(q)
  BY LenProperties
<1> QED
  BY <1>1 DEF Granted

LEMMA OwnersAre ==
  ASSUME NEW S, NEW q \in Seq(Requests(S))
  PROVE  /\ DOMAIN Owners(q) = {i \in DOMAIN q : Granted(q, i)}
         /\ DOMAIN Owners(q) \subseteq 1..Len(q)
         /\ Owners(q) \in Seq(S)
         /\ \A i \in DOMAIN Owners(q) : Owners(q)[i] = q[i].txn_
<1> DEFINE held == {i \in DOMAIN q : Granted(q, i)}
<1>1. Len(q) \in Nat /\ q \in [1..Len(q) -> Requests(S)] /\ DOMAIN q = 1..Len(q)
  BY LenProperties
<1>2. held \subseteq 1..Len(q) /\ \A i \in held : \A j \in 1..i : j \in held
  BY <1>1, GrantedDownward
<1>3. Cardinality(held) \in 0..Len(q) /\ held = 1..Cardinality(held)
  <2> HIDE DEF held
  <2> QED
    BY <1>1, <1>2, InitialSegment
<1>4. Owners(q) = [i \in 1..Cardinality(held) |-> q[i].txn_]
  BY DEF Owners
<1>5. \A i \in held : q[i].txn_ \in S
  BY <1>1 DEF Requests
<1>6. Owners(q) \in [1..Cardinality(held) -> S]
  <2> HIDE DEF held
  <2> QED
    BY <1>3, <1>4, <1>5
<1>7. Owners(q) \in Seq(S)
  <2> HIDE DEF held
  <2> QED
    BY <1>3, <1>6, IsASeq
<1> HIDE DEF held
<1>8. DOMAIN Owners(q) = held
  BY <1>3, <1>4
<1> QED
  BY <1>2, <1>3, <1>4, <1>7, <1>8 DEF held

-----------------------------------------------------------------------------
(* ReadLock and WriteLock. *)
LEMMA AppendRequest ==
  ASSUME NEW S, NEW q \in Seq(Requests(S)), NEW r \in Requests(S)
  PROVE  LET p == Append(q, r) IN
         /\ p \in Seq(Requests(S))
         /\ Len(p) = Len(q) + 1
         /\ DOMAIN q \subseteq DOMAIN p
         /\ \A i \in DOMAIN q : p[i] = q[i] /\ (Granted(p, i) <=> Granted(q, i))
         /\ p[Len(p)] = r /\ Len(p) \in DOMAIN p /\ DOMAIN p = DOMAIN q \union {Len(p)}
         /\ \A t : In(p, t) <=> In(q, t) \/ t = r.txn_
         /\ \A t : t # r.txn_ => (WaitsIn(p, t) <=> WaitsIn(q, t))
         /\ ~In(q, r.txn_) => (WaitsIn(p, r.txn_) <=> ~Granted(p, Len(p)))
<1> DEFINE p == Append(q, r)
<1>1. /\ p \in Seq(Requests(S)) /\ Len(p) = Len(q) + 1
      /\ \A i \in 1..Len(q) : p[i] = q[i]
      /\ p[Len(q) + 1] = r
  BY AppendProperties
<1>2. Len(q) \in Nat /\ DOMAIN q = 1..Len(q) /\ DOMAIN p = 1..(Len(q) + 1)
  BY <1>1, LenProperties
<1> HIDE DEF p
<1>3. DOMAIN q \subseteq DOMAIN p /\ DOMAIN p = DOMAIN q \union {Len(p)} /\ p[Len(p)] = r
  BY <1>1, <1>2
<1>4. \A i \in DOMAIN q : p[i] = q[i] /\ (Granted(p, i) <=> Granted(q, i))
  BY <1>1, <1>2 DEF Granted
<1>5. \A t : In(p, t) <=> In(q, t) \/ t = r.txn_
  BY <1>3, <1>4 DEF In
<1>6. \A t : t # r.txn_ => (WaitsIn(p, t) <=> WaitsIn(q, t))
  BY <1>3, <1>4 DEF WaitsIn
<1>7. ~In(q, r.txn_) => (WaitsIn(p, r.txn_) <=> ~Granted(p, Len(p)))
  BY <1>3, <1>4 DEF In, WaitsIn
<1> QED
  BY <1>1, <1>3, <1>4, <1>5, <1>6, <1>7 DEF p
-----------------------------------------------------------------------------
(* Release: a queue without its request at position r. *)
LEMMA DropRequest ==
  ASSUME NEW S, NEW q \in Seq(Requests(S)), Once(q), NEW r \in 1..Len(q)
  PROVE  LET p == RemoveAt(q, r) IN
         /\ p \in Seq(Requests(S)) /\ Once(p)
         /\ \A u : In(p, u) <=> In(q, u) /\ u # q[r].txn_
         /\ \A u : WaitsIn(p, u) => WaitsIn(q, u)
         /\ Thinned(p, q)
<1> DEFINE p     == RemoveAt(q, r)
           At(i) == IF i < r THEN i ELSE i + 1
<1>1. /\ p \in Seq(Requests(S)) /\ Len(p) = Len(q) - 1
      /\ \A i \in 1..(Len(q) - 1) : p[i] = IF i < r THEN q[i] ELSE q[i + 1]
  BY DropFromQueue
<1>2. Len(q) \in Nat /\ DOMAIN q = 1..Len(q) /\ DOMAIN p = 1..(Len(q) - 1)
  BY <1>1, LenProperties
<1> HIDE DEF p
<1>3. \A i \in DOMAIN p : At(i) \in DOMAIN q /\ At(i) # r /\ p[i] = q[At(i)]
  BY <1>1, <1>2
<1>4. \A i, j \in DOMAIN p : i < j => At(i) < At(j)
  BY <1>2
<1>5. ASSUME NEW a \in DOMAIN q, a # r PROVE \E i \in DOMAIN p : At(i) = a
  <2>1. CASE a < r
    BY <1>2, <2>1
  <2>2. CASE a > r
    <3>1. a - 1 \in DOMAIN p /\ At(a - 1) = a
      BY <1>2, <2>2
    <3> QED
      BY <3>1
  <2> QED
    BY <1>2, <1>5, <2>1, <2>2
<1>6. ASSUME NEW i \in DOMAIN p, Granted(q, At(i)) PROVE Granted(p, i)
  <2>1. CASE i = 1
    BY <2>1 DEF Granted
  <2>2. CASE i # 1
    <3>1. \A j \in 1..At(i) : q[j].mode_ = "SHARED"
      BY <1>2, <1>6, <2>2 DEF Granted
    <3>2. \A j \in 1..i : j \in DOMAIN p /\ At(j) \in 1..At(i)
      BY <1>2
    <3>3. \A j \in 1..i : p[j].mode_ = "SHARED"
      <4> HIDE DEF At
      <4> QED
        BY <1>3, <3>1, <3>2
    <3> QED
      BY <3>3 DEF Granted
  <2> QED
    BY <2>1, <2>2
<1> HIDE DEF At
<1>7. Once(p)
  <2>1. \A i, j \in DOMAIN p : i = j \/ i < j \/ j < i
    BY <1>2
  <2>2. \A i \in DOMAIN p : At(i) \in Nat
    BY <1>2, <1>3
  <2> QED
    BY <1>3, <1>4, <2>1, <2>2 DEF Once
<1>8. \A u : In(p, u) <=> In(q, u) /\ u # q[r].txn_
  <2>1. \A u : In(p, u) => In(q, u) /\ u # q[r].txn_
    BY <1>2, <1>3 DEF In, Once
  <2>2. ASSUME NEW u, In(q, u), u # q[r].txn_ PROVE In(p, u)
    <3>1. PICK a \in DOMAIN q : q[a].txn_ = u
      BY <2>2 DEF In
    <3>2. PICK i \in DOMAIN p : At(i) = a
      BY <1>5, <2>2, <3>1
    <3> QED
      BY <1>3, <3>1, <3>2 DEF In
  <2> QED
    BY <2>1, <2>2
<1>9. \A u : WaitsIn(p, u) => WaitsIn(q, u)
  BY <1>3, <1>6 DEF WaitsIn
<1>10. Thinned(p, q)
  BY <1>3, <1>4 DEF Thinned
<1> QED
  BY <1>1, <1>7, <1>8, <1>9, <1>10 DEF p

LEMMA ReleasedAre ==
  ASSUME NEW K, NEW S, NEW table \in [K -> Seq(Requests(S))], NEW t, NEW k \in K
  PROVE  \/ ~In(table[k], t) /\ Released(table, t, k) = table
         \/ \E r \in 1..Len(table[k]) :
              /\ table[k][r].txn_ = t
              /\ Released(table, t, k) = [table EXCEPT ![k] = RemoveAt(table[k], r)]
<1> DEFINE q == table[k]
           I == {i \in 1..Len(q) : q[i].txn_ = t}
<1>1. Len(q) \in Nat /\ DOMAIN q = 1..Len(q)
  BY LenProperties
<1>2. Released(table, t, k) =
        [table EXCEPT ![k] = IF \E i \in 1..Len(q) : q[i].txn_ = t
           THEN RemoveAt(q, IF I # {} THEN Min(I) ELSE 0) ELSE q]
  BY DEF Released, RemoveFirstMatch, SelectInSeq
<1>3. CASE I = {}
  <2>1. ~In(q, t)
    BY <1>1, <1>3 DEF In
  <2>2. Released(table, t, k) = [table EXCEPT ![k] = q]
    BY <1>2, <1>3
  <2> QED
    BY <2>1, <2>2
<1>4. CASE I # {}
  <2>1. I \subseteq Nat
    BY <1>1
  <2>2. Min(I) \in I
    <3> HIDE DEF I
    <3> QED
      BY <1>4, <2>1, MinIsLeast
  <2>3. Released(table, t, k) = [table EXCEPT ![k] = RemoveAt(q, Min(I))]
    BY <1>2, <1>4
  <2> QED
    BY <2>2, <2>3
<1> QED
  BY <1>3, <1>4

LEMMA WaitingIs ==
  ASSUME NEW table, NEW t
  PROVE  Waiting(table, t) <=> \E k \in DOMAIN table : WaitsIn(table[k], t)
  BY DEF Waiting, WaitsIn

(* The table after a Release has the same requests but one, in the same order;
   who did not wait before does not wait now. *)
LEMMA ReleaseKeeps ==
  ASSUME NEW K, NEW S, NEW table \in [K -> Seq(Requests(S))],
         \A j \in K : Once(table[j]), NEW t, NEW k \in K
  PROVE  LET new == Released(table, t, k) IN
         /\ new \in [K -> Seq(Requests(S))]
         /\ \A j \in K : Once(new[j])
         /\ \A j \in K, u \in S : In(new[j], u) <=> In(table[j], u) /\ ~(j = k /\ u = t)
         /\ \A j \in K \ {k} : new[j] = table[j]
         /\ \A u : Waiting(new, u) => Waiting(table, u)
         /\ \A j \in K : Thinned(new[j], table[j])
<1> DEFINE new == Released(table, t, k)
<1>1. CASE ~In(table[k], t) /\ new = table
  BY <1>1 DEF Thinned
<1>2. ASSUME NEW r \in 1..Len(table[k]), table[k][r].txn_ = t,
             new = [table EXCEPT ![k] = RemoveAt(table[k], r)]
      PROVE  /\ new \in [K -> Seq(Requests(S))]
             /\ \A j \in K : Once(new[j])
             /\ \A j \in K, u \in S : In(new[j], u) <=> In(table[j], u) /\ ~(j = k /\ u = t)
             /\ \A j \in K \ {k} : new[j] = table[j]
             /\ \A u : Waiting(new, u) => Waiting(table, u)
             /\ \A j \in K : Thinned(new[j], table[j])
  <2> DEFINE p == RemoveAt(table[k], r)
  <2>1. /\ p \in Seq(Requests(S)) /\ Once(p)
        /\ \A u : In(p, u) <=> In(table[k], u) /\ u # t
        /\ \A u : WaitsIn(p, u) => WaitsIn(table[k], u)
        /\ Thinned(p, table[k])
    BY <1>2, DropRequest
  <2> HIDE DEF p
  <2>2. new = [table EXCEPT ![k] = p]
    BY <1>2 DEF p
  <2> HIDE DEF new
  <2>3. new \in [K -> Seq(Requests(S))] /\ new[k] = p /\ \A j \in K \ {k} : new[j] = table[j]
    BY <2>1, <2>2
  <2>4. \A j \in K : Once(new[j])
    BY <2>1, <2>3
  <2>5. \A j \in K, u \in S : In(new[j], u) <=> In(table[j], u) /\ ~(j = k /\ u = t)
    BY <2>1, <2>3
  <2>6. \A u : Waiting(new, u) => Waiting(table, u)
    BY <2>1, <2>3, WaitingIs
  <2>7. \A j \in K : Thinned(new[j], table[j])
    <3>1. \A j \in K : Thinned(table[j], table[j])
      BY DEF Thinned
    <3> QED
      BY <2>1, <2>3, <3>1
  <2> QED
    BY <2>3, <2>4, <2>5, <2>6, <2>7
<1> QED
  <2> HIDE DEF new
  <2>1. \/ ~In(table[k], t) /\ new = table
        \/ \E r \in 1..Len(table[k]) :
             /\ table[k][r].txn_ = t
             /\ new = [table EXCEPT ![k] = RemoveAt(table[k], r)]
    BY ReleasedAre DEF new
  <2>2. CASE ~In(table[k], t) /\ new = table
    BY <1>1, <2>2 DEF new
  <2>3. CASE \E r \in 1..Len(table[k]) :
             /\ table[k][r].txn_ = t
             /\ new = [table EXCEPT ![k] = RemoveAt(table[k], r)]
    <3>1. PICK r \in 1..Len(table[k]) : 
             /\ table[k][r].txn_ = t
             /\ new = [table EXCEPT ![k] = RemoveAt(table[k], r)]
      BY <2>3
    <3> QED
      BY <1>2, <3>1 DEF new
  <2> QED
    BY <2>1, <2>2, <2>3

(* Release makes ready exactly the transactions that no longer wait, each once. *)
LEMMA MadeReadyAre ==
  ASSUME NEW K, NEW S, NEW table \in [K -> Seq(Requests(S))],
         \A j \in K : Once(table[j]), NEW t \in S, NEW k \in K, ~Waiting(table, t)
  PROVE  /\ MadeReady(table, t, k) \in Seq(S)
         /\ IsInjective(MadeReady(table, t, k))
         /\ \A u \in S : u \in ToSet(MadeReady(table, t, k)) <=>
              Waiting(table, u) /\ ~Waiting(Released(table, t, k), u)
<1> DEFINE new   == Released(table, t, k)
           p     == new[k]
           owner == Owners(p)
           Freed(u) == Waiting(table, u) /\ ~Waiting(new, u)
           ready == {i \in DOMAIN owner : Freed(owner[i])}
           n     == Cardinality(ready)
           m     == MadeReady(table, t, k)
<1>1. m = [i \in 1..n |-> owner[InOrder(ready)[i]]]
  BY DEF MadeReady
<1>2. /\ new \in [K -> Seq(Requests(S))] /\ Once(p)
      /\ \A j \in K, u \in S : In(new[j], u) <=> In(table[j], u) /\ ~(j = k /\ u = t)
      /\ \A j \in K \ {k} : new[j] = table[j]
  BY ReleaseKeeps
<1> HIDE DEF new
<1>3. /\ DOMAIN owner = {i \in DOMAIN p : Granted(p, i)}
      /\ DOMAIN owner \subseteq 1..Len(p) /\ Len(p) \in Nat
      /\ owner \in Seq(S)
      /\ \A i \in DOMAIN owner : owner[i] = p[i].txn_
  BY ZenonT(40), <1>2, OwnersAre, LenProperties
<1> HIDE DEF owner, p
<1>4. ready \subseteq 1..Len(p)
  BY <1>3
<1> HIDE DEF ready
<1>5. /\ n \in Nat /\ InOrder(ready) \in [1..n -> ready] /\ IsInjective(InOrder(ready))
      /\ \A r \in ready : \E i \in 1..n : InOrder(ready)[i] = r
  BY <1>3, <1>4, InOrderLists
<1>6. \A i \in DOMAIN owner : owner[i] \in S
  BY <1>3, QueueIndex
<1>7. ready \subseteq DOMAIN owner
  BY DEF ready
<1> HIDE DEF n, m
<1>8. m \in Seq(S) /\ DOMAIN m = 1..n
  <2>1. m \in [1..n -> S]
    BY <1>1, <1>5, <1>6, <1>7
  <2> QED
    BY <1>5, <2>1, IsASeq
<1>9. IsInjective(m)
  <2> SUFFICES ASSUME NEW i \in 1..n, NEW j \in 1..n, m[i] = m[j] PROVE i = j
    BY <1>8 DEF IsInjective
  <2>1. PICK a \in ready, b \in ready : a = InOrder(ready)[i] /\ b = InOrder(ready)[j]
    BY <1>5
  <2>2. p[a].txn_ = p[b].txn_ /\ a \in DOMAIN p /\ b \in DOMAIN p
    BY <1>1, <1>3, <1>7, <2>1
  <2>3. a = b
    BY <1>2, <2>2 DEF Once
  <2> QED
    BY <1>5, <2>1, <2>3 DEF IsInjective
<1>10. ToSet(m) = {owner[i] : i \in ready}
  BY <1>1, <1>5, <1>8 DEF ToSet
<1>11. ASSUME NEW u \in S, u \in ToSet(m) PROVE Freed(u)
  BY <1>10, <1>11 DEF ready
<1>12. ASSUME NEW u \in S, Freed(u) PROVE u \in ToSet(m)
  <2>1. PICK j \in K : WaitsIn(table[j], u)
    BY <1>12, WaitingIs
  <2>2. ~WaitsIn(new[j], u) /\ u # t
    BY <1>2, <1>12, WaitingIs
  <2>3. In(table[j], u) /\ j = k
    BY <1>2, <2>1, <2>2 DEF WaitsIn, In
  <2>4. PICK i \in DOMAIN p : p[i].txn_ = u
    BY <1>2, <2>2, <2>3 DEF In, p
  <2>5. Granted(p, i)
    BY <2>2, <2>3, <2>4 DEF WaitsIn, p
  <2>6. i \in DOMAIN owner /\ owner[i] = u
    BY <1>3, <2>4, <2>5
  <2>7. i \in ready
    BY <1>12, <2>6 DEF ready
  <2> QED
    BY <1>10, <2>6, <2>7
<1> QED
  BY <1>8, <1>9, <1>11, <1>12 DEF m, new

-----------------------------------------------------------------------------
(* ReadLock and WriteLock of a key that t has not asked for: only t may come
   to wait, and it does when it was not granted the lock. *)
LEMMA RequestKeeps ==
  ASSUME NEW K, NEW S, NEW table \in [K -> Seq(Requests(S))],
         \A j \in K : Once(table[j]), NEW t \in S, NEW k \in K, ~In(table[k], t),
         NEW mode \in {"SHARED", "EXCLUSIVE"}, NEW manager \in {"A", "B"}
  PROVE  LET new == Requested(manager, table, t, k, mode)
             e   == LockRequest(t, IF manager = "A" THEN "EXCLUSIVE" ELSE mode)
         IN
         /\ new \in [K -> Seq(Requests(S))]
         /\ \A j \in K : Once(new[j])
         /\ \A j \in K, u \in S : In(new[j], u) <=> In(table[j], u) \/ (j = k /\ u = t)
         /\ \A j \in K \ {k} : new[j] = table[j]
         /\ \A i \in DOMAIN new[k] :
              \/ i \in DOMAIN table[k] /\ new[k][i] = table[k][i]
              \/ (\A j \in DOMAIN table[k] : j < i) /\ new[k][i] = e
         /\ \A u \in S \ {t} : Waiting(new, u) <=> Waiting(table, u)
         /\ Waiting(new, t) <=> Waiting(table, t) \/ ~RequestGranted(manager, table, t, k, mode)
<1> DEFINE new == Requested(manager, table, t, k, mode)
           e   == LockRequest(t, IF manager = "A" THEN "EXCLUSIVE" ELSE mode)
           q   == table[k]
           p   == Append(q, e)
<1>1. e \in Requests(S) /\ e.txn_ = t
  BY DEF LockRequest, Requests
<1>2. new = [table EXCEPT ![k] = p]
  BY DEF Requested, LockRequest
<1>3. RequestGranted(manager, table, t, k, mode) <=> Granted(new[k], Len(new[k]))
  BY DEF RequestGranted
<1> HIDE DEF e, new
<1>4. /\ p \in Seq(Requests(S)) /\ Len(p) = Len(q) + 1
      /\ \A i \in DOMAIN q : p[i] = q[i]
      /\ p[Len(p)] = e /\ DOMAIN p = DOMAIN q \union {Len(p)}
      /\ \A u : In(p, u) <=> In(q, u) \/ u = t
      /\ \A u : u # t => (WaitsIn(p, u) <=> WaitsIn(q, u))
      /\ WaitsIn(p, t) <=> ~Granted(p, Len(p))
  BY <1>1, AppendRequest
<1> HIDE DEF p
<1>5. /\ new \in [K -> Seq(Requests(S))] /\ new[k] = p /\ DOMAIN new = K
      /\ \A j \in K \ {k} : new[j] = table[j]
  BY <1>2, <1>4
<1>6. Len(q) \in Nat /\ DOMAIN q = 1..Len(q)
  BY LenProperties
<1>7. Once(p)
  BY SMTT(30), <1>1, <1>4, <1>6 DEF Once, In
<1>8. \A j \in K : Once(new[j])
  BY <1>5, <1>7
<1>9. \A j \in K, u \in S : In(new[j], u) <=> In(table[j], u) \/ (j = k /\ u = t)
  BY <1>4, <1>5
<1>10. \A i \in DOMAIN new[k] :
         \/ i \in DOMAIN q /\ new[k][i] = q[i]
         \/ (\A j \in DOMAIN q : j < i) /\ new[k][i] = e
  BY <1>4, <1>5, <1>6
<1>11. \A u \in S \ {t} : Waiting(new, u) <=> Waiting(table, u)
  BY <1>4, <1>5, WaitingIs
<1>12. Waiting(new, t) <=> Waiting(table, t) \/ ~Granted(p, Len(p))
  <2>1. ~WaitsIn(q, t)
    BY DEF WaitsIn, In
  <2> QED
    BY <1>4, <1>5, <2>1, WaitingIs
<1> QED
  BY <1>3, <1>5, <1>8, <1>9, <1>10, <1>11, <1>12 DEF e, new

-----------------------------------------------------------------------------
(* Who waits for nothing owns what it has asked for, and alone what it has
   asked for exclusively. *)
LEMMA OwnsWhenNotWaiting ==
  ASSUME NEW S, NEW q \in Seq(Requests(S)), NEW t, In(q, t), ~WaitsIn(q, t)
  PROVE  t \in ToSet(Owners(q))
<1>1. PICK i \in DOMAIN q : q[i].txn_ = t /\ Granted(q, i)
  BY DEF In, WaitsIn
<1>2. i \in DOMAIN Owners(q) /\ Owners(q)[i] = t
  BY <1>1, OwnersAre
<1> QED
  BY <1>2 DEF ToSet

LEMMA OwnsAlone ==
  ASSUME NEW S, NEW q \in Seq(Requests(S)), NEW i \in DOMAIN q, Granted(q, i),
         q[i].mode_ = "EXCLUSIVE"
  PROVE  Owners(q) = <<q[i].txn_>>
<1>1. Len(q) \in Nat /\ DOMAIN q = 1..Len(q)
  BY LenProperties
<1>2. i = 1
  BY <1>1 DEF Granted
<1>3. {j \in DOMAIN q : Granted(q, j)} = {1}
  BY <1>1, <1>2 DEF Granted
<1>4. Cardinality({1}) = 1
  BY FS_Singleton
<1>5. Owners(q) = [j \in 1..1 |-> q[j].txn_]
  BY <1>3, <1>4 DEF Owners
<1> QED
  BY <1>2, <1>5

LEMMA GrantedBehind ==
  ASSUME NEW S, NEW q \in Seq(Requests(S)), NEW i \in DOMAIN q, NEW j \in DOMAIN q,
         i < j, Granted(q, j)
  PROVE  q[i].mode_ = "SHARED" /\ q[j].mode_ = "SHARED"
<1>1. Len(q) \in Nat /\ DOMAIN q = 1..Len(q)
  BY LenProperties
<1> QED
  BY <1>1 DEF Granted

-----------------------------------------------------------------------------
(* The scheduler: the parts of its invariant. *)

InHand == {"lock", "apply", "release"}

ControlTypes ==
  /\ lm \in Linked /\ program \in Programs
  /\ pc \in {"pop", "drain", "dispatch"} \union InHand
  /\ txn \in TxnOrNone
  /\ pc \in InHand => txn \in Txns
  /\ blocked \in BOOLEAN
  /\ todo \in Loops
  /\ next_unique_id_ \in Nat \ {0}
  /\ unique_id_ \in [Txns -> Nat]
  /\ occ_start_idx_ \in [Txns -> Nat]
  /\ task \in [Workers -> TxnOrNone]
  /\ scan \in [Workers -> Loops]
  /\ received \in SUBSET Txns

QueueTypes ==
  /\ txn_requests_ \in Seq(Txns)
  /\ ready_txns_ \in Seq(Txns)
  /\ completed_txns_ \in Seq(Txns)
  /\ committed_txns_ \in Seq(Txns)
  /\ txn_results_ \in Seq(Txns)
  /\ queues_ \in [Workers -> Seq(Txns)]
  /\ lock_table_ \in [Keys -> Seq(Requests(Txns))]

StoreTypes ==
  /\ txns = [t \in Txns |-> txns[t]]
  /\ \A t \in Txns : IsTxn(txns[t])
  /\ data_ = [k \in DOMAIN InitialStore |-> data_[k]]

Types == ControlTypes /\ QueueTypes /\ StoreTypes

-----------------------------------------------------------------------------
(* Where transactions are, and that each is in one place at most. *)
Asking == <<"requests", None>>
Hand       == <<"hand", None>>
Ready      == <<"ready", None>>
Completed  == <<"completed", None>>
Results    == <<"results", None>>
Received   == <<"received", None>>
Nowhere    == <<"nowhere", None>>
Queue(w)   == <<"queue", w>>
Task(w)    == <<"task", w>>

Places == {Asking, Hand, Ready, Completed, Results, Received}
            \union {Queue(w) : w \in Workers} \union {Task(w) : w \in Workers}

Contents(p) ==
  CASE p[1] = "requests"  -> ToSet(txn_requests_)
    [] p[1] = "hand"      -> {t \in {txn} : pc \in InHand}
    [] p[1] = "ready"     -> ToSet(ready_txns_)
    [] p[1] = "queue"     -> ToSet(queues_[p[2]])
    [] p[1] = "task"      -> {task[p[2]]} \ {None}
    [] p[1] = "completed" -> ToSet(completed_txns_)
    [] p[1] = "results"   -> ToSet(txn_results_)
    [] p[1] = "received"  -> received

At(t, p)  == t \in Contents(p)
Absent(t) == \A p \in Places : ~At(t, p)

Distinct ==
  /\ IsInjective(ready_txns_) /\ IsInjective(completed_txns_)
  /\ IsInjective(txn_requests_) /\ IsInjective(txn_results_)
  /\ \A w \in Workers : IsInjective(queues_[w])

Unshared ==
  \A t \in Txns : \A p, q \in Places : At(t, p) /\ At(t, q) => p = q

(* Transactions are numbered, and popped, in the order of their requests. *)
Popped(t) == unique_id_[t] # 0 /\ ~At(t, Asking)

Order ==
  /\ \A t, u \in Txns : unique_id_[t] = unique_id_[u] /\ unique_id_[t] # 0 => t = u
  /\ \A t \in Txns : unique_id_[t] < next_unique_id_
  /\ \A i, j \in DOMAIN txn_requests_ :
       i < j => unique_id_[txn_requests_[i]] < unique_id_[txn_requests_[j]]
  /\ \A t, u \in Txns : Popped(t) /\ At(u, Asking) => unique_id_[t] < unique_id_[u]
  /\ \A t \in Txns : Popped(t) /\ pc = "lock" /\ t # txn => unique_id_[t] < unique_id_[txn]
  /\ \A t \in Txns : unique_id_[t] = 0 => Absent(t)

(* What is left of the loops belongs to the transaction they are about. *)
Within(l, p) == l.read \subseteq ReadSet(p) /\ l.write \subseteq WriteSet(p)

LoopsLeft ==
  /\ pc \notin InHand => todo = NoLoop
  /\ pc \in InHand => Within(todo, program[txn])
  /\ pc = "apply" => todo.read = {}
  /\ \A w \in Workers : IF task[w] = None THEN scan[w] = NoLoop
                                          ELSE Within(scan[w], program[task[w]])

(* The keys a transaction has requests for. *)
Left(l) == l.read \union l.write

Asked(t) ==
  IF lm = "shipped" \/ unique_id_[t] = 0 \/ At(t, Asking) \/ At(t, Results) \/ At(t, Received)
    THEN {}
  ELSE IF At(t, Hand) /\ pc = "lock" THEN KeySet(program[t]) \ Left(todo)
  ELSE IF At(t, Hand) /\ pc = "release" THEN Left(todo)
  ELSE KeySet(program[t])

Table ==
  /\ \A k \in Keys, t \in Txns : In(lock_table_[k], t) <=> k \in Asked(t)
  /\ \A k \in Keys : \A i \in DOMAIN lock_table_[k] :
       k \in WriteSet(program[lock_table_[k][i].txn_]) =>
         lock_table_[k][i].mode_ = "EXCLUSIVE"
  /\ WaitsForOlder

(* Exactly the transactions that are nowhere wait for a lock, and the one that
   is asking for its locks when it was refused one. *)
Waiters ==
  \A t \in Txns : Waiting(lock_table_, t) <=>
    \/ unique_id_[t] # 0 /\ Absent(t)
    \/ At(t, Hand) /\ pc = "lock" /\ blocked

(* Older transactions that conflict with an active one are done. *)
Earlier ==
  lm # "shipped" =>
    \A t, u \in Txns :
      /\ unique_id_[t] # 0 /\ unique_id_[t] < unique_id_[u]
      /\ Conflict(program[t], program[u])
      /\ u \in Active \/ Final(u)
      => Final(t)

(* What a transaction looks like where it is. *)
Started(t) ==
  \/ \E w \in Workers : At(t, Task(w))
  \/ At(t, Completed) \/ At(t, Results) \/ At(t, Received)
  \/ At(t, Hand) /\ pc # "lock"

HasRun(t, statuses) ==
  /\ txns[t].status_ \in statuses
  /\ DOMAIN txns[t].writes_ = WriteSet(program[t])

Statuses ==
  /\ \A t \in Txns :
       /\ ~Started(t) => txns[t] = NewTxn
       /\ At(t, Completed) => HasRun(t, {"COMPLETED_C", "COMPLETED_A"})
       /\ At(t, Hand) /\ pc = "apply" => HasRun(t, {"COMPLETED_C"})
       /\ At(t, Hand) /\ pc = "release" => Final(t)
       /\ At(t, Results) \/ At(t, Received) => Final(t)
  /\ \A w \in Workers : task[w] # None =>
       txns[task[w]].status_ = "INCOMPLETE" /\ txns[task[w]].writes_ = NoRecords
  /\ \A t \in ToSet(committed_txns_) : txns[t].status_ = "COMMITTED"

(* A transaction that executes has read what is in the store still. *)
Part(store, K) == [k \in K \cap DOMAIN store |-> store[k]]

ReadSoFar(t, left) == Part(data_, KeySet(program[t]) \ left)

Isolation ==
  lm # "shipped" =>
    /\ \A w \in Workers : task[w] # None =>
         txns[task[w]].reads_ = ReadSoFar(task[w], Left(scan[w]))
    /\ \A t \in Txns : At(t, Completed) => txns[t] = RunOn(program[t], NewTxn, data_)

Applying ==
  pc = "apply" =>
    \A k \in WriteSet(program[txn]) \ todo.write : data_[k] = txns[txn].writes_[k]

CommitsInOrder == lm # "shipped" => ConflictOrder

IInv ==
  /\ Types /\ Distinct /\ Unshared /\ Order /\ LoopsLeft /\ Table /\ Waiters
  /\ Earlier /\ Statuses /\ Isolation /\ Applying /\ CommitsInOrder

-----------------------------------------------------------------------------
(* The constants. *)
LEMMA Programmed ==
  ASSUME program \in Programs, NEW t \in Txns
  PROVE  /\ ReadSet(program[t]) \subseteq Keys /\ WriteSet(program[t]) \subseteq Keys
         /\ ReadSet(program[t]) \cap WriteSet(program[t]) = {}
         /\ WriteSet(program[t]) \subseteq DOMAIN InitialStore
  BY LockingSchedulerAssumption, NoInsertAssumption, DisjointSetsAssumption DEF KeySet

LEMMA Stored ==
  /\ DOMAIN InitialStore \subseteq Keys
  /\ InitialStore = [k \in DOMAIN InitialStore |-> InitialStore[k]]
<1>1. PICK S \in SUBSET Keys : InitialStore \in [S -> Values]
  BY LockingSchedulerAssumption
<1> QED
  BY <1>1

(* Loops over keys. *)
LEMMA LoopStep ==
  ASSUME NEW l \in Loops, l # NoLoop
  PROVE  /\ KeyOf(l) \in Keys /\ KeyOf(l) \in Left(l)
         /\ Rest(l) \in Loops
         /\ l.read # {} => /\ KeyOf(l) \in l.read /\ ModeOf(l) = "SHARED"
                           /\ Rest(l).read = l.read \ {KeyOf(l)}
                           /\ Rest(l).write = l.write
         /\ l.read = {} => /\ KeyOf(l) \in l.write /\ ModeOf(l) = "EXCLUSIVE"
                           /\ Rest(l).read = {}
                           /\ Rest(l).write = l.write \ {KeyOf(l)}
<1>1. l.read \subseteq Keys /\ l.write \subseteq Keys /\ l = [read |-> l.read, write |-> l.write]
  BY DEF Loops
<1>2. l.read # {} \/ l.write # {}
  BY <1>1 DEF NoLoop
<1>3. Keys \subseteq Nat
  BY LockingSchedulerAssumption
<1>4. CASE l.read # {}
  <2>1. KeyOf(l) \in l.read
    BY <1>1, <1>3, <1>4, MinIsLeast DEF KeyOf
  <2>2. Rest(l) = [l EXCEPT !.read = l.read \ {KeyOf(l)}]
    BY <1>4 DEF Rest
  <2> QED
    BY <1>1, <1>4, <2>1, <2>2 DEF ModeOf, Left, Loops
<1>5. CASE l.read = {}
  <2>1. KeyOf(l) \in l.write
    BY <1>1, <1>2, <1>3, <1>5, MinIsLeast DEF KeyOf
  <2>2. Rest(l) = [l EXCEPT !.write = l.write \ {KeyOf(l)}]
    BY <1>5 DEF Rest
  <2> QED
    BY <1>1, <1>5, <2>1, <2>2 DEF ModeOf, Left, Loops
<1> QED
  BY <1>4, <1>5

LEMMA LoopStart ==
  ASSUME program \in Programs, NEW t \in Txns
  PROVE  /\ LoopsOf(program[t]) \in Loops
         /\ Within(LoopsOf(program[t]), program[t])
         /\ Left(LoopsOf(program[t])) = KeySet(program[t])
  BY Programmed DEF LoopsOf, Loops, Within, Left, KeySet

LEMMA LoopEnd ==
  /\ NoLoop \in Loops /\ Left(NoLoop) = {} /\ NoLoop.read = {} /\ NoLoop.write = {}
  /\ \A p : Within(NoLoop, p)
  BY DEF NoLoop, Loops, Left, Within

(* Programs. *)
LEMMA SaveReadIs ==
  ASSUME NEW x, IsTxn(x), NEW store, NEW k
  PROVE  /\ IsTxn(SaveRead(x, store, k))
         /\ SaveRead(x, store, k).status_ = x.status_
         /\ SaveRead(x, store, k).writes_ = x.writes_
         /\ SaveRead(x, store, k).reads_ =
              IF k \in DOMAIN store THEN Over(Part(store, {k}), x.reads_) ELSE x.reads_
<1>1. k \in DOMAIN store => Part(store, {k}) = [i \in {k} |-> store[i]]
  BY DEF Part
<1> QED
  BY <1>1 DEF SaveRead, IsTxn

-----------------------------------------------------------------------------
(* The names of the places, and what is there. *)
LEMMA PlacesAre ==
  /\ \A p \in Places :
       \/ p \in {Asking, Hand, Ready, Completed, Results, Received}
       \/ \E w \in Workers : p = Queue(w)
       \/ \E w \in Workers : p = Task(w)
  /\ {Asking, Hand, Ready, Completed, Results, Received} \subseteq Places
  /\ \A w \in Workers : Queue(w) \in Places /\ Task(w) \in Places
  /\ Nowhere \notin Places
  BY DEF Places, Asking, Hand, Ready, Completed, Results, Received, Nowhere, Queue, Task

LEMMA PlacesDiffer ==
  /\ Asking # Hand /\ Asking # Ready /\ Asking # Completed /\ Asking # Results
  /\ Asking # Received /\ Hand # Ready /\ Hand # Completed /\ Hand # Results
  /\ Hand # Received /\ Ready # Completed /\ Ready # Results /\ Ready # Received
  /\ Completed # Results /\ Completed # Received /\ Results # Received
  /\ \A w \in Workers :
       /\ Queue(w) \notin {Asking, Hand, Ready, Completed, Results, Received, Nowhere}
       /\ Task(w) \notin {Asking, Hand, Ready, Completed, Results, Received, Nowhere}
  /\ \A v, w \in Workers :
       /\ Queue(v) # Task(w)
       /\ Queue(v) = Queue(w) => v = w
       /\ Task(v) = Task(w) => v = w
  BY DEF Asking, Hand, Ready, Completed, Results, Received, Nowhere, Queue, Task

LEMMA ContentsAre ==
  /\ \A t : At(t, Asking) <=> t \in ToSet(txn_requests_)
  /\ \A t : At(t, Hand) <=> t = txn /\ pc \in InHand
  /\ \A t : At(t, Ready) <=> t \in ToSet(ready_txns_)
  /\ \A t : At(t, Completed) <=> t \in ToSet(completed_txns_)
  /\ \A t : At(t, Results) <=> t \in ToSet(txn_results_)
  /\ \A t : At(t, Received) <=> t \in received
  /\ \A w \in Workers : \A t : At(t, Queue(w)) <=> t \in ToSet(queues_[w])
  /\ \A w \in Workers : \A t \in Txns : At(t, Task(w)) <=> t = task[w]
  BY NamesAssumption
  DEF At, Contents, Asking, Hand, Ready, Completed, Results, Received, Queue, Task

LEMMA ContentsNext ==
  /\ \A t : At(t, Asking)' <=> t \in ToSet(txn_requests_')
  /\ \A t : At(t, Hand)' <=> t = txn' /\ pc' \in InHand
  /\ \A t : At(t, Ready)' <=> t \in ToSet(ready_txns_')
  /\ \A t : At(t, Completed)' <=> t \in ToSet(completed_txns_')
  /\ \A t : At(t, Results)' <=> t \in ToSet(txn_results_')
  /\ \A t : At(t, Received)' <=> t \in received'
  /\ \A w \in Workers : \A t : At(t, Queue(w))' <=> t \in ToSet(queues_'[w])
  /\ \A w \in Workers : \A t \in Txns : At(t, Task(w))' <=> t = task'[w]
  BY NamesAssumption
  DEF At, Contents, Asking, Hand, Ready, Completed, Results, Received, Queue, Task

LEMMA ActiveAre ==
  ASSUME Types, NEW t \in Txns
  PROVE  t \in Active <=>
           \/ At(t, Ready) \/ At(t, Completed)
           \/ \E w \in Workers : At(t, Queue(w)) \/ At(t, Task(w))
           \/ At(t, Hand) /\ pc = "apply"
<1>1. t # None
  BY NamesAssumption
<1>2. t \in {task[w] : w \in Workers} \ {None} <=> \E w \in Workers : At(t, Task(w))
  BY <1>1, ContentsAre
<1>3. t \in (UNION {ToSet(queues_[w]) : w \in Workers}) <=> \E w \in Workers : At(t, Queue(w))
  BY ContentsAre
<1>4. t \in (IF pc = "apply" THEN {txn} ELSE {}) <=> At(t, Hand) /\ pc = "apply"
  BY ContentsAre DEF InHand
<1>5. /\ t \in ToSet(ready_txns_) <=> At(t, Ready)
      /\ t \in ToSet(completed_txns_) <=> At(t, Completed)
  BY ContentsAre
<1> QED
  BY <1>2, <1>3, <1>4, <1>5 DEF Active

-----------------------------------------------------------------------------
(* What a step does to the places: the transactions of S go from p to q. *)
Moves(S, p, q) ==
  \A r \in Places : \A t \in Txns :
    At(t, r)' <=> (At(t, r) /\ ~(r = p /\ t \in S)) \/ (r = q /\ t \in S)

From(S, p) == \A t \in S : IF p \in Places THEN At(t, p) ELSE Absent(t)

LEMMA MovedOnce ==
  ASSUME Unshared, NEW S, NEW p, NEW q, From(S, p), Moves(S, p, q)
  PROVE  Unshared'
<1> SUFFICES ASSUME NEW t \in Txns, NEW a \in Places, NEW b \in Places, At(t, a)', At(t, b)'
             PROVE  a = b
  BY DEF Unshared, Places
<1>1. CASE t \notin S
  BY <1>1 DEF Moves, Unshared
<1>2. CASE t \in S
  <2>1. ASSUME NEW r \in Places, At(t, r), r # p PROVE FALSE
    BY <1>2, <2>1 DEF From, Unshared, Absent
  <2> QED
    BY <1>2, <2>1 DEF Moves
<1> QED
  BY <1>1, <1>2

LEMMA MovesByName ==
  ASSUME NEW S, NEW p, NEW q,
         \A r \in {Asking, Hand, Ready, Completed, Results, Received} : \A t \in Txns :
           At(t, r)' <=> (At(t, r) /\ ~(r = p /\ t \in S)) \/ (r = q /\ t \in S),
         \A w \in Workers, t \in Txns :
           At(t, Queue(w))' <=> \/ At(t, Queue(w)) /\ ~(Queue(w) = p /\ t \in S)
                                \/ Queue(w) = q /\ t \in S,
         \A w \in Workers, t \in Txns :
           At(t, Task(w))' <=> \/ At(t, Task(w)) /\ ~(Task(w) = p /\ t \in S)
                               \/ Task(w) = q /\ t \in S
  PROVE  Moves(S, p, q)
  BY PlacesAre DEF Moves

(* The steps that move nothing. *)
LEMMA Stays ==
  ASSUME UNCHANGED <<txn_requests_, ready_txns_, completed_txns_, txn_results_,
                     received, queues_, task>>,
         \/ pc' = pc /\ txn' = txn
         \/ pc \notin InHand /\ pc' \notin InHand
         \/ pc \in InHand /\ pc' \in InHand /\ txn' = txn
  PROVE  Moves({}, Nowhere, Nowhere) /\ (Distinct => Distinct')
<1>1. Moves({}, Nowhere, Nowhere)
  BY ContentsAre, ContentsNext, PlacesAre, MovesByName
<1>2. Distinct => Distinct'
  BY DEF Distinct
<1> QED
  BY <1>1, <1>2

LEMMA RequestMoves ==
  ASSUME Types, Distinct, Order, NEW t \in Txns, NewTxnRequest(t)
  PROVE  Moves({t}, Nowhere, Asking) /\ Absent(t) /\ Distinct'
<1>1. Absent(t) /\ ~At(t, Asking)
  BY PlacesAre DEF NewTxnRequest, Order, Absent
<1>2. ToSet(txn_requests_') = ToSet(txn_requests_) \union {t} /\ IsInjective(txn_requests_')
  BY <1>1, AppendToQueue, ContentsAre DEF NewTxnRequest, Types, QueueTypes, Distinct
<1>3. UNCHANGED <<pc, txn, ready_txns_, completed_txns_, txn_results_, received, queues_, task>>
  BY DEF NewTxnRequest, schedulerVars, workerVars
<1>4. Moves({t}, Nowhere, Asking)
  BY <1>2, <1>3, ContentsAre, ContentsNext, PlacesAre, PlacesDiffer, MovesByName
<1>5. Distinct'
  BY <1>2, <1>3 DEF Distinct
<1> QED
  BY <1>1, <1>4, <1>5

LEMMA ResultMoves ==
  ASSUME Types, Distinct, GetTxnResult
  PROVE  \E h \in Txns : At(h, Results) /\ Moves({h}, Results, Received) /\ Distinct'
                         /\ received' = received \union {h}
<1>1. PICK h \in Txns : h = Head(txn_results_) /\ h \in ToSet(txn_results_)
  BY TakeFromQueue DEF GetTxnResult, Types, QueueTypes
<1>2. ToSet(txn_results_') = ToSet(txn_results_) \ {h} /\ IsInjective(txn_results_')
  BY <1>1, TakeFromQueue DEF GetTxnResult, Types, QueueTypes, Distinct
<1>3. UNCHANGED <<pc, txn, ready_txns_, completed_txns_, txn_requests_, queues_, task>>
  BY DEF GetTxnResult, schedulerVars, workerVars
<1>4. received' = received \union {h} /\ At(h, Results)
  BY <1>1, ContentsAre DEF GetTxnResult
<1>5. Moves({h}, Results, Received)
  BY <1>2, <1>3, <1>4, ContentsAre, ContentsNext, PlacesAre, PlacesDiffer, MovesByName
<1>6. Distinct'
  BY <1>2, <1>3 DEF Distinct
<1> QED
  BY <1>4, <1>5, <1>6

LEMMA PopMoves ==
  ASSUME Types, Distinct, PopRequest
  PROVE  txn' \in Txns /\ At(txn', Asking) /\ Moves({txn'}, Asking, Hand) /\ Distinct'
<1>1. PICK h \in Txns : h = txn' /\ h = Head(txn_requests_) /\ h \in ToSet(txn_requests_)
  BY TakeFromQueue DEF PopRequest, Types, QueueTypes
<1>2. ToSet(txn_requests_') = ToSet(txn_requests_) \ {h} /\ IsInjective(txn_requests_')
  BY <1>1, TakeFromQueue DEF PopRequest, Types, QueueTypes, Distinct
<1>3. UNCHANGED <<ready_txns_, completed_txns_, txn_results_, received, queues_, task>>
  BY DEF PopRequest, clientVars, workerVars
<1>4. At(h, Asking) /\ pc \notin InHand /\ pc' \in InHand
  BY <1>1, ContentsAre DEF PopRequest, InHand
<1>5. Moves({h}, Asking, Hand)
  BY <1>1, <1>2, <1>3, <1>4, ContentsAre, ContentsNext, PlacesAre, PlacesDiffer, MovesByName
<1>6. Distinct'
  BY <1>2, <1>3 DEF Distinct
<1> QED
  BY <1>1, <1>4, <1>5, <1>6

LEMMA LockedMoves ==
  ASSUME Types, Distinct, Unshared, QueueUnlessBlocked
  PROVE  /\ txn \in Txns /\ At(txn, Hand) /\ Distinct'
         /\ Moves({txn}, Hand, IF blocked THEN Nowhere ELSE Ready)
<1>1. PICK h \in Txns : h = txn /\ txn' = txn
  BY DEF QueueUnlessBlocked, Types, ControlTypes, InHand
<1>2. At(h, Hand) /\ ~At(h, Ready) /\ pc \in InHand /\ pc' \notin InHand
  BY <1>1, ContentsAre, PlacesAre, PlacesDiffer DEF QueueUnlessBlocked, Unshared, InHand
<1>3. /\ ToSet(ready_txns_') = ToSet(ready_txns_) \union (IF blocked THEN {} ELSE {h})
      /\ IsInjective(ready_txns_')
  BY <1>1, <1>2, AppendToQueue, ContentsAre DEF QueueUnlessBlocked, Types, QueueTypes, Distinct
<1>4. UNCHANGED <<txn_requests_, completed_txns_, txn_results_, received, queues_, task>>
  BY DEF QueueUnlessBlocked, clientVars, workerVars
<1>5. Moves({h}, Hand, IF blocked THEN Nowhere ELSE Ready)
  BY <1>1, <1>2, <1>3, <1>4, ContentsAre, ContentsNext, PlacesAre, PlacesDiffer, MovesByName
<1>6. Distinct'
  BY <1>3, <1>4 DEF Distinct
<1> QED
  BY <1>1, <1>2, <1>5, <1>6

(* A completed transaction has run, so that the scheduler does not die of it. *)
LEMMA CompletedMoves ==
  ASSUME Types, Distinct, Statuses, PopCompleted
  PROVE  /\ txn' \in Txns /\ At(txn', Completed)
         /\ txn' = Head(completed_txns_)
         /\ Moves({txn'}, Completed, Hand) /\ Distinct'
         /\ txns[txn'].status_ \in {"COMPLETED_C", "COMPLETED_A"}
         /\ pc' = IF txns[txn'].status_ = "COMPLETED_C" THEN "apply" ELSE "release"
<1>1. PICK h \in Txns : h = txn' /\ h = Head(completed_txns_) /\ h \in ToSet(completed_txns_)
  BY TakeFromQueue DEF PopCompleted, Types, QueueTypes
<1>2. ToSet(completed_txns_') = ToSet(completed_txns_) \ {h} /\ IsInjective(completed_txns_')
  BY <1>1, TakeFromQueue DEF PopCompleted, Types, QueueTypes, Distinct
<1>3. UNCHANGED <<ready_txns_, txn_requests_, txn_results_, received, queues_, task>>
  BY DEF PopCompleted, clientVars, workerVars
<1>4. At(h, Completed)
  BY <1>1, ContentsAre
<1>5. txns[h].status_ \in {"COMPLETED_C", "COMPLETED_A"}
  BY <1>4 DEF Statuses, HasRun
<1>6. pc' = IF txns[h].status_ = "COMPLETED_C" THEN "apply" ELSE "release"
  BY <1>1, <1>5 DEF PopCompleted
<1>7. pc \notin InHand /\ pc' \in InHand
  BY <1>6 DEF PopCompleted, InHand
<1>8. Moves({h}, Completed, Hand)
  BY <1>1, <1>2, <1>3, <1>7, ContentsAre, ContentsNext, PlacesAre, PlacesDiffer, MovesByName
<1>9. Distinct'
  BY <1>2, <1>3 DEF Distinct
<1> QED
  BY <1>1, <1>4, <1>5, <1>6, <1>8, <1>9

LEMMA ReturnMoves ==
  ASSUME Types, Distinct, Unshared, ReturnResult
  PROVE  txn \in Txns /\ At(txn, Hand) /\ Distinct' /\ Moves({txn}, Hand, Results)
<1>1. PICK h \in Txns : h = txn /\ txn' = txn
  BY DEF ReturnResult, Types, ControlTypes, InHand
<1>2. At(h, Hand) /\ ~At(h, Results) /\ pc \in InHand /\ pc' \notin InHand
  BY <1>1, ContentsAre, PlacesAre, PlacesDiffer DEF ReturnResult, Unshared, InHand
<1>3. ToSet(txn_results_') = ToSet(txn_results_) \union {h} /\ IsInjective(txn_results_')
  BY <1>1, <1>2, AppendToQueue, ContentsAre DEF ReturnResult, Types, QueueTypes, Distinct
<1>4. UNCHANGED <<txn_requests_, completed_txns_, ready_txns_, received, queues_, task>>
  BY DEF ReturnResult, clientVars, workerVars
<1>5. Moves({h}, Hand, Results)
  BY <1>1, <1>2, <1>3, <1>4, ContentsAre, ContentsNext, PlacesAre, PlacesDiffer, MovesByName
<1>6. Distinct'
  BY <1>3, <1>4 DEF Distinct
<1> QED
  BY <1>1, <1>2, <1>5, <1>6

LEMMA DispatchMoves ==
  ASSUME Types, Distinct, Unshared, NEW w \in Workers, Dispatch(w)
  PROVE  txn' \in Txns /\ At(txn', Ready) /\ Moves({txn'}, Ready, Queue(w)) /\ Distinct'
<1>1. PICK h \in Txns : h = txn' /\ h = Head(ready_txns_) /\ h \in ToSet(ready_txns_)
  BY TakeFromQueue DEF Dispatch, Types, QueueTypes
<1>2. ToSet(ready_txns_') = ToSet(ready_txns_) \ {h} /\ IsInjective(ready_txns_')
  BY <1>1, TakeFromQueue DEF Dispatch, Types, QueueTypes, Distinct
<1>3. At(h, Ready) /\ ~At(h, Queue(w)) /\ h \notin ToSet(queues_[w])
  BY <1>1, ContentsAre, PlacesAre, PlacesDiffer DEF Unshared
<1>4. /\ queues_' = [queues_ EXCEPT ![w] = Append(queues_[w], h)]
      /\ queues_ \in [Workers -> Seq(Txns)] /\ IsInjective(queues_[w])
  BY <1>1 DEF Dispatch, Types, QueueTypes, Distinct
<1>5. /\ ToSet(Append(queues_[w], h)) = ToSet(queues_[w]) \union {h}
      /\ IsInjective(Append(queues_[w], h))
  BY <1>3, <1>4, AppendToQueue
<1>6. /\ ToSet(queues_'[w]) = ToSet(queues_[w]) \union {h} /\ IsInjective(queues_'[w])
      /\ \A v \in Workers \ {w} : queues_'[v] = queues_[v]
  BY <1>4, <1>5
<1>7. UNCHANGED <<txn_requests_, completed_txns_, txn_results_, received, task>>
  BY DEF Dispatch, clientVars, workerVars
<1>8. pc \notin InHand /\ pc' \notin InHand
  BY DEF Dispatch, InHand
<1>9. \A v \in Workers, t \in Txns :
           At(t, Queue(v))' <=> \/ At(t, Queue(v)) /\ ~(Queue(v) = Ready /\ t \in {h})
                                \/ Queue(v) = Queue(w) /\ t \in {h}
  BY <1>6, ContentsAre, ContentsNext, PlacesDiffer
<1>10. Moves({h}, Ready, Queue(w))
  BY <1>2, <1>7, <1>8, <1>9, ContentsAre, ContentsNext, PlacesAre, PlacesDiffer, MovesByName
<1>11. Distinct'
  BY <1>2, <1>6, <1>7 DEF Distinct
<1> QED
  BY <1>1, <1>3, <1>10, <1>11

LEMMA StartMoves ==
  ASSUME Types, Distinct, Unshared, NEW w \in Workers, StartTask(w)
  PROVE  \E h \in Txns : /\ h = Head(queues_[w]) /\ At(h, Queue(w))
                         /\ Moves({h}, Queue(w), Task(w)) /\ Distinct'
                         /\ task' = [task EXCEPT ![w] = h]
<1>1. queues_ \in [Workers -> Seq(Txns)] /\ IsInjective(queues_[w]) /\ queues_[w] # <<>>
  BY DEF StartTask, Types, QueueTypes, Distinct
<1>2. PICK h \in Txns : h = Head(queues_[w]) /\ h \in ToSet(queues_[w])
  BY <1>1, TakeFromQueue
<1>3. ToSet(Tail(queues_[w])) = ToSet(queues_[w]) \ {h} /\ IsInjective(Tail(queues_[w]))
  BY <1>1, <1>2, TakeFromQueue
<1>4. queues_' = [queues_ EXCEPT ![w] = Tail(queues_[w])] /\ task' = [task EXCEPT ![w] = h]
  BY <1>2 DEF StartTask
<1>5. /\ ToSet(queues_'[w]) = ToSet(queues_[w]) \ {h} /\ IsInjective(queues_'[w])
      /\ \A v \in Workers \ {w} : queues_'[v] = queues_[v]
  BY <1>1, <1>3, <1>4
<1>6. /\ task'[w] = h /\ task[w] = None /\ h # None
      /\ \A v \in Workers \ {w} : task'[v] = task[v]
  BY <1>4, NamesAssumption DEF StartTask, Types, ControlTypes
<1>7. UNCHANGED <<pc, txn, txn_requests_, ready_txns_, completed_txns_, txn_results_, received>>
  BY DEF StartTask, clientVars, schedulerVars
<1>8. \A v \in Workers, t \in Txns :
           At(t, Queue(v))' <=> \/ At(t, Queue(v)) /\ ~(Queue(v) = Queue(w) /\ t \in {h})
                                \/ Queue(v) = Task(w) /\ t \in {h}
  BY <1>5, ContentsAre, ContentsNext, PlacesDiffer
<1>9. \A v \in Workers, t \in Txns :
           At(t, Task(v))' <=> \/ At(t, Task(v)) /\ ~(Task(v) = Queue(w) /\ t \in {h})
                               \/ Task(v) = Task(w) /\ t \in {h}
  BY <1>6, ContentsAre, ContentsNext, PlacesDiffer, NamesAssumption
<1>10. Moves({h}, Queue(w), Task(w))
  BY <1>7, <1>8, <1>9, ContentsAre, ContentsNext, PlacesAre, PlacesDiffer, MovesByName
<1>11. Distinct'
  BY <1>5, <1>7 DEF Distinct
<1> QED
  BY <1>2, <1>4, <1>10, <1>11, ContentsAre

LEMMA BackMoves ==
  ASSUME Types, Distinct, Unshared, NEW w \in Workers, RunAndHandBack(w)
  PROVE  /\ task[w] \in Txns /\ At(task[w], Task(w)) /\ Distinct'
         /\ Moves({task[w]}, Task(w), Completed)
<1>1. PICK h \in Txns : h = task[w]
  BY DEF RunAndHandBack, Types, ControlTypes, TxnOrNone
<1>2. At(h, Task(w)) /\ ~At(h, Completed)
  BY <1>1, ContentsAre, PlacesAre, PlacesDiffer DEF Unshared
<1>3. ToSet(completed_txns_') = ToSet(completed_txns_) \union {h} /\ IsInjective(completed_txns_')
  BY <1>1, <1>2, AppendToQueue, ContentsAre DEF RunAndHandBack, Types, QueueTypes, Distinct
<1>4. UNCHANGED <<pc, txn, txn_requests_, ready_txns_, txn_results_, received, queues_>>
  BY DEF RunAndHandBack, clientVars, schedulerVars
<1>5. task'[w] = None /\ \A v \in Workers \ {w} : task'[v] = task[v]
  BY DEF RunAndHandBack, Types, ControlTypes
<1>6. \A v \in Workers, t \in Txns :
           At(t, Task(v))' <=> \/ At(t, Task(v)) /\ ~(Task(v) = Task(w) /\ t \in {h})
                               \/ Task(v) = Completed /\ t \in {h}
  BY <1>1, <1>5, ContentsAre, ContentsNext, PlacesDiffer, NamesAssumption
<1>7. Moves({h}, Task(w), Completed)
  BY <1>3, <1>4, <1>6, ContentsAre, ContentsNext, PlacesAre, PlacesDiffer, MovesByName
<1>8. Distinct'
  BY <1>3, <1>4 DEF Distinct
<1> QED
  BY <1>1, <1>2, <1>7, <1>8

(* What Release does to the table and to ready_txns_, when the transaction that
   releases a key does not wait itself. *)
LEMMA TableOnce == ASSUME Types, Order, Table, NEW k \in Keys PROVE Once(lock_table_[k])
<1>1. lock_table_[k] \in Seq(Requests(Txns))
  BY DEF Types, QueueTypes
<1>2. Len(lock_table_[k]) \in Nat /\ DOMAIN lock_table_[k] = 1..Len(lock_table_[k])
  BY <1>1, LenProperties
<1>0. \A i \in DOMAIN lock_table_[k] : lock_table_[k][i] \in Requests(Txns)
  BY <1>1, QueueIndex
<1>3. \A i \in DOMAIN lock_table_[k] : lock_table_[k][i].txn_ \in Txns
  BY <1>0 DEF Requests
<1>4. \A i, j \in DOMAIN lock_table_[k] :
        i < j => unique_id_[lock_table_[k][i].txn_] < unique_id_[lock_table_[k][j].txn_]
  BY DEF Table, WaitsForOlder
<1>5. \A t \in Txns : unique_id_[t] \in Nat
  BY DEF Types, ControlTypes
<1> QED
  BY <1>2, <1>3, <1>4, <1>5 DEF Once

LEMMA ReleaseMoves ==
  ASSUME Types, Distinct, Unshared, Order, LoopsLeft, Table, Waiters, ReleaseLock
  PROVE  \E S \in SUBSET Txns :
           /\ S = {u \in Txns : Waiting(lock_table_, u) /\ ~Waiting(lock_table_', u)}
           /\ Moves(S, Nowhere, Ready) /\ (\A u \in S : Absent(u) /\ unique_id_[u] # 0)
           /\ Distinct' /\ ready_txns_' \in Seq(Txns)
<1>1. PICK k \in Keys : k = KeyOf(todo)
  BY LoopStep DEF ReleaseLock, Types, ControlTypes
<1>2. PICK h \in Txns : h = txn
  BY DEF ReleaseLock, Types, ControlTypes, InHand
<1>3. At(h, Hand) /\ pc = "release"
  BY <1>2, ContentsAre DEF ReleaseLock, InHand
<1>4. ~Waiting(lock_table_, h)
  BY <1>3, PlacesAre DEF Waiters, Absent
<1>5. /\ lock_table_' = Released(lock_table_, h, k)
      /\ ready_txns_' = ready_txns_ \o MadeReady(lock_table_, h, k)
  BY <1>1, <1>2 DEF ReleaseLock
<1> DEFINE S == {u \in Txns : Waiting(lock_table_, u) /\ ~Waiting(lock_table_', u)}
           m == MadeReady(lock_table_, h, k)
<1>6. m \in Seq(Txns) /\ IsInjective(m) /\ \A u \in Txns : u \in ToSet(m) <=> u \in S
  <2>1. lock_table_ \in [Keys -> Seq(Requests(Txns))] /\ \A j \in Keys : Once(lock_table_[j])
    BY TableOnce DEF Types, QueueTypes
  <2> QED
    BY <1>4, <1>5, <2>1, MadeReadyAre
<1> HIDE DEF m
<1>7. ToSet(m) = S
  <2>1. ToSet(m) \subseteq Txns
    BY <1>6, QueueIndex
  <2> QED
    BY <1>6, <2>1
<1>8. \A u \in S : Absent(u) /\ unique_id_[u] # 0
  BY <1>3 DEF Waiters
<1> HIDE DEF S
<1>9. ToSet(ready_txns_) \cap S = {}
  BY <1>8, ContentsAre, PlacesAre DEF Absent
<1>10. /\ ready_txns_' \in Seq(Txns) /\ ToSet(ready_txns_') = ToSet(ready_txns_) \union S
       /\ IsInjective(ready_txns_')
  BY <1>5, <1>6, <1>7, <1>9, JoinQueues DEF m, Types, QueueTypes, Distinct
<1>11. UNCHANGED <<pc, txn, txn_requests_, completed_txns_, txn_results_, received, queues_, task>>
  BY DEF ReleaseLock, clientVars, workerVars
<1>12. Moves(S, Nowhere, Ready)
  BY <1>10, <1>11, ContentsAre, ContentsNext, PlacesAre, PlacesDiffer, MovesByName
<1>13. Distinct'
  BY <1>10, <1>11 DEF Distinct
<1>14. S \in SUBSET Txns
  BY DEF S
<1> QED
  BY <1>8, <1>10, <1>12, <1>13, <1>14 DEF S

-----------------------------------------------------------------------------
(* Types. *)
LEMMA ControlStep ==
  ASSUME IInv, Next
  PROVE  ControlTypes'
<1>0. Types /\ ControlTypes /\ QueueTypes /\ Distinct /\ Statuses /\ program \in Programs
  BY DEF IInv, Types, ControlTypes
<1>1. ASSUME NEW t \in Txns, NewTxnRequest(t) PROVE ControlTypes'
  BY <1>0, <1>1 DEF NewTxnRequest, ControlTypes, fixed, schedulerVars, workerVars
<1>2. CASE GetTxnResult
  BY <1>0, <1>2, ResultMoves DEF GetTxnResult, ControlTypes, fixed, schedulerVars, workerVars
<1>3. CASE PopRequest
  <2>1. txn' \in Txns
    BY <1>0, <1>3, PopMoves
  <2>2. LoopsOf(program[txn']) \in Loops
    BY <1>0, <2>1, LoopStart
  <2> QED
    BY <1>0, <1>3, <2>1, <2>2 DEF PopRequest, ControlTypes, fixed, clientVars, workerVars,
      InHand, TxnOrNone
<1>4. CASE NoRequest \/ NoneCompleted \/ NoneReady
  BY <1>0, <1>4 DEF NoRequest, NoneCompleted, NoneReady, ControlTypes, fixed, clientVars,
    workerVars, InHand
<1>5. CASE RequestLock
  <2>1. Rest(todo) \in Loops
    BY <1>0, <1>5, LoopStep DEF RequestLock, ControlTypes
  <2> QED
    BY <1>0, <1>5, <2>1 DEF RequestLock, ControlTypes, fixed, clientVars, workerVars
<1>6. CASE QueueUnlessBlocked \/ ReturnResult
  BY <1>0, <1>6 DEF QueueUnlessBlocked, ReturnResult, ControlTypes, fixed, clientVars,
    workerVars, InHand
<1>7. CASE PopCompleted
  <2>1. PICK h \in Txns : h = txn' /\ h = Head(completed_txns_) /\ At(h, Completed)
    BY <1>0, <1>7, CompletedMoves
  <2>2. pc' \in {"apply", "release"}
    BY <1>0, <1>7, CompletedMoves
  <2>3. LoopsOf(program[h]) \in Loops
    BY <1>0, LoopStart
  <2>4. [NoLoop EXCEPT !.write = DOMAIN txns[h].writes_] \in Loops
    <3>1. DOMAIN txns[h].writes_ \subseteq Keys
      BY <1>0, <2>1, Programmed DEF Statuses, HasRun
    <3> QED
      BY <3>1 DEF NoLoop, Loops
  <2>5. todo' \in Loops
    BY <1>7, <2>1, <2>3, <2>4 DEF PopCompleted
  <2> QED
    BY <1>0, <1>7, <2>1, <2>2, <2>5 DEF PopCompleted, ControlTypes, fixed, clientVars,
      workerVars, InHand, TxnOrNone
<1>8. CASE ApplyWrite \/ ReleaseLock
  <2>1. Rest(todo) \in Loops
    BY <1>0, <1>8, LoopStep DEF ApplyWrite, ReleaseLock, ControlTypes
  <2> QED
    BY <1>0, <1>8, <2>1 DEF ApplyWrite, ReleaseLock, ControlTypes, fixed, clientVars, workerVars
<1>9. CASE Commit
  <2>1. LoopsOf(program[txn]) \in Loops
    BY <1>0, <1>9, LoopStart DEF Commit, ControlTypes, InHand
  <2> QED
    BY <1>0, <1>9, <2>1 DEF Commit, ControlTypes, fixed, clientVars, workerVars, InHand
<1>10. ASSUME NEW w \in Workers, Dispatch(w) PROVE ControlTypes'
  <2>1. txn' \in Txns
    BY <1>0, <1>10, TakeFromQueue DEF Dispatch, QueueTypes
  <2> QED
    BY <1>0, <1>10, <2>1 DEF Dispatch, ControlTypes, fixed, clientVars, workerVars, InHand,
      TxnOrNone
<1>11. ASSUME NEW w \in Workers, WorkerStep(w) PROVE ControlTypes'
  <2>1. CASE StartTask(w)
    <3>1. PICK h \in Txns : h = Head(queues_[w])
      BY <1>0, <2>1, TakeFromQueue DEF StartTask, QueueTypes
    <3>2. LoopsOf(program[h]) \in Loops
      BY <1>0, LoopStart
    <3>3. Len(committed_txns_) \in Nat
      BY <1>0, LenProperties DEF QueueTypes
    <3> QED
      BY <1>0, <2>1, <3>1, <3>2, <3>3 DEF StartTask, ControlTypes, fixed, clientVars,
        schedulerVars, TxnOrNone
  <2>2. CASE ReadRecord(w)
    <3>1. Rest(scan[w]) \in Loops
      BY <1>0, <2>2, LoopStep DEF ReadRecord, ControlTypes
    <3> QED
      BY <1>0, <2>2, <3>1 DEF ReadRecord, ControlTypes, fixed, clientVars, schedulerVars
  <2>3. CASE RunAndHandBack(w)
    BY <1>0, <2>3 DEF RunAndHandBack, ControlTypes, fixed, clientVars, schedulerVars, TxnOrNone
  <2> QED
    BY <1>11, <2>1, <2>2, <2>3 DEF WorkerStep
<1> QED
  BY <1>1, <1>2, <1>3, <1>4, <1>5, <1>6, <1>7, <1>8, <1>9, <1>10, <1>11 DEF Next, SchedulerStep

LEMMA LockTableStep ==
  ASSUME IInv, Next
  PROVE  lock_table_' \in [Keys -> Seq(Requests(Txns))]
<1>0. /\ Types /\ lock_table_ \in [Keys -> Seq(Requests(Txns))]
      /\ \A j \in Keys : Once(lock_table_[j])
  BY TableOnce DEF IInv, Types, QueueTypes
<1>1. CASE RequestLock
  <2>1. PICK k \in Keys : k = KeyOf(todo)
    BY <1>0, <1>1, LoopStep DEF RequestLock, Types, ControlTypes
  <2>2. PICK e \in Requests(Txns), mode \in {"SHARED", "EXCLUSIVE"} :
          e = LockRequest(txn, mode) /\ lock_table_' \in {lock_table_, [lock_table_ EXCEPT ![k] = Append(@, e)]}
    BY <1>0, <1>1, <2>1, LockingSchedulerAssumption
      DEF RequestLock, Types, ControlTypes, InHand, Requested, LockRequest, Requests, ModeOf, LockManagers
  <2>3. Append(lock_table_[k], e) \in Seq(Requests(Txns))
    BY <1>0, AppendProperties
  <2> QED
    BY <1>0, <2>2, <2>3
<1>2. CASE ReleaseLock
  <2>1. PICK k \in Keys : k = KeyOf(todo)
    BY <1>0, <1>2, LoopStep DEF ReleaseLock, Types, ControlTypes
  <2> QED
    BY <1>0, <1>2, <2>1, ReleaseKeeps DEF ReleaseLock
<1>3. CASE lock_table_' = lock_table_
  BY <1>0, <1>3
<1>4. RequestLock \/ ReleaseLock \/ lock_table_' = lock_table_
  BY DEF Next, SchedulerStep, WorkerStep, NewTxnRequest, GetTxnResult, PopRequest, NoRequest,
    QueueUnlessBlocked, PopCompleted, NoneCompleted, ApplyWrite, Commit, ReturnResult, Dispatch,
    NoneReady, StartTask, ReadRecord, RunAndHandBack
<1> QED
  BY <1>1, <1>2, <1>3, <1>4

LEMMA QueuesStep ==
  ASSUME IInv, Next
  PROVE  QueueTypes'
<1>0. Types /\ ControlTypes /\ QueueTypes
  BY DEF IInv, Types
<1>a. lock_table_' \in [Keys -> Seq(Requests(Txns))]
  BY LockTableStep
<1>1. ASSUME NEW t \in Txns, NewTxnRequest(t) PROVE QueueTypes'
  BY <1>0, <1>1, <1>a, AppendToQueue DEF NewTxnRequest, QueueTypes
<1>2. CASE GetTxnResult
  BY <1>0, <1>2, <1>a, TakeFromQueue DEF GetTxnResult, QueueTypes
<1>3. CASE PopRequest
  BY <1>0, <1>3, <1>a, TakeFromQueue DEF PopRequest, QueueTypes
<1>4. CASE NoRequest \/ NoneCompleted \/ NoneReady \/ RequestLock \/ ApplyWrite
  BY <1>0, <1>4, <1>a DEF NoRequest, NoneCompleted, NoneReady, RequestLock, ApplyWrite, QueueTypes
<1>5. CASE QueueUnlessBlocked
  BY <1>0, <1>5, <1>a, AppendToQueue DEF QueueUnlessBlocked, QueueTypes, ControlTypes, InHand
<1>6. CASE PopCompleted
  BY <1>0, <1>6, <1>a, TakeFromQueue DEF PopCompleted, QueueTypes
<1>7. CASE Commit
  BY <1>0, <1>7, <1>a, AppendToQueue DEF Commit, QueueTypes, ControlTypes, InHand
<1>8. CASE ReleaseLock
  <2>1. ready_txns_' \in Seq(Txns)
    BY <1>8, ReleaseMoves DEF IInv
  <2> QED
    BY <1>0, <1>8, <1>a, <2>1 DEF ReleaseLock, QueueTypes
<1>9. CASE ReturnResult
  BY <1>0, <1>9, <1>a, AppendToQueue DEF ReturnResult, QueueTypes, ControlTypes, InHand
<1>10. ASSUME NEW w \in Workers, Dispatch(w) PROVE QueueTypes'
  <2>1. txn' \in Txns /\ ready_txns_' \in Seq(Txns)
    BY <1>0, <1>10, TakeFromQueue DEF Dispatch, QueueTypes
  <2>2. Append(queues_[w], txn') \in Seq(Txns)
    BY <1>0, <2>1, AppendToQueue DEF QueueTypes
  <2> QED
    BY <1>0, <1>10, <1>a, <2>1, <2>2 DEF Dispatch, QueueTypes
<1>11. ASSUME NEW w \in Workers, WorkerStep(w) PROVE QueueTypes'
  <2>1. CASE StartTask(w)
    <3>1. Tail(queues_[w]) \in Seq(Txns)
      BY <1>0, <2>1, TakeFromQueue DEF StartTask, QueueTypes
    <3> QED
      BY <1>0, <1>a, <2>1, <3>1 DEF StartTask, QueueTypes
  <2>2. CASE ReadRecord(w)
    BY <1>0, <1>a, <2>2 DEF ReadRecord, QueueTypes
  <2>3. CASE RunAndHandBack(w)
    BY <1>0, <1>a, <2>3, AppendToQueue DEF RunAndHandBack, QueueTypes, ControlTypes, TxnOrNone
  <2> QED
    BY <1>11, <2>1, <2>2, <2>3 DEF WorkerStep
<1> QED
  BY <1>1, <1>2, <1>3, <1>4, <1>5, <1>6, <1>7, <1>8, <1>9, <1>10, <1>11 DEF Next, SchedulerStep

LEMMA StoreStep ==
  ASSUME IInv, Next
  PROVE  StoreTypes'
<1>0. /\ Types /\ ControlTypes /\ StoreTypes /\ LoopsLeft /\ Statuses
      /\ \A t \in Txns : IsTxn(txns[t])
  BY DEF IInv, Types, StoreTypes
<1>1. ASSUME NEW t \in Txns, NEW x, IsTxn(x), txns' = [txns EXCEPT ![t] = x], data_' = data_
      PROVE  StoreTypes'
  BY <1>0, <1>1 DEF StoreTypes
<1>2. CASE PopCompleted
  <2>1. PICK h \in Txns : h = Head(completed_txns_)
    BY <1>0, <1>2, CompletedMoves DEF IInv
  <2>2. txns' = txns \/ txns' = [txns EXCEPT ![h] = [txns[h] EXCEPT !.status_ = "ABORTED"]]
    BY <1>0, <1>2, <2>1 DEF PopCompleted, StoreTypes
  <2>3. IsTxn([txns[h] EXCEPT !.status_ = "ABORTED"])
    BY <1>0, StatusIs
  <2>4. data_' = data_
    BY <1>2 DEF PopCompleted
  <2> QED
    BY <1>0, <1>1, <2>2, <2>3, <2>4 DEF StoreTypes
<1>3. CASE Commit
  <2>1. PICK h \in Txns : h = txn
    BY <1>0, <1>3 DEF Commit, ControlTypes, InHand
  <2>2. txns' = [txns EXCEPT ![h] = [txns[h] EXCEPT !.status_ = "COMMITTED"]]
    BY <1>0, <1>3, <2>1 DEF Commit, StoreTypes
  <2>3. IsTxn([txns[h] EXCEPT !.status_ = "COMMITTED"])
    BY <1>0, StatusIs
  <2> QED
    BY <1>1, <1>3, <2>2, <2>3 DEF Commit
<1>4. CASE ApplyWrite
  BY <1>0, <1>4 DEF ApplyWrite, StoreTypes
<1>5. ASSUME NEW w \in Workers, ReadRecord(w) PROVE StoreTypes'
  <2>1. PICK h \in Txns : h = task[w]
    BY <1>0, <1>5 DEF ReadRecord, LoopsLeft, ControlTypes, TxnOrNone
  <2>2. txns' = [txns EXCEPT ![h] = SaveRead(txns[h], data_, KeyOf(scan[w]))]
    BY <1>0, <1>5, <2>1 DEF ReadRecord, StoreTypes
  <2>3. IsTxn(SaveRead(txns[h], data_, KeyOf(scan[w])))
    BY <1>0, SaveReadIs
  <2> QED
    BY <1>1, <1>5, <2>2, <2>3 DEF ReadRecord
<1>6. ASSUME NEW w \in Workers, RunAndHandBack(w) PROVE StoreTypes'
  <2>1. PICK h \in Txns : h = task[w]
    BY <1>0, <1>6 DEF RunAndHandBack, ControlTypes, TxnOrNone
  <2>2. txns' = [txns EXCEPT ![h] = Run(program[h], txns[h])]
    BY <1>0, <1>6, <2>1 DEF RunAndHandBack, StoreTypes
  <2>3. txns[h].status_ = "INCOMPLETE" /\ txns[h].writes_ = NoRecords
    BY <1>0, <1>6, <2>1 DEF RunAndHandBack, Statuses
  <2>4. IsTxn(Run(program[h], txns[h]))
    BY <1>0, <2>3, RunIs
  <2> QED
    BY <1>1, <1>6, <2>2, <2>4 DEF RunAndHandBack
<1>7. CASE txns' = txns /\ data_' = data_
  BY <1>0, <1>7 DEF StoreTypes
<1>8. \/ PopCompleted \/ Commit \/ ApplyWrite
      \/ \E w \in Workers : ReadRecord(w) \/ RunAndHandBack(w)
      \/ txns' = txns /\ data_' = data_
  BY DEF Next, SchedulerStep, WorkerStep, NewTxnRequest, GetTxnResult, PopRequest, NoRequest,
    RequestLock, ReleaseLock, QueueUnlessBlocked, NoneCompleted, ReturnResult, Dispatch,
    NoneReady, StartTask
<1> QED
  BY <1>2, <1>3, <1>4, <1>5, <1>6, <1>7, <1>8

LEMMA TypesStep ==
  ASSUME IInv, Next
  PROVE  Types'
  BY ControlStep, QueuesStep, StoreStep DEF Types

(* Places. *)
LEMMA PlacesStep ==
  ASSUME IInv, Next
  PROVE  /\ Distinct' /\ Unshared'
         /\ \A t \in Txns : unique_id_'[t] = 0 => Absent(t)'
<1>0. Types /\ Distinct /\ Unshared /\ Order /\ LoopsLeft /\ Table /\ Waiters /\ Statuses
  BY DEF IInv
<1> DEFINE Known(S) == \A t \in S : t \in Txns /\ unique_id_'[t] # 0
<1>1. SUFFICES /\ \E S, p, q : Moves(S, p, q) /\ From(S, p) /\ Known(S) /\ Distinct'
               /\ \A t \in Txns : unique_id_'[t] = 0 => unique_id_[t] = 0
  <2>1. PICK S, p, q : Moves(S, p, q) /\ From(S, p) /\ Known(S) /\ Distinct'
    BY <1>1
  <2>2. Unshared'
    BY <1>0, <2>1, MovedOnce
  <2>3. ASSUME NEW t \in Txns, unique_id_'[t] = 0 PROVE Absent(t)'
    <3>1. Absent(t) /\ t \notin S
      BY <1>0, <1>1, <2>1, <2>3 DEF Order
    <3> QED
      BY <2>1, <3>1 DEF Moves, Absent, Places
  <2> QED
    BY <2>1, <2>2, <2>3
<1>2. ASSUME NEW t \in Txns, NEW p \in Places, NEW q, At(t, p), Moves({t}, p, q), Distinct',
             unique_id_' = unique_id_
      PROVE  \E R, a, b : Moves(R, a, b) /\ From(R, a) /\ Known(R) /\ Distinct'
  <2>1. From({t}, p) /\ Known({t})
    BY <1>0, <1>2 DEF From, Order, Absent
  <2> QED
    BY <1>2, <2>1
<1>3. From({}, Nowhere) /\ Known({})
  BY DEF From
<1>4. CASE \E t \in Txns : NewTxnRequest(t)
  <2>1. PICK t \in Txns : NewTxnRequest(t)
    BY <1>4
  <2>2. Moves({t}, Nowhere, Asking) /\ From({t}, Nowhere) /\ Distinct'
    BY <1>0, <2>1, RequestMoves, PlacesAre DEF From
  <2>3. Known({t}) /\ \A u \in Txns : unique_id_'[u] = 0 => unique_id_[u] = 0
    BY <1>0, <2>1 DEF NewTxnRequest, Types, ControlTypes
  <2> QED
    BY <2>2, <2>3
<1> HIDE DEF Known
<1>5. unique_id_' = unique_id_ \/ \E t \in Txns : NewTxnRequest(t)
  BY DEF Next, SchedulerStep, WorkerStep, GetTxnResult, PopRequest, NoRequest, RequestLock,
    QueueUnlessBlocked, PopCompleted, NoneCompleted, ApplyWrite, Commit, ReleaseLock,
    ReturnResult, Dispatch, NoneReady, StartTask, ReadRecord, RunAndHandBack, clientVars
<1>6. SUFFICES ASSUME unique_id_' = unique_id_
               PROVE  \E S, p, q : Moves(S, p, q) /\ From(S, p) /\ Known(S) /\ Distinct'
  BY <1>4, <1>5
<1>7. CASE NoRequest \/ NoneCompleted \/ NoneReady \/ RequestLock \/ ApplyWrite \/ Commit
            \/ \E w \in Workers : ReadRecord(w)
  <2>1. UNCHANGED <<txn_requests_, ready_txns_, completed_txns_, txn_results_,
                    received, queues_, task>>
    BY <1>7 DEF NoRequest, NoneCompleted, NoneReady, RequestLock, ApplyWrite, Commit, ReadRecord,
      clientVars, workerVars
  <2>2. (pc' = pc /\ txn' = txn) \/ (pc \notin InHand /\ pc' \notin InHand)
          \/ (txn' = txn /\ pc \in InHand /\ pc' \in InHand)
    BY <1>7 DEF NoRequest, NoneCompleted, NoneReady, RequestLock, ApplyWrite, Commit, ReadRecord,
      schedulerVars, InHand
  <2>3. Moves({}, Nowhere, Nowhere) /\ Distinct'
    BY <1>0, <2>1, <2>2, Stays
  <2> QED
    BY <1>3, <2>3
<1>8. CASE GetTxnResult \/ PopRequest \/ QueueUnlessBlocked
  BY <1>0, <1>2, <1>6, <1>8, ResultMoves, PopMoves, LockedMoves, PlacesAre
<1>9. CASE PopCompleted \/ ReturnResult
  BY <1>0, <1>2, <1>6, <1>9, CompletedMoves, ReturnMoves, PlacesAre
<1>10. CASE ReleaseLock
  <2>1. PICK S \in SUBSET Txns : /\ Moves(S, Nowhere, Ready) /\ Distinct'
                                 /\ \A u \in S : Absent(u) /\ unique_id_[u] # 0
    BY <1>0, <1>10, ReleaseMoves
  <2>2. From(S, Nowhere) /\ Known(S)
    BY <1>6, <2>1, PlacesAre DEF From, Known
  <2> QED
    BY <2>1, <2>2
<1>11. CASE \E w \in Workers : Dispatch(w) \/ StartTask(w) \/ RunAndHandBack(w)
  BY <1>0, <1>2, <1>6, <1>11, DispatchMoves, StartMoves, BackMoves, PlacesAre
<1>12. CASE \E t \in Txns : NewTxnRequest(t)
  BY <1>4, <1>12
<1> QED
  BY <1>7, <1>8, <1>9, <1>10, <1>11, <1>12 DEF Next, SchedulerStep, WorkerStep

-----------------------------------------------------------------------------
(* The order of requests. *)
LEMMA OrderStep ==
  ASSUME IInv, Next
  PROVE  Order'
<1>0. /\ Types /\ Distinct /\ Unshared /\ Order
      /\ txn_requests_ \in Seq(Txns)
      /\ \A t \in Txns : unique_id_[t] \in Nat
      /\ unique_id_ \in [Txns -> Nat] /\ next_unique_id_ \in Nat \ {0}
  BY DEF IInv, Types, ControlTypes, QueueTypes
<1>1. \A t \in Txns : unique_id_'[t] = 0 => Absent(t)'
  BY PlacesStep
<1>2. ASSUME NEW t \in Txns, NewTxnRequest(t) PROVE Order'
  <2>1. /\ unique_id_[t] = 0 /\ unique_id_'[t] = next_unique_id_
        /\ \A u \in Txns \ {t} : unique_id_'[u] = unique_id_[u]
        /\ next_unique_id_' = next_unique_id_ + 1
        /\ txn_requests_' = Append(txn_requests_, t) /\ pc' = pc /\ txn' = txn
    BY <1>0, <1>2 DEF NewTxnRequest, schedulerVars
  <2>2. Moves({t}, Nowhere, Asking) /\ ~At(t, Asking)
    BY <1>0, <1>2, RequestMoves, PlacesAre DEF Absent
  <2>3. \A u \in Txns : At(u, Asking)' <=> At(u, Asking) \/ u = t
    BY <2>2, PlacesAre, PlacesDiffer DEF Moves
  <2>4. \A u \in Txns : Popped(u)' <=> Popped(u) /\ u # t
    BY <2>1, <2>2, <2>3 DEF Popped
  <2>5. \A u \in Txns : unique_id_[u] < next_unique_id_
    BY <1>0 DEF Order
  <2>6. \A u, v \in Txns : unique_id_'[u] = unique_id_'[v] /\ unique_id_'[u] # 0 => u = v
    <3>1. \A u, v \in Txns : unique_id_[u] = unique_id_[v] /\ unique_id_[u] # 0 => u = v
      BY <1>0 DEF Order
    <3> QED
      BY <1>0, <2>1, <2>5, <3>1
  <2>7. \A u \in Txns : unique_id_'[u] < next_unique_id_'
    BY <1>0, <2>1, <2>5
  <2>8. \A i, j \in DOMAIN txn_requests_' :
          i < j => unique_id_'[txn_requests_'[i]] < unique_id_'[txn_requests_'[j]]
    <3>1. \A i, j \in DOMAIN txn_requests_ :
            i < j => unique_id_[txn_requests_[i]] < unique_id_[txn_requests_[j]]
      BY <1>0 DEF Order
    <3>2. \A i \in DOMAIN txn_requests_ : txn_requests_[i] \in Txns \ {t}
      BY <1>0, <2>2, QueueIndex, ContentsAre
    <3> QED
      BY <1>0, <2>1, <2>5, <3>1, <3>2, AppendInOrder
  <2>9. \A u, v \in Txns : Popped(u)' /\ At(v, Asking)' => unique_id_'[u] < unique_id_'[v]
    <3>1. \A u, v \in Txns : Popped(u) /\ At(v, Asking) => unique_id_[u] < unique_id_[v]
      BY <1>0 DEF Order
    <3> QED
      BY <2>1, <2>2, <2>3, <2>4, <2>5, <3>1
  <2>10. \A u \in Txns : Popped(u)' /\ pc' = "lock" /\ u # txn'
            => unique_id_'[u] < unique_id_'[txn']
    <3>1. pc = "lock" => txn \in Txns /\ unique_id_[txn] # 0
      <4>1. pc = "lock" => txn \in Txns /\ At(txn, Hand)
        BY <1>0, ContentsAre DEF Types, ControlTypes, InHand
      <4> QED
        BY <1>0, <4>1, PlacesAre DEF Order, Absent
    <3>2. \A u \in Txns : Popped(u) /\ pc = "lock" /\ u # txn => unique_id_[u] < unique_id_[txn]
      BY <1>0 DEF Order
    <3> QED
      BY <2>1, <2>4, <3>1, <3>2
  <2> QED
    BY <1>1, <2>6, <2>7, <2>8, <2>9, <2>10 DEF Order
<1>3. CASE PopRequest
  <2>1. PICK h \in Txns : h = txn' /\ At(h, Asking) /\ Moves({h}, Asking, Hand)
    BY <1>0, <1>3, PopMoves
  <2>2. /\ txn_requests_ # <<>> /\ h = Head(txn_requests_) /\ txn_requests_' = Tail(txn_requests_)
        /\ unique_id_' = unique_id_ /\ next_unique_id_' = next_unique_id_
    BY <1>3, <2>1 DEF PopRequest, clientVars
  <2>3. /\ \A u \in Txns : At(u, Asking)' <=> At(u, Asking) /\ u # h
        /\ \A u \in Txns : At(u, Asking)' <=> u \in ToSet(Tail(txn_requests_))
    BY <2>1, <2>2, PlacesAre, PlacesDiffer, ContentsNext DEF Moves
  <2>4. unique_id_[h] # 0
    BY <1>0, <2>1, PlacesAre DEF Order, Absent
  <2>5. \A u \in Txns : Popped(u)' <=> Popped(u) \/ u = h
    BY <2>2, <2>3, <2>4 DEF Popped
  <2>6. \A i, j \in DOMAIN txn_requests_ :
          i < j => unique_id_[txn_requests_[i]] < unique_id_[txn_requests_[j]]
    BY <1>0 DEF Order
  <2>7. /\ \A i, j \in DOMAIN Tail(txn_requests_) : i < j =>
             unique_id_[Tail(txn_requests_)[i]] < unique_id_[Tail(txn_requests_)[j]]
        /\ \A u \in ToSet(Tail(txn_requests_)) : unique_id_[h] < unique_id_[u]
    <3>1. /\ \A i, j \in DOMAIN Tail(txn_requests_) : i < j =>
               \E a, b \in DOMAIN txn_requests_ :
                 /\ a < b /\ Tail(txn_requests_)[i] = txn_requests_[a]
                 /\ Tail(txn_requests_)[j] = txn_requests_[b]
          /\ \A u \in ToSet(Tail(txn_requests_)) : \E a, b \in DOMAIN txn_requests_ :
               a < b /\ txn_requests_[a] = h /\ txn_requests_[b] = u
      <4>1. txn_requests_ \in Seq(Txns) /\ txn_requests_ # <<>>
        BY <1>0, <2>2
      <4> QED
        BY <2>2, <4>1, TakeInOrder
    <3> QED
      BY <2>6, <3>1
  <2>8. \A u, v \in Txns : Popped(u) /\ At(v, Asking) => unique_id_[u] < unique_id_[v]
    BY <1>0 DEF Order
  <2>9. \A u, v \in Txns : Popped(u)' /\ At(v, Asking)' => unique_id_'[u] < unique_id_'[v]
    BY <2>2, <2>3, <2>5, <2>7, <2>8
  <2>10. \A u \in Txns : Popped(u)' /\ u # txn' => unique_id_'[u] < unique_id_'[txn']
    BY <2>1, <2>2, <2>5, <2>8
  <2> QED
    BY <1>0, <1>1, <2>2, <2>7, <2>9, <2>10 DEF Order
<1>4. CASE UNCHANGED <<unique_id_, next_unique_id_, txn_requests_>>
           /\ (pc' = "lock" => pc = "lock" /\ txn' = txn)
  <2>1. \A u \in Txns : /\ At(u, Asking)' <=> At(u, Asking)
                        /\ Popped(u)' <=> Popped(u)
    BY <1>4, ContentsAre, ContentsNext DEF Popped
  <2> QED
    BY <1>0, <1>1, <1>4, <2>1 DEF Order
<1>5. \/ \E t \in Txns : NewTxnRequest(t)
      \/ PopRequest
      \/ UNCHANGED <<unique_id_, next_unique_id_, txn_requests_>>
           /\ (pc' = "lock" => pc = "lock" /\ txn' = txn)
  BY DEF Next, SchedulerStep, WorkerStep, GetTxnResult, NoRequest, RequestLock,
    QueueUnlessBlocked, PopCompleted, NoneCompleted, ApplyWrite, Commit, ReleaseLock,
    ReturnResult, Dispatch, NoneReady, StartTask, ReadRecord, RunAndHandBack, clientVars,
    schedulerVars
<1> QED
  BY <1>2, <1>3, <1>4, <1>5

LEMMA LoopsStep ==
  ASSUME IInv, Next
  PROVE  LoopsLeft'
<1>0. /\ Types /\ ControlTypes /\ Distinct /\ LoopsLeft /\ Statuses /\ program \in Programs
      /\ program' = program
  BY DEF IInv, Types, ControlTypes, Next, SchedulerStep, WorkerStep, NewTxnRequest, GetTxnResult,
    PopRequest, NoRequest, RequestLock, QueueUnlessBlocked, PopCompleted, NoneCompleted,
    ApplyWrite, Commit, ReleaseLock, ReturnResult, Dispatch, NoneReady, StartTask, ReadRecord,
    RunAndHandBack, fixed
<1> DEFINE Left1 == /\ pc \notin InHand => todo = NoLoop
                    /\ pc \in InHand => Within(todo, program[txn])
                    /\ pc = "apply" => todo.read = {}
           Left2 == \A w \in Workers : IF task[w] = None THEN scan[w] = NoLoop
                                       ELSE Within(scan[w], program[task[w]])
<1>1. SUFFICES Left1' /\ Left2'
  BY DEF LoopsLeft
<1>2. Left1 /\ Left2
  BY <1>0 DEF LoopsLeft
<1>3. Left1'
  <2>1. CASE PopRequest
    <3>1. txn' \in Txns
      BY <1>0, <2>1, PopMoves
    <3> QED
      BY <1>0, <2>1, <3>1, LoopStart DEF PopRequest, InHand
  <2>2. CASE RequestLock \/ ApplyWrite \/ ReleaseLock
    <3>1. /\ todo # NoLoop /\ todo \in Loops /\ todo' = Rest(todo) /\ pc' = pc /\ txn' = txn
          /\ pc \in InHand
      BY <1>0, <2>2 DEF RequestLock, ApplyWrite, ReleaseLock, ControlTypes, InHand
    <3>2. Within(Rest(todo), program[txn]) /\ (todo.read = {} => Rest(todo).read = {})
      BY <1>2, <3>1, LoopStep DEF Within
    <3> QED
      BY <1>0, <1>2, <3>1, <3>2
  <2>3. CASE PopCompleted
    <3>1. PICK h \in Txns :
            /\ h = txn' /\ At(h, Completed) /\ h = Head(completed_txns_)
            /\ txns[h].status_ \in {"COMPLETED_C", "COMPLETED_A"}
            /\ pc' = IF txns[h].status_ = "COMPLETED_C" THEN "apply" ELSE "release"
      BY <1>0, <2>3, CompletedMoves
    <3>2. DOMAIN txns[h].writes_ = WriteSet(program[h])
      BY <1>0, <3>1 DEF Statuses, HasRun
    <3>3. todo' = IF txns[h].status_ = "COMPLETED_C"
                    THEN [NoLoop EXCEPT !.write = WriteSet(program[h])]
                    ELSE LoopsOf(program[h])
      BY <2>3, <3>1, <3>2 DEF PopCompleted
    <3>4. Within([NoLoop EXCEPT !.write = WriteSet(program[h])], program[h])
          /\ [NoLoop EXCEPT !.write = WriteSet(program[h])].read = {}
      BY DEF Within, NoLoop
    <3> QED
      BY <1>0, <3>1, <3>3, <3>4, LoopStart DEF InHand
  <2>4. CASE Commit
    BY <1>0, <2>4, LoopStart DEF Commit, ControlTypes, InHand
  <2>5. CASE QueueUnlessBlocked \/ ReturnResult
    BY <1>0, <2>5 DEF QueueUnlessBlocked, ReturnResult, InHand
  <2>6. CASE NoRequest \/ NoneCompleted \/ NoneReady \/ \E w \in Workers : Dispatch(w)
    BY <1>0, <1>2, <2>6 DEF NoRequest, NoneCompleted, NoneReady, Dispatch, InHand
  <2>7. CASE UNCHANGED schedulerVars
    BY <1>0, <1>2, <2>7 DEF schedulerVars
  <2> QED
    BY <2>1, <2>2, <2>3, <2>4, <2>5, <2>6, <2>7
    DEF Next, SchedulerStep, WorkerStep, NewTxnRequest, GetTxnResult, StartTask, ReadRecord,
      RunAndHandBack
<1>4. Left2'
  <2>1. ASSUME NEW w \in Workers, StartTask(w) PROVE Left2'
    <3>1. PICK h \in Txns : h = Head(queues_[w]) /\ task' = [task EXCEPT ![w] = h]
      BY <1>0, <2>1, StartMoves DEF IInv
    <3>2. scan' = [scan EXCEPT ![w] = LoopsOf(program[h])]
      BY <2>1, <3>1 DEF StartTask
    <3>3. Within(LoopsOf(program[h]), program[h]) /\ h # None
      BY <1>0, LoopStart, NamesAssumption
    <3> QED
      BY <1>0, <1>2, <3>1, <3>2, <3>3 DEF ControlTypes
  <2>2. ASSUME NEW w \in Workers, ReadRecord(w) PROVE Left2'
    <3>1. task[w] # None /\ scan[w] # NoLoop /\ scan[w] \in Loops /\ task' = task
      BY <1>0, <1>2, <2>2 DEF ReadRecord, ControlTypes
    <3>2. Within(Rest(scan[w]), program[task[w]])
      BY <1>2, <3>1, LoopStep DEF Within
    <3>3. scan' = [scan EXCEPT ![w] = Rest(scan[w])]
      BY <2>2 DEF ReadRecord
    <3> QED
      BY <1>0, <1>2, <3>1, <3>2, <3>3 DEF ControlTypes
  <2>3. ASSUME NEW w \in Workers, RunAndHandBack(w) PROVE Left2'
    BY <1>0, <1>2, <2>3 DEF RunAndHandBack, ControlTypes
  <2>4. CASE UNCHANGED <<task, scan>>
    BY <1>0, <1>2, <2>4
  <2>5. (\E w \in Workers : WorkerStep(w)) \/ UNCHANGED <<task, scan>>
    BY DEF Next, SchedulerStep, NewTxnRequest, GetTxnResult,
      PopRequest, NoRequest, RequestLock, QueueUnlessBlocked, PopCompleted, NoneCompleted,
      ApplyWrite, Commit, ReleaseLock, ReturnResult, Dispatch, NoneReady, workerVars
  <2> QED
    BY <2>1, <2>2, <2>3, <2>4, <2>5 DEF WorkerStep
<1> QED
  BY <1>3, <1>4

-----------------------------------------------------------------------------
(* The lock table. *)
LEMMA LoopShrinks ==
  ASSUME Types, NEW t \in Txns, NEW l \in Loops, l # NoLoop, Within(l, program[t])
  PROVE  /\ Left(Rest(l)) = Left(l) \ {KeyOf(l)}
         /\ KeyOf(l) \in KeySet(program[t])
         /\ KeyOf(l) \in WriteSet(program[t]) => ModeOf(l) = "EXCLUSIVE"
<1>1. ReadSet(program[t]) \cap WriteSet(program[t]) = {}
  BY Programmed DEF Types, ControlTypes
<1>2. l.read \subseteq ReadSet(program[t]) /\ l.write \subseteq WriteSet(program[t])
  BY DEF Within
<1> QED
  BY <1>1, <1>2, LoopStep DEF Left, KeySet

(* Who has asked for what, said of the places. *)
LEMMA AskedIs ==
  ASSUME Types, Unshared, Order, NEW t \in Txns
  PROVE  /\ lm = "shipped" => Asked(t) = {}
         /\ unique_id_[t] = 0 \/ At(t, Asking) \/ At(t, Results) \/ At(t, Received) => Asked(t) = {}
         /\ lm # "shipped" =>
              /\ At(t, Hand) /\ pc = "lock" => Asked(t) = KeySet(program[t]) \ Left(todo)
              /\ At(t, Hand) /\ pc = "release" => Asked(t) = Left(todo)
              /\ t \in Active => Asked(t) = KeySet(program[t])
<1>1. At(t, Hand) => unique_id_[t] # 0 /\ ~At(t, Asking) /\ ~At(t, Results) /\ ~At(t, Received)
  BY PlacesAre, PlacesDiffer DEF Unshared, Order, Absent
<1>2. t \in Active => /\ unique_id_[t] # 0 /\ ~At(t, Asking) /\ ~At(t, Results) /\ ~At(t, Received)
                      /\ At(t, Hand) => pc = "apply"
  BY ActiveAre, PlacesAre, PlacesDiffer DEF Unshared, Order, Absent
<1> QED
  BY <1>1, <1>2 DEF Asked

LEMMA AskedSame ==
  ASSUME IInv, Next, ~RequestLock, ~ReleaseLock, NEW t \in Txns
  PROVE  Asked(t)' = Asked(t)
<1>0. /\ Types /\ Distinct /\ Unshared /\ Order /\ LoopsLeft /\ Table /\ Waiters /\ Statuses
      /\ program \in Programs
      /\ lm' = lm /\ program' = program
  BY DEF IInv, Types, ControlTypes, Next, SchedulerStep, WorkerStep, NewTxnRequest, GetTxnResult,
    PopRequest, NoRequest, RequestLock, QueueUnlessBlocked, PopCompleted, NoneCompleted,
    ApplyWrite, Commit, ReleaseLock, ReturnResult, Dispatch, NoneReady, StartTask, ReadRecord,
    RunAndHandBack, fixed
<1>1. CASE lm = "shipped"
  BY <1>0, <1>1 DEF Asked
<1>2. ASSUME At(t, Asking)' <=> At(t, Asking), At(t, Results)' <=> At(t, Results),
             At(t, Received)' <=> At(t, Received), At(t, Hand)' <=> At(t, Hand),
             unique_id_' = unique_id_, pc' = pc, todo' = todo
      PROVE  Asked(t)' = Asked(t)
  BY <1>0, <1>2 DEF Asked
<1>3. ASSUME NEW u \in Txns, NewTxnRequest(u) PROVE Asked(t)' = Asked(t)
  <2>1. Moves({u}, Nowhere, Asking) /\ unique_id_[u] = 0
    BY <1>0, <1>3, RequestMoves DEF NewTxnRequest
  <2>2. \A r \in {Results, Received, Hand} : At(t, r)' <=> At(t, r)
    BY <2>1, PlacesAre, PlacesDiffer DEF Moves
  <2>3. At(t, Asking)' <=> At(t, Asking) \/ t = u
    BY <2>1, PlacesAre, PlacesDiffer DEF Moves
  <2>4. CASE t = u
    BY <2>1, <2>3, <2>4 DEF Asked
  <2>5. CASE t # u
    <3>1. unique_id_'[t] = unique_id_[t] /\ pc' = pc /\ todo' = todo
      BY <1>0, <1>3, <2>5 DEF NewTxnRequest, Types, ControlTypes, schedulerVars
    <3> QED
      BY <1>0, <2>2, <2>3, <2>5, <3>1 DEF Asked
  <2> QED
    BY <2>4, <2>5
<1>4. CASE GetTxnResult
  <2>1. PICK h \in Txns : At(h, Results) /\ Moves({h}, Results, Received)
    BY <1>0, <1>4, ResultMoves
  <2>2. /\ At(t, Asking)' <=> At(t, Asking)
        /\ At(t, Hand)' <=> At(t, Hand)
        /\ At(t, Results)' \/ At(t, Received)' <=> At(t, Results) \/ At(t, Received)
    BY <2>1, PlacesAre, PlacesDiffer DEF Moves
  <2>3. unique_id_' = unique_id_ /\ pc' = pc /\ todo' = todo
    BY <1>4 DEF GetTxnResult, schedulerVars
  <2> QED
    BY <1>0, <2>2, <2>3 DEF Asked
<1>5. CASE PopRequest
  <2>1. PICK h \in Txns : h = txn' /\ At(h, Asking) /\ Moves({h}, Asking, Hand)
    BY <1>0, <1>5, PopMoves
  <2>2. /\ pc = "pop" /\ pc' = "lock" /\ unique_id_' = unique_id_
        /\ todo' = LoopsOf(program[h])
    BY <1>5, <2>1 DEF PopRequest, clientVars
  <2>3. Left(todo') = KeySet(program[h])
    BY <1>0, <2>2, LoopStart
  <2>4. \A r \in {Results, Received} : At(t, r)' <=> At(t, r)
    BY <2>1, PlacesAre, PlacesDiffer DEF Moves
  <2>5. ~At(t, Hand) /\ (At(t, Hand)' <=> t = h) /\ (At(t, Asking)' <=> At(t, Asking) /\ t # h)
    BY <2>1, <2>2, ContentsAre, ContentsNext, PlacesAre, PlacesDiffer DEF Moves, InHand
  <2> QED
    BY <1>0, <2>1, <2>2, <2>3, <2>4, <2>5 DEF Asked
<1>6. CASE NoRequest \/ NoneCompleted \/ NoneReady
  <2>1. UNCHANGED <<txn_requests_, txn_results_, received, unique_id_, todo>>
    BY <1>6 DEF NoRequest, NoneCompleted, NoneReady, clientVars
  <2>2. pc \notin InHand /\ pc' \notin InHand
    BY <1>6 DEF NoRequest, NoneCompleted, NoneReady, InHand
  <2>3. /\ At(t, Asking)' <=> At(t, Asking)
        /\ At(t, Results)' <=> At(t, Results)
        /\ At(t, Received)' <=> At(t, Received)
        /\ ~At(t, Hand) /\ ~At(t, Hand)'
    BY <2>1, <2>2, ContentsAre, ContentsNext
  <2> QED
    BY <1>0, <2>1, <2>3 DEF Asked
<1>7. CASE QueueUnlessBlocked
  <2>1. /\ pc = "lock" /\ pc' = "drain" /\ todo = NoLoop
        /\ UNCHANGED <<txn_requests_, txn_results_, received, unique_id_>>
    BY <1>7 DEF QueueUnlessBlocked, clientVars
  <2>2. /\ At(t, Asking)' <=> At(t, Asking)
        /\ At(t, Results)' <=> At(t, Results)
        /\ At(t, Received)' <=> At(t, Received)
        /\ ~At(t, Hand)'
    BY <2>1, ContentsAre, ContentsNext DEF InHand
  <2> QED
    BY <1>0, <2>1, <2>2, LoopEnd DEF Asked
<1>8. CASE PopCompleted
  <2>1. PICK h \in Txns : /\ h = txn' /\ h = Head(completed_txns_) /\ At(h, Completed)
                          /\ txns[h].status_ \in {"COMPLETED_C", "COMPLETED_A"}
                          /\ pc' = IF txns[h].status_ = "COMPLETED_C" THEN "apply" ELSE "release"
    BY <1>0, <1>8, CompletedMoves
  <2>2. /\ pc = "drain" /\ pc' \in {"apply", "release"}
        /\ UNCHANGED <<txn_requests_, txn_results_, received, unique_id_>>
        /\ pc' = "release" => todo' = LoopsOf(program[h])
    BY <1>8, <2>1 DEF PopCompleted, clientVars
  <2>3. /\ At(t, Asking)' <=> At(t, Asking)
        /\ At(t, Results)' <=> At(t, Results)
        /\ At(t, Received)' <=> At(t, Received)
        /\ ~At(t, Hand) /\ (At(t, Hand)' <=> t = h)
    BY <2>1, <2>2, ContentsAre, ContentsNext DEF InHand
  <2> QED
    BY <1>0, <2>1, <2>2, <2>3, LoopStart DEF Asked
<1>9. CASE ApplyWrite \/ Commit
  <2>1. /\ pc = "apply" /\ pc' \in {"apply", "release"} /\ txn' = txn /\ txn \in Txns
        /\ UNCHANGED <<txn_requests_, txn_results_, received, unique_id_>>
        /\ pc' = "release" => todo' = LoopsOf(program[txn])
    BY <1>0, <1>9 DEF ApplyWrite, Commit, clientVars, Types, ControlTypes, InHand
  <2>3. /\ At(t, Asking)' <=> At(t, Asking)
        /\ At(t, Results)' <=> At(t, Results)
        /\ At(t, Received)' <=> At(t, Received)
        /\ At(t, Hand) <=> t = txn
        /\ At(t, Hand)' <=> t = txn
    BY <2>1, ContentsAre, ContentsNext DEF InHand
  <2> QED
    BY <1>0, <2>1, <2>3, LoopStart DEF Asked
<1>10. CASE ReturnResult
  <2>1. PICK h \in Txns : h = txn /\ At(h, Hand) /\ Moves({h}, Hand, Results)
    BY <1>0, <1>10, ReturnMoves
  <2>2. pc = "release" /\ pc' = "drain" /\ todo = NoLoop /\ unique_id_' = unique_id_
    BY <1>10 DEF ReturnResult, clientVars
  <2>3. /\ At(t, Asking)' <=> At(t, Asking)
        /\ At(t, Received)' <=> At(t, Received)
        /\ At(t, Results)' <=> At(t, Results) \/ t = h
        /\ ~At(t, Hand)' /\ (At(t, Hand) <=> t = h)
    BY <2>1, <2>2, ContentsAre, ContentsNext, PlacesAre, PlacesDiffer DEF Moves, InHand
  <2> QED
    BY <1>0, <2>2, <2>3, LoopEnd DEF Asked
<1>11. CASE \E w \in Workers : Dispatch(w)
  <2>1. /\ UNCHANGED <<txn_requests_, txn_results_, received, unique_id_, pc, todo>>
        /\ pc = "dispatch"
    BY <1>11 DEF Dispatch, clientVars
  <2> QED
    BY <1>2, <2>1, ContentsAre, ContentsNext DEF InHand
<1>12. CASE \E w \in Workers : WorkerStep(w)
  <2>1. UNCHANGED <<txn_requests_, txn_results_, received, unique_id_, pc, todo, txn>>
    BY <1>12 DEF WorkerStep, StartTask, ReadRecord, RunAndHandBack, clientVars, schedulerVars
  <2> QED
    BY <1>2, <2>1, ContentsAre, ContentsNext
<1> QED
  BY <1>1, <1>3, <1>4, <1>5, <1>6, <1>7, <1>8, <1>9, <1>10, <1>11, <1>12
  DEF Next, SchedulerStep

(* The two steps that change the table, and what they do to it. *)
LEMMA RequestStep ==
  ASSUME IInv, RequestLock, lm # "shipped"
  PROVE  \E k \in Keys, h \in Txns, mode \in {"SHARED", "EXCLUSIVE"} :
           /\ h = txn /\ k = KeyOf(todo) /\ pc = "lock" /\ At(h, Hand) /\ ~In(lock_table_[k], h)
           /\ lock_table_' = Requested(lm, lock_table_, h, k, mode)
           /\ blocked' = (blocked \/ ~RequestGranted(lm, lock_table_, h, k, mode))
           /\ k \in WriteSet(program[h]) => mode = "EXCLUSIVE"
           /\ k \in KeySet(program[h]) /\ Left(todo') = Left(todo) \ {k}
<1>0. /\ Types /\ ControlTypes /\ Unshared /\ Order /\ Table /\ LoopsLeft
      /\ todo # NoLoop /\ pc = "lock"
  BY DEF IInv, Types, RequestLock
<1>1. PICK k \in Keys : k = KeyOf(todo) /\ k \in Left(todo)
  BY <1>0, LoopStep DEF ControlTypes
<1>2. PICK h \in Txns : h = txn /\ At(h, Hand)
  BY <1>0, ContentsAre DEF ControlTypes, InHand
<1>3. Within(todo, program[h])
  BY <1>0, <1>2 DEF LoopsLeft, InHand
<1>4. ~In(lock_table_[k], h)
  BY <1>0, <1>1, <1>2, AskedIs DEF Table
<1>5. /\ Left(Rest(todo)) = Left(todo) \ {k} /\ k \in KeySet(program[h])
      /\ k \in WriteSet(program[h]) => ModeOf(todo) = "EXCLUSIVE"
  BY <1>0, <1>1, <1>3, LoopShrinks DEF ControlTypes
<1>6. ModeOf(todo) \in {"SHARED", "EXCLUSIVE"}
  BY DEF ModeOf
<1> QED
  BY <1>0, <1>1, <1>2, <1>4, <1>5, <1>6 DEF RequestLock

LEMMA ReleaseStep ==
  ASSUME IInv, ReleaseLock
  PROVE  \E k \in Keys, h \in Txns :
           /\ h = txn /\ k = KeyOf(todo) /\ pc = "release" /\ At(h, Hand)
           /\ lock_table_' = Released(lock_table_, h, k)
           /\ Left(todo') = Left(todo) \ {k}
<1>0. Types /\ ControlTypes /\ LoopsLeft /\ todo # NoLoop /\ pc = "release"
  BY DEF IInv, Types, ReleaseLock
<1>1. PICK k \in Keys : k = KeyOf(todo)
  BY <1>0, LoopStep DEF ControlTypes
<1>2. PICK h \in Txns : h = txn /\ At(h, Hand)
  BY <1>0, ContentsAre DEF ControlTypes, InHand
<1>3. Within(todo, program[h])
  BY <1>0, <1>2 DEF LoopsLeft, InHand
<1>4. Left(Rest(todo)) = Left(todo) \ {k}
  BY <1>0, <1>1, <1>3, LoopShrinks DEF ControlTypes
<1> QED
  BY <1>0, <1>1, <1>2, <1>4 DEF ReleaseLock

LEMMA FixedStep ==
  ASSUME Next
  PROVE  /\ lm' = lm /\ program' = program
         /\ unique_id_' = unique_id_ \/ \E t \in Txns : NewTxnRequest(t)
         /\ lock_table_' = lock_table_ \/ RequestLock \/ ReleaseLock
  BY DEF Next, SchedulerStep, WorkerStep, NewTxnRequest, GetTxnResult,
    PopRequest, NoRequest, RequestLock, QueueUnlessBlocked, PopCompleted, NoneCompleted,
    ApplyWrite, Commit, ReleaseLock, ReturnResult, Dispatch, NoneReady, StartTask, ReadRecord,
    RunAndHandBack, fixed, clientVars

LEMMA TableStep ==
  ASSUME IInv, Next
  PROVE  Table'
<1>0. /\ Types /\ Unshared /\ Order /\ Table /\ lock_table_ \in [Keys -> Seq(Requests(Txns))]
      /\ lm' = lm /\ program' = program /\ lm \in LockManagers
  BY FixedStep, LockingSchedulerAssumption DEF IInv, Types, ControlTypes, QueueTypes
<1>1. \A k \in Keys : Once(lock_table_[k])
  BY <1>0, TableOnce
<1>2. \A k \in Keys : \A i \in DOMAIN lock_table_[k] :
        /\ lock_table_[k][i].txn_ \in Txns
        /\ k \in Asked(lock_table_[k][i].txn_)
  <2>1. \A k \in Keys : \A i \in DOMAIN lock_table_[k] : lock_table_[k][i].txn_ \in Txns
    <3>1. \A k \in Keys : \A i \in DOMAIN lock_table_[k] : lock_table_[k][i] \in Requests(Txns)
      BY <1>0, QueueIndex
    <3> QED
      BY <3>1 DEF Requests
  <2> QED
    BY <1>0, <2>1 DEF Table, In
<1>3. CASE RequestLock /\ lm # "shipped"
  <2>1. PICK k \in Keys, h \in Txns, mode \in {"SHARED", "EXCLUSIVE"} :
           /\ h = txn /\ pc = "lock" /\ At(h, Hand) /\ ~In(lock_table_[k], h)
           /\ lock_table_' = Requested(lm, lock_table_, h, k, mode)
           /\ k \in WriteSet(program[h]) => mode = "EXCLUSIVE"
           /\ k \in KeySet(program[h]) /\ Left(todo') = Left(todo) \ {k}
    BY <1>3, RequestStep
  <2>2. PICK e : e = LockRequest(h, IF lm = "A" THEN "EXCLUSIVE" ELSE mode)
    OBVIOUS
  <2>3. /\ lock_table_' \in [Keys -> Seq(Requests(Txns))] /\ \A j \in Keys : Once(lock_table_'[j])
        /\ \A j \in Keys, u \in Txns :
             In(lock_table_'[j], u) <=> In(lock_table_[j], u) \/ (j = k /\ u = h)
        /\ \A j \in Keys \ {k} : lock_table_'[j] = lock_table_[j]
        /\ \A i \in DOMAIN lock_table_'[k] :
             \/ i \in DOMAIN lock_table_[k] /\ lock_table_'[k][i] = lock_table_[k][i]
             \/ (\A j \in DOMAIN lock_table_[k] : j < i) /\ lock_table_'[k][i] = e
    <3>1. lm \in {"A", "B"}
      BY <1>0, <1>3 DEF LockManagers
    <3>2. /\ lock_table_ \in [Keys -> Seq(Requests(Txns))]
          /\ \A j \in Keys : Once(lock_table_[j])
          /\ ~In(lock_table_[k], h) /\ lock_table_' = Requested(lm, lock_table_, h, k, mode)
      BY <1>0, <1>1, <2>1
    <3> QED
      BY <2>2, <3>1, <3>2, RequestKeeps, SMTT(60)
  <2>4. /\ pc' = pc /\ txn' = txn /\ unique_id_' = unique_id_ /\ todo' = Rest(todo)
        /\ UNCHANGED <<txn_requests_, txn_results_, received>>
    BY <1>3 DEF RequestLock, clientVars
  <2>5. \A t \in Txns : Asked(t)' = Asked(t) \union {j \in {k} : t = h}
    <3>1. \A t \in Txns : /\ At(t, Asking)' <=> At(t, Asking)
                          /\ At(t, Results)' <=> At(t, Results)
                          /\ At(t, Received)' <=> At(t, Received)
                          /\ At(t, Hand)' <=> At(t, Hand)
                          /\ At(t, Hand) <=> t = h
      BY <2>1, <2>4, ContentsAre, ContentsNext DEF InHand
    <3>2. ~(unique_id_[h] = 0 \/ At(h, Asking) \/ At(h, Results) \/ At(h, Received))
      BY <2>1, PlacesAre, PlacesDiffer DEF IInv, Unshared, Order, Absent
    <3>3. k \in Left(todo)
      BY <1>1, <1>0, <1>3, <2>1, AskedIs DEF Table
    <3>4. ASSUME NEW t \in Txns, t # h PROVE Asked(t)' = Asked(t)
      BY <1>0, <2>4, <3>1, <3>4 DEF Asked
    <3>5. Asked(h) = KeySet(program[h]) \ Left(todo)
      BY <1>0, <1>3, <2>1, AskedIs
    <3>6. Asked(h)' = KeySet(program[h]) \ Left(todo')
      BY <1>0, <1>3, <2>1, <2>4, <3>1, <3>2 DEF Asked
    <3> QED
      BY <2>1, <3>4, <3>5, <3>6
  <2>6. \A j \in Keys, t \in Txns : In(lock_table_'[j], t) <=> j \in Asked(t)'
    BY <1>0, <2>3, <2>5 DEF Table
  <2>7. \A j \in Keys : \A i \in DOMAIN lock_table_'[j] :
          j \in WriteSet(program[lock_table_'[j][i].txn_]) =>
            lock_table_'[j][i].mode_ = "EXCLUSIVE"
    <3>1. \A j \in Keys : \A i \in DOMAIN lock_table_[j] :
            j \in WriteSet(program[lock_table_[j][i].txn_]) =>
              lock_table_[j][i].mode_ = "EXCLUSIVE"
      BY <1>0 DEF Table
    <3>2. e.txn_ = h /\ (k \in WriteSet(program[h]) => e.mode_ = "EXCLUSIVE")
      BY <2>1, <2>2 DEF LockRequest
    <3> QED
      BY <2>3, <3>1, <3>2
  <2>8. WaitsForOlder'
    <3>1. \A j \in Keys : \A a, b \in DOMAIN lock_table_[j] : a < b =>
            unique_id_[lock_table_[j][a].txn_] < unique_id_[lock_table_[j][b].txn_]
      BY <1>0 DEF Table, WaitsForOlder
    <3>2. \A i \in DOMAIN lock_table_[k] : unique_id_[lock_table_[k][i].txn_] < unique_id_[h]
      <4>1. ASSUME NEW i \in DOMAIN lock_table_[k]
            PROVE  unique_id_[lock_table_[k][i].txn_] < unique_id_[h]
        <5>1. PICK u \in Txns : u = lock_table_[k][i].txn_ /\ k \in Asked(u)
          BY <1>2, <4>1
        <5>2. Popped(u) /\ u # h
          BY <1>0, <2>1, <5>1, AskedIs DEF Popped, In
        <5> QED
          BY <1>0, <2>1, <5>1, <5>2 DEF Order
      <4> QED
        BY <4>1
    <3>3. e.txn_ = h
      BY <2>2 DEF LockRequest
    <3>4. ASSUME NEW j \in Keys, NEW a \in DOMAIN lock_table_'[j], NEW b \in DOMAIN lock_table_'[j],
                 a < b
          PROVE  unique_id_[lock_table_'[j][a].txn_] < unique_id_[lock_table_'[j][b].txn_]
      <4>1. CASE j # k
        BY <2>3, <3>1, <3>4, <4>1
      <4>2. CASE j = k
        <5>1. a \in Nat /\ b \in Nat /\ Once(lock_table_'[k])
          BY <2>3, <3>4, <4>2, QueueIndex
        <5>2. /\ a \in DOMAIN lock_table_'[k] /\ b \in DOMAIN lock_table_'[k] /\ a < b
          BY <3>4, <4>2
        <5>3. CASE a \in DOMAIN lock_table_[k] /\ lock_table_'[k][a] = lock_table_[k][a]
          BY <2>3, <3>1, <3>2, <3>3, <5>2, <5>3
        <5>4. CASE lock_table_'[k][a] = e /\ \A i \in DOMAIN lock_table_[k] : i < a
          <6>1. lock_table_'[k][b] = e
            BY <2>3, <5>1, <5>2, <5>4
          <6>2. a = b
            BY <5>1, <5>2, <5>4, <6>1 DEF Once
          <6> QED
            BY <5>1, <5>2, <6>2
        <5> QED
          BY <2>3, <4>2, <5>3, <5>4
      <4> QED
        BY <4>1, <4>2
    <3> QED
      BY <2>4, <3>4 DEF WaitsForOlder
  <2> QED
    BY <1>0, <2>6, <2>7, <2>8 DEF Table
<1>4. CASE ReleaseLock
  <2>1. PICK k \in Keys, h \in Txns :
           /\ h = txn /\ pc = "release" /\ At(h, Hand)
           /\ lock_table_' = Released(lock_table_, h, k)
           /\ Left(todo') = Left(todo) \ {k}
    BY <1>4, ReleaseStep
  <2>2. /\ \A j \in Keys, u \in Txns :
             In(lock_table_'[j], u) <=> In(lock_table_[j], u) /\ ~(j = k /\ u = h)
        /\ \A j \in Keys : Thinned(lock_table_'[j], lock_table_[j])
    BY <1>0, <1>1, <2>1, ReleaseKeeps
  <2>3. /\ pc' = pc /\ txn' = txn /\ unique_id_' = unique_id_
        /\ UNCHANGED <<txn_requests_, txn_results_, received>>
    BY <1>4 DEF ReleaseLock, clientVars
  <2>4. \A t \in Txns : Asked(t)' = Asked(t) \ {j \in {k} : t = h}
    <3>1. \A t \in Txns : /\ At(t, Asking)' <=> At(t, Asking)
                          /\ At(t, Results)' <=> At(t, Results)
                          /\ At(t, Received)' <=> At(t, Received)
                          /\ At(t, Hand)' <=> At(t, Hand)
                          /\ At(t, Hand) <=> t = h
      BY <2>1, <2>3, ContentsAre, ContentsNext DEF InHand
    <3>2. ASSUME NEW t \in Txns, t # h PROVE Asked(t)' = Asked(t) /\ {j \in {k} : t = h} = {}
      BY <1>0, <2>1, <2>3, <3>1, <3>2 DEF Asked
    <3>3. CASE lm = "shipped"
      BY <1>0, <3>3 DEF Asked
    <3>4. CASE lm # "shipped"
      <4>1. ~(unique_id_[h] = 0 \/ At(h, Asking) \/ At(h, Results) \/ At(h, Received))
        BY <2>1, PlacesAre, PlacesDiffer DEF IInv, Unshared, Order, Absent
      <4>2. Asked(h) = Left(todo) /\ Asked(h)' = Left(todo')
        BY <1>0, <2>1, <2>3, <3>1, <3>4, <4>1 DEF Asked
      <4> QED
        BY <2>1, <3>2, <4>2
    <3> QED
      BY <3>3, <3>4
  <2>5. \A j \in Keys, t \in Txns : In(lock_table_'[j], t) <=> j \in Asked(t)'
    BY <1>0, <2>2, <2>4 DEF Table
  <2>6. \A j \in Keys : \A i \in DOMAIN lock_table_'[j] :
          j \in WriteSet(program[lock_table_'[j][i].txn_]) =>
            lock_table_'[j][i].mode_ = "EXCLUSIVE"
    <3>1. \A j \in Keys : \A i \in DOMAIN lock_table_'[j] : \E a \in DOMAIN lock_table_[j] :
            lock_table_'[j][i] = lock_table_[j][a]
      BY <2>2 DEF Thinned
    <3> QED
      BY <1>0, <3>1 DEF Table
  <2>7. WaitsForOlder'
    <3>1. \A j \in Keys : \A c, d \in DOMAIN lock_table_'[j] : c < d =>
            \E a, b \in DOMAIN lock_table_[j] :
              a < b /\ lock_table_'[j][c] = lock_table_[j][a] /\ lock_table_'[j][d] = lock_table_[j][b]
      BY <2>2 DEF Thinned
    <3>2. \A j \in Keys : \A a, b \in DOMAIN lock_table_[j] : a < b =>
            unique_id_[lock_table_[j][a].txn_] < unique_id_[lock_table_[j][b].txn_]
      BY <1>0 DEF Table, WaitsForOlder
    <3> QED
      BY <2>3, <3>1, <3>2 DEF WaitsForOlder
  <2> QED
    BY <1>0, <2>5, <2>6, <2>7 DEF Table
<1>5. CASE RequestLock /\ lm = "shipped"
  <2>1. lock_table_' = lock_table_ /\ unique_id_' = unique_id_
    BY <1>5 DEF RequestLock, Requested, clientVars
  <2>2. \A t \in Txns : Asked(t) = {} /\ Asked(t)' = {}
    BY <1>0, <1>5 DEF Asked
  <2> QED
    BY <1>0, <2>1, <2>2 DEF Table, WaitsForOlder
<1>6. CASE ~RequestLock /\ ~ReleaseLock
  <2>1. lock_table_' = lock_table_
    BY <1>6, FixedStep
  <2>2. \A t \in Txns : Asked(t)' = Asked(t)
    BY <1>6, AskedSame
  <2>3. \A k \in Keys : \A i \in DOMAIN lock_table_[k] :
          unique_id_'[lock_table_[k][i].txn_] = unique_id_[lock_table_[k][i].txn_]
    <3>1. CASE unique_id_' = unique_id_
      BY <3>1
    <3>2. ASSUME NEW u \in Txns, NewTxnRequest(u), NEW t \in Txns, Asked(t) # {}
          PROVE  unique_id_'[t] = unique_id_[t]
      <4>1. t # u
        BY <3>2 DEF NewTxnRequest, Asked
      <4> QED
        BY <1>0, <3>2, <4>1 DEF NewTxnRequest, Types, ControlTypes
    <3> QED
      BY <1>2, <3>1, <3>2, FixedStep
  <2> QED
    BY <1>0, <2>1, <2>2, <2>3 DEF Table, WaitsForOlder
<1> QED
  BY <1>3, <1>4, <1>5, <1>6

LEMMA WaitersStep ==
  ASSUME IInv, Next
  PROVE  Waiters'
<1>0. /\ Types /\ Distinct /\ Unshared /\ Order /\ LoopsLeft /\ Table /\ Waiters /\ Statuses
      /\ lock_table_ \in [Keys -> Seq(Requests(Txns))] /\ \A k \in Keys : Once(lock_table_[k])
      /\ lm' = lm /\ lm \in LockManagers
  BY FixedStep, TableOnce, LockingSchedulerAssumption DEF IInv, Types, ControlTypes, QueueTypes
<1> DEFINE Parked(t) == unique_id_[t] # 0 /\ Absent(t)
           Asks(t)   == At(t, Hand) /\ pc = "lock" /\ blocked
<1>1. \A t \in Txns : Waiting(lock_table_, t) <=> Parked(t) \/ Asks(t)
  BY <1>0 DEF Waiters
<1>2. ASSUME NEW h \in Txns, NEW p \in Places, NEW q \in Places, At(h, p), Moves({h}, p, q),
             unique_id_' = unique_id_
      PROVE  \A t \in Txns : Parked(t)' <=> Parked(t)
  BY <1>2 DEF Moves, Absent, Places
<1>3. ASSUME Moves({}, Nowhere, Nowhere), unique_id_' = unique_id_
      PROVE  \A t \in Txns : Parked(t)' <=> Parked(t)
  BY <1>3 DEF Moves, Absent, Places
<1>4. SUFFICES \A t \in Txns : Waiting(lock_table_', t) <=> Parked(t)' \/ Asks(t)'
  BY DEF Waiters
<1>5. CASE RequestLock
  <2>1. \A t \in Txns : (Parked(t)' <=> Parked(t)) /\ (At(t, Hand)' <=> At(t, Hand))
    <3>1. /\ UNCHANGED <<txn_requests_, ready_txns_, completed_txns_, txn_results_,
                         received, queues_, task>>
          /\ pc' = pc /\ txn' = txn /\ unique_id_' = unique_id_
      BY <1>5 DEF RequestLock, clientVars, workerVars
    <3>2. Moves({}, Nowhere, Nowhere)
      BY <1>0, <3>1, Stays
    <3> QED
      BY <1>3, <3>1, <3>2, PlacesAre DEF Moves
  <2>2. pc = "lock" /\ pc' = "lock"
    BY <1>5 DEF RequestLock
  <2>3. CASE lm = "shipped"
    BY <1>1, <1>5, <2>1, <2>2, <2>3 DEF RequestLock, Requested, RequestGranted
  <2>4. CASE lm # "shipped"
    <3>1. PICK k \in Keys, h \in Txns, mode \in {"SHARED", "EXCLUSIVE"} :
             /\ h = txn /\ At(h, Hand) /\ ~In(lock_table_[k], h)
             /\ lock_table_' = Requested(lm, lock_table_, h, k, mode)
             /\ blocked' = (blocked \/ ~RequestGranted(lm, lock_table_, h, k, mode))
      BY <1>5, <2>4, RequestStep
    <3>2. lm \in {"A", "B"}
      BY <1>0, <2>4 DEF LockManagers
    <3>3. /\ \A u \in Txns \ {h} : Waiting(lock_table_', u) <=> Waiting(lock_table_, u)
          /\ Waiting(lock_table_', h) <=>
               Waiting(lock_table_, h) \/ ~RequestGranted(lm, lock_table_, h, k, mode)
      BY <1>0, <3>1, <3>2, RequestKeeps
    <3>4. \A t \in Txns : At(t, Hand) <=> t = h
      BY <3>1, ContentsAre
    <3> QED
      BY <1>1, <2>1, <2>2, <3>1, <3>3, <3>4
  <2> QED
    BY <2>3, <2>4
<1>6. CASE ReleaseLock
  <2>1. PICK S \in SUBSET Txns :
           /\ S = {u \in Txns : Waiting(lock_table_, u) /\ ~Waiting(lock_table_', u)}
           /\ Moves(S, Nowhere, Ready)
    BY <1>0, <1>6, ReleaseMoves
  <2>2. pc # "lock" /\ pc' # "lock" /\ unique_id_' = unique_id_
    BY <1>6 DEF ReleaseLock, clientVars
  <2>3. \A u \in Txns : Waiting(lock_table_', u) => Waiting(lock_table_, u)
    BY <1>0, <1>6, ReleaseStep, ReleaseKeeps
  <2>4. \A t \in Txns : Parked(t)' <=> Parked(t) /\ t \notin S
    BY <2>1, <2>2, PlacesAre DEF Moves, Absent, Places
  <2> QED
    BY <1>1, <2>1, <2>2, <2>3, <2>4
<1>7. SUFFICES ASSUME lock_table_' = lock_table_, ~RequestLock, ~ReleaseLock
               PROVE  \A t \in Txns : Parked(t)' \/ Asks(t)' <=> Parked(t) \/ Asks(t)
  BY <1>1, <1>5, <1>6, FixedStep
<1>8. ASSUME NEW u \in Txns, NewTxnRequest(u)
      PROVE  \A t \in Txns : Parked(t)' \/ Asks(t)' <=> Parked(t) \/ Asks(t)
  <2>1. Moves({u}, Nowhere, Asking) /\ unique_id_[u] = 0 /\ Absent(u)
    BY <1>0, <1>8, RequestMoves DEF NewTxnRequest
  <2>2. /\ \A t \in Txns \ {u} : unique_id_'[t] = unique_id_[t]
        /\ pc' = pc /\ blocked' = blocked
    BY <1>0, <1>8 DEF NewTxnRequest, Types, ControlTypes, schedulerVars
  <2>3. \A t \in Txns : At(t, Hand)' <=> At(t, Hand)
    BY <2>1, PlacesAre, PlacesDiffer DEF Moves
  <2>4. \A t \in Txns : Parked(t)' <=> Parked(t)
    BY <2>1, <2>2, PlacesAre DEF Moves, Absent, Places
  <2> QED
    BY <2>2, <2>3, <2>4
<1>9. CASE QueueUnlessBlocked
  <2>1. PICK h \in Txns : /\ h = txn /\ At(h, Hand)
                          /\ Moves({h}, Hand, IF blocked THEN Nowhere ELSE Ready)
    BY <1>0, <1>9, LockedMoves
  <2>0. unique_id_[h] # 0
    BY <1>0, <2>1, PlacesAre DEF Order, Absent
  <2>2. pc = "lock" /\ pc' # "lock" /\ unique_id_' = unique_id_ /\ unique_id_[h] # 0
    BY <1>9, <2>0 DEF QueueUnlessBlocked, clientVars
  <2>3. CASE blocked
    <3>3. ASSUME NEW t \in Txns, t # h PROVE Absent(t)' <=> Absent(t)
      BY <2>1, <2>3, <3>3, PlacesAre DEF Moves, Absent, Places
    <3>4. \A r \in Places : At(h, r) => r = Hand
      BY <1>0, <2>1, PlacesAre DEF Unshared
    <3>5. Absent(h)'
      BY <2>1, <2>3, <3>4, PlacesAre DEF Moves, Absent, Places
    <3>1. \A t \in Txns : Absent(t)' <=> Absent(t) \/ t = h
      BY <3>3, <3>5
    <3>2. \A t \in Txns : At(t, Hand) <=> t = h
      BY <2>1, ContentsAre
    <3> QED
      BY <2>2, <2>3, <3>1, <3>2
  <2>4. CASE ~blocked
    BY <1>2, <2>1, <2>2, <2>4, PlacesAre
  <2> QED
    BY <2>3, <2>4
<1>10. CASE Commit \/ NoRequest \/ NoneCompleted \/ NoneReady \/ ApplyWrite
              \/ \E w \in Workers : ReadRecord(w)
  <2>1. UNCHANGED <<txn_requests_, ready_txns_, completed_txns_, txn_results_,
                    received, queues_, task, unique_id_, blocked>>
    BY <1>10 DEF NoRequest, NoneCompleted, NoneReady, ApplyWrite, Commit, ReadRecord,
      clientVars, workerVars, schedulerVars
  <2>2. /\ (pc' = pc /\ txn' = txn) \/ (pc \notin InHand /\ pc' \notin InHand)
             \/ (txn' = txn /\ pc \in InHand /\ pc' \in InHand)
        /\ pc = "lock" <=> pc' = "lock"
    BY <1>10 DEF NoRequest, NoneCompleted, NoneReady, ApplyWrite, Commit, ReadRecord,
      schedulerVars, InHand
  <2>3. Moves({}, Nowhere, Nowhere)
    BY <1>0, <2>1, <2>2, Stays
  <2>4. \A t \in Txns : (Parked(t)' <=> Parked(t)) /\ (At(t, Hand)' <=> At(t, Hand))
    BY <1>3, <2>1, <2>3, PlacesAre DEF Moves
  <2> QED
    BY <2>1, <2>2, <2>4
<1>11. CASE PopRequest
  <2>1. unique_id_' = unique_id_ /\ pc # "lock" /\ ~blocked'
    BY <1>11 DEF PopRequest, clientVars
  <2> QED
    BY <1>0, <1>2, <1>11, <2>1, PopMoves, PlacesAre
<1>12. CASE PopCompleted \/ ReturnResult \/ \E w \in Workers : Dispatch(w)
  <2>1. unique_id_' = unique_id_ /\ pc # "lock"
    BY <1>12 DEF PopCompleted, ReturnResult, Dispatch, clientVars
  <2>2. pc' # "lock"
    BY <1>0, <1>12, CompletedMoves DEF ReturnResult, Dispatch
  <2> QED
    BY <1>0, <1>2, <1>12, <2>1, <2>2, CompletedMoves, ReturnMoves, DispatchMoves, PlacesAre
<1>13. CASE GetTxnResult \/ \E w \in Workers : StartTask(w) \/ RunAndHandBack(w)
  <2>1. /\ unique_id_' = unique_id_ /\ pc' = pc /\ blocked' = blocked
        /\ \A t \in Txns : At(t, Hand)' <=> At(t, Hand)
    BY <1>13, ContentsAre, ContentsNext DEF GetTxnResult, StartTask, RunAndHandBack, clientVars,
      schedulerVars
  <2> QED
    BY <1>0, <1>2, <1>13, <2>1, ResultMoves, StartMoves, BackMoves, PlacesAre
<1> QED
  BY <1>7, <1>8, <1>9, <1>10, <1>11, <1>12, <1>13 DEF Next, SchedulerStep, WorkerStep

-----------------------------------------------------------------------------
(* What becomes of the transactions themselves. *)

(* A transaction is changed by whoever has it in hand. *)
LEMMA TaskIs ==
  ASSUME Types, NEW w \in Workers, task[w] # None
  PROVE  task[w] \in Txns /\ At(task[w], Task(w))
<1>1. task[w] \in Txns
  BY DEF Types, ControlTypes, TxnOrNone
<1> QED
  BY <1>1, ContentsAre

LEMMA VerdictTouches ==
  ASSUME IInv, PopCompleted
  PROVE  \E h \in Txns :
           /\ h = txn' /\ At(h, Completed) /\ Moves({h}, Completed, Hand) /\ pc = "drain"
           /\ \A t \in Txns \ {h} : txns'[t] = txns[t]
           /\ \/ pc' = "apply" /\ txns[h].status_ = "COMPLETED_C" /\ txns' = txns
              \/ /\ pc' = "release" /\ txns[h].status_ = "COMPLETED_A"
                 /\ txns'[h] = [txns[h] EXCEPT !.status_ = "ABORTED"]
                 /\ txns'[h].status_ = "ABORTED"
<1>0. /\ Types /\ Distinct /\ Unshared /\ LoopsLeft /\ Statuses
      /\ txns = [t \in Txns |-> txns[t]] /\ \A t \in Txns : IsTxn(txns[t])
  BY DEF IInv, Types, StoreTypes
<1>1. PICK h \in Txns :
        /\ h = txn' /\ At(h, Completed) /\ h = Head(completed_txns_) /\ Moves({h}, Completed, Hand)
        /\ txns[h].status_ \in {"COMPLETED_C", "COMPLETED_A"}
        /\ pc' = IF txns[h].status_ = "COMPLETED_C" THEN "apply" ELSE "release"
  BY <1>0, CompletedMoves
<1>2. /\ pc = "drain"
      /\ txns' = IF txns[h].status_ = "COMPLETED_A"
                   THEN [txns EXCEPT ![h].status_ = "ABORTED"] ELSE txns
  BY <1>1 DEF PopCompleted
<1>3. [txns[h] EXCEPT !.status_ = "ABORTED"].status_ = "ABORTED"
  BY <1>0, StatusIs
<1>4. CASE txns[h].status_ = "COMPLETED_C"
  BY <1>1, <1>2, <1>4
<1>5. CASE txns[h].status_ = "COMPLETED_A"
  <2>1. /\ txns'[h] = [txns[h] EXCEPT !.status_ = "ABORTED"]
        /\ \A t \in Txns \ {h} : txns'[t] = txns[t]
    BY <1>0, <1>2, <1>5
  <2> QED
    BY <1>1, <1>2, <1>3, <1>5, <2>1
<1> QED
  BY <1>1, <1>4, <1>5

LEMMA CommitTouches ==
  ASSUME IInv, Commit
  PROVE  \E h \in Txns :
           /\ h = txn /\ h = txn' /\ At(h, Hand) /\ pc = "apply" /\ pc' = "release"
           /\ \A t \in Txns \ {h} : txns'[t] = txns[t]
           /\ txns'[h] = [txns[h] EXCEPT !.status_ = "COMMITTED"]
           /\ txns'[h].status_ = "COMMITTED"
<1>0. /\ ControlTypes /\ txns = [t \in Txns |-> txns[t]] /\ \A t \in Txns : IsTxn(txns[t])
  BY DEF IInv, Types, StoreTypes
<1>1. PICK h \in Txns : h = txn /\ At(h, Hand)
  BY <1>0, ContentsAre DEF Commit, ControlTypes, InHand
<1>2. /\ pc = "apply" /\ pc' = "release" /\ txn' = txn
      /\ txns' = [txns EXCEPT ![h].status_ = "COMMITTED"]
  BY <1>1 DEF Commit
<1>3. [txns[h] EXCEPT !.status_ = "COMMITTED"].status_ = "COMMITTED"
  BY <1>0, StatusIs
<1>4. /\ txns'[h] = [txns[h] EXCEPT !.status_ = "COMMITTED"]
      /\ \A t \in Txns \ {h} : txns'[t] = txns[t]
  BY <1>0, <1>2
<1> QED
  BY <1>1, <1>2, <1>3, <1>4

LEMMA ReadTouches ==
  ASSUME IInv, NEW w \in Workers, ReadRecord(w)
  PROVE  \E h \in Txns :
           /\ h = task[w] /\ At(h, Task(w))
           /\ \A t \in Txns \ {h} : txns'[t] = txns[t]
           /\ txns'[h] = SaveRead(txns[h], data_, KeyOf(scan[w]))
           /\ txns'[h].status_ = txns[h].status_ /\ txns'[h].writes_ = txns[h].writes_
<1>0. /\ Types /\ txns = [t \in Txns |-> txns[t]] /\ \A t \in Txns : IsTxn(txns[t])
  BY DEF IInv, Types, StoreTypes
<1>1. PICK h \in Txns : h = task[w] /\ At(h, Task(w))
  BY <1>0, TaskIs DEF ReadRecord, IInv, LoopsLeft
<1>2. txns' = [txns EXCEPT ![h] = SaveRead(txns[h], data_, KeyOf(scan[w]))]
  BY <1>0, <1>1 DEF ReadRecord
<1>3. PICK x : x = SaveRead(txns[h], data_, KeyOf(scan[w]))
  OBVIOUS
<1>4. x.status_ = txns[h].status_ /\ x.writes_ = txns[h].writes_
  <2>1. IsTxn(txns[h])
    BY <1>0
  <2>2. /\ SaveRead(txns[h], data_, KeyOf(scan[w])).status_ = txns[h].status_
        /\ SaveRead(txns[h], data_, KeyOf(scan[w])).writes_ = txns[h].writes_
    <3>1. \A y, store, k : IsTxn(y) => /\ SaveRead(y, store, k).status_ = y.status_
                                      /\ SaveRead(y, store, k).writes_ = y.writes_
      BY SaveReadIs
    <3> QED
      BY <2>1, <3>1
  <2> QED
    BY <1>3, <2>2
<1>5. txns'[h] = x /\ \A t \in Txns \ {h} : txns'[t] = txns[t]
  BY <1>0, <1>2, <1>3
<1> QED
  BY <1>1, <1>3, <1>4, <1>5

LEMMA RunTouches ==
  ASSUME IInv, NEW w \in Workers, RunAndHandBack(w)
  PROVE  \E h \in Txns :
           /\ h = task[w] /\ At(h, Task(w)) /\ Moves({h}, Task(w), Completed)
           /\ \A t \in Txns \ {h} : txns'[t] = txns[t]
           /\ txns[h].status_ = "INCOMPLETE" /\ txns[h].writes_ = NoRecords
           /\ txns'[h] = Run(program[h], txns[h])
           /\ txns'[h].status_ \in {"COMPLETED_C", "COMPLETED_A"}
           /\ DOMAIN txns'[h].writes_ = WriteSet(program[h])
<1>0. /\ Types /\ Distinct /\ Unshared /\ Statuses
      /\ txns = [t \in Txns |-> txns[t]] /\ \A t \in Txns : IsTxn(txns[t])
  BY DEF IInv, Types, StoreTypes
<1>1. PICK h \in Txns : h = task[w] /\ At(h, Task(w)) /\ Moves({h}, Task(w), Completed)
  BY <1>0, BackMoves
<1>2. txns[h].status_ = "INCOMPLETE" /\ txns[h].writes_ = NoRecords
  BY <1>0, <1>1 DEF Statuses, RunAndHandBack
<1>3. txns' = [txns EXCEPT ![h] = Run(program[h], txns[h])]
  BY <1>0, <1>1 DEF RunAndHandBack
<1>4. PICK x : x = Run(program[h], txns[h])
  OBVIOUS
<1>5. x.status_ \in {"COMPLETED_C", "COMPLETED_A"} /\ DOMAIN x.writes_ = WriteSet(program[h])
  BY <1>0, <1>2, <1>4, RunIs
<1>6. txns'[h] = x /\ \A t \in Txns \ {h} : txns'[t] = txns[t]
  BY <1>0, <1>3, <1>4
<1> QED
  BY <1>1, <1>2, <1>4, <1>5, <1>6

LEMMA StatusesStep ==
  ASSUME IInv, Next
  PROVE  Statuses'
<1>0. /\ Types /\ ControlTypes /\ Distinct /\ Unshared /\ Order /\ LoopsLeft /\ Table /\ Waiters
      /\ Statuses /\ txns = [t \in Txns |-> txns[t]] /\ \A t \in Txns : IsTxn(txns[t])
      /\ program' = program /\ committed_txns_ \in Seq(Txns) /\ Types'
  BY FixedStep, TypesStep DEF IInv, Types, StoreTypes, QueueTypes
<1>a. ToSet(committed_txns_) \subseteq Txns
  BY <1>0, QueueIndex
<1>b. task' \in [Workers -> TxnOrNone]
  BY <1>0 DEF Types, ControlTypes
<1>1. ASSUME UNCHANGED <<txns, committed_txns_, task, completed_txns_>>,
             \A t \in Txns : At(t, Results)' \/ At(t, Received)' <=> At(t, Results) \/ At(t, Received),
             \/ pc' = pc /\ txn' = txn
             \/ pc \notin {"apply", "release"} /\ pc' \notin {"apply", "release"}
      PROVE  Statuses'
  <2>1. \A t \in Txns : /\ At(t, Completed)' <=> At(t, Completed)
                        /\ \A w \in Workers : At(t, Task(w))' <=> At(t, Task(w))
                        /\ At(t, Hand)' /\ pc' = "apply" <=> At(t, Hand) /\ pc = "apply"
                        /\ At(t, Hand)' /\ pc' = "release" <=> At(t, Hand) /\ pc = "release"
                        /\ At(t, Hand)' /\ pc' # "lock" <=> At(t, Hand) /\ pc # "lock"
    BY <1>1, ContentsAre, ContentsNext DEF InHand
  <2>2. \A t \in Txns : Started(t)' <=> Started(t)
    BY <1>1, <2>1 DEF Started
  <2> QED
    BY <1>0, <1>1, <2>1, <2>2 DEF Statuses, HasRun, Final
<1>2. CASE GetTxnResult
  <2>1. PICK h \in Txns : At(h, Results) /\ Moves({h}, Results, Received)
    BY <1>0, <1>2, ResultMoves
  <2>2. \A t \in Txns : At(t, Results)' \/ At(t, Received)' <=> At(t, Results) \/ At(t, Received)
    BY <2>1, PlacesAre, PlacesDiffer DEF Moves
  <2> QED
    BY <1>1, <1>2, <2>2 DEF GetTxnResult, schedulerVars, workerVars
<1>3. CASE PopCompleted
  <2>1. PICK h \in Txns :
           /\ h = txn' /\ At(h, Completed) /\ Moves({h}, Completed, Hand) /\ pc = "drain"
           /\ \A t \in Txns \ {h} : txns'[t] = txns[t]
           /\ \/ pc' = "apply" /\ txns[h].status_ = "COMPLETED_C" /\ txns' = txns
              \/ /\ pc' = "release" /\ txns[h].status_ = "COMPLETED_A"
                 /\ txns'[h].status_ = "ABORTED"
    BY <1>3, VerdictTouches
  <2>2. /\ \A t \in Txns \ {h} : txns'[t] = txns[t]
        /\ pc' = "apply" => txns'[h] = txns[h]
        /\ pc' = "release" => txns'[h].status_ = "ABORTED"
    BY <2>1
  <2>3. task' = task /\ committed_txns_' = committed_txns_
    BY <1>3 DEF PopCompleted, workerVars
  <2>4. \A t \in Txns : /\ At(t, Completed)' <=> At(t, Completed) /\ t # h
                        /\ \A w \in Workers : At(t, Task(w))' <=> At(t, Task(w))
                        /\ At(t, Results)' <=> At(t, Results)
                        /\ At(t, Received)' <=> At(t, Received)
                        /\ At(t, Hand)' <=> t = h
    BY <2>1, <2>3, PlacesAre, PlacesDiffer, ContentsNext DEF Moves, InHand
  <2>5. ~At(h, Results) /\ ~At(h, Received) /\ \A w \in Workers : ~At(h, Task(w))
    BY <1>0, <2>1, PlacesAre, PlacesDiffer DEF Unshared
  <2>6. \A t \in Txns : ~At(t, Hand)
    BY <2>1, ContentsAre DEF InHand
  <2>7. HasRun(h, {"COMPLETED_C", "COMPLETED_A"})
    BY <1>0, <2>1 DEF Statuses
  <2>8. ASSUME NEW t \in Txns
        PROVE  /\ (~Started(t) => txns[t] = NewTxn)'
               /\ (At(t, Completed) => HasRun(t, {"COMPLETED_C", "COMPLETED_A"}))'
               /\ (At(t, Hand) /\ pc = "apply" => HasRun(t, {"COMPLETED_C"}))'
               /\ (At(t, Hand) /\ pc = "release" => Final(t))'
               /\ (At(t, Results) \/ At(t, Received) => Final(t))'
    <3>1. CASE t = h
      BY <1>0, <2>1, <2>2, <2>4, <2>5, <2>7, <3>1 DEF Started, HasRun, Final
    <3>2. CASE t # h
      BY <1>0, <2>2, <2>4, <2>6, <3>2 DEF Statuses, Started, HasRun, Final
    <3> QED
      BY <3>1, <3>2
  <2>9. \A w \in Workers : task'[w] # None =>
           txns'[task'[w]].status_ = "INCOMPLETE" /\ txns'[task'[w]].writes_ = NoRecords
    <3>1. \A w \in Workers : task[w] # None => task[w] \in Txns \ {h}
      BY <1>0, <2>5, TaskIs
    <3> QED
      BY <1>0, <2>2, <2>3, <3>1 DEF Statuses
  <2>10. \A t \in ToSet(committed_txns_') : txns'[t].status_ = "COMMITTED"
    <3>1. \A t \in ToSet(committed_txns_) : t \in Txns /\ txns[t].status_ = "COMMITTED"
      BY <1>0, <1>a DEF Statuses
    <3> QED
      BY <2>1, <2>2, <2>3, <3>1
  <2> QED
    BY <2>8, <2>9, <2>10 DEF Statuses
<1>4. CASE Commit
  <2>1. PICK h \in Txns :
           /\ h = txn /\ At(h, Hand) /\ pc = "apply"
           /\ \A t \in Txns \ {h} : txns'[t] = txns[t]
           /\ txns'[h].status_ = "COMMITTED"
    BY <1>4, CommitTouches
  <2>2. (\A t \in Txns \ {h} : txns'[t] = txns[t]) /\ txns'[h].status_ = "COMMITTED"
    BY <2>1
  <2>3. /\ UNCHANGED <<task, completed_txns_, txn_results_, received, txn>>
        /\ pc' = "release" /\ committed_txns_' = Append(committed_txns_, h)
    BY <1>4, <2>1 DEF Commit, workerVars, clientVars
  <2>4. \A t \in Txns : /\ At(t, Completed)' <=> At(t, Completed)
                        /\ \A w \in Workers : At(t, Task(w))' <=> At(t, Task(w))
                        /\ At(t, Results)' <=> At(t, Results)
                        /\ At(t, Received)' <=> At(t, Received)
                        /\ At(t, Hand)' <=> t = h
                        /\ At(t, Hand) <=> t = h
    BY <2>1, <2>3, ContentsAre, ContentsNext DEF InHand
  <2>5. /\ ~At(h, Results) /\ ~At(h, Received) /\ ~At(h, Completed)
        /\ \A w \in Workers : ~At(h, Task(w))
    BY <1>0, <2>1, PlacesAre, PlacesDiffer DEF Unshared
  <2>8. ASSUME NEW t \in Txns
        PROVE  /\ (~Started(t) => txns[t] = NewTxn)'
               /\ (At(t, Completed) => HasRun(t, {"COMPLETED_C", "COMPLETED_A"}))'
               /\ (At(t, Hand) /\ pc = "apply" => HasRun(t, {"COMPLETED_C"}))'
               /\ (At(t, Hand) /\ pc = "release" => Final(t))'
               /\ (At(t, Results) \/ At(t, Received) => Final(t))'
    <3>1. CASE t = h
      BY <1>0, <2>1, <2>2, <2>3, <2>4, <2>5, <3>1 DEF Started, HasRun, Final
    <3>2. CASE t # h
      BY <1>0, <2>2, <2>3, <2>4, <3>2 DEF Statuses, Started, HasRun, Final
    <3> QED
      BY <3>1, <3>2
  <2>9. \A w \in Workers : task'[w] # None =>
           txns'[task'[w]].status_ = "INCOMPLETE" /\ txns'[task'[w]].writes_ = NoRecords
    <3>1. \A w \in Workers : task[w] # None => task[w] \in Txns \ {h}
      BY <1>0, <2>5, TaskIs
    <3> QED
      BY <1>0, <2>2, <2>3, <3>1 DEF Statuses
  <2>10. \A t \in ToSet(committed_txns_') : txns'[t].status_ = "COMMITTED"
    <3>1. \A t \in ToSet(committed_txns_) : t \in Txns /\ txns[t].status_ = "COMMITTED"
      BY <1>0, <1>a DEF Statuses
    <3>2. ToSet(committed_txns_') = ToSet(committed_txns_) \union {h}
      BY <1>0, <2>3, AppendToQueue
    <3> QED
      BY <2>2, <3>1, <3>2
  <2> QED
    BY <2>8, <2>9, <2>10 DEF Statuses
<1>5. CASE ReturnResult
  <2>1. PICK h \in Txns : h = txn /\ At(h, Hand) /\ Moves({h}, Hand, Results)
    BY <1>0, <1>5, ReturnMoves
  <2>2. pc = "release" /\ pc' = "drain" /\ UNCHANGED <<txns, committed_txns_, task>>
    BY <1>5 DEF ReturnResult, workerVars
  <2>3. \A t \in Txns : /\ At(t, Completed)' <=> At(t, Completed)
                        /\ \A w \in Workers : At(t, Task(w))' <=> At(t, Task(w))
                        /\ At(t, Results)' <=> At(t, Results) \/ t = h
                        /\ At(t, Received)' <=> At(t, Received)
                        /\ ~At(t, Hand)'
                        /\ At(t, Hand) <=> t = h
    BY <2>1, <2>2, PlacesAre, PlacesDiffer, ContentsAre, ContentsNext DEF Moves, InHand
  <2>4. Final(h)
    BY <1>0, <2>1, <2>2 DEF Statuses
  <2>5. \A t \in Txns : Started(t)' <=> Started(t)
    BY <2>2, <2>3 DEF Started
  <2> QED
    BY <1>0, <2>2, <2>3, <2>4, <2>5 DEF Statuses, HasRun, Final
<1>6. ASSUME NEW w \in Workers, StartTask(w) PROVE Statuses'
  <2>1. PICK h \in Txns : At(h, Queue(w)) /\ Moves({h}, Queue(w), Task(w))
                          /\ task' = [task EXCEPT ![w] = h]
    BY <1>0, <1>6, StartMoves
  <2>2. UNCHANGED <<pc, txn, txns, committed_txns_>>
    BY <1>6 DEF StartTask, schedulerVars
  <2>3. \A t \in Txns : /\ At(t, Completed)' <=> At(t, Completed)
                        /\ \A v \in Workers : At(t, Task(v))' <=> At(t, Task(v)) \/ (v = w /\ t = h)
                        /\ At(t, Results)' <=> At(t, Results)
                        /\ At(t, Received)' <=> At(t, Received)
                        /\ At(t, Hand)' <=> At(t, Hand)
    BY <2>1, PlacesAre, PlacesDiffer DEF Moves
  <2>4. ~Started(h)
    BY <1>0, <2>1, PlacesAre, PlacesDiffer DEF Unshared, Started
  <2>5. txns[h] = NewTxn
    BY <1>0, <2>4 DEF Statuses
  <2>6. \A t \in Txns : Started(t)' <=> Started(t) \/ t = h
    BY <2>2, <2>3 DEF Started
  <2>7. \A v \in Workers : task'[v] # None =>
           txns'[task'[v]].status_ = "INCOMPLETE" /\ txns'[task'[v]].writes_ = NoRecords
    BY <1>0, <2>1, <2>2, <2>5, NewIs DEF Statuses, ControlTypes
  <2> QED
    BY <1>0, <2>2, <2>3, <2>6, <2>7 DEF Statuses, HasRun, Final
<1>7. ASSUME NEW w \in Workers, ReadRecord(w) PROVE Statuses'
  <2>1. PICK h \in Txns :
           /\ h = task[w] /\ At(h, Task(w))
           /\ \A t \in Txns \ {h} : txns'[t] = txns[t]
           /\ txns'[h].status_ = txns[h].status_ /\ txns'[h].writes_ = txns[h].writes_
    BY <1>7, ReadTouches
  <2>2. UNCHANGED <<pc, txn, task, committed_txns_, completed_txns_, txn_results_, received>>
    BY <1>7 DEF ReadRecord, schedulerVars, clientVars
  <2>3. \A t \in Txns : /\ At(t, Completed)' <=> At(t, Completed)
                        /\ \A v \in Workers : At(t, Task(v))' <=> At(t, Task(v))
                        /\ At(t, Results)' <=> At(t, Results)
                        /\ At(t, Received)' <=> At(t, Received)
                        /\ At(t, Hand)' <=> At(t, Hand)
    BY <2>2, ContentsAre, ContentsNext
  <2>4. /\ ~At(h, Results) /\ ~At(h, Received) /\ ~At(h, Completed) /\ ~At(h, Hand)
    BY <1>0, <2>1, PlacesAre, PlacesDiffer DEF Unshared
  <2>5. /\ txns'[h].status_ = txns[h].status_ /\ txns'[h].writes_ = txns[h].writes_
        /\ \A t \in Txns \ {h} : txns'[t] = txns[t]
    BY <2>1
  <2>6. \A t \in Txns : Started(t)' <=> Started(t)
    BY <2>2, <2>3 DEF Started
  <2>7. Started(h)
    BY <2>1 DEF Started
  <2>8. \A v \in Workers : task'[v] # None =>
           txns'[task'[v]].status_ = "INCOMPLETE" /\ txns'[task'[v]].writes_ = NoRecords
    <3>1. \A v \in Workers : task[v] # None => task[v] \in Txns
      BY <1>0, TaskIs
    <3> QED
      BY <1>0, <2>2, <2>5, <3>1 DEF Statuses
  <2>9. \A t \in ToSet(committed_txns_') : txns'[t].status_ = "COMMITTED"
    BY <1>0, <1>a, <2>2, <2>5 DEF Statuses
  <2> QED
    BY <1>0, <2>2, <2>3, <2>4, <2>5, <2>6, <2>7, <2>8, <2>9 DEF Statuses, HasRun, Final
<1>8. ASSUME NEW w \in Workers, RunAndHandBack(w) PROVE Statuses'
  <2>1. PICK h \in Txns :
           /\ h = task[w] /\ At(h, Task(w)) /\ Moves({h}, Task(w), Completed)
           /\ \A t \in Txns \ {h} : txns'[t] = txns[t]
           /\ txns[h].status_ = "INCOMPLETE"
           /\ txns'[h].status_ \in {"COMPLETED_C", "COMPLETED_A"}
           /\ DOMAIN txns'[h].writes_ = WriteSet(program[h])
    BY <1>8, RunTouches
  <2>2. UNCHANGED <<pc, txn, committed_txns_>> /\ task' = [task EXCEPT ![w] = None] /\ task[w] # None
    BY <1>8 DEF RunAndHandBack, schedulerVars
  <2>3. \A t \in Txns : /\ At(t, Completed)' <=> At(t, Completed) \/ t = h
                        /\ \A v \in Workers : At(t, Task(v))' <=> At(t, Task(v)) /\ ~(v = w /\ t = h)
                        /\ At(t, Results)' <=> At(t, Results)
                        /\ At(t, Received)' <=> At(t, Received)
                        /\ At(t, Hand)' <=> At(t, Hand)
    BY <2>1, PlacesAre, PlacesDiffer DEF Moves
  <2>4. /\ ~At(h, Results) /\ ~At(h, Received) /\ ~At(h, Hand)
        /\ \A v \in Workers : At(h, Task(v)) => v = w
    BY <1>0, <2>1, PlacesAre, PlacesDiffer DEF Unshared
  <2>5. txns[h].status_ = "INCOMPLETE"
    BY <2>1
  <2>6. /\ txns'[h].status_ \in {"COMPLETED_C", "COMPLETED_A"}
        /\ DOMAIN txns'[h].writes_ = WriteSet(program[h])
        /\ \A t \in Txns \ {h} : txns'[t] = txns[t]
    BY <2>1
  <2>7. \A t \in Txns : t # h => (Started(t)' <=> Started(t))
    BY <2>2, <2>3 DEF Started
  <2>8. Started(h)'
    BY <2>3 DEF Started
  <2>9. \A v \in Workers : task'[v] # None =>
           txns'[task'[v]].status_ = "INCOMPLETE" /\ txns'[task'[v]].writes_ = NoRecords
    <3>1. \A v \in Workers : task'[v] # None => v # w /\ task'[v] = task[v]
      BY <1>0, <2>2 DEF ControlTypes
    <3>2. \A v \in Workers : task'[v] # None => task[v] \in Txns \ {h}
      BY <1>0, <2>4, <3>1, TaskIs
    <3> QED
      BY <1>0, <2>6, <3>1, <3>2 DEF Statuses
  <2>10. \A t \in ToSet(committed_txns_') : txns'[t].status_ = "COMMITTED"
    BY <1>0, <1>a, <2>2, <2>5, <2>6 DEF Statuses
  <2> QED
    BY <1>0, <2>2, <2>3, <2>4, <2>6, <2>7, <2>8, <2>9, <2>10 DEF Statuses, HasRun, Final
<1>9. CASE \/ \E t \in Txns : NewTxnRequest(t)
           \/ PopRequest \/ NoRequest \/ RequestLock \/ QueueUnlessBlocked \/ NoneCompleted
           \/ ApplyWrite \/ ReleaseLock \/ NoneReady \/ \E w \in Workers : Dispatch(w)
  <2>1. /\ UNCHANGED <<txns, committed_txns_, task, completed_txns_, txn_results_, received>>
        /\ \/ pc' = pc /\ txn' = txn
           \/ pc \notin {"apply", "release"} /\ pc' \notin {"apply", "release"}
    BY <1>9 DEF NewTxnRequest, PopRequest, NoRequest, RequestLock, QueueUnlessBlocked,
      NoneCompleted, ApplyWrite, ReleaseLock, NoneReady, Dispatch, clientVars, workerVars,
      schedulerVars
  <2>2. \A t \in Txns : At(t, Results)' \/ At(t, Received)' <=> At(t, Results) \/ At(t, Received)
    BY <2>1, ContentsAre, ContentsNext
  <2> QED
    BY <1>1, <2>1, <2>2
<1> QED
  BY <1>2, <1>3, <1>4, <1>5, <1>6, <1>7, <1>8, <1>9 DEF Next, SchedulerStep, WorkerStep

-----------------------------------------------------------------------------
(* What the lock table is for: nothing older that conflicts with an active
   transaction is still to be committed or aborted. *)
ActiveIsFirst ==
  lm # "shipped" =>
    \A t, u \in Txns :
      /\ unique_id_[t] # 0 /\ unique_id_[t] < unique_id_[u]
      /\ Conflict(program[t], program[u])
      /\ u \in Active
      => Final(t)

LEMMA ActiveFirst ==
  Types /\ Unshared /\ Order /\ Table /\ Waiters /\ Statuses => ActiveIsFirst
<1> SUFFICES ASSUME Types, Unshared, Order, Table, Waiters, Statuses, lm # "shipped",
                    NEW t \in Txns, NEW u \in Txns,
                    unique_id_[t] # 0, unique_id_[t] < unique_id_[u],
                    Conflict(program[t], program[u]), u \in Active, ~Final(t)
             PROVE  FALSE
  BY DEF ActiveIsFirst
<1>0. /\ unique_id_[t] \in Nat /\ unique_id_[u] \in Nat /\ unique_id_[u] # 0
      /\ lock_table_ \in [Keys -> Seq(Requests(Txns))] /\ program \in Programs
  BY DEF Types, ControlTypes, QueueTypes
<1>1. Asked(u) = KeySet(program[u])
  BY AskedIs
<1>2. /\ ~At(u, Asking) /\ ~(At(u, Hand) /\ pc = "lock") /\ ~Absent(u)
  BY ActiveAre, PlacesAre, PlacesDiffer DEF Unshared, Absent
<1>3. ~Waiting(lock_table_, u) /\ Popped(u)
  BY <1>0, <1>2 DEF Waiters, Popped
<1>4. Asked(t) = KeySet(program[t])
  <2>1. ~At(t, Asking)
    <3>1. Popped(u) /\ At(t, Asking) => unique_id_[u] < unique_id_[t]
      BY DEF Order
    <3> QED
      BY <1>0, <1>3, <3>1
  <2>2. ~(At(t, Hand) /\ pc = "lock")
    <3>1. At(t, Hand) => t = txn
      BY ContentsAre
    <3>2. pc = "lock" /\ t = txn /\ u # txn => unique_id_[u] < unique_id_[t]
      BY <1>3 DEF Order
    <3> QED
      BY <1>0, <3>1, <3>2
  <2>3. ~At(t, Results) /\ ~At(t, Received) /\ ~(At(t, Hand) /\ pc = "release")
    BY DEF Statuses
  <2> QED
    BY <2>1, <2>2, <2>3 DEF Asked
<1>5. PICK k \in KeySet(program[t]) \cap KeySet(program[u]) :
        k \in WriteSet(program[t]) \/ k \in WriteSet(program[u])
  BY DEF Conflict, KeySet
<1>6. k \in Keys
  BY <1>0, <1>5, Programmed DEF KeySet
<1>7. PICK q \in Seq(Requests(Txns)) : q = lock_table_[k]
  BY <1>0, <1>6
<1>8. PICK i \in DOMAIN q : q[i].txn_ = t
  BY <1>4, <1>5, <1>6, <1>7 DEF Table, In
<1>9. PICK j \in DOMAIN q : q[j].txn_ = u
  BY <1>1, <1>5, <1>6, <1>7 DEF Table, In
<1>10. i < j
  <2>1. i \in Nat /\ j \in Nat
    BY QueueIndex
  <2>2. j < i => unique_id_[u] < unique_id_[t]
    BY <1>6, <1>7, <1>8, <1>9 DEF Table, WaitsForOlder
  <2>3. i # j
    BY <1>0, <1>8, <1>9
  <2> QED
    BY <1>0, <2>1, <2>2, <2>3
<1>11. Granted(q, j)
  <2>1. k \in DOMAIN lock_table_
    BY <1>0, <1>6
  <2>2. ~WaitsIn(q, u)
    BY <1>3, <1>7, <2>1, WaitingIs
  <2> QED
    BY <1>9, <2>2 DEF WaitsIn
<1>12. q[i].mode_ = "SHARED" /\ q[j].mode_ = "SHARED"
  BY <1>10, <1>11, GrantedBehind
<1>13. q[i].mode_ = "EXCLUSIVE" \/ q[j].mode_ = "EXCLUSIVE"
  BY <1>5, <1>6, <1>7, <1>8, <1>9 DEF Table
<1> QED
  BY <1>12, <1>13

(* An active transaction has no verdict yet. *)
LEMMA ActiveUndecided ==
  ASSUME Types, Unshared, Statuses, NEW t \in Active
  PROVE  t \in Txns /\ ~Final(t)
<1>1. t \in Txns
  <2>1. /\ ToSet(ready_txns_) \subseteq Txns /\ ToSet(completed_txns_) \subseteq Txns
        /\ \A w \in Workers : ToSet(queues_[w]) \subseteq Txns
    BY QueueIndex DEF Types, QueueTypes
  <2>2. /\ \A w \in Workers : task[w] # None => task[w] \in Txns
        /\ pc = "apply" => txn \in Txns
    BY DEF Types, ControlTypes, TxnOrNone, InHand
  <2> QED
    BY <2>1, <2>2 DEF Active
<1>2. \/ At(t, Ready) \/ At(t, Completed)
      \/ \E w \in Workers : At(t, Queue(w)) \/ At(t, Task(w))
      \/ At(t, Hand) /\ pc = "apply"
  BY <1>1, ActiveAre
<1>3. CASE At(t, Ready) \/ \E w \in Workers : At(t, Queue(w))
  <2>1. ~Started(t)
    BY <1>1, <1>3, PlacesAre, PlacesDiffer DEF Started, Unshared
  <2> QED
    BY <1>1, <2>1, NewIs DEF Statuses, Final
<1>4. CASE At(t, Completed) \/ (At(t, Hand) /\ pc = "apply")
  BY <1>1, <1>4 DEF Statuses, HasRun, Final
<1>5. ASSUME NEW w \in Workers, At(t, Task(w)) PROVE ~Final(t)
  BY <1>1, <1>5, ContentsAre, NamesAssumption DEF Statuses, Final
<1> QED
  BY <1>1, <1>2, <1>3, <1>4, <1>5

LEMMA ActivePresent ==
  ASSUME Types, NEW t \in Txns, t \in Active
  PROVE  ~Absent(t)
  BY ActiveAre, PlacesAre DEF Absent

LEMMA FinalPresent ==
  ASSUME Statuses, NEW t \in Txns, Final(t)
  PROVE  Started(t) /\ ~Absent(t)
<1>1. Started(t)
  BY NewIs DEF Statuses, Final
<1>2. Started(t) => ~Absent(t)
  BY PlacesAre DEF Started, Absent
<1> QED
  BY <1>1, <1>2

LEMMA Excluded ==
  ASSUME Types, Unshared, Order, Table, Waiters, Statuses, lm # "shipped"
  PROVE  ConflictsExcluded
<1> SUFFICES ASSUME NEW t \in Active, NEW u \in Active, t # u, Conflict(program[t], program[u])
             PROVE  FALSE
  BY DEF ConflictsExcluded
<1>1. t \in Txns /\ u \in Txns /\ ~Final(t) /\ ~Final(u)
  BY ActiveUndecided
<1>2. unique_id_[t] \in Nat /\ unique_id_[u] \in Nat /\ unique_id_[t] # 0 /\ unique_id_[u] # 0
  <2>1. ~Absent(t) /\ ~Absent(u)
    BY <1>1, ActiveAre, PlacesAre DEF Absent
  <2> QED
    BY <1>1, <2>1 DEF Types, ControlTypes, Order
<1>3. unique_id_[t] # unique_id_[u]
  BY <1>1, <1>2 DEF Order
<1>4. Conflict(program[u], program[t])
  BY DEF Conflict
<1> QED
  BY <1>1, <1>2, <1>3, <1>4, ActiveFirst DEF ActiveIsFirst

(* An active transaction was active already, or has just been granted its last
   lock; a verdict, once given, stays. *)
LEMMA EarlierStep ==
  ASSUME IInv, Next
  PROVE  Earlier'
<1>0. /\ Types /\ Distinct /\ Unshared /\ Order /\ LoopsLeft /\ Table /\ Waiters /\ Statuses /\ Earlier
      /\ lm' = lm /\ program' = program /\ \A t \in Txns : unique_id_[t] \in Nat
  BY FixedStep DEF IInv, Types, ControlTypes
<1>1. ActiveIsFirst'
  <2>1. (Types /\ Unshared /\ Order /\ Table /\ Waiters /\ Statuses)'
    BY TypesStep, PlacesStep, OrderStep, TableStep, WaitersStep, StatusesStep
  <2> QED
    BY <2>1, ActiveFirst, PTL
<1>2. \A t \in Txns : Final(t) => Final(t)'
  <2>1. CASE PopCompleted
    BY <2>1, VerdictTouches DEF Final
  <2>2. CASE Commit
    BY <2>2, CommitTouches DEF Final
  <2>3. CASE \E w \in Workers : ReadRecord(w)
    BY <2>3, ReadTouches DEF Final
  <2>4. CASE \E w \in Workers : RunAndHandBack(w)
    BY <2>4, RunTouches DEF Final
  <2>5. CASE txns' = txns
    BY <2>5 DEF Final
  <2> QED
    BY <2>1, <2>2, <2>3, <2>4, <2>5
    DEF Next, SchedulerStep, WorkerStep, NewTxnRequest, GetTxnResult, PopRequest, NoRequest,
      RequestLock, QueueUnlessBlocked, NoneCompleted, ApplyWrite, ReleaseLock, ReturnResult,
      Dispatch, NoneReady, StartTask
<1>3. \A t \in Txns : Final(t)' => Final(t) \/ t \in Active
  <2>1. CASE PopCompleted
    BY <1>0, <2>1, VerdictTouches, ActiveAre DEF Final
  <2>2. CASE Commit
    BY <1>0, <2>2, CommitTouches, ActiveAre DEF Final
  <2>3. CASE \E w \in Workers : ReadRecord(w)
    BY <2>3, ReadTouches DEF Final
  <2>4. CASE \E w \in Workers : RunAndHandBack(w)
    BY <2>4, RunTouches DEF Final
  <2>5. CASE txns' = txns
    BY <2>5 DEF Final
  <2> QED
    BY <2>1, <2>2, <2>3, <2>4, <2>5
    DEF Next, SchedulerStep, WorkerStep, NewTxnRequest, GetTxnResult, PopRequest, NoRequest,
      RequestLock, QueueUnlessBlocked, NoneCompleted, ApplyWrite, ReleaseLock, ReturnResult,
      Dispatch, NoneReady, StartTask
<1>4. ASSUME lm # "shipped", NEW t \in Txns, NEW u \in Txns,
             unique_id_'[t] # 0, unique_id_'[t] < unique_id_'[u],
             Conflict(program[t], program[u]), Final(u)'
      PROVE  Final(t)'
  <2>1. unique_id_[t] # 0 /\ unique_id_[t] < unique_id_[u]
    <3>1. CASE unique_id_' = unique_id_
      BY <1>4, <3>1
    <3>2. CASE \E v \in Txns : NewTxnRequest(v)
      <4>1. PICK v \in Txns : NewTxnRequest(v)
        BY <3>2
      <4>2. /\ unique_id_'[v] = next_unique_id_ /\ unique_id_[v] = 0
            /\ \A x \in Txns \ {v} : unique_id_'[x] = unique_id_[x]
            /\ \A x \in Txns : unique_id_[x] < next_unique_id_
            /\ next_unique_id_ \in Nat
        BY <1>0, <4>1 DEF NewTxnRequest, Types, ControlTypes, Order
      <4>3. u # v
        <5>1. Final(u) \/ u \in Active
          BY <1>3, <1>4
        <5>2. ~Absent(u)
          BY <1>0, <5>1, ActivePresent, FinalPresent
        <5> QED
          BY <1>0, <4>2, <5>2 DEF Order
      <4>4. t # v
        BY <1>0, <1>4, <4>2, <4>3
      <4> QED
        BY <1>4, <4>2, <4>3, <4>4
    <3> QED
      BY <3>1, <3>2, FixedStep
  <2>2. Final(u) \/ u \in Active
    BY <1>3, <1>4
  <2> QED
    BY <1>0, <1>2, <1>4, <2>1, <2>2 DEF Earlier
<1> QED
  BY <1>0, <1>1, <1>4 DEF Earlier, ActiveIsFirst

(* A transaction commits after the older ones that conflict with it. *)
LEMMA CommitsStep ==
  ASSUME IInv, Next
  PROVE  CommitsInOrder'
<1>0. /\ Types /\ Order /\ Statuses /\ Earlier /\ CommitsInOrder /\ committed_txns_ \in Seq(Txns)
      /\ lm' = lm /\ program' = program /\ \A t \in Txns : unique_id_[t] \in Nat
      /\ ToSet(committed_txns_) \subseteq Txns
      /\ \A i \in DOMAIN committed_txns_ : committed_txns_[i] \in ToSet(committed_txns_)
  BY FixedStep, QueueIndex DEF IInv, Types, ControlTypes, QueueTypes
<1>1. SUFFICES ASSUME lm # "shipped" PROVE ConflictOrder'
  BY <1>0 DEF CommitsInOrder
<1>2. ConflictOrder
  BY <1>0, <1>1 DEF CommitsInOrder
<1>3. CASE Commit
  <2>1. PICK h \in Txns : h = txn /\ At(h, Hand) /\ pc = "apply"
    BY <1>3, CommitTouches
  <2>2. committed_txns_' = Append(committed_txns_, h) /\ unique_id_' = unique_id_
    BY <1>3, <2>1 DEF Commit, clientVars
  <2>3. h \in Active /\ ~Final(h) /\ unique_id_[h] # 0
    <3>1. h \in Active
      BY <1>0, <2>1, ActiveAre
    <3>2. unique_id_[h] # 0
      BY <1>0, <3>1, ActivePresent DEF Order
    <3> QED
      BY <1>0, <3>1, <3>2, ActiveUndecided DEF IInv
  <2>4. ASSUME NEW t \in ToSet(committed_txns_), Conflict(program[t], program[h])
        PROVE  unique_id_[t] < unique_id_[h]
    <3>1. t \in Txns /\ Final(t)
      BY <1>0, <2>4 DEF Statuses, Final
    <3>2. ~(unique_id_[h] < unique_id_[t])
      <4>1. Conflict(program[h], program[t])
        BY <2>4 DEF Conflict
      <4> QED
        BY <1>0, <1>1, <2>3, <3>1, <4>1 DEF Earlier
    <3>3. unique_id_[h] # unique_id_[t]
      BY <1>0, <2>3, <3>1 DEF Order
    <3> QED
      BY <1>0, <3>1, <3>2, <3>3
  <2>5. ASSUME NEW i \in DOMAIN committed_txns_', NEW j \in DOMAIN committed_txns_', i < j
        PROVE  /\ i \in DOMAIN committed_txns_ /\ committed_txns_'[i] = committed_txns_[i]
               /\ \/ j \in DOMAIN committed_txns_ /\ committed_txns_'[j] = committed_txns_[j]
                  \/ committed_txns_'[j] = h
    BY <1>0, <2>2, <2>5, AppendInOrder
  <2> QED
    BY <1>0, <1>2, <2>2, <2>4, <2>5 DEF ConflictOrder
<1>4. CASE committed_txns_' = committed_txns_
  <2>1. CASE unique_id_' = unique_id_
    BY <1>0, <1>2, <1>4, <2>1 DEF ConflictOrder
  <2>2. CASE \E v \in Txns : NewTxnRequest(v)
    <3>1. PICK v \in Txns : NewTxnRequest(v)
      BY <2>2
    <3>2. \A t \in ToSet(committed_txns_) : unique_id_'[t] = unique_id_[t]
      <4>1. ASSUME NEW t \in ToSet(committed_txns_) PROVE t \in Txns /\ unique_id_[t] # 0
        <5>1. t \in Txns /\ Final(t)
          BY <1>0, <4>1 DEF Statuses, Final
        <5> QED
          BY <1>0, <5>1, FinalPresent DEF Order
      <4>2. \A t \in Txns : unique_id_[t] # 0 => unique_id_'[t] = unique_id_[t]
        BY <1>0, <3>1 DEF NewTxnRequest, Types, ControlTypes
      <4> QED
        BY <4>1, <4>2
    <3> QED
      BY <1>0, <1>2, <1>4, <3>2 DEF ConflictOrder
  <2> QED
    BY <2>1, <2>2, FixedStep
<1>5. Commit \/ committed_txns_' = committed_txns_
  BY DEF Next, SchedulerStep, WorkerStep, NewTxnRequest, GetTxnResult, PopRequest, NoRequest,
    RequestLock, QueueUnlessBlocked, PopCompleted, NoneCompleted, ApplyWrite, ReleaseLock,
    ReturnResult, Dispatch, NoneReady, StartTask, ReadRecord, RunAndHandBack
<1> QED
  BY <1>3, <1>4, <1>5

-----------------------------------------------------------------------------
(* Stores. *)
LEMMA HasReadAll ==
  ASSUME NEW p, NEW store, NEW x, IsTxn(x),
         x.status_ = "INCOMPLETE", x.writes_ = NoRecords,
         x.reads_ = Part(store, KeySet(p))
  PROVE  x = ReadAll(p, NewTxn, store)
<1> DEFINE seen == Part(store, KeySet(p))
<1>1. Over(seen, NoRecords) = seen
  BY DEF Over, NoRecords, Part
<1>2. ReadAll(p, NewTxn, store) =
        [status_ |-> "INCOMPLETE", reads_ |-> Over(seen, NoRecords), writes_ |-> NoRecords]
  BY DEF ReadAll, NewTxn, Part
<1> QED
  BY <1>1, <1>2 DEF IsTxn

(* What a transaction reads of two stores is the same if they agree on its keys. *)
LEMMA SeesTheSame ==
  ASSUME NEW p, NEW store, NEW other, DOMAIN store = DOMAIN other,
         \A k \in KeySet(p) \cap DOMAIN store : store[k] = other[k], NEW x
  PROVE  RunOn(p, x, store) = RunOn(p, x, other)
<1>1. [k \in KeySet(p) \cap DOMAIN store |-> store[k]] =
        [k \in KeySet(p) \cap DOMAIN other |-> other[k]]
  OBVIOUS
<1> QED
  BY <1>1 DEF RunOn, ReadAll

LEMMA OneMore ==
  ASSUME NEW f, NEW K, NEW k \in K, NEW L, k \in L
  PROVE  IF k \in DOMAIN f
           THEN Over(Part(f, {k}), Part(f, K \ L)) = Part(f, K \ (L \ {k}))
           ELSE Part(f, K \ L) = Part(f, K \ (L \ {k}))
<1> DEFINE S == (K \ L) \cap DOMAIN f
           T == (K \ (L \ {k})) \cap DOMAIN f
<1>0. Part(f, K \ L) = [i \in S |-> f[i]] /\ Part(f, K \ (L \ {k})) = [i \in T |-> f[i]]
  BY DEF Part
<1>1. CASE k \notin DOMAIN f
  <2>1. S = T
    BY <1>1
  <2> QED
    BY <1>0, <1>1, <2>1
<1>2. CASE k \in DOMAIN f
  <2>1. T = S \union {k} /\ k \notin S
    BY <1>2
  <2> HIDE DEF S, T
  <2>2. Over([i \in {k} |-> f[i]], [i \in S |-> f[i]]) = [i \in T |-> f[i]]
    BY <2>1 DEF Over
  <2>3. Part(f, {k}) = [i \in {k} |-> f[i]]
    BY <1>2 DEF Part
  <2> QED
    BY <1>0, <1>2, <2>2, <2>3
<1> QED
  BY <1>1, <1>2

(* The steps that touch the store or the loops, and nothing else they see. *)
LEMMA Bystander ==
  ASSUME Unshared, NEW h \in Txns, NEW p \in Places, At(h, p), NEW w \in Workers, p # Task(w),
         task[w] # None, Types
  PROVE  task[w] \in Txns \ {h}
  BY TaskIs, PlacesAre DEF Unshared

LEMMA IsolationStep ==
  ASSUME IInv, Next
  PROVE  Isolation'
<1>0. /\ Types /\ ControlTypes /\ Distinct /\ Unshared /\ Order /\ LoopsLeft /\ Table /\ Waiters
      /\ Statuses /\ Isolation /\ lm' = lm /\ program' = program /\ program \in Programs
      /\ \A t \in Txns : IsTxn(txns[t])
  BY FixedStep DEF IInv, Types, ControlTypes, StoreTypes
<1> DEFINE Reading(w) == task[w] # None =>
                           txns[task[w]].reads_ = ReadSoFar(task[w], Left(scan[w]))
           Ran(t) == At(t, Completed) => txns[t] = RunOn(program[t], NewTxn, data_)
<1>1. SUFFICES ASSUME lm # "shipped"
               PROVE  (\A w \in Workers : Reading(w)') /\ (\A t \in Txns : Ran(t)')
  BY <1>0 DEF Isolation
<1>2. (\A w \in Workers : Reading(w)) /\ (\A t \in Txns : Ran(t))
  BY <1>0, <1>1 DEF Isolation
<1>3. CASE ApplyWrite
  <2>1. PICK h \in Txns : h = txn /\ At(h, Hand) /\ h \in Active
    BY <1>0, <1>3, ContentsAre, ActiveAre DEF ApplyWrite, ControlTypes, InHand
  <2>2. PICK k : k = KeyOf(todo)
    OBVIOUS
  <2>3. k \in WriteSet(program[h])
    BY <1>0, <1>3, <2>1, <2>2, LoopStep DEF ApplyWrite, LoopsLeft, Within, ControlTypes, InHand
  <2>4. /\ UNCHANGED <<txns, task, scan, completed_txns_>>
        /\ \E v : data_' = [data_ EXCEPT ![k] = v]
    BY <1>3, <2>2 DEF ApplyWrite, workerVars
  <2>5. \A t \in Active : t # h => k \notin KeySet(program[t])
    <3>1. \A t \in Active : t # h => ~Conflict(program[t], program[h])
      BY <1>0, <1>1, <2>1, Excluded DEF ConflictsExcluded
    <3> QED
      BY <2>3, <3>1 DEF Conflict
  <2>6. /\ DOMAIN data_' = DOMAIN data_
        /\ \A i \in DOMAIN data_ \ {k} : data_'[i] = data_[i]
    BY <2>4
  <2>7. ASSUME NEW w \in Workers PROVE Reading(w)'
    <3>1. SUFFICES ASSUME task[w] # None
                   PROVE  txns[task[w]].reads_ = ReadSoFar(task[w], Left(scan[w]))'
      BY <2>4
    <3>2. PICK t \in Txns : t = task[w] /\ At(t, Task(w)) /\ t # h /\ t \in Active
      BY <1>0, <2>1, <3>1, TaskIs, ActiveAre, PlacesAre, PlacesDiffer DEF Unshared
    <3>3. k \notin KeySet(program[t])
      BY <2>5, <3>2
    <3>4. txns[t].reads_ = ReadSoFar(t, Left(scan[w]))
      BY <1>2, <3>1, <3>2
    <3>5. ReadSoFar(t, Left(scan[w]))' = ReadSoFar(t, Left(scan[w]))
      BY <1>0, <2>4, <2>6, <3>3 DEF ReadSoFar, Part
    <3> QED
      BY <2>4, <3>2, <3>4, <3>5
  <2>8. ASSUME NEW t \in Txns PROVE Ran(t)'
    <3>1. SUFFICES ASSUME At(t, Completed)
                   PROVE  txns[t] = RunOn(program[t], NewTxn, data_')
      BY <1>0, <2>4, ContentsAre, ContentsNext
    <3>2. t # h /\ t \in Active
      BY <1>0, <2>1, <3>1, ActiveAre, PlacesAre, PlacesDiffer DEF Unshared
    <3>3. \A i \in KeySet(program[t]) \cap DOMAIN data_ : data_[i] = data_'[i]
      BY <2>5, <2>6, <3>2
    <3>4. RunOn(program[t], NewTxn, data_) = RunOn(program[t], NewTxn, data_')
      BY <2>6, <3>3, SeesTheSame
    <3> QED
      BY <1>2, <3>1, <3>4
  <2> QED
    BY <2>7, <2>8
<1>4. SUFFICES ASSUME data_' = data_
               PROVE  (\A w \in Workers : Reading(w)') /\ (\A t \in Txns : Ran(t)')
  BY <1>3 DEF Next, SchedulerStep, WorkerStep, NewTxnRequest, GetTxnResult, PopRequest, NoRequest,
    RequestLock, QueueUnlessBlocked, PopCompleted, NoneCompleted, Commit, ReleaseLock,
    ReturnResult, Dispatch, NoneReady, StartTask, ReadRecord, RunAndHandBack
<1>5. ASSUME NEW w \in Workers, task'[w] = task[w], scan'[w] = scan[w]
      PROVE  ReadSoFar(task[w], Left(scan[w]))' = ReadSoFar(task[w], Left(scan[w]))
  BY <1>0, <1>4, <1>5 DEF ReadSoFar
<1>6. ASSUME NEW h \in Txns, NEW p \in Places, At(h, p), UNCHANGED <<task, scan>>,
             \A w \in Workers : p # Task(w), \A t \in Txns \ {h} : txns'[t] = txns[t]
      PROVE  \A w \in Workers : Reading(w)'
  <2>1. ASSUME NEW w \in Workers, task[w] # None
        PROVE  (txns[task[w]].reads_ = ReadSoFar(task[w], Left(scan[w])))'
    <3>1. PICK t \in Txns \ {h} : t = task[w]
      BY <1>0, <1>6, <2>1, Bystander
    <3> QED
      BY <1>2, <1>5, <1>6, <2>1, <3>1
  <2> QED
    BY <1>6, <2>1
<1>7. CASE PopCompleted
  <2>1. PICK h \in Txns : /\ At(h, Completed) /\ Moves({h}, Completed, Hand)
                          /\ \A t \in Txns \ {h} : txns'[t] = txns[t]
    BY <1>7, VerdictTouches
  <2>2. \A w \in Workers : Reading(w)'
    BY <1>6, <1>7, <2>1, PlacesAre, PlacesDiffer DEF PopCompleted, workerVars
  <2>3. \A t \in Txns : At(t, Completed)' <=> At(t, Completed) /\ t # h
    BY <2>1, PlacesAre, PlacesDiffer DEF Moves
  <2> QED
    BY <1>0, <1>2, <1>4, <2>1, <2>2, <2>3
<1>8. CASE Commit
  <2>1. PICK h \in Txns : /\ At(h, Hand) /\ \A t \in Txns \ {h} : txns'[t] = txns[t]
    BY <1>8, CommitTouches
  <2>2. \A w \in Workers : Reading(w)'
    BY <1>6, <1>8, <2>1, PlacesAre, PlacesDiffer DEF Commit, workerVars
  <2>3. \A t \in Txns : At(t, Completed)' <=> At(t, Completed)
    BY <1>8, ContentsAre, ContentsNext DEF Commit
  <2>4. ~At(h, Completed)
    BY <1>0, <2>1, PlacesAre, PlacesDiffer DEF Unshared
  <2> QED
    BY <1>0, <1>2, <1>4, <2>1, <2>2, <2>3, <2>4
<1>9. ASSUME NEW w \in Workers, StartTask(w)
      PROVE  (\A v \in Workers : Reading(v)') /\ (\A t \in Txns : Ran(t)')
  <2>1. PICK h \in Txns : /\ h = Head(queues_[w]) /\ At(h, Queue(w))
                          /\ Moves({h}, Queue(w), Task(w)) /\ task' = [task EXCEPT ![w] = h]
    BY <1>0, <1>9, StartMoves
  <2>2. scan' = [scan EXCEPT ![w] = LoopsOf(program[h])] /\ txns' = txns
    BY <1>9, <2>1 DEF StartTask
  <2>3. txns[h] = NewTxn
    <3>1. ~Started(h)
      BY <1>0, <2>1, PlacesAre, PlacesDiffer DEF Unshared, Started
    <3> QED
      BY <1>0, <3>1 DEF Statuses
  <2>4. ReadSoFar(h, Left(LoopsOf(program[h])))' = NoRecords
    <3>1. Left(LoopsOf(program[h])) = KeySet(program[h])
      BY <1>0, LoopStart
    <3>2. KeySet(program[h]) \ KeySet(program[h]) = {}
      OBVIOUS
    <3>3. ReadSoFar(h, KeySet(program[h]))' = [k \in {} |-> data_'[k]]
      BY <1>0, <3>2 DEF ReadSoFar, Part
    <3>4. [k \in {} |-> data_'[k]] = NoRecords
      BY DEF NoRecords
    <3> QED
      BY <1>0, <3>1, <3>3, <3>4
  <2>5. Reading(w)'
    BY <1>0, <2>1, <2>2, <2>3, <2>4, NewIs DEF ControlTypes
  <2>6. ASSUME NEW v \in Workers, v # w PROVE Reading(v)'
    <3>1. task'[v] = task[v] /\ scan'[v] = scan[v]
      BY <1>0, <2>1, <2>2, <2>6 DEF ControlTypes
    <3> QED
      BY <1>2, <1>5, <2>2, <3>1
  <2>7. \A t \in Txns : At(t, Completed)' <=> At(t, Completed)
    BY <1>9, ContentsAre, ContentsNext DEF StartTask
  <2> QED
    BY <1>0, <1>2, <1>4, <2>2, <2>5, <2>6, <2>7
<1>10. ASSUME NEW w \in Workers, ReadRecord(w)
       PROVE  (\A v \in Workers : Reading(v)') /\ (\A t \in Txns : Ran(t)')
  <2>1. PICK h \in Txns : /\ h = task[w] /\ At(h, Task(w))
                          /\ \A t \in Txns \ {h} : txns'[t] = txns[t]
                          /\ txns'[h] = SaveRead(txns[h], data_, KeyOf(scan[w]))
    BY <1>10, ReadTouches
  <2>2. PICK k : k = KeyOf(scan[w])
    OBVIOUS
  <2>3. /\ scan[w] # NoLoop /\ scan[w] \in Loops /\ h # None
        /\ scan' = [scan EXCEPT ![w] = Rest(scan[w])] /\ task' = task
        /\ completed_txns_' = completed_txns_
    BY <1>0, <1>10, <2>1, NamesAssumption DEF ReadRecord, ControlTypes
  <2>4. /\ k \in Left(scan[w]) /\ Left(Rest(scan[w])) = Left(scan[w]) \ {k}
        /\ k \in KeySet(program[h])
    BY <1>0, <2>1, <2>2, <2>3, LoopStep, LoopShrinks DEF LoopsLeft
  <2>5. txns'[h].reads_ = IF k \in DOMAIN data_
                            THEN Over(Part(data_, {k}), txns[h].reads_)
                            ELSE txns[h].reads_
    <3>1. IsTxn(txns[h])
      BY <1>0
    <3>2. \A y, store, i : IsTxn(y) =>
             SaveRead(y, store, i).reads_ =
               IF i \in DOMAIN store THEN Over(Part(store, {i}), y.reads_) ELSE y.reads_
      BY SaveReadIs
    <3>3. txns'[h] = SaveRead(txns[h], data_, k)
      BY <2>1, <2>2
    <3>4. SaveRead(txns[h], data_, k).reads_ =
            IF k \in DOMAIN data_ THEN Over(Part(data_, {k}), txns[h].reads_)
                                  ELSE txns[h].reads_
      BY <3>1, <3>2
    <3> QED
      BY <3>3, <3>4
  <2>6. txns[h].reads_ = Part(data_, KeySet(program[h]) \ Left(scan[w]))
    BY <1>2, <2>1, <2>3 DEF ReadSoFar
  <2>7. txns'[h].reads_ = Part(data_, KeySet(program[h]) \ (Left(scan[w]) \ {k}))
    BY <2>4, <2>5, <2>6, OneMore
  <2>8. Reading(w)'
    <3>1. ReadSoFar(task[w], Left(scan[w]))' =
            Part(data_, KeySet(program[h]) \ (Left(scan[w]) \ {k}))
      BY <1>0, <1>4, <2>1, <2>3, <2>4 DEF ReadSoFar, ControlTypes
    <3> QED
      BY <2>1, <2>3, <2>7, <3>1
  <2>9. ASSUME NEW v \in Workers, v # w, task[v] # None PROVE Reading(v)'
    <3>1. task'[v] = task[v] /\ scan'[v] = scan[v]
      BY <1>0, <2>3, <2>9 DEF ControlTypes
    <3>2. task[v] \in Txns \ {h}
      BY <1>0, <2>1, <2>9, Bystander, PlacesAre, PlacesDiffer
    <3> QED
      BY <1>2, <1>5, <2>1, <2>9, <3>1, <3>2
  <2>10. \A t \in Txns : At(t, Completed)' <=> At(t, Completed)
    BY <2>3, ContentsAre, ContentsNext
  <2>11. ~At(h, Completed)
    BY <1>0, <2>1, PlacesAre, PlacesDiffer DEF Unshared
  <2> QED
    BY <1>0, <1>2, <1>4, <2>1, <2>3, <2>8, <2>9, <2>10, <2>11
<1>11. ASSUME NEW w \in Workers, RunAndHandBack(w)
       PROVE  (\A v \in Workers : Reading(v)') /\ (\A t \in Txns : Ran(t)')
  <2>1. PICK h \in Txns :
           /\ h = task[w] /\ At(h, Task(w)) /\ Moves({h}, Task(w), Completed)
           /\ \A t \in Txns \ {h} : txns'[t] = txns[t]
           /\ txns[h].status_ = "INCOMPLETE" /\ txns[h].writes_ = NoRecords
           /\ txns'[h] = Run(program[h], txns[h])
    BY <1>11, RunTouches
  <2>2. /\ scan[w] = NoLoop /\ task[w] # None
        /\ task' = [task EXCEPT ![w] = None] /\ scan' = scan
    BY <1>11 DEF RunAndHandBack
  <2>3. txns[h].reads_ = Part(data_, KeySet(program[h]))
    <3>1. txns[h].reads_ = ReadSoFar(h, {})
      BY <1>2, <2>1, <2>2, LoopEnd
    <3>2. KeySet(program[h]) \ {} = KeySet(program[h])
      OBVIOUS
    <3> QED
      BY <3>1, <3>2 DEF ReadSoFar
  <2>4. IsTxn(txns[h])
    BY <1>0
  <2>5. txns[h] = ReadAll(program[h], NewTxn, data_)
    BY <2>1, <2>3, <2>4, HasReadAll
  <2>6. txns'[h] = RunOn(program[h], NewTxn, data_)
    BY <2>1, <2>5 DEF RunOn
  <2>7. ASSUME NEW v \in Workers, v # w, task[v] # None PROVE Reading(v)'
    <3>1. task'[v] = task[v] /\ scan'[v] = scan[v]
      BY <1>0, <2>2, <2>7 DEF ControlTypes
    <3>2. task[v] \in Txns \ {h}
      BY <1>0, <2>1, <2>7, Bystander, PlacesAre, PlacesDiffer
    <3> QED
      BY <1>2, <1>5, <2>1, <2>7, <3>1, <3>2
  <2>8. \A v \in Workers : Reading(v)'
    <3>1. task'[w] = None /\ \A v \in Workers \ {w} : task'[v] = task[v]
      BY <1>0, <2>2 DEF ControlTypes
    <3> QED
      BY <2>7, <3>1
  <2>9. \A t \in Txns : At(t, Completed)' <=> At(t, Completed) \/ t = h
    BY <2>1, PlacesAre, PlacesDiffer DEF Moves
  <2> QED
    BY <1>0, <1>2, <1>4, <2>1, <2>6, <2>8, <2>9
<1>12. CASE UNCHANGED <<txns, task, scan, completed_txns_>>
  <2>1. \A w \in Workers : Reading(w)'
    BY <1>2, <1>5, <1>12
  <2>2. \A t \in Txns : Ran(t)'
    <3>1. \A t \in Txns : At(t, Completed)' <=> At(t, Completed)
      BY <1>12, ContentsAre, ContentsNext
    <3> QED
      BY <1>0, <1>2, <1>4, <1>12, <3>1
  <2> QED
    BY <2>1, <2>2
<1> QED
  BY <1>3, <1>7, <1>8, <1>9, <1>10, <1>11, <1>12
  DEF Next, SchedulerStep, WorkerStep, NewTxnRequest, GetTxnResult, PopRequest, NoRequest,
    RequestLock, QueueUnlessBlocked, NoneCompleted, ReleaseLock, ReturnResult, Dispatch,
    NoneReady, workerVars

(* What is left of ApplyWrites is what the store lacks of the writes. *)
LEMMA ApplyingStep ==
  ASSUME IInv, Next
  PROVE  Applying'
<1>0. /\ Types /\ ControlTypes /\ Unshared /\ LoopsLeft /\ Statuses /\ Applying
      /\ program' = program /\ program \in Programs
      /\ data_ = [k \in DOMAIN InitialStore |-> data_[k]]
  BY FixedStep DEF IInv, Types, ControlTypes, StoreTypes
<1> SUFFICES ASSUME pc' = "apply"
             PROVE  (\A k \in WriteSet(program[txn]) \ todo.write :
                       data_[k] = txns[txn].writes_[k])'
  BY DEF Applying
<1>1. CASE PopCompleted
  <2>1. PICK h \in Txns : h = txn' /\ At(h, Completed) /\ txns[h].status_ = "COMPLETED_C"
                          /\ txns' = txns
    BY <1>1, VerdictTouches
  <2>2. h = Head(completed_txns_)
    BY <1>1, <2>1 DEF PopCompleted
  <2>3. todo' = [NoLoop EXCEPT !.write = DOMAIN txns[h].writes_]
    BY <1>1, <2>1, <2>2 DEF PopCompleted
  <2>4. DOMAIN txns[h].writes_ = WriteSet(program[h])
    BY <1>0, <2>1 DEF Statuses, HasRun
  <2> QED
    BY <1>0, <2>1, <2>3, <2>4 DEF NoLoop
<1>2. SUFFICES ASSUME ~PopCompleted
               PROVE  (\A k \in WriteSet(program[txn]) \ todo.write :
                         data_[k] = txns[txn].writes_[k])'
  BY <1>1
<1>3. pc = "apply" /\ txn' = txn /\ ~Commit
  BY <1>2 DEF Next, SchedulerStep, WorkerStep, NewTxnRequest, GetTxnResult, PopRequest, NoRequest,
    RequestLock, QueueUnlessBlocked, NoneCompleted, ApplyWrite, Commit, ReleaseLock,
    ReturnResult, Dispatch, NoneReady, StartTask, ReadRecord, RunAndHandBack, schedulerVars
<1>4. PICK h \in Txns : h = txn /\ At(h, Hand)
  BY <1>0, <1>3, ContentsAre DEF ControlTypes, InHand
<1>5. \A k \in WriteSet(program[h]) \ todo.write : data_[k] = txns[h].writes_[k]
  BY <1>0, <1>3, <1>4 DEF Applying
<1>6. CASE ApplyWrite
  <2>1. PICK k : k = KeyOf(todo)
    OBVIOUS
  <2>2. /\ todo \in Loops /\ todo # NoLoop /\ todo.read = {} /\ todo' = Rest(todo)
        /\ data_' = [data_ EXCEPT ![k] = txns[h].writes_[k]] /\ txns' = txns
    BY <1>0, <1>3, <1>4, <1>6, <2>1 DEF ApplyWrite, ControlTypes, LoopsLeft
  <2>3. k \in todo.write /\ todo'.write = todo.write \ {k}
    BY <2>1, <2>2, LoopStep
  <2>4. todo.write \subseteq WriteSet(program[h])
    BY <1>0, <1>3, <1>4 DEF LoopsLeft, Within, InHand
  <2>5. WriteSet(program[h]) \subseteq DOMAIN data_
    BY <1>0, Programmed
  <2>6. data_'[k] = txns[h].writes_[k] /\ \A i \in DOMAIN data_ \ {k} : data_'[i] = data_[i]
    BY <2>2, <2>3, <2>4, <2>5
  <2> QED
    BY <1>0, <1>3, <1>4, <1>5, <2>2, <2>3, <2>5, <2>6
<1>7. CASE ~ApplyWrite
  <2>1. todo' = todo /\ data_' = data_
    BY <1>2, <1>3, <1>7
    DEF Next, SchedulerStep, WorkerStep, NewTxnRequest, GetTxnResult, PopRequest, NoRequest,
      RequestLock, QueueUnlessBlocked, NoneCompleted, ReleaseLock,
      ReturnResult, Dispatch, NoneReady, StartTask, ReadRecord, RunAndHandBack, schedulerVars
  <2>2. \/ txns' = txns
        \/ \E w \in Workers : ReadRecord(w) \/ RunAndHandBack(w)
    BY <1>2, <1>3, <1>7
    DEF Next, SchedulerStep, WorkerStep, NewTxnRequest, GetTxnResult, PopRequest, NoRequest,
      RequestLock, QueueUnlessBlocked, NoneCompleted, ReleaseLock,
      ReturnResult, Dispatch, NoneReady, StartTask
  <2>3. txns'[h] = txns[h]
    <3>1. ASSUME NEW w \in Workers, ReadRecord(w) \/ RunAndHandBack(w)
          PROVE  txns'[h] = txns[h]
      <4>1. PICK t \in Txns : At(t, Task(w)) /\ \A u \in Txns \ {t} : txns'[u] = txns[u]
        BY <3>1, ReadTouches, RunTouches
      <4> QED
        BY <1>0, <1>4, <4>1, PlacesAre, PlacesDiffer DEF Unshared
    <3> QED
      BY <2>2, <3>1
  <2> QED
    BY <1>0, <1>3, <1>4, <1>5, <2>1, <2>3
<1> QED
  BY <1>6, <1>7

-----------------------------------------------------------------------------
(* The invariant is inductive. *)
LEMMA InitPlaces ==
  ASSUME Init
  PROVE  /\ Types /\ Distinct
         /\ \A t \in Txns : Absent(t)
<1>0. \A S : <<>> \in Seq(S)
  OBVIOUS
<1>1. IsInjective(<<>>) /\ ToSet(<<>>) = {}
  BY EmptyQueue
<1>2. ControlTypes
  <2>1. NoLoop \in Loops
    BY LoopEnd
  <2>2. /\ todo \in Loops /\ scan \in [Workers -> Loops]
        /\ txn \in TxnOrNone /\ task \in [Workers -> TxnOrNone]
    BY <2>1 DEF Init, TxnOrNone
  <2>3. /\ next_unique_id_ \in Nat \ {0} /\ unique_id_ \in [Txns -> Nat]
        /\ occ_start_idx_ \in [Txns -> Nat]
    BY DEF Init
  <2>4. /\ lm \in Linked /\ program \in Programs /\ pc = "pop" /\ blocked = FALSE
        /\ received = {}
    BY DEF Init
  <2> QED
    BY <2>2, <2>3, <2>4 DEF ControlTypes, InHand
<1>3. QueueTypes
  BY <1>0 DEF Init, QueueTypes
<1>4. StoreTypes
  BY NewIs, Stored DEF Init, StoreTypes
<1>5. Distinct
  BY <1>1 DEF Init, Distinct
<1>6. ASSUME NEW t \in Txns, NEW p \in Places PROVE ~At(t, p)
  <2>1. t # None
    BY NamesAssumption
  <2> QED
    BY <1>1, <2>1, PlacesAre, ContentsAre DEF Init, InHand
<1> QED
  BY <1>2, <1>3, <1>4, <1>5, <1>6 DEF Types, Absent

LEMMA IInvInit == Init => IInv
<1> SUFFICES ASSUME Init PROVE IInv
  OBVIOUS
<1>1. /\ Types /\ Distinct /\ \A t \in Txns : Absent(t)
  BY InitPlaces
<1>2. \A t \in Txns : \A p \in Places : ~At(t, p)
  BY <1>1 DEF Absent
<1>3. /\ \A t \in Txns : unique_id_[t] = 0 /\ txns[t] = NewTxn
      /\ txn_requests_ = <<>> /\ committed_txns_ = <<>> /\ next_unique_id_ = 1
      /\ pc = "pop" /\ todo = NoLoop
      /\ \A w \in Workers : task[w] = None /\ scan[w] = NoLoop
      /\ \A k \in Keys : lock_table_[k] = <<>>
  BY DEF Init
<1>4. Unshared
  BY <1>2 DEF Unshared
<1>5. Order
  BY <1>1, <1>3 DEF Order, Popped
<1>6. LoopsLeft
  BY <1>3 DEF LoopsLeft, InHand
<1>7. \A k \in Keys, t \in Txns : ~In(lock_table_[k], t) /\ ~WaitsIn(lock_table_[k], t)
  BY <1>3 DEF In, WaitsIn
<1>8. Table
  <2>1. \A t \in Txns : Asked(t) = {}
    BY <1>3 DEF Asked
  <2> QED
    BY <1>3, <1>7, <2>1 DEF Table, WaitsForOlder
<1>9. \A k \in DOMAIN lock_table_ : lock_table_[k] = <<>>
  BY DEF Init
<1>10. \A t \in Txns : ~Waiting(lock_table_, t)
  BY <1>9, EmptyQueue DEF Waiting
<1>11. Waiters
  BY <1>2, <1>3, <1>10, PlacesAre DEF Waiters
<1>12. Earlier
  BY <1>3 DEF Earlier
<1>13. Statuses
  <2>1. ToSet(committed_txns_) = {}
    BY <1>3, EmptyQueue
  <2> QED
    BY <1>2, <1>3, <2>1, PlacesAre DEF Statuses
<1>14. Isolation /\ Applying
  BY <1>2, <1>3, PlacesAre DEF Isolation, Applying
<1>15. CommitsInOrder
  BY <1>3 DEF CommitsInOrder, ConflictOrder
<1> QED
  BY <1>1, <1>4, <1>5, <1>6, <1>8, <1>11, <1>12, <1>13, <1>14, <1>15 DEF IInv

LEMMA IInvStutter ==
  ASSUME IInv, UNCHANGED vars
  PROVE  IInv'
<1>1. UNCHANGED <<lm, program, pc, txn, blocked, todo, txn_requests_, ready_txns_,
                  completed_txns_, committed_txns_, txn_results_, next_unique_id_,
                  unique_id_, occ_start_idx_, txns, data_, lock_table_, queues_, task,
                  scan, received>>
  BY DEF vars, fixed, clientVars, schedulerVars, workerVars
<1>2. Types'
  BY <1>1 DEF IInv, Types, ControlTypes, QueueTypes, StoreTypes
<1>3. \A t, p : At(t, p)' <=> At(t, p)
  BY <1>1 DEF At, Contents
<1>4. \A t : (Absent(t)' <=> Absent(t)) /\ (Started(t)' <=> Started(t))
             /\ (Popped(t)' <=> Popped(t)) /\ Asked(t)' = Asked(t)
             /\ (Final(t)' <=> Final(t))
  BY <1>1, <1>3 DEF Absent, Started, Popped, Asked, Final, Places
<1>5. Distinct' /\ Unshared'
  BY <1>1, <1>3 DEF IInv, Distinct, Unshared, Places
<1>6. Order' /\ LoopsLeft'
  BY <1>1, <1>3, <1>4 DEF IInv, Order, LoopsLeft
<1>7. Table'
  BY <1>1, <1>4 DEF IInv, Table, WaitsForOlder
<1>8. Waiters'
  BY <1>1, <1>3, <1>4 DEF IInv, Waiters
<1>9. Active' = Active
  BY <1>1 DEF Active
<1>10. Earlier'
  BY <1>1, <1>4, <1>9 DEF IInv, Earlier
<1>11. Statuses'
  BY <1>1, <1>3, <1>4 DEF IInv, Statuses, HasRun
<1>12. Isolation' /\ Applying'
  BY <1>1, <1>3 DEF IInv, Isolation, ReadSoFar, Applying
<1>13. CommitsInOrder'
  BY <1>1 DEF IInv, CommitsInOrder, ConflictOrder
<1> QED
  BY <1>2, <1>5, <1>6, <1>7, <1>8, <1>10, <1>11, <1>12, <1>13 DEF IInv

LEMMA IInvStep == IInv /\ [Next]_vars => IInv'
<1>1. ASSUME IInv, Next PROVE IInv'
  BY <1>1, TypesStep, PlacesStep, OrderStep, LoopsStep, TableStep, WaitersStep, EarlierStep,
    StatusesStep, IsolationStep, ApplyingStep, CommitsStep DEF IInv
<1> QED
  BY <1>1, IInvStutter

(* Everything the theorems below rest on: where each transaction is, what it
   looks like there, and what the lock table says of it (txn_processor.cc:153-256). *)
THEOREM Invariant == Spec => []IInv
  BY IInvInit, IInvStep, PTL DEF Spec

(* The lock managers that are more than a placeholder. *)
Excluding == Linked \subseteq {"A", "B"}

(* lock_manager.h:33-35, 41-43 with txn_processor.cc:177-181: with a lock manager
   that excludes, two transactions one of which writes what the other uses are
   never ready, executing or being applied at the same time. *)
THEOREM ConflictsAreExcluded ==
  ASSUME Excluding
  PROVE  Spec => []ConflictsExcluded
<1>1. IInv => ConflictsExcluded
  BY Excluded DEF IInv, Types, ControlTypes, Excluding
<1> QED
  BY <1>1, Invariant, PTL

(* lock_manager.h:70-76: from the ready queue until its last write is applied, a
   transaction owns every key it was constructed with, in the lock table, and
   shares the ownership of none it may write. *)
LEMMA HeldWhileActive ==
  ASSUME IInv, lm # "shipped", NEW t \in Active
  PROVE  /\ \A k \in ReadSet(program[t]) : t \in ToSet(Owners(lock_table_[k]))
         /\ \A k \in WriteSet(program[t]) : Owners(lock_table_[k]) = <<t>>
<1>0. /\ Types /\ Unshared /\ Order /\ Table /\ Waiters /\ Statuses /\ t \in Txns
      /\ lock_table_ \in [Keys -> Seq(Requests(Txns))] /\ program \in Programs
  BY ActiveUndecided DEF IInv, Types, ControlTypes, QueueTypes
<1>1. Asked(t) = KeySet(program[t])
  BY <1>0, AskedIs
<1>2. ~Waiting(lock_table_, t)
  BY <1>0, ActiveAre, PlacesAre, PlacesDiffer DEF Unshared, Absent, Waiters
<1>3. ASSUME NEW k \in KeySet(program[t])
      PROVE  /\ k \in Keys /\ In(lock_table_[k], t) /\ ~WaitsIn(lock_table_[k], t)
             /\ lock_table_[k] \in Seq(Requests(Txns))
  <2>1. k \in Keys
    BY <1>0, Programmed DEF KeySet
  <2>2. In(lock_table_[k], t)
    BY <1>0, <1>1, <2>1 DEF Table
  <2>3. ~WaitsIn(lock_table_[k], t)
    BY <1>0, <1>2, <2>1, WaitingIs
  <2> QED
    BY <1>0, <2>1, <2>2, <2>3
<1>4. ASSUME NEW k \in ReadSet(program[t])
      PROVE  t \in ToSet(Owners(lock_table_[k]))
  BY <1>3, OwnsWhenNotWaiting DEF KeySet
<1>5. ASSUME NEW k \in WriteSet(program[t])
      PROVE  Owners(lock_table_[k]) = <<t>>
  <2>1. k \in KeySet(program[t])
    BY DEF KeySet
  <2>2. PICK q \in Seq(Requests(Txns)) : q = lock_table_[k] /\ In(q, t) /\ ~WaitsIn(q, t)
    BY <1>3, <2>1
  <2>3. PICK i \in DOMAIN q : q[i].txn_ = t /\ Granted(q, i)
    BY <2>2 DEF In, WaitsIn
  <2>4. q[i].mode_ = "EXCLUSIVE"
    BY <1>0, <1>3, <2>1, <2>2, <2>3 DEF Table
  <2> QED
    BY <2>2, <2>3, <2>4, OwnsAlone
<1> QED
  BY <1>4, <1>5

THEOREM LocksAreHeldWhileActive ==
  ASSUME Excluding
  PROVE  Spec => []LocksHeldWhileActive
<1>1. IInv => LocksHeldWhileActive
  BY HeldWhileActive DEF IInv, Types, ControlTypes, Excluding, LocksHeldWhileActive
<1> QED
  BY <1>1, Invariant, PTL

(* txn.h:102 and txn_processor.cc:160-175: whatever lock manager the processor is
   linked with, a transaction waits for older ones only: that is why taking locks
   one by one needs no deadlock detection. *)
THEOREM WaitersWaitForOlder == Spec => []WaitsForOlder
<1>1. IInv => WaitsForOlder
  BY DEF IInv, Table
<1> QED
  BY <1>1, Invariant, PTL

(* txn_processor.cc:73-76, 190-193: however the pool schedules them, conflicting
   transactions commit in the order in which they were requested. *)
THEOREM ConflictsCommitInOrder ==
  ASSUME Excluding
  PROVE  Spec => []ConflictOrder
<1>1. IInv => ConflictOrder
  BY DEF IInv, CommitsInOrder, Types, ControlTypes, Excluding
<1> QED
  BY <1>1, Invariant, PTL

(* txn_processor.cc:202: the scheduler never finds a completed transaction with
   a status it does not know, and so never ends the process. *)
THEOREM NeverDies == Spec => []Running
<1>1. IInv => Running
  BY DEF IInv, Types, ControlTypes, InHand, Running
<1> QED
  BY <1>1, Invariant, PTL

-----------------------------------------------------------------------------
(* InOnePlace: a pointer is a place and the position there. *)
LEMMA PositionsAre ==
  ASSUME NEW q, NEW t
  PROVE  /\ t \notin ToSet(q) => Positions(q, t) = {}
         /\ t \in ToSet(q) => Positions(q, t) # {}
         /\ IsInjective(q) => \A i, j \in Positions(q, t) : i = j
  BY DEF Positions, ToSet, IsInjective

LEMMA PointersAre ==
  ASSUME NEW t \in Txns
  PROVE  \A x : x \in Pointers(t) <=>
           \/ \E i \in Positions(txn_requests_, t) : x = <<"txn_requests_", i>>
           \/ \E i \in Positions(ready_txns_, t) : x = <<"ready_txns_", i>>
           \/ \E i \in Positions(completed_txns_, t) : x = <<"completed_txns_", i>>
           \/ \E i \in Positions(txn_results_, t) : x = <<"txn_results_", i>>
           \/ \E w \in Workers : \E i \in Positions(queues_[w], t) : x = <<"queues_", <<w, i>>>>
           \/ \E w \in Workers : t = task[w] /\ x = <<"task", w>>
           \/ At(t, Hand) /\ x = <<"txn", t>>
           \/ t \in received /\ x = <<"received", t>>
<1>1. \A u : u \in {txn} /\ u = t /\ pc \in {"lock", "apply", "release"}
               <=> At(t, Hand) /\ u = t
  BY ContentsAre DEF InHand
<1> QED
  BY <1>1 DEF Pointers

LEMMA OnePlace == IInv => InOnePlace
<1> SUFFICES ASSUME IInv, NEW t \in Txns, unique_id_[t] # 0
             PROVE  IF Waiting(lock_table_, t) /\ ~(pc = "lock" /\ txn = t)
                      THEN Pointers(t) = {}
                      ELSE \E x \in Pointers(t) : Pointers(t) = {x}
  BY DEF InOnePlace
<1>0. Types /\ Distinct /\ Unshared /\ Waiters
  BY DEF IInv
<1>1. ASSUME Absent(t) PROVE Pointers(t) = {}
  <2>1. /\ t \notin ToSet(txn_requests_) /\ t \notin ToSet(ready_txns_)
        /\ t \notin ToSet(completed_txns_) /\ t \notin ToSet(txn_results_)
        /\ t \notin received /\ ~At(t, Hand)
        /\ \A w \in Workers : t \notin ToSet(queues_[w]) /\ t # task[w]
    BY <1>1, PlacesAre, ContentsAre DEF Absent
  <2> QED
    BY <2>1, PositionsAre, PointersAre
<1>2. ASSUME NEW p \in Places, At(t, p)
      PROVE  \E x \in Pointers(t) : Pointers(t) = {x}
  <2>0. \A q \in Places : At(t, q) => q = p
    BY <1>0, <1>2 DEF Unshared
  <2>1. /\ p # Asking => Positions(txn_requests_, t) = {}
        /\ p # Ready => Positions(ready_txns_, t) = {}
        /\ p # Completed => Positions(completed_txns_, t) = {}
        /\ p # Results => Positions(txn_results_, t) = {}
        /\ p # Received => t \notin received
        /\ p # Hand => ~At(t, Hand)
        /\ \A w \in Workers : /\ p # Queue(w) => Positions(queues_[w], t) = {}
                              /\ p # Task(w) => t # task[w]
    BY <2>0, PlacesAre, ContentsAre, PositionsAre
  <2>2. \E x \in Pointers(t) : \A y \in Pointers(t) : y = x
    <3>1. CASE p = Asking
      <4>1. /\ p \notin {Hand, Ready, Completed, Results, Received}
            /\ \A w \in Workers : p # Queue(w) /\ p # Task(w)
        BY <3>1, PlacesDiffer
      <4>2. \A x : x \in Pointers(t) <=>
               \E i \in Positions(txn_requests_, t) : x = <<"txn_requests_", i>>
        BY <2>1, <4>1, PointersAre
      <4>3. Positions(txn_requests_, t) # {} /\ \A i, j \in Positions(txn_requests_, t) : i = j
        BY <1>0, <1>2, <3>1, ContentsAre, PositionsAre DEF Distinct
      <4>4. PICK i \in Positions(txn_requests_, t) : TRUE
        BY <4>3
      <4>5. PICK x : x = <<"txn_requests_", i>>
        OBVIOUS
      <4> QED
        BY <4>2, <4>3, <4>4, <4>5
    <3>2. CASE p = Ready
      <4>1. /\ p \notin {Asking, Hand, Completed, Results, Received}
            /\ \A w \in Workers : p # Queue(w) /\ p # Task(w)
        BY <3>2, PlacesDiffer
      <4>2. \A x : x \in Pointers(t) <=>
               \E i \in Positions(ready_txns_, t) : x = <<"ready_txns_", i>>
        BY <2>1, <4>1, PointersAre
      <4>3. Positions(ready_txns_, t) # {} /\ \A i, j \in Positions(ready_txns_, t) : i = j
        BY <1>0, <1>2, <3>2, ContentsAre, PositionsAre DEF Distinct
      <4>4. PICK i \in Positions(ready_txns_, t) : TRUE
        BY <4>3
      <4>5. PICK x : x = <<"ready_txns_", i>>
        OBVIOUS
      <4> QED
        BY <4>2, <4>3, <4>4, <4>5
    <3>3. CASE p = Completed
      <4>1. /\ p \notin {Asking, Hand, Ready, Results, Received}
            /\ \A w \in Workers : p # Queue(w) /\ p # Task(w)
        BY <3>3, PlacesDiffer
      <4>2. \A x : x \in Pointers(t) <=>
               \E i \in Positions(completed_txns_, t) : x = <<"completed_txns_", i>>
        BY <2>1, <4>1, PointersAre
      <4>3. Positions(completed_txns_, t) # {} /\ \A i, j \in Positions(completed_txns_, t) : i = j
        BY <1>0, <1>2, <3>3, ContentsAre, PositionsAre DEF Distinct
      <4>4. PICK i \in Positions(completed_txns_, t) : TRUE
        BY <4>3
      <4>5. PICK x : x = <<"completed_txns_", i>>
        OBVIOUS
      <4> QED
        BY <4>2, <4>3, <4>4, <4>5
    <3>4. CASE p = Results
      <4>1. /\ p \notin {Asking, Hand, Ready, Completed, Received}
            /\ \A w \in Workers : p # Queue(w) /\ p # Task(w)
        BY <3>4, PlacesDiffer
      <4>2. \A x : x \in Pointers(t) <=>
               \E i \in Positions(txn_results_, t) : x = <<"txn_results_", i>>
        BY <2>1, <4>1, PointersAre
      <4>3. Positions(txn_results_, t) # {} /\ \A i, j \in Positions(txn_results_, t) : i = j
        BY <1>0, <1>2, <3>4, ContentsAre, PositionsAre DEF Distinct
      <4>4. PICK i \in Positions(txn_results_, t) : TRUE
        BY <4>3
      <4>5. PICK x : x = <<"txn_results_", i>>
        OBVIOUS
      <4> QED
        BY <4>2, <4>3, <4>4, <4>5
    <3>5. CASE p = Received \/ p = Hand
      <4>1. /\ p \notin {Asking, Ready, Completed, Results}
            /\ \A w \in Workers : p # Queue(w) /\ p # Task(w)
        BY <3>5, PlacesDiffer
      <4>2. \A x : x \in Pointers(t) <=> \/ p = Hand /\ x = <<"txn", t>>
                                         \/ p = Received /\ x = <<"received", t>>
        BY <1>2, <2>1, <3>5, <4>1, ContentsAre, PointersAre
      <4>3. PICK x : x = IF p = Hand THEN <<"txn", t>> ELSE <<"received", t>>
        OBVIOUS
      <4> QED
        BY <3>5, <4>2, <4>3, PlacesDiffer
    <3>6. ASSUME NEW w \in Workers, p = Queue(w)
          PROVE  \E x \in Pointers(t) : \A y \in Pointers(t) : y = x
      <4>1. /\ p \notin {Asking, Hand, Ready, Completed, Results, Received}
            /\ \A v \in Workers : p # Task(v) /\ (v # w => p # Queue(v))
        BY <3>6, PlacesDiffer
      <4>2. \A x : x \in Pointers(t) <=>
               \E i \in Positions(queues_[w], t) : x = <<"queues_", <<w, i>>>>
        BY <2>1, <4>1, PointersAre
      <4>3. Positions(queues_[w], t) # {} /\ \A i, j \in Positions(queues_[w], t) : i = j
        BY <1>0, <1>2, <3>6, ContentsAre, PositionsAre DEF Distinct
      <4>4. PICK i \in Positions(queues_[w], t) : TRUE
        BY <4>3
      <4>5. PICK x : x = <<"queues_", <<w, i>>>>
        OBVIOUS
      <4> QED
        BY <4>2, <4>3, <4>4, <4>5
    <3>7. ASSUME NEW w \in Workers, p = Task(w)
          PROVE  \E x \in Pointers(t) : \A y \in Pointers(t) : y = x
      <4>1. /\ p \notin {Asking, Hand, Ready, Completed, Results, Received}
            /\ \A v \in Workers : p # Queue(v) /\ (v # w => p # Task(v))
        BY <3>7, PlacesDiffer
      <4>2. t = task[w]
        BY <1>2, <3>7, ContentsAre
      <4>3. \A x : x \in Pointers(t) <=> x = <<"task", w>>
        BY <2>1, <4>1, <4>2, PointersAre
      <4>4. PICK x : x = <<"task", w>>
        OBVIOUS
      <4> QED
        BY <4>3, <4>4
    <3> QED
      BY <3>1, <3>2, <3>3, <3>4, <3>5, <3>6, <3>7, PlacesAre
  <2> QED
    BY <2>2
<1>3. CASE Waiting(lock_table_, t) /\ ~(pc = "lock" /\ txn = t)
  <2>1. Absent(t)
    BY <1>0, <1>3, ContentsAre DEF Waiters
  <2> QED
    BY <1>1, <1>3, <2>1
<1>4. CASE pc = "lock" /\ txn = t
  <2>1. At(t, Hand)
    BY <1>4, ContentsAre DEF InHand
  <2> QED
    BY <1>2, <1>4, <2>1, PlacesAre
<1>5. CASE ~Waiting(lock_table_, t)
  <2>1. ~Absent(t)
    BY <1>0, <1>5 DEF Waiters
  <2> QED
    BY <1>2, <1>5, <2>1 DEF Absent
<1> QED
  BY <1>3, <1>4, <1>5

(* txn_processor.h:48-53: whatever lock manager the processor is linked with, a
   requested transaction is in one queue, or in the hands of one thread, or waits
   for a lock, or was returned: none is lost, executed twice or returned twice. *)
THEOREM KeptInOnePlace == Spec => []InOnePlace
  BY OnePlace, Invariant, PTL

-----------------------------------------------------------------------------
(* TypeOK: what the programs compute stays among Values. *)
ValuesClosed ==
  /\ Closed(Values)
  /\ \A p \in Programs : \A t \in Txns : PutsIn(p[t], Values)

ValueTypes ==
  /\ \A t \in Txns : /\ txns[t].status_ \in Status
                     /\ txns[t].reads_ \in Stores(Keys, Values) /\ txns[t].writes_ \in Stores(Keys, Values)
  /\ \A k \in DOMAIN InitialStore : data_[k] \in Values

LEMMA ValuesStep ==
  ASSUME ValuesClosed, IInv, ValueTypes, Next
  PROVE  ValueTypes'
<1>0. /\ Types /\ ControlTypes /\ LoopsLeft /\ Statuses /\ program \in Programs
      /\ \A t \in Txns : IsTxn(txns[t])
      /\ data_ = [k \in DOMAIN InitialStore |-> data_[k]]
  BY DEF IInv, Types, ControlTypes, StoreTypes
<1>1. ASSUME NEW h \in Txns, \A t \in Txns \ {h} : txns'[t] = txns[t], data_' = data_,
             /\ txns'[h].status_ \in Status
             /\ txns'[h].reads_ \in Stores(Keys, Values) /\ txns'[h].writes_ \in Stores(Keys, Values)
      PROVE  ValueTypes'
  BY <1>1 DEF ValueTypes
<1>2. CASE PopCompleted
  <2>1. PICK h \in Txns : /\ \A t \in Txns \ {h} : txns'[t] = txns[t]
                          /\ \/ txns' = txns
                             \/ txns'[h] = [txns[h] EXCEPT !.status_ = "ABORTED"]
    BY <1>2, VerdictTouches
  <2>2. /\ txns'[h].status_ \in Status
        /\ txns'[h].reads_ \in Stores(Keys, Values) /\ txns'[h].writes_ \in Stores(Keys, Values)
    <3>1. CASE txns' = txns
      BY <3>1 DEF ValueTypes
    <3>2. CASE txns'[h] = [txns[h] EXCEPT !.status_ = "ABORTED"]
      BY <1>0, <3>2, StatusIs DEF ValueTypes, Status
    <3> QED
      BY <2>1, <3>1, <3>2
  <2> QED
    BY <1>1, <1>2, <2>1, <2>2 DEF PopCompleted
<1>3. CASE Commit
  <2>1. PICK h \in Txns : /\ \A t \in Txns \ {h} : txns'[t] = txns[t]
                          /\ txns'[h] = [txns[h] EXCEPT !.status_ = "COMMITTED"]
    BY <1>3, CommitTouches
  <2>2. /\ txns'[h].status_ \in Status
        /\ txns'[h].reads_ \in Stores(Keys, Values) /\ txns'[h].writes_ \in Stores(Keys, Values)
    BY <1>0, <2>1, StatusIs DEF ValueTypes, Status
  <2> QED
    BY <1>1, <1>3, <2>1, <2>2 DEF Commit
<1>4. ASSUME NEW w \in Workers, ReadRecord(w) PROVE ValueTypes'
  <2>1. PICK h \in Txns : /\ \A t \in Txns \ {h} : txns'[t] = txns[t]
                          /\ txns'[h] = SaveRead(txns[h], data_, KeyOf(scan[w]))
                          /\ txns'[h].status_ = txns[h].status_
                          /\ txns'[h].writes_ = txns[h].writes_
    BY <1>4, ReadTouches
  <2>2. PICK k : k = KeyOf(scan[w])
    OBVIOUS
  <2>3. txns'[h].reads_ = IF k \in DOMAIN data_
                            THEN Over(Part(data_, {k}), txns[h].reads_)
                            ELSE txns[h].reads_
    <3>1. \A y, store, i : IsTxn(y) =>
             SaveRead(y, store, i).reads_ =
               IF i \in DOMAIN store THEN Over(Part(store, {i}), y.reads_) ELSE y.reads_
      BY SaveReadIs
    <3>2. SaveRead(txns[h], data_, k).reads_ =
            IF k \in DOMAIN data_ THEN Over(Part(data_, {k}), txns[h].reads_)
                                  ELSE txns[h].reads_
      BY <1>0, <3>1
    <3>3. txns'[h] = SaveRead(txns[h], data_, k)
      BY <2>1, <2>2
    <3> QED
      BY <3>2, <3>3
  <2>4. txns'[h].reads_ \in Stores(Keys, Values)
    <3>1. txns[h].reads_ \in Stores(Keys, Values)
      BY DEF ValueTypes
    <3>2. /\ DOMAIN Part(data_, {k}) \subseteq Keys
          /\ \A i \in DOMAIN Part(data_, {k}) : Part(data_, {k})[i] \in Values
      BY <1>0, Stored DEF Part, ValueTypes
    <3> QED
      BY <2>3, <3>1, <3>2, OverIs
  <2> QED
    BY <1>1, <1>4, <2>1, <2>4 DEF ReadRecord, ValueTypes
<1>5. ASSUME NEW w \in Workers, RunAndHandBack(w) PROVE ValueTypes'
  <2>1. PICK h \in Txns :
           /\ \A t \in Txns \ {h} : txns'[t] = txns[t]
           /\ txns[h].status_ = "INCOMPLETE" /\ txns[h].writes_ = NoRecords
           /\ txns'[h] = Run(program[h], txns[h])
           /\ txns'[h].status_ \in {"COMPLETED_C", "COMPLETED_A"}
    BY <1>5, RunTouches
  <2>2. IsTxn(txns[h]) /\ txns[h].reads_ \in Stores(Keys, Values)
    BY <1>0 DEF ValueTypes
  <2>3. txns'[h].reads_ \in Stores(Keys, Values) /\ txns'[h].writes_ \in Stores(Keys, Values)
    <3>1. WriteSet(program[h]) \subseteq Keys /\ Closed(Values) /\ PutsIn(program[h], Values)
      BY <1>0, Programmed DEF ValuesClosed
    <3> QED
      BY <2>1, <2>2, <3>1, RunValues
  <2> QED
    BY <1>1, <1>5, <2>1, <2>3 DEF RunAndHandBack, Status
<1>6. CASE ApplyWrite
  <2>0. PICK k : k = KeyOf(todo)
    OBVIOUS
  <2>1. PICK h \in Txns : h = txn
    BY <1>0, <1>6 DEF ApplyWrite, ControlTypes, InHand
  <2>2. /\ pc = "apply" /\ todo \in Loops /\ todo # NoLoop /\ todo.read = {} /\ At(h, Hand)
        /\ data_' = [data_ EXCEPT ![k] = txns[h].writes_[k]] /\ txns' = txns
    BY <1>0, <1>6, <2>0, <2>1, ContentsAre DEF ApplyWrite, ControlTypes, LoopsLeft, InHand
  <2>3. k \in todo.write
    BY <2>0, <2>2, LoopStep
  <2>4. k \in DOMAIN txns[h].writes_
    BY <1>0, <2>1, <2>2, <2>3 DEF LoopsLeft, Within, InHand, Statuses, HasRun
  <2>5. txns[h].writes_[k] \in Values
    BY <2>4, StoreIs DEF ValueTypes
  <2> QED
    BY <1>0, <2>2, <2>5 DEF ValueTypes
<1>7. CASE UNCHANGED <<txns, data_>>
  BY <1>7 DEF ValueTypes
<1> QED
  BY <1>2, <1>3, <1>4, <1>5, <1>6, <1>7
  DEF Next, SchedulerStep, WorkerStep, NewTxnRequest, GetTxnResult, PopRequest, NoRequest,
    RequestLock, QueueUnlessBlocked, NoneCompleted, ReleaseLock, ReturnResult, Dispatch,
    NoneReady, StartTask

LEMMA TypesImply == IInv /\ ValueTypes => TypeOK
<1> SUFFICES ASSUME IInv, ValueTypes PROVE TypeOK
  OBVIOUS
<1>1. txns \in [Txns -> TxnRecords(Keys, Values)]
  <2>1. ASSUME NEW t \in Txns PROVE txns[t] \in TxnRecords(Keys, Values)
    <3>1. txns[t] = [status_ |-> txns[t].status_, reads_ |-> txns[t].reads_,
                     writes_ |-> txns[t].writes_]
      BY DEF IInv, Types, StoreTypes, IsTxn
    <3> QED
      BY <3>1 DEF TxnRecords, Stores, ValueTypes
  <2>2. txns = [t \in Txns |-> txns[t]]
    BY DEF IInv, Types, StoreTypes
  <2> QED
    BY <2>1, <2>2
<1>2. data_ \in [DOMAIN InitialStore -> Values]
  BY DEF IInv, Types, StoreTypes, ValueTypes
<1> QED
  BY <1>1, <1>2 DEF IInv, Types, ControlTypes, QueueTypes, Requests, InHand, TypeOK

(* txn_processor.cc:153-256 and txn_types.h: every variable keeps its type.  What
   a program writes is a value it was constructed with or an increment, so the
   values have to be closed under these. *)
THEOREM TypeCorrect ==
  ASSUME ValuesClosed
  PROVE  Spec => []TypeOK
<1>1. Init => ValueTypes
  <2> SUFFICES ASSUME Init PROVE ValueTypes
    OBVIOUS
  <2>1. PICK S \in SUBSET Keys : InitialStore \in [S -> Values]
    BY LockingSchedulerAssumption
  <2>2. data_ = InitialStore /\ \A t \in Txns : txns[t] = NewTxn
    BY DEF Init
  <2> QED
    BY <2>1, <2>2, NewIs, StoreIs DEF ValueTypes, Status
<1>2. IInv /\ ValueTypes /\ [Next]_vars => ValueTypes'
  <2>1. UNCHANGED vars /\ ValueTypes => ValueTypes'
    BY DEF vars, ValueTypes
  <2> QED
    BY <2>1, ValuesStep
<1> QED
  BY <1>1, <1>2, Invariant, TypesImply, PTL DEF Spec

-----------------------------------------------------------------------------
(* The processor implements the serial database: a transaction takes effect when
   the scheduler goes by its verdict. *)
RequestedTxns == {t \in Txns : unique_id_[t] # 0}
Outcomes   == [t \in Txns |-> Outcome(t)]

(* The definitions of TxnTypes are the same in the database. *)
LEMMA DatabaseTypes ==
  /\ Database!NewTxn = NewTxn
  /\ \A x : Database!Verdict(x) = Verdict(x)
  /\ \A x, store : Database!Applied(x, store) = Applied(x, store)
  /\ \A p, x, store : Database!RunOn(p, x, store) = RunOn(p, x, store)
<1>1. Database!NoRecords = NoRecords
  BY DEF Database!NoRecords, NoRecords
<1>2. \A f, g : Database!Over(f, g) = Over(f, g)
  BY DEF Database!Over, Over
<1>3. \A p : Database!ReadSet(p) = ReadSet(p) /\ Database!WriteSet(p) = WriteSet(p)
  BY DEF Database!ReadSet, ReadSet, Database!WriteSet, WriteSet
<1>4. \A p : Database!KeySet(p) = KeySet(p)
  BY <1>3 DEF Database!KeySet, KeySet
<1>5. \A x, k : Database!CanRead(x, k) <=> CanRead(x, k)
  BY DEF Database!CanRead, CanRead
<1>6. \A x, m : Database!WriteAll(x, m) = WriteAll(x, m)
  BY <1>2 DEF Database!WriteAll, WriteAll
<1>7. \A x, keys : Database!Incremented(x, keys) = Incremented(x, keys)
  BY <1>5 DEF Database!Incremented, Incremented
<1>8. \A p, x : Database!Commits(p, x) <=> Commits(p, x)
  BY <1>5 DEF Database!Commits, Commits
<1>9. \A p, x : Database!Writes(p, x) = Writes(p, x)
  BY <1>1, <1>7 DEF Database!Writes, Writes
<1>10. \A p, x : Database!Run(p, x) = Run(p, x)
  BY <1>6, <1>8, <1>9 DEF Database!Run, Run
<1>11. \A p, x, store : Database!ReadAll(p, x, store) = ReadAll(p, x, store)
  BY <1>2, <1>4 DEF Database!ReadAll, ReadAll
<1>12. \A p, x, store : Database!RunOn(p, x, store) = RunOn(p, x, store)
  BY <1>10, <1>11 DEF Database!RunOn, RunOn
<1>13. \A x, store : Database!Applied(x, store) = Applied(x, store)
  BY <1>2 DEF Database!Applied, Applied
<1>14. \A x : Database!Verdict(x) = Verdict(x)
  BY DEF Database!Verdict, Verdict
<1>15. Database!NewTxn = NewTxn
  BY <1>1 DEF Database!NewTxn, NewTxn
<1> QED
  BY <1>12, <1>13, <1>14, <1>15

LEMMA DatabaseInit == Init => Database!Init
<1> SUFFICES ASSUME Init PROVE Database!Init
  OBVIOUS
<1>1. Records = InitialStore /\ received = {} /\ RequestedTxns = {}
  BY DEF Init, Records, RequestedTxns
<1>2. \A t \in Txns : Outcome(t) = NewTxn
  BY NewIs DEF Init, Outcome, Final
<1> QED
  BY <1>1, <1>2, DatabaseTypes DEF Database!Init, RequestedTxns

LEMMA Unnoticed ==
  ASSUME program' = program, Records' = Records, RequestedTxns' = RequestedTxns,
         \A t \in Txns : Outcome(t)' = Outcome(t), received' = received
  PROVE  UNCHANGED Database!dbVars
  BY DEF Database!dbVars, RequestedTxns

(* Nothing the clients can see depends on txns or data_ but through these. *)
LEMMA SameView ==
  ASSUME txns' = txns, data_' = data_,
         (pc' = pc /\ txn' = txn) \/ (pc # "apply" /\ pc' # "apply")
  PROVE  Records' = Records /\ \A t \in Txns : Outcome(t)' = Outcome(t)
  BY DEF Records, Outcome, Final

LEMMA RequestMaps ==
  ASSUME IInv, NEW t \in Txns, NewTxnRequest(t)
  PROVE  Database!Request(t)
<1>1. /\ unique_id_ \in [Txns -> Nat] /\ next_unique_id_ # 0
      /\ unique_id_[t] = 0 /\ unique_id_' = [unique_id_ EXCEPT ![t] = next_unique_id_]
  BY DEF IInv, Types, ControlTypes, NewTxnRequest
<1>2. t \notin RequestedTxns /\ RequestedTxns' = RequestedTxns \union {t}
  BY <1>1 DEF RequestedTxns
<1>3. Records' = Records /\ \A u \in Txns : Outcome(u)' = Outcome(u)
  BY SameView DEF NewTxnRequest, schedulerVars
<1> QED
  BY <1>2, <1>3 DEF Database!Request, RequestedTxns, NewTxnRequest, fixed

LEMMA ResultMaps ==
  ASSUME IInv, GetTxnResult
  PROVE  \E t \in Txns : Database!Deliver(t)
<1>0. /\ Types /\ Distinct /\ Unshared /\ Statuses /\ txn_results_ \in Seq(Txns)
      /\ txn_results_ # <<>>
  BY DEF IInv, Types, QueueTypes, GetTxnResult
<1>1. PICK h \in Txns : h = Head(txn_results_) /\ At(h, Results)
  BY <1>0, TakeFromQueue, ContentsAre DEF Distinct
<1>2. Final(h) /\ h \notin received
  BY <1>0, <1>1, PlacesAre, PlacesDiffer, ContentsAre DEF Unshared, Statuses
<1>3. Outcome(h) # NewTxn
  <2>0. ~(pc = "apply" /\ txn = h)
    BY <1>0, <1>1, PlacesAre, PlacesDiffer, ContentsAre DEF Unshared, InHand
  <2>1. Outcome(h) = txns[h]
    BY <1>2, <2>0 DEF Outcome
  <2> QED
    BY <1>2, <2>1, NewIs DEF Final
<1>4. received' = received \union {h}
  BY <1>1 DEF GetTxnResult
<1>5. /\ Records' = Records /\ \A u \in Txns : Outcome(u)' = Outcome(u)
      /\ RequestedTxns' = RequestedTxns /\ program' = program
  BY SameView DEF GetTxnResult, schedulerVars, RequestedTxns, fixed
<1> QED
  BY <1>2, <1>3, <1>4, <1>5, DatabaseTypes DEF Database!Deliver, RequestedTxns

LEMMA VerdictMaps ==
  ASSUME IInv, PopCompleted, lm # "shipped"
  PROVE  \E t \in Txns : Database!Execute(t)
<1>0. /\ Types /\ Order /\ Statuses /\ Isolation /\ \A t \in Txns : IsTxn(txns[t])
      /\ program' = program /\ data_' = data_ /\ received' = received
      /\ RequestedTxns' = RequestedTxns
  BY DEF IInv, Types, StoreTypes, PopCompleted, fixed, clientVars, RequestedTxns
<1>1. PICK h \in Txns :
        /\ h = txn' /\ At(h, Completed) /\ pc = "drain"
        /\ \A t \in Txns \ {h} : txns'[t] = txns[t]
        /\ \/ pc' = "apply" /\ txns[h].status_ = "COMPLETED_C" /\ txns' = txns
           \/ /\ pc' = "release" /\ txns[h].status_ = "COMPLETED_A"
              /\ txns'[h] = [txns[h] EXCEPT !.status_ = "ABORTED"]
              /\ txns'[h].status_ = "ABORTED"
  BY VerdictTouches
<1>2. PICK ran : ran = txns[h]
  OBVIOUS
<1>3. ran = RunOn(program[h], NewTxn, Records)
  <2>1. Records = data_
    BY <1>1 DEF Records
  <2> QED
    BY <1>0, <1>1, <1>2, <2>1 DEF Isolation
<1>4. h \in RequestedTxns
  BY <1>0, <1>1, PlacesAre DEF Order, Absent, RequestedTxns
<1>5. Outcome(h) = NewTxn
  BY <1>1 DEF Outcome, Final
<1>6. Outcome(h)' = Verdict(ran)
  <2>1. CASE pc' = "apply"
    BY <1>1, <1>2, <2>1 DEF Outcome, Final
  <2>2. CASE pc' = "release"
    <3>1. txns'[h] = Verdict(ran)
      BY <1>0, <1>1, <1>2, <2>2, VerdictIs
    <3> QED
      BY <1>1, <2>2, <3>1 DEF Outcome, Final
  <2> QED
    BY <1>1, <2>1, <2>2
<1>7. \A t \in Txns \ {h} : Outcome(t)' = Outcome(t)
  BY <1>1 DEF Outcome, Final
<1>8. Outcomes' = [Outcomes EXCEPT ![h] = Verdict(ran)]
  BY <1>6, <1>7 DEF Outcomes
<1>9. Records' = IF ran.status_ = "COMPLETED_C" THEN Applied(ran, Records) ELSE Records
  BY <1>0, <1>1, <1>2 DEF Records
<1>10. Database!Execute(h)
  BY <1>0, <1>3, <1>4, <1>5, <1>8, <1>9, DatabaseTypes DEF Database!Execute, RequestedTxns, Outcomes
<1> QED
  BY <1>10

LEMMA OverSame ==
  ASSUME NEW f, NEW g, NEW k \in DOMAIN f, NEW v
  PROVE  Over(f, [g EXCEPT ![k] = v]) = Over(f, g)
  BY DEF Over

LEMMA WriteMaps ==
  ASSUME IInv, ApplyWrite
  PROVE  UNCHANGED Database!dbVars
<1>0. /\ Types /\ ControlTypes /\ LoopsLeft /\ Statuses
  BY DEF IInv, Types
<1>1. PICK h \in Txns : h = txn /\ At(h, Hand)
  BY <1>0, ContentsAre DEF ApplyWrite, ControlTypes, InHand
<1>2. PICK k : k = KeyOf(todo)
  OBVIOUS
<1>3. /\ pc = "apply" /\ pc' = "apply" /\ txn' = txn /\ txns' = txns
      /\ todo \in Loops /\ todo # NoLoop /\ todo.read = {}
      /\ data_' = [data_ EXCEPT ![k] = txns[h].writes_[k]]
      /\ program' = program /\ received' = received /\ RequestedTxns' = RequestedTxns
  BY <1>0, <1>1, <1>2 DEF ApplyWrite, ControlTypes, LoopsLeft, fixed, clientVars, RequestedTxns
<1>4. k \in todo.write
  BY <1>2, <1>3, LoopStep
<1>5. k \in DOMAIN txns[h].writes_
  BY <1>0, <1>1, <1>3, <1>4 DEF LoopsLeft, Within, InHand, Statuses, HasRun
<1>6. Records' = Records
  <2>1. Records = Over(txns[h].writes_, data_) /\ Records' = Over(txns[h].writes_, data_')
    BY <1>1, <1>3 DEF Records, Applied
  <2> QED
    BY <1>3, <1>5, <2>1, OverSame
<1>7. \A t \in Txns : Outcome(t)' = Outcome(t)
  BY <1>3 DEF Outcome, Final
<1> QED
  BY <1>3, <1>6, <1>7, Unnoticed

LEMMA CommitMaps ==
  ASSUME IInv, Commit
  PROVE  UNCHANGED Database!dbVars
<1>0. /\ Types /\ LoopsLeft /\ Statuses /\ Applying /\ \A t \in Txns : IsTxn(txns[t])
      /\ data_ = [k \in DOMAIN InitialStore |-> data_[k]] /\ program \in Programs
      /\ todo = NoLoop /\ data_' = data_
      /\ program' = program /\ received' = received /\ RequestedTxns' = RequestedTxns
  BY DEF IInv, Types, ControlTypes, StoreTypes, Commit, fixed, clientVars, RequestedTxns
<1>1. PICK h \in Txns :
        /\ h = txn /\ h = txn' /\ At(h, Hand) /\ pc = "apply" /\ pc' = "release"
        /\ \A t \in Txns \ {h} : txns'[t] = txns[t]
        /\ txns'[h] = [txns[h] EXCEPT !.status_ = "COMMITTED"]
        /\ txns'[h].status_ = "COMMITTED"
  BY CommitTouches
<1>2. /\ txns[h].status_ = "COMPLETED_C" /\ DOMAIN txns[h].writes_ = WriteSet(program[h])
      /\ WriteSet(program[h]) \subseteq DOMAIN data_
  BY <1>0, <1>1, Programmed DEF Statuses, HasRun
<1>3. \A k \in WriteSet(program[h]) : data_[k] = txns[h].writes_[k]
  BY <1>0, <1>1, LoopEnd DEF Applying
<1>4. Over(txns[h].writes_, data_) = data_
  <2>1. \A k \in DOMAIN Over(txns[h].writes_, data_) :
          Over(txns[h].writes_, data_)[k] = data_[k]
    BY <1>2, <1>3 DEF Over
  <2>2. DOMAIN Over(txns[h].writes_, data_) = DOMAIN data_
    BY <1>2 DEF Over
  <2>3. Over(txns[h].writes_, data_) =
          [k \in DOMAIN Over(txns[h].writes_, data_) |-> Over(txns[h].writes_, data_)[k]]
    BY DEF Over
  <2> QED
    BY <1>0, <2>1, <2>2, <2>3
<1>5. Records' = Records
  BY <1>0, <1>1, <1>4 DEF Records, Applied
<1>6. Outcome(h)' = Outcome(h)
  <2>1. Verdict(txns[h]) = txns'[h]
    BY <1>0, <1>1, <1>2, VerdictIs
  <2> QED
    BY <1>1, <1>2, <2>1 DEF Outcome, Final
<1>7. \A t \in Txns \ {h} : Outcome(t)' = Outcome(t)
  BY <1>1 DEF Outcome, Final
<1> QED
  BY <1>0, <1>5, <1>6, <1>7, Unnoticed

LEMMA WorkMaps ==
  ASSUME IInv, NEW w \in Workers, ReadRecord(w) \/ RunAndHandBack(w)
  PROVE  UNCHANGED Database!dbVars
<1>0. /\ Types /\ Unshared /\ Statuses
      /\ pc' = pc /\ txn' = txn /\ data_' = data_ /\ ControlTypes /\ LoopsLeft
      /\ program' = program /\ received' = received /\ RequestedTxns' = RequestedTxns
  BY DEF IInv, Types, ReadRecord, RunAndHandBack, schedulerVars, fixed, clientVars, RequestedTxns
<1>1. PICK h \in Txns : /\ h = task[w] /\ At(h, Task(w))
                        /\ \A t \in Txns \ {h} : txns'[t] = txns[t]
                        /\ \/ txns'[h].status_ = txns[h].status_
                           \/ txns'[h].status_ \in {"COMPLETED_C", "COMPLETED_A"}
  BY ReadTouches, RunTouches
<1>2. ~Final(h) /\ ~Final(h)'
  BY <1>0, <1>1, NamesAssumption DEF Statuses, Final
<1>3. pc = "apply" => txn \in Txns \ {h}
  BY <1>0, <1>1, PlacesAre, PlacesDiffer, ContentsAre DEF Unshared, ControlTypes, InHand
<1>4. Records' = Records
  BY <1>0, <1>1, <1>3 DEF Records
<1>5. \A t \in Txns : Outcome(t)' = Outcome(t)
  BY <1>0, <1>1, <1>2, <1>3 DEF Outcome, Final
<1> QED
  BY <1>0, <1>4, <1>5, Unnoticed

LEMMA DatabaseStep ==
  ASSUME Excluding, IInv, [Next]_vars
  PROVE  [Database!Next]_(Database!dbVars)
<1>0. lm # "shipped"
  BY DEF Excluding, IInv, Types, ControlTypes
<1>1. ASSUME NEW t \in Txns, NewTxnRequest(t) PROVE Database!Next
  BY <1>1, RequestMaps DEF Database!Next
<1>2. CASE GetTxnResult
  BY <1>2, ResultMaps DEF Database!Next
<1>3. CASE PopCompleted
  BY <1>0, <1>3, VerdictMaps DEF Database!Next
<1>4. CASE ApplyWrite \/ Commit
  BY <1>4, WriteMaps, CommitMaps
<1>5. ASSUME NEW w \in Workers, ReadRecord(w) \/ RunAndHandBack(w)
      PROVE  UNCHANGED Database!dbVars
  BY <1>5, WorkMaps
<1>6. ASSUME UNCHANGED <<program, txns, data_, received, unique_id_>>,
             (pc' = pc /\ txn' = txn) \/ (pc # "apply" /\ pc' # "apply")
      PROVE  UNCHANGED Database!dbVars
  BY <1>6, SameView, Unnoticed DEF RequestedTxns
<1>7. CASE UNCHANGED vars
  BY <1>6, <1>7 DEF vars, fixed, clientVars, schedulerVars
<1>8. CASE \/ PopRequest \/ NoRequest \/ RequestLock \/ QueueUnlessBlocked \/ NoneCompleted
           \/ ReleaseLock \/ ReturnResult \/ NoneReady
           \/ \E w \in Workers : Dispatch(w) \/ StartTask(w)
  BY <1>6, <1>8
  DEF PopRequest, NoRequest, RequestLock, QueueUnlessBlocked, NoneCompleted, ReleaseLock,
    ReturnResult, NoneReady, Dispatch, StartTask, fixed, clientVars, schedulerVars
<1> QED
  BY <1>1, <1>2, <1>3, <1>4, <1>5, <1>7, <1>8 DEF Next, SchedulerStep, WorkerStep

(* txn_processor.h:48-53, 86-88: with a lock manager that excludes, and without
   any assumption on scheduling, every transaction is run once, reads what all
   those that committed before it have written and nothing else, gets one verdict
   and is handed back once: the executions are those of the serial database. *)
THEOREM RefinesSerialDatabaseSafety ==
  ASSUME Excluding
  PROVE  Spec => Database!Init /\ [][Database!Next]_(Database!dbVars)
<1>1. IInv /\ [Next]_vars => [Database!Next]_(Database!dbVars)
  BY DatabaseStep
<1> QED
  BY <1>1, DatabaseInit, Invariant, PTL DEF Spec
===============================================================================
