---------------------------- MODULE RunTestProofs ----------------------------
(***************************************************************************)
(* Theorems about RunTest, for any records, requests, draws of rand() and  *)
(* bound of the launcher.                                                  *)
(***************************************************************************)
EXTENDS RunTest, CommonFacts

-----------------------------------------------------------------------------
(* What Execute does when nothing runs at the same time: the fold over the write
   set adds the update to each of its records. *)
AddTo(f, k, u)   == [f EXCEPT ![k] = Plus(@, u)]
Updated(f, S, u) == [k \in Records |-> IF k \in S THEN Plus(f[k], u) ELSE f[k]]

IsWritten(g, f, q, u) ==
  g = [s \in SUBSET DOMAIN q |->
        IF s = {} THEN f
        ELSE LET x == Max(s)
             IN  AddTo(g[s \ {x}], q[x], u)]

Part(f, q, u, t) == Updated(f, {q[j] : j \in t}, u)

LEMMA FoldIs ==
  ASSUME NEW f, NEW q, NEW u
  PROVE  FoldLeft(LAMBDA g, k : AddTo(g, k, u), f, q)
           = (CHOOSE g : IsWritten(g, f, q, u))[DOMAIN q]
  BY DEF FoldLeft, MapThenFoldSet, IsWritten

LEMMA MaxIs ==
  ASSUME NEW S, NEW q \in Seq(S), NEW s \in SUBSET DOMAIN q, s # {}
  PROVE  Max(s) \in s
<1>1. Len(q) \in Nat /\ s \subseteq 1..Len(q)
  BY QueueIndex
<1>2. \E m \in s : \A j \in s : j <= m
  BY <1>1, GreatestNumber
<1>3. \E m \in s : \A j \in s : m >= j
  BY <1>1, <1>2
<1> QED
  BY <1>3 DEF Max

LEMMA PartWritten ==
  ASSUME NEW f \in [Records -> Fields], NEW q \in Seq(Records), IsInjective(q), NEW u,
         NEW s \in SUBSET DOMAIN q, s # {}
  PROVE  Part(f, q, u, s)
           = AddTo(Part(f, q, u, s \ {Max(s)}), q[Max(s)], u)
<1> DEFINE part(t) == Part(f, q, u, t)
           x       == Max(s)
<1>1. x \in s
  BY MaxIs
<1>2. /\ \A j \in s : j \in DOMAIN q /\ q[j] \in Records
      /\ \A j \in s : q[j] = q[x] => j = x
  BY <1>1, QueueIndex DEF IsInjective
<1> HIDE DEF x
<1>3. \A k \in Records :
        part(s)[k] = IF k = q[x] THEN Plus(part(s \ {x})[k], u) ELSE part(s \ {x})[k]
  BY <1>1, <1>2 DEF Updated, Part
<1>4. part(s) = AddTo(part(s \ {x}), q[x], u)
  BY ZenonT(40), <1>3 DEF Updated, Part, AddTo
<1> QED
  BY <1>4 DEF x

LEMMA ExecuteAlone ==
  ASSUME NEW f \in [Records -> Fields], NEW q \in Seq(Records), IsInjective(q), NEW u
  PROVE  FoldLeft(LAMBDA g, k : AddTo(g, k, u), f, q)
           = Updated(f, ToSet(q), u)
<1>0. \A s \in SUBSET DOMAIN q : s # {} => Max(s) \in s
  BY MaxIs
<1> DEFINE part(t) == Part(f, q, u, t)
           whole   == [s \in SUBSET DOMAIN q |-> part(s)]
<1>1. part({}) = f
  <2>1. {q[j] : j \in {}} = {}
    OBVIOUS
  <2>2. Updated(f, {}, u) = f
    BY DEF Updated
  <2> QED
    BY <2>1, <2>2 DEF Part
<1>2. \A s \in SUBSET DOMAIN q : s # {} =>
        part(s) = AddTo(part(s \ {Max(s)}), q[Max(s)], u)
  BY PartWritten
<1> HIDE DEF part
<1>3. IsWritten(whole, f, q, u)
  <2>1. \A s \in SUBSET DOMAIN q :
          part(s) = IF s = {} THEN f
                    ELSE LET x == Max(s)
                         IN  AddTo(whole[s \ {x}], q[x], u)
    BY <1>0, <1>1, <1>2
  <2> QED
    BY <2>1 DEF IsWritten
<1>4. ASSUME NEW g, IsWritten(g, f, q, u) PROVE g[DOMAIN q] = part(DOMAIN q)
  <2> DEFINE Bad == {s \in SUBSET DOMAIN q : g[s] # part(s)}
  <2>1. SUFFICES ASSUME Bad # {} PROVE FALSE
    OBVIOUS
  <2>2. IsFiniteSet(DOMAIN q)
    BY QueueIndex, FS_Interval
  <2>3. PICK s \in Bad : \A t \in Bad : ~(t \subseteq s /\ t # s)
    <3>1. Bad \subseteq SUBSET DOMAIN q
      OBVIOUS
    <3> HIDE DEF Bad
    <3> QED
      BY <2>1, <2>2, <3>1, LeastSubset
  <2>4. g[s] = IF s = {} THEN f
               ELSE LET x == Max(s)
                    IN  AddTo(g[s \ {x}], q[x], u)
    BY <1>4, Zenon DEF IsWritten
  <2>5. s # {}
    BY <1>1, <2>4
  <2>6. Max(s) \in s
    BY <1>0, <2>5
  <2>7. g[s \ {Max(s)}] = part(s \ {Max(s)})
    BY <2>3, <2>6
  <2> QED
    BY <1>2, <2>4, <2>5, <2>7
<1>5. ToSet(q) = {q[j] : j \in DOMAIN q}
  BY DEF ToSet
<1>6. IsWritten(CHOOSE g : IsWritten(g, f, q, u), f, q, u)
  BY <1>3
<1> QED
  BY <1>4, <1>5, <1>6, FoldIs DEF part, Part
-----------------------------------------------------------------------------
(* The inductive invariant. *)
Before == {"create", "create_simple", "copy", "generate"}
During == {"issue", "wait"}
After  == {"switch", "sequential", "compare", "passed", "mismatch"}

(* The requests are made one after the other, then pointed at db_simple. *)
Setup ==
  /\ pc \notin {"generate", "switch", "sequential"} => i = 1
  /\ \A r \in Requests :
       /\ IsInjective(writeset_[r]) /\ Len(writeset_[r]) <= TxnSize
       /\ pc \notin Before \/ (pc = "generate" /\ r < i) => Len(writeset_[r]) = TxnSize
       /\ pc \in During \/ (pc = "generate" /\ r < i) => db_[r] = "db_test"
       /\ pc = "sequential" \/ (pc = "switch" /\ r < i) => db_[r] = "db_simple"

(* What the launcher's state says of the executors, and how far main lets it get. *)
Executing ==
  /\ running = {r \in Requests : epc[r] \in {"load", "store"}}
  /\ executed + Cardinality(running) <= issued
  /\ \A r \in Requests :
       /\ epc[r] = "none" <=> r > issued
       /\ epc[r] = "none" => next[r] = 1
       /\ epc[r] = "store" => rec[r] = "db_test" /\ next[r] <= TxnSize
       /\ epc[r] = "returned" => next[r] = TxnSize + 1
  /\ pc \in Before => issued = 0
  /\ pc = "wait" => issued = NumRequests
  /\ pc \in After => issued = NumRequests /\ running = {}

(* The requests that have stored a sum with their update of record k. *)
Stored(k) == {r \in Requests : \E j \in 1..(next[r] - 1) : writeset_[r][j] = k}

Current(r) == writeset_[r][next[r]]

(* A value made of the updates of some of those; of all, when none overlapped. *)
MadeOf(v, k, S) ==
  S \subseteq Stored(k) /\ (overlap = {} => S = Stored(k)) /\ v = Sum(k, S)

Adding ==
  /\ pc # "create" => \A k \in Records :
       \E S \in SUBSET Requests :
         MadeOf(records_["db_test"][k], k, S) /\ (Stored(k) # {} => S # {})
  /\ \A r \in Requests : epc[r] = "store" =>
       \E S \in SUBSET Requests : MadeOf(register[r], Current(r), S)
  /\ \A r, s \in running : r # s /\ Meet(r, s) => overlap # {}

(* How far the sequential execution is. *)
OneByOne ==
  /\ pc \in During \union {"generate", "switch"} =>
       \A k \in Records : records_["db_simple"][k] = InitRecord("db_test", k)
  /\ pc = "sequential" =>
       \A k \in Records :
         records_["db_simple"][k] = Sum(k, {r \in Writers(k) : r < i})
  /\ pc \in {"compare", "passed", "mismatch"} =>
       \A k \in Records : records_["db_simple"][k] = Sum(k, Writers(k))
  /\ pc = "passed" => records_["db_test"] = records_["db_simple"]
  /\ pc = "mismatch" => records_["db_test"] # records_["db_simple"]

IInv == TypeOK /\ Setup /\ Executing /\ Adding /\ OneByOne

-----------------------------------------------------------------------------
(* Arithmetic on fields. *)
LEMMA Domains ==
  /\ Requests \subseteq Nat /\ IsFiniteSet(Requests) /\ NumRequests \in Requests
  /\ 1 \in Requests /\ \A r \in Requests : r # NumRequests => r + 1 \in Requests
  /\ Modulus \in Nat \ {0} /\ TxnSize \in Nat \ {0}
  /\ Fields \subseteq Nat /\ 0 \in Fields
  /\ \A v \in Fields : v \in Int
  /\ \A r \in Requests : updates_[r] \in Fields /\ updates_[r] \in Int
  /\ \A k \in Records, d \in Databases : InitRecord(d, k) \in Fields
<1>1. IsFiniteSet(Requests)
  BY FS_Interval, RunTestAssumption DEF Requests
<1>2. 0 \in Fields /\ Fields \subseteq Nat
  BY RunTestAssumption DEF Fields
<1> HIDE DEF Fields
<1>3. \A v \in Fields : v \in Int
  BY <1>2
<1>4. \A r \in Requests : updates_[r] \in Fields /\ updates_[r] \in Int
  BY <1>3, RunTestAssumption
<1>5. \A k \in Records, d \in Databases : InitRecord(d, k) \in Fields
  BY RunTestAssumption DEF InitRecord
<1> QED
  BY <1>1, <1>2, <1>3, <1>4, <1>5, RunTestAssumption DEF Requests

LEMMA Euclid ==
  ASSUME NEW x \in Int, NEW m \in Nat \ {0}
  PROVE  x \div m \in Int /\ x % m \in 0..(m - 1) /\ x = m * (x \div m) + (x % m)
  BY SMT

LEMMA SmallMultiple ==
  ASSUME NEW a \in Int, NEW m \in Nat \ {0}, m * a < m, m * a > -m
  PROVE  a = 0
<1>1. a >= 1 => m * a >= m
  BY Z3
<1>2. a <= -1 => m * a <= -m
  BY Z3
<1> QED
  BY <1>1, <1>2

LEMMA Factor ==
  ASSUME NEW a \in Int, NEW b \in Int, NEW c \in Int, NEW m \in Int
  PROVE  /\ m * (a + b - c) = m * a + m * b - m * c
         /\ m * a \in Int /\ m * b \in Int /\ m * c \in Int
  BY Z3

LEMMA Congruent ==
  ASSUME NEW x \in Int, NEW c \in Int, NEW m \in Nat \ {0}
  PROVE  ((x % m) + c) % m = (x + c) % m
<1>1. PICK q, s, t, u : q = x \div m /\ s = x % m /\ t = s + c /\ u = x + c
  OBVIOUS
<1>2. q \in Int /\ s \in Int /\ x = m * q + s
  BY <1>1, Euclid
<1>3. t \in Int /\ u \in Int
  BY <1>1, <1>2
<1>4. PICK a, d, b, e : a = t \div m /\ d = t % m /\ b = u \div m /\ e = u % m
  OBVIOUS
<1>5. /\ a \in Int /\ d \in 0..(m - 1) /\ t = m * a + d
      /\ b \in Int /\ e \in 0..(m - 1) /\ u = m * b + e
  BY <1>3, <1>4, Euclid
<1>6. m * (a + q - b) = e - d
  <2>1. /\ m * (a + q - b) = m * a + m * q - m * b
        /\ m * a \in Int /\ m * b \in Int /\ m * q \in Int
    BY <1>2, <1>5, Factor
  <2>2. PICK A, B, Q : A = m * a /\ B = m * b /\ Q = m * q
    OBVIOUS
  <2>3. /\ m * (a + q - b) = A + Q - B /\ A \in Int /\ B \in Int /\ Q \in Int
        /\ s + c = A + d /\ x + c = B + e /\ x = Q + s
    BY <1>1, <1>2, <1>5, <2>1, <2>2
  <2>4. A + Q - B = e - d
    BY <1>2, <1>5, <2>3
  <2> QED
    BY <2>3, <2>4
<1>7. e - d = 0
  <2>1. PICK z : z = a + q - b
    OBVIOUS
  <2>2. z \in Int /\ m * z = e - d
    BY <1>2, <1>5, <1>6, <2>1
  <2>3. m * z < m /\ m * z > -m
    BY <1>5, <2>2
  <2>4. z = 0 /\ m * 0 = 0
    BY <2>2, <2>3, SmallMultiple
  <2> QED
    BY <2>2, <2>4
<1>8. t % m = u % m
  BY <1>4, <1>5, <1>7
<1> QED
  BY <1>1, <1>8

LEMMA PlusIs ==
  ASSUME NEW a \in Int, NEW b \in Int
  PROVE  /\ Plus(a, b) \in Fields
         /\ \A c \in Int : Plus(Plus(a, b), c) = Plus(a, b + c)
         /\ a \in Fields => Plus(a, 0) = a
<1>1. Plus(a, b) \in Fields
  BY Domains, Euclid DEF Plus, Fields
<1>2. ASSUME NEW c \in Int PROVE Plus(Plus(a, b), c) = Plus(a, b + c)
  <2>1. PICK x : x = a + b
    OBVIOUS
  <2>2. x \in Int /\ x + c = a + (b + c)
    BY <2>1
  <2>3. ((x % Modulus) + c) % Modulus = (x + c) % Modulus
    BY <2>2, Domains, Congruent
  <2> QED
    BY <2>1, <2>2, <2>3 DEF Plus
<1>3. a \in Fields => Plus(a, 0) = a
  <2>1. ASSUME NEW m \in Nat \ {0}, NEW x \in 0..(m - 1) PROVE x % m = x
    BY SMT
  <2>2. a + 0 = a
    OBVIOUS
  <2> QED
    BY <2>1, <2>2, Domains DEF Plus, Fields
<1> QED
  BY <1>1, <1>2, <1>3

LEMMA SumIs ==
  ASSUME NEW k \in Records
  PROVE  /\ Sum(k, {}) = InitRecord("db_test", k)
         /\ \A S \in SUBSET Requests : Sum(k, S) \in Fields
         /\ \A S \in SUBSET Requests : \A r \in Requests \ S :
              Sum(k, S \union {r}) = Plus(Sum(k, S), updates_[r])
<1>0. \A S : Sum(k, S) = Plus(InitRecord("db_test", k), SumOver(updates_, S))
  BY DEF Sum, SumOver
<1>1. PICK a : a = InitRecord("db_test", k)
  OBVIOUS
<1>2. /\ a \in Fields /\ a \in Int /\ Fields \subseteq Int
      /\ \A r \in Requests : updates_[r] \in Int
  <2>1. "db_test" \in Databases
    BY DEF Databases
  <2>2. a \in Fields /\ Fields \subseteq Nat
    BY <1>1, <2>1, Domains
  <2>3. \A r \in Requests : updates_[r] \in Fields
    BY Domains
  <2>4. \A v \in Fields : v \in Int
    BY <2>2
  <2> QED
    BY <2>2, <2>3, <2>4
<1>3. \A S \in SUBSET Requests : SumOver(updates_, S) \in Int
  BY <1>2, Domains, PartialAgree
<1>4. Sum(k, {}) = a
  BY <1>0, <1>1, <1>2, SumEmpty, PlusIs
<1>5. ASSUME NEW S \in SUBSET Requests, NEW r \in Requests \ S
      PROVE  Sum(k, S \union {r}) = Plus(Sum(k, S), updates_[r])
  <2>1. PICK T : T = S \union {r}
    OBVIOUS
  <2>2. T \subseteq Requests /\ r \in T /\ T \ {r} = S
    BY <2>1
  <2>3. IsFiniteSet(T) /\ \A x \in T : updates_[x] \in Int
    BY <1>2, <2>2, Domains, FS_Subset
  <2>4. SumOver(updates_, T) = updates_[r] + SumOver(updates_, S)
    BY <2>2, <2>3, SumRemove
  <2>5. PICK v, w : v = SumOver(updates_, S) /\ w = updates_[r]
    OBVIOUS
  <2>6. v \in Int /\ w \in Int /\ SumOver(updates_, T) = v + w
    BY <1>2, <1>3, <2>4, <2>5
  <2>7. Plus(a, v + w) = Plus(Plus(a, v), w)
    BY <1>2, <2>6, PlusIs
  <2> QED
    BY <1>0, <1>1, <2>1, <2>5, <2>6, <2>7
<1> QED
  BY <1>0, <1>1, <1>2, <1>3, <1>4, <1>5, PlusIs
-----------------------------------------------------------------------------
(* What the invariant says at one point of the program. *)

(* A request in execution: main waits for it, and it has a record to go to. *)
LEMMA Active ==
  ASSUME TypeOK, Setup, Executing, NEW r \in Requests, epc[r] \in {"load", "store"}
  PROVE  /\ pc \in During /\ db_[r] = "db_test" /\ r \in running /\ r \in 1..issued
         /\ writeset_[r] \in Seq(Records) /\ IsInjective(writeset_[r])
         /\ Len(writeset_[r]) = TxnSize /\ DOMAIN writeset_[r] = 1..TxnSize
         /\ next[r] \in Nat /\ next[r] >= 1 /\ next[r] <= TxnSize + 1
         /\ next[r] <= TxnSize =>
              Current(r) \in Records /\ Current(r) \in ToSet(writeset_[r])
<1>1. r \in running
  BY DEF Executing
<1>2. r \in 1..issued /\ issued \in Nat
  BY <1>1, Domains DEF TypeOK
<1>3. pc \notin Before /\ pc \notin After
  BY <1>1, <1>2 DEF Executing
<1>4. pc \in During
  BY <1>3 DEF TypeOK, Before, During, After
<1>5. /\ db_[r] = "db_test" /\ Len(writeset_[r]) = TxnSize /\ IsInjective(writeset_[r])
  BY <1>3, <1>4 DEF Setup
<1>6. writeset_[r] \in Seq(Records) /\ next[r] \in 1..(TxnSize + 1)
  BY DEF TypeOK
<1>7. DOMAIN writeset_[r] = 1..TxnSize
  BY <1>5, <1>6, QueueIndex
<1>8. next[r] <= TxnSize =>
        Current(r) \in Records /\ Current(r) \in ToSet(writeset_[r])
  <2>1. next[r] <= TxnSize => next[r] \in DOMAIN writeset_[r]
    BY <1>6, <1>7, Domains
  <2> QED
    BY <1>6, <2>1, QueueIndex DEF Current
<1> QED
  BY <1>1, <1>2, <1>4, <1>5, <1>6, <1>7, <1>8, Domains

(* While main sets up, nothing has begun. *)
LEMMA Idle ==
  ASSUME TypeOK, Executing, pc \in Before
  PROVE  /\ running = {} /\ \A r \in Requests : epc[r] = "none" /\ next[r] = 1
         /\ \A k : Stored(k) = {}
<1>1. issued = 0 /\ \A r \in Requests : r > 0
  BY Domains DEF Executing, Requests
<1>2. \A r \in Requests : epc[r] = "none" /\ next[r] = 1
  BY <1>1 DEF Executing
<1>3. running = {}
  BY <1>2 DEF Executing
<1>4. \A r \in Requests : 1..(next[r] - 1) = {}
  BY <1>2
<1> QED
  BY <1>2, <1>3, <1>4 DEF Stored

(* The test database before the first request, and a record of it after the last. *)
LEMMA Untouched ==
  ASSUME TypeOK, Executing, Adding, pc \in Before, pc # "create", NEW k \in Records
  PROVE  records_["db_test"][k] = InitRecord("db_test", k)
<1>1. PICK S \in SUBSET Requests : MadeOf(records_["db_test"][k], k, S)
  BY DEF Adding
<1>2. S = {}
  BY <1>1, Idle DEF MadeOf
<1> QED
  BY <1>1, <1>2, SumIs DEF MadeOf

(* An executor that has returned has been to every record of its write set. *)
LEMMA AllStored ==
  ASSUME TypeOK, Setup, Executing, \A r \in Requests : epc[r] = "returned", NEW k
  PROVE  Stored(k) = Writers(k)
<1>1. pc \notin Before
  BY Idle, Domains
<1>2. ASSUME NEW r \in Requests
      PROVE  (\E j \in 1..(next[r] - 1) : writeset_[r][j] = k) <=> k \in ToSet(writeset_[r])
  <2>1. next[r] = TxnSize + 1 /\ Len(writeset_[r]) = TxnSize
    BY <1>1 DEF Setup, Executing
  <2>2. writeset_[r] \in Seq(Records)
    BY DEF TypeOK
  <2>3. DOMAIN writeset_[r] = 1..(next[r] - 1)
    BY <2>1, <2>2, QueueIndex, Domains
  <2> QED
    BY <2>3 DEF ToSet
<1> QED
  BY <1>2 DEF Stored, Writers

(* main runs a request on db_simple: the fold of its writes. *)
LEMMA SequentialIs ==
  ASSUME TypeOK, Setup, SequentialExecute
  PROVE  records_' = [records_ EXCEPT !["db_simple"] =
                        Updated(@, ToSet(writeset_[i]), updates_[i])]
<1> DEFINE f == records_["db_simple"]
           q == writeset_[i]
           u == updates_[i]
<1>1. /\ f \in [Records -> Fields] /\ q \in Seq(Records) /\ IsInjective(q)
      /\ i \in Requests /\ db_[i] = "db_simple"
  <2>1. pc = "sequential" /\ i \in Requests
    BY DEF SequentialExecute, Loop, TypeOK
  <2> QED
    BY <2>1 DEF TypeOK, Setup, Databases
<1>2. FoldLeft(LAMBDA g, k : AddTo(g, k, u), f, q) = Updated(f, ToSet(q), u)
  BY <1>1, ExecuteAlone
<1>3. records_' = [records_ EXCEPT !["db_simple"] =
                     FoldLeft(LAMBDA g, k : AddTo(g, k, u), @, q)]
  BY <1>1 DEF SequentialExecute, AddTo
<1> QED
  BY <1>2, <1>3
-----------------------------------------------------------------------------
(* The steps, by what they leave alone. *)
LEMMA LauncherCardinality == \A S : Launcher!Cardinality(S) = Cardinality(S)
  BY DEF Launcher!Cardinality, Cardinality, Launcher!IsFiniteSet, IsFiniteSet

LEMMA StepCases ==
  ASSUME [Next]_vars
  PROVE  \/ \E d \in Databases : Create(d)
         \/ Copy
         \/ \E k \in Records : GenUnique(k)
         \/ GenerateRequest
         \/ ExecuteRequest
         \/ AllIssued \/ WaitOutstanding \/ SetDatabase
         \/ SequentialExecute
         \/ Compare
         \/ \E r \in Requests : LoadField(r)
         \/ \E r \in Requests : StoreField(r)
         \/ \E r \in Requests : FinishRequest(r)
         \/ CountRequest
         \/ UNCHANGED vars
  BY DEF Next, MainStep, ExecutorStep, Terminated

LEMMA LoopIs ==
  ASSUME TypeOK, NEW at, NEW to, Loop(at, to)
  PROVE  /\ pc = at /\ i \in Requests /\ i' \in Requests
         /\ \/ i = NumRequests /\ i' = 1 /\ pc' = to
            \/ i # NumRequests /\ i' = i + 1 /\ pc' = at
         /\ \A r \in Requests : (r < i + 1 <=> r < i \/ r = i) /\ ~(r < 1)
                                /\ (i = NumRequests => r < i \/ r = i)
<1>1. i \in Requests
  BY DEF TypeOK
<1>2. \A r \in Requests : r \in Nat /\ r >= 1 /\ r <= NumRequests
  BY RunTestAssumption DEF Requests
<1> QED
  BY <1>1, <1>2, Domains DEF Loop

LEMMA TypesStep ==
  ASSUME TypeOK, Setup, Executing, [Next]_vars
  PROVE  TypeOK'
<1> USE DEF TypeOK
<1>0. \A d \in Databases : [k \in Records |-> InitRecord(d, k)] \in [Records -> Fields]
  BY Domains
<1>1. ASSUME NEW d \in Databases, Create(d) PROVE TypeOK'
  BY <1>0, <1>1 DEF Create, At, launcherVars, executorVars
<1>2. CASE Copy
  BY <1>2 DEF Copy, At, launcherVars, executorVars, Databases
<1>3. ASSUME NEW k \in Records, GenUnique(k) PROVE TypeOK'
  <2>1. Append(writeset_[i], k) \in Seq(Records)
    BY AppendToQueue
  <2> QED
    BY <1>3, <2>1 DEF GenUnique, launcherVars, executorVars
<1>4. CASE GenerateRequest \/ SetDatabase
  <2>1. \/ Loop("generate", "issue")
        \/ Loop("switch", "sequential")
    BY <1>4 DEF GenerateRequest, SetDatabase
  <2>2. /\ i' \in Requests
        /\ pc' \in {"generate", "issue", "switch", "sequential"}
    BY <2>1, LoopIs
  <2>3. db_' \in [Requests -> Databases \union {"none"}]
    BY <1>4 DEF GenerateRequest, SetDatabase, Databases
  <2> QED
    BY <1>4, <2>2, <2>3 DEF GenerateRequest, SetDatabase, launcherVars, executorVars
<1>5. CASE ExecuteRequest
  <2>1. /\ issued' = issued + 1 /\ issued < NumRequests
        /\ running' = running \union {issued + 1} /\ executed' = executed /\ phase' = phase
    BY <1>5 DEF ExecuteRequest, Launcher!Issue
  <2>2. /\ issued' \in 0..NumRequests /\ issued' \in Requests /\ running' \subseteq 1..issued'
        /\ executed' \in 0..issued'
    BY <2>1, Domains DEF Requests
  <2>3. epc' \in [Requests -> {"none", "load", "store", "returned"}] /\ overlap' \subseteq Requests
    BY <1>5, <2>2 DEF ExecuteRequest
  <2> QED
    BY <1>5, <2>1, <2>2, <2>3 DEF ExecuteRequest, mainVars
<1>6. CASE AllIssued \/ Compare
  BY <1>6 DEF AllIssued, Compare, At, launcherVars, executorVars
<1>7. CASE WaitOutstanding
  <2>1. /\ pc' = "switch" /\ i' = 1 /\ 1 \in Requests /\ phase' = "timed"
        /\ UNCHANGED <<issued, running, executed>>
    BY <1>7, Domains DEF WaitOutstanding, At, Launcher!WaitOutstanding
  <2> QED
    BY <1>7, <2>1 DEF WaitOutstanding, executorVars
<1>8. CASE SequentialExecute
  <2>1. i' \in Requests /\ pc' \in {"sequential", "compare"}
    <3>1. Loop("sequential", "compare")
      BY <1>8 DEF SequentialExecute
    <3> QED
      BY <3>1, LoopIs
  <2>2. Updated(records_["db_simple"], ToSet(writeset_[i]), updates_[i]) \in [Records -> Fields]
    <3>1. records_["db_simple"] \in [Records -> Fields]
      BY DEF Databases
    <3>2. updates_[i] \in Int /\ \A v \in Fields : v \in Int
      <4>1. i \in Requests
        OBVIOUS
      <4> HIDE DEF TypeOK
      <4> QED
        BY <4>1, Domains
    <3> HIDE DEF TypeOK
    <3>3. \A k \in Records : Plus(records_["db_simple"][k], updates_[i]) \in Fields
      BY <3>1, <3>2, PlusIs
    <3> QED
      BY <3>1, <3>3 DEF Updated
  <2>3. records_' \in [Databases -> [Records -> Fields]]
    BY <1>8, <2>2, SequentialIs DEF Databases
  <2> QED
    BY <1>8, <2>1, <2>3 DEF SequentialExecute, launcherVars, executorVars
<1>9. ASSUME NEW r \in Requests, LoadField(r) PROVE TypeOK'
  <2>1. db_[r] = "db_test" /\ Current(r) \in Records
    BY <1>9, Active DEF LoadField
  <2>2. records_[db_[r]][Current(r)] \in Fields
    BY <2>1 DEF Databases
  <2>3. register' \in [Requests -> Fields]
    BY <1>9, <2>2 DEF LoadField, Current
  <2> QED
    BY <1>9, <2>3 DEF LoadField, launcherVars, mainVars
<1>10. ASSUME NEW r \in Requests, StoreField(r) PROVE TypeOK'
  <2>1. rec[r] = "db_test" /\ next[r] <= TxnSize
    BY <1>10 DEF StoreField, Executing
  <2>2. Current(r) \in Records /\ next[r] + 1 \in 1..(TxnSize + 1)
    <3>1. /\ Current(r) \in Records /\ next[r] \in Nat
      <4> HIDE DEF TypeOK
      <4> QED
        BY <1>10, <2>1, Active DEF StoreField
    <3> QED
      BY <2>1, <3>1, RunTestAssumption
  <2>3. Plus(register[r], updates_[r]) \in Fields
    <3>1. register[r] \in Int /\ updates_[r] \in Int
      <4>1. register[r] \in Fields
        OBVIOUS
      <4> HIDE DEF TypeOK
      <4> QED
        BY <4>1, Domains
    <3> QED
      BY <3>1, PlusIs
  <2>4. records_' \in [Databases -> [Records -> Fields]]
    BY <1>10, <2>1, <2>2, <2>3 DEF StoreField, Databases, Current
  <2>5. next' \in [Requests -> 1..(TxnSize + 1)]
    BY <1>10, <2>2 DEF StoreField
  <2> QED
    BY <1>10, <2>4, <2>5 DEF StoreField, launcherVars, mainVars
<1>11. ASSUME NEW r \in Requests, FinishRequest(r) PROVE TypeOK'
  <2>1. running' = running \ {r} /\ UNCHANGED <<issued, executed, phase>>
    BY <1>11 DEF FinishRequest, Launcher!Finish
  <2> QED
    BY <1>11, <2>1 DEF FinishRequest, mainVars
<1>12. CASE CountRequest
  <2>1. /\ executed + Cardinality(running) < issued /\ executed' = executed + 1
        /\ UNCHANGED <<issued, running, phase>>
    BY <1>12, LauncherCardinality DEF CountRequest, Launcher!Count
  <2>2. Cardinality(running) \in Nat
    <3>1. running \subseteq 1..issued /\ issued \in Int
      OBVIOUS
    <3>2. IsFiniteSet(1..issued)
      BY <3>1, FS_Interval
    <3> QED
      BY <3>1, <3>2, FS_Subset, FS_CardinalityType
  <2>3. executed' \in 0..issued'
    BY <2>1, <2>2
  <2> QED
    BY <1>12, <2>1, <2>3 DEF CountRequest, mainVars, executorVars
<1>13. CASE UNCHANGED vars
  BY <1>13 DEF vars, launcherVars, mainVars, executorVars
<1> QED
  BY <1>1, <1>2, <1>3, <1>4, <1>5, <1>6, <1>7, <1>8, <1>9, <1>10, <1>11, <1>12, <1>13,
     StepCases

LEMMA SetupStep ==
  ASSUME TypeOK, Setup, Executing, [Next]_vars
  PROVE  Setup'
<1>0. /\ \A r \in Requests : r \in Nat /\ r >= 1
      /\ i \in Requests /\ writeset_ \in [Requests -> Seq(Records)]
      /\ db_ \in [Requests -> Databases \union {"none"}]
  BY DEF TypeOK, Requests
<1>1. ASSUME NEW d \in Databases, Create(d) PROVE Setup'
  BY <1>0, <1>1 DEF Create, At, Setup, Before, During
<1>2. CASE Copy
  BY <1>0, <1>2 DEF Copy, At, Setup, Before, During
<1>3. ASSUME NEW k \in Records, GenUnique(k) PROVE Setup'
  <2>1. /\ pc = "generate" /\ pc' = pc /\ i' = i /\ db_' = db_
        /\ writeset_' = [writeset_ EXCEPT ![i] = Append(@, k)]
        /\ Len(writeset_[i]) < TxnSize /\ k \notin ToSet(writeset_[i])
    BY <1>3 DEF GenUnique
  <2>2. /\ IsInjective(Append(writeset_[i], k))
        /\ Len(Append(writeset_[i], k)) <= TxnSize
    BY <1>0, <2>1, AppendToQueue, AppendProperties, LenProperties, Domains DEF Setup
  <2>3. \A r \in Requests : /\ r = i => writeset_'[r] = Append(writeset_[i], k)
                            /\ r # i => writeset_'[r] = writeset_[r]
    BY <1>0, <2>1
  <2>4. \A r \in Requests : r < i => r # i
    BY <1>0
  <2> QED
    BY <2>1, <2>2, <2>3, <2>4 DEF Setup, Before, During
<1>4. CASE GenerateRequest
  <2>1. Loop("generate", "issue") /\ Len(writeset_[i]) = TxnSize
        /\ db_' = [db_ EXCEPT ![i] = "db_test"] /\ writeset_' = writeset_
    BY <1>4 DEF GenerateRequest
  <2> QED
    BY <1>0, <2>1, LoopIs DEF Setup, Before, During
<1>5. CASE ExecuteRequest \/ AllIssued \/ Compare
  BY <1>0, <1>5 DEF ExecuteRequest, AllIssued, Compare, At, mainVars, Setup, Before, During
<1>6. CASE WaitOutstanding
  BY <1>0, <1>6 DEF WaitOutstanding, At, Setup, Before, During
<1>7. CASE SetDatabase
  <2>1. /\ Loop("switch", "sequential") /\ writeset_' = writeset_
        /\ db_' = [db_ EXCEPT ![i] = "db_simple"]
    BY <1>7 DEF SetDatabase
  <2>2. \A r \in Requests : db_'[r] = IF r = i THEN "db_simple" ELSE db_[r]
    BY <1>0, <2>1
  <2>3. /\ pc = "switch" /\ \A r \in Requests : ~(r < 1)
        /\ \/ i = NumRequests /\ i' = 1 /\ pc' = "sequential"
              /\ \A r \in Requests : r < i \/ r = i
           \/ i' = i + 1 /\ pc' = "switch" /\ \A r \in Requests : r < i + 1 <=> r < i \/ r = i
    BY <2>1, LoopIs
  <2> QED
    BY <1>0, <2>1, <2>2, <2>3 DEF Setup, Before, During
<1>8. CASE SequentialExecute
  <2>1. Loop("sequential", "compare") /\ writeset_' = writeset_ /\ db_' = db_
    BY <1>8 DEF SequentialExecute
  <2> QED
    BY SMTT(30), <1>0, <2>1, LoopIs DEF Setup, Before, During
<1>9. ASSUME UNCHANGED mainVars PROVE Setup'
  BY <1>9 DEF mainVars, Setup
<1> QED
  BY <1>1, <1>2, <1>3, <1>4, <1>5, <1>6, <1>7, <1>8, <1>9, StepCases
  DEF LoadField, StoreField, FinishRequest, CountRequest, vars
LEMMA ExecutingFrame ==
  ASSUME Executing, UNCHANGED <<launcherVars, executorVars>>,
         pc' \in Before => pc \in Before,
         pc' \in After => pc \in After,
         pc' = "wait" => pc = "wait" \/ issued = NumRequests
  PROVE  Executing'
  BY DEF Executing, launcherVars, executorVars

LEMMA ExecutingStep ==
  ASSUME TypeOK, Setup, Executing, [Next]_vars
  PROVE  Executing'
<1>0. /\ issued \in Nat /\ executed \in Nat /\ running \subseteq 1..issued
      /\ IsFiniteSet(running) /\ Cardinality(running) \in Nat
      /\ epc \in [Requests -> {"none", "load", "store", "returned"}]
      /\ next \in [Requests -> 1..(TxnSize + 1)]
      /\ rec \in [Requests -> Databases \union {"none"}]
      /\ \A r \in Requests : r \in Nat /\ r >= 1
      /\ TxnSize \in Nat
  <2>1. issued \in Nat /\ executed \in Nat /\ running \subseteq 1..issued
    BY DEF TypeOK
  <2>2. IsFiniteSet(1..issued)
    BY <2>1, FS_Interval
  <2>3. IsFiniteSet(running) /\ Cardinality(running) \in Nat
    BY <2>1, <2>2, FS_Subset, FS_CardinalityType
  <2> QED
    BY <2>1, <2>3, RunTestAssumption DEF TypeOK, Requests
<1>1. ASSUME NEW d \in Databases, Create(d) PROVE Executing'
  BY <1>1, ExecutingFrame DEF Create, At, Before, After
<1>2. CASE Copy
  BY <1>2, ExecutingFrame DEF Copy, At, Before, After
<1>3. ASSUME NEW k \in Records, GenUnique(k) PROVE Executing'
  BY <1>3, ExecutingFrame DEF GenUnique, Before, After
<1>4. CASE GenerateRequest
  BY <1>4, ExecutingFrame DEF GenerateRequest, Loop, Before, After
<1>5. CASE ExecuteRequest
  <2> DEFINE new == issued + 1
  <2>1. /\ issued' = new /\ new \in Requests /\ running' = running \union {new}
        /\ executed' = executed /\ pc = "issue" /\ pc' = pc /\ next' = next /\ rec' = rec
    <3>1. issued < NumRequests /\ NumRequests \in Nat
      BY <1>5, RunTestAssumption DEF ExecuteRequest
    <3>2. new \in Requests
      BY <1>0, <3>1 DEF Requests
    <3> HIDE DEF Requests
    <3> QED
      BY <1>5, <3>2 DEF ExecuteRequest, Launcher!Issue, mainVars
  <2>2. epc' = [epc EXCEPT ![new] = "load"]
    BY <1>5, <2>1 DEF ExecuteRequest
  <2>3. new \notin running /\ new \in Nat
    BY <1>0
  <2>4. Cardinality(running') = Cardinality(running) + 1
    BY <1>0, <2>1, <2>3, FS_AddElement
  <2>5. executed' + Cardinality(running') <= issued'
    BY <1>0, <2>1, <2>4 DEF Executing
  <2>6. \A r \in Requests : epc'[r] = IF r = new THEN "load" ELSE epc[r]
    BY <1>0, <2>2
  <2>7. \A r \in Requests : r > new <=> r > issued /\ r # new
    BY <1>0
  <2> HIDE DEF new
  <2> QED
    BY <2>1, <2>5, <2>6, <2>7 DEF Executing, Before, After
<1>6. CASE AllIssued
  BY <1>6, ExecutingFrame DEF AllIssued, At, Before, After
<1>7. CASE WaitOutstanding
  <2>1. /\ executed = issued /\ pc = "wait" /\ pc' = "switch"
        /\ UNCHANGED <<issued, running, executed, epc, next, rec>>
    BY <1>7 DEF WaitOutstanding, At, Launcher!WaitOutstanding, executorVars
  <2>2. Cardinality(running) = 0
    BY <1>0, <2>1 DEF Executing
  <2>3. running = {}
    BY <1>0, <2>2, FS_EmptySet
  <2> QED
    BY <2>1, <2>3 DEF Executing, Before, After
<1>8. CASE SetDatabase \/ SequentialExecute \/ Compare
  BY <1>8, ExecutingFrame
  DEF SetDatabase, SequentialExecute, Compare, Loop, At, Before, After
<1>9. ASSUME NEW r \in Requests, LoadField(r) PROVE Executing'
  <2>1. db_[r] = "db_test" /\ next[r] <= TxnSize
    BY <1>9, Active DEF LoadField
  <2>2. \A s \in Requests : /\ epc'[s] = IF s = r THEN "store" ELSE epc[s]
                            /\ rec'[s] = IF s = r THEN "db_test" ELSE rec[s]
    BY <1>0, <1>9, <2>1 DEF LoadField
  <2>3. epc[r] = "load" /\ next' = next /\ UNCHANGED <<issued, running, executed, pc>>
    BY <1>9 DEF LoadField, launcherVars, mainVars
  <2> QED
    BY <2>1, <2>2, <2>3 DEF Executing
<1>10. ASSUME NEW r \in Requests, StoreField(r) PROVE Executing'
  <2>1. \A s \in Requests : /\ epc'[s] = IF s = r THEN "load" ELSE epc[s]
                            /\ s # r => next'[s] = next[s]
    BY <1>0, <1>10 DEF StoreField
  <2>2. epc[r] = "store" /\ rec' = rec /\ UNCHANGED <<issued, running, executed, pc>>
    BY <1>10 DEF StoreField, launcherVars, mainVars
  <2> QED
    BY <2>1, <2>2 DEF Executing
<1>11. ASSUME NEW r \in Requests, FinishRequest(r) PROVE Executing'
  <2>1. \A s \in Requests : epc'[s] = IF s = r THEN "returned" ELSE epc[s]
    BY <1>0, <1>11 DEF FinishRequest
  <2>2. /\ epc[r] = "load" /\ running' = running \ {r} /\ next[r] > TxnSize
        /\ UNCHANGED <<issued, executed, next, rec, pc>>
    BY <1>11 DEF FinishRequest, Launcher!Finish, mainVars
  <2>3. Cardinality(running') <= Cardinality(running) /\ Cardinality(running') \in Nat
    BY <1>0, <2>2, FS_Subset, FS_CardinalityType
  <2>4. executed' + Cardinality(running') <= issued'
    BY <1>0, <2>2, <2>3 DEF Executing
  <2>5. next[r] = TxnSize + 1
    BY <1>0, <2>2
  <2>6. pc \in During
    BY <2>2, Active
  <2> QED
    BY <2>1, <2>2, <2>4, <2>5, <2>6 DEF Executing, Before, During, After
<1>12. CASE CountRequest
  <2>1. /\ executed + Cardinality(running) < issued /\ executed' = executed + 1
        /\ UNCHANGED <<issued, running, pc, epc, next, rec>>
    BY <1>12, LauncherCardinality DEF CountRequest, Launcher!Count, mainVars, executorVars
  <2>2. executed' + Cardinality(running) <= issued
    BY <1>0, <2>1
  <2> QED
    BY <2>1, <2>2 DEF Executing
<1>13. CASE UNCHANGED vars
  BY <1>13, ExecutingFrame DEF vars, mainVars
<1> QED
  BY <1>1, <1>2, <1>3, <1>4, <1>5, <1>6, <1>7, <1>8, <1>9, <1>10, <1>11, <1>12, <1>13,
     StepCases

(* What a store does to the sets of requests that have stored. *)
LEMMA StoredStep ==
  ASSUME TypeOK, Setup, Executing, NEW r \in Requests, StoreField(r)
  PROVE  /\ r \notin Stored(Current(r))
         /\ \A k : Stored(k)' = IF k = Current(r) THEN Stored(k) \union {r} ELSE Stored(k)
<1>1. /\ next[r] \in Nat /\ next[r] >= 1 /\ next[r] <= TxnSize
      /\ DOMAIN writeset_[r] = 1..TxnSize /\ IsInjective(writeset_[r]) /\ TxnSize \in Nat
  BY Active, RunTestAssumption DEF StoreField, Executing
<1>2. /\ writeset_' = writeset_ /\ next'[r] = next[r] + 1
      /\ \A s \in Requests \ {r} : next'[s] = next[s]
  BY DEF StoreField, TypeOK, mainVars
<1>3. \A j \in 1..(next[r] - 1) : writeset_[r][j] # writeset_[r][next[r]]
  BY <1>1 DEF IsInjective
<1>4. 1..(next'[r] - 1) = 1..(next[r] - 1) \union {next[r]}
  BY <1>1, <1>2
<1>5. \A s \in Requests \ {r} : 1..(next'[s] - 1) = 1..(next[s] - 1)
  BY <1>2
<1> QED
  BY SMTT(30), <1>2, <1>3, <1>4, <1>5 DEF Stored, Current

LEMMA AddingFrame ==
  ASSUME Adding, UNCHANGED <<writeset_, epc, next, register, running, overlap>>,
         records_'["db_test"] = records_["db_test"], pc' # "create" => pc # "create"
  PROVE  Adding'
  BY DEF Adding, MadeOf, Stored, Current, Meet

LEMMA StoreAdds ==
  ASSUME TypeOK, Setup, Executing, Adding, NEW r \in Requests, StoreField(r)
  PROVE  Adding'
<1>0. PICK key : key = Current(r)
  OBVIOUS
<1>1. /\ rec[r] = "db_test" /\ next[r] <= TxnSize /\ epc[r] = "store"
  BY DEF StoreField, Executing
<1>2. /\ key \in Records /\ key \in ToSet(writeset_[r]) /\ r \in running /\ pc # "create"
  BY <1>0, <1>1, Active DEF During
<1>3. /\ records_'["db_test"] =
           [records_["db_test"] EXCEPT ![key] = Plus(register[r], updates_[r])]
      /\ UNCHANGED <<pc, writeset_, register, running, overlap>>
  BY <1>0, <1>1 DEF StoreField, TypeOK, Current, Databases, launcherVars, mainVars
<1>4. \A s \in Requests : /\ epc'[s] = IF s = r THEN "load" ELSE epc[s]
                          /\ s # r => next'[s] = next[s]
  BY DEF StoreField, TypeOK
<1>5. /\ r \notin Stored(key)
      /\ \A k : Stored(k)' = IF k = key THEN Stored(k) \union {r} ELSE Stored(k)
  BY <1>0, StoredStep
<1>6. records_["db_test"] \in [Records -> Fields]
  BY DEF TypeOK, Databases
<1>7. ASSUME NEW k \in Records
      PROVE  \E S \in SUBSET Requests :
               MadeOf(records_["db_test"][k], k, S)' /\ (Stored(k)' # {} => S # {})
  <2>1. CASE k = key
    <3>1. PICK S \in SUBSET Requests : MadeOf(register[r], key, S)
      BY <1>0, <1>1 DEF Adding
    <3>2. PICK T : T = S \union {r}
      OBVIOUS
    <3>3. /\ r \notin S /\ T \in SUBSET Requests /\ T \subseteq Stored(key)'
          /\ overlap' = {} => T = Stored(key)'
      BY <1>3, <1>5, <3>1, <3>2 DEF MadeOf
    <3>4. Plus(register[r], updates_[r]) = Sum(key, T)
      BY <1>2, <3>1, <3>2, <3>3, SumIs DEF MadeOf
    <3>5. records_'["db_test"][k] = Sum(k, T)
      BY <1>2, <1>3, <1>6, <2>1, <3>4
    <3>6. MadeOf(records_["db_test"][k], k, T)'
      BY <2>1, <3>3, <3>5 DEF MadeOf
    <3> QED
      BY <3>2, <3>3, <3>6
  <2>2. CASE k # key
    <3>1. PICK S \in SUBSET Requests :
            MadeOf(records_["db_test"][k], k, S) /\ (Stored(k) # {} => S # {})
      BY <1>2 DEF Adding
    <3>2. records_'["db_test"][k] = records_["db_test"][k] /\ Stored(k)' = Stored(k)
      BY <1>3, <1>5, <1>6, <2>2
    <3> QED
      BY <1>3, <3>1, <3>2 DEF MadeOf
  <2> QED
    BY <2>1, <2>2
<1>8. ASSUME NEW s \in Requests, epc'[s] = "store"
      PROVE  \E S \in SUBSET Requests : MadeOf(register[s], Current(s), S)'
  <2>1. s # r /\ epc[s] = "store" /\ Current(s)' = Current(s) /\ register'[s] = register[s]
    BY <1>3, <1>4, <1>8 DEF Current
  <2>2. PICK S \in SUBSET Requests : MadeOf(register[s], Current(s), S)
    BY <2>1 DEF Adding
  <2>3. CASE Current(s) # key
    <3>1. PICK c : c = Current(s)
      OBVIOUS
    <3>2. Stored(c)' = Stored(c) /\ c = Current(s)'
      BY <1>5, <2>1, <2>3, <3>1
    <3>3. MadeOf(register[s], c, S)'
      BY <1>3, <2>1, <2>2, <3>1, <3>2 DEF MadeOf
    <3> QED
      BY <3>2, <3>3
  <2>4. CASE Current(s) = key
    <3>1. s \in running /\ key \in ToSet(writeset_[s])
      BY <2>1, <2>4, Active DEF Executing
    <3>2. overlap # {}
      BY <1>2, <2>1, <3>1 DEF Adding, Meet
    <3>3. Stored(key) \subseteq Stored(key)' /\ key = Current(s)'
      BY <1>5, <2>1, <2>4
    <3>4. MadeOf(register[s], key, S)'
      BY <1>3, <2>1, <2>2, <2>4, <3>2, <3>3 DEF MadeOf
    <3> QED
      BY <3>3, <3>4
  <2> QED
    BY <2>3, <2>4
<1> QED
  BY <1>3, <1>7, <1>8 DEF Adding, Meet
(* While main sets up nothing is stored or loaded, and the test database, once
   it is made, keeps its contents. *)
LEMMA SetupAdds ==
  ASSUME TypeOK', Executing', pc' \in Before,
         \A k \in Records : records_'["db_test"][k] = InitRecord("db_test", k)
  PROVE  Adding'
<1>1. /\ (running = {})' /\ \A r \in Requests : epc'[r] = "none"
      /\ \A k : Stored(k)' = {}
  <2>1. issued' = 0 /\ \A r \in Requests : r > 0
    BY Domains DEF Executing, Requests
  <2>2. \A r \in Requests : epc'[r] = "none" /\ next'[r] = 1
    BY <2>1 DEF Executing
  <2>3. (running = {})'
    BY <2>2 DEF Executing
  <2>4. \A r \in Requests : 1..(next'[r] - 1) = {}
    BY <2>2
  <2> QED
    BY <2>2, <2>3, <2>4 DEF Stored
<1>2. \A k \in Records : MadeOf(records_["db_test"][k], k, {})'
  BY <1>1, SumIs DEF MadeOf
<1> QED
  BY <1>1, <1>2 DEF Adding

LEMMA AddingStep ==
  ASSUME TypeOK, Setup, Executing, Adding, TypeOK', Executing', [Next]_vars
  PROVE  Adding'
<1>0. /\ epc \in [Requests -> {"none", "load", "store", "returned"}]
      /\ register \in [Requests -> Fields]
      /\ records_ \in [Databases -> [Records -> Fields]]
  BY DEF TypeOK
<1>1. ASSUME NEW d \in Databases, Create(d) PROVE Adding'
  <2>1. CASE d = "db_test"
    <3>1. \A k \in Records : records_'["db_test"][k] = InitRecord("db_test", k)
      BY <1>0, <1>1, <2>1 DEF Create, Databases
    <3>2. pc' \in Before
      BY <1>1 DEF Create, At, Before
    <3> QED
      BY <3>1, <3>2, SetupAdds
  <2>2. CASE d = "db_simple"
    BY <1>0, <1>1, <2>2, AddingFrame
    DEF Create, At, Databases, launcherVars, executorVars
  <2> QED
    BY <2>1, <2>2 DEF Databases
<1>2. CASE Copy
  BY <1>0, <1>2, AddingFrame DEF Copy, At, Databases, launcherVars, executorVars
<1>3. ASSUME NEW k \in Records, GenUnique(k) PROVE Adding'
  <2>1. pc = "generate" /\ pc' = pc /\ records_' = records_
    BY <1>3 DEF GenUnique
  <2>2. \A j \in Records : records_'["db_test"][j] = InitRecord("db_test", j)
    BY <2>1, Untouched DEF Before
  <2> QED
    BY <2>1, <2>2, SetupAdds DEF Before
<1>4. CASE ExecuteRequest
  <2>1. PICK new : new = issued'
    OBVIOUS
  <2>2. /\ new = issued + 1 /\ running' = running \union {new} /\ pc = "issue" /\ pc' = pc
        /\ epc' = [epc EXCEPT ![new] = "load"]
        /\ overlap' = IF \E r \in running : Meet(r, new)
                        THEN overlap \union {new} ELSE overlap
        /\ UNCHANGED <<writeset_, next, register, records_>>
    BY <1>4, <2>1 DEF ExecuteRequest, Launcher!Issue, mainVars
  <2>3. \A r \in Requests : epc'[r] = "store" => epc[r] = "store"
    BY <1>0, <2>2
  <2>4. /\ overlap' = {} => overlap = {}
        /\ \A k : Stored(k)' = Stored(k)
    BY <2>2 DEF Stored
  <2>5. \A v, k, S : MadeOf(v, k, S) =>
          /\ S \subseteq Stored(k)
          /\ overlap' = {} => S = Stored(k)
          /\ v = Sum(k, S)
    BY <2>4 DEF MadeOf
  <2>6. ASSUME NEW k \in Records
        PROVE  \E S \in SUBSET Requests :
                 MadeOf(records_["db_test"][k], k, S)' /\ (Stored(k)' # {} => S # {})
    <3>1. PICK S \in SUBSET Requests :
            MadeOf(records_["db_test"][k], k, S) /\ (Stored(k) # {} => S # {})
      BY <2>2 DEF Adding
    <3> QED
      BY <2>2, <2>4, <2>5, <3>1 DEF MadeOf
  <2>7. ASSUME NEW r \in Requests, epc'[r] = "store"
        PROVE  \E S \in SUBSET Requests : MadeOf(register[r], Current(r), S)'
    <3>1. PICK S \in SUBSET Requests : MadeOf(register[r], Current(r), S)
      BY <2>3, <2>7 DEF Adding
    <3>2. PICK c : c = Current(r)
      OBVIOUS
    <3>3. c = Current(r)' /\ register'[r] = register[r]
      BY <2>2, <3>2 DEF Current
    <3>4. MadeOf(register[r], c, S)'
      BY <2>4, <2>5, <3>1, <3>2, <3>3 DEF MadeOf
    <3> QED
      BY <3>3, <3>4
  <2>8. \A r, s : Meet(r, s)' = Meet(r, s) /\ (Meet(r, s) <=> Meet(s, r))
    BY <2>2 DEF Meet
  <2>9. \A r, s \in running' : r # s /\ Meet(r, s)' => overlap' # {}
    BY <2>2, <2>8 DEF Adding
  <2> QED
    BY <2>2, <2>6, <2>7, <2>9 DEF Adding
<1>5. CASE GenerateRequest \/ AllIssued \/ SetDatabase \/ Compare
  <2>1. /\ UNCHANGED <<writeset_, epc, next, register, running, overlap, records_>>
        /\ pc # "create"
    BY <1>5 DEF GenerateRequest, AllIssued, SetDatabase, Compare, Loop, At,
                launcherVars, executorVars
  <2> QED
    BY <2>1, AddingFrame
<1>6. CASE WaitOutstanding
  BY <1>6, AddingFrame DEF WaitOutstanding, At, Launcher!WaitOutstanding, executorVars
<1>7. CASE SequentialExecute
  <2>1. /\ UNCHANGED <<writeset_, epc, next, register, running, overlap>>
        /\ pc # "create"
    BY <1>7 DEF SequentialExecute, Loop, launcherVars, executorVars
  <2>2. records_'["db_test"] = records_["db_test"]
    BY <1>0, <1>7, SequentialIs DEF Databases
  <2> QED
    BY <2>1, <2>2, AddingFrame
<1>8. ASSUME NEW r \in Requests, LoadField(r) PROVE Adding'
  <2>1. PICK c : c = Current(r)
    OBVIOUS
  <2>2. c \in Records /\ db_[r] = "db_test" /\ pc # "create"
    BY <1>8, <2>1, Active DEF LoadField, During
  <2>3. /\ UNCHANGED <<pc, writeset_, next, running, overlap, records_>>
        /\ register' = [register EXCEPT ![r] = records_["db_test"][c]]
        /\ epc' = [epc EXCEPT ![r] = "store"]
    BY <1>8, <2>1, <2>2 DEF LoadField, Current, launcherVars, mainVars
  <2>4. \A k, v, S : /\ Stored(k)' = Stored(k)
                     /\ MadeOf(v, k, S) => /\ S \subseteq Stored(k)
                                           /\ overlap = {} => S = Stored(k)
                                           /\ v = Sum(k, S)
    BY <2>3 DEF Stored, MadeOf
  <2>5. ASSUME NEW s \in Requests, epc'[s] = "store"
        PROVE  \E S \in SUBSET Requests : MadeOf(register[s], Current(s), S)'
    <3>1. PICK e : e = Current(s)
      OBVIOUS
    <3>2. e = Current(s)'
      BY <2>3, <3>1 DEF Current
    <3>3. \E S \in SUBSET Requests : MadeOf(register'[s], e, S)
      <4>1. CASE s = r
        <5>1. register'[s] = records_["db_test"][c] /\ e = c
          BY <1>0, <2>1, <2>3, <3>1, <4>1
        <5> QED
          BY <2>2, <5>1 DEF Adding
      <4>2. CASE s # r
        <5>1. epc[s] = "store" /\ register'[s] = register[s]
          BY <1>0, <2>3, <2>5, <4>2
        <5> QED
          BY <3>1, <5>1 DEF Adding
      <4> QED
        BY <4>1, <4>2
    <3>4. PICK S \in SUBSET Requests : MadeOf(register'[s], e, S)
      BY <3>3
    <3>5. MadeOf(register[s], e, S)'
      BY <2>3, <2>4, <3>4 DEF MadeOf
    <3> QED
      BY <3>2, <3>5
  <2>6. ASSUME NEW k \in Records
        PROVE  \E S \in SUBSET Requests :
                 MadeOf(records_["db_test"][k], k, S)' /\ (Stored(k)' # {} => S # {})
    <3>1. PICK S \in SUBSET Requests :
            MadeOf(records_["db_test"][k], k, S) /\ (Stored(k) # {} => S # {})
      BY <2>2 DEF Adding
    <3> QED
      BY <2>3, <2>4, <3>1 DEF MadeOf
  <2> QED
    BY <2>3, <2>5, <2>6 DEF Adding, Meet
<1>9. ASSUME NEW r \in Requests, StoreField(r) PROVE Adding'
  BY <1>9, StoreAdds
<1>10. ASSUME NEW r \in Requests, FinishRequest(r) PROVE Adding'
  <2>1. /\ running' \subseteq running /\ epc' = [epc EXCEPT ![r] = "returned"]
        /\ UNCHANGED <<pc, writeset_, next, register, overlap, records_>>
    BY <1>10 DEF FinishRequest, mainVars
  <2>2. \A s \in Requests : epc'[s] = "store" => epc[s] = "store"
    BY <1>0, <2>1
  <2>3. \A t, s \in running' : t # s /\ Meet(t, s)' => overlap' # {}
    BY <2>1 DEF Adding, Meet
  <2>4. pc' # "create" => \A k \in Records :
          \E S \in SUBSET Requests :
            MadeOf(records_["db_test"][k], k, S)' /\ (Stored(k)' # {} => S # {})
    BY <2>1 DEF Adding, MadeOf, Stored
  <2>5. \A s \in Requests : epc'[s] = "store" =>
          \E S \in SUBSET Requests : MadeOf(register[s], Current(s), S)'
    BY <2>1, <2>2 DEF Adding, MadeOf, Stored, Current
  <2> QED
    BY <2>3, <2>4, <2>5 DEF Adding
<1>11. CASE CountRequest
  BY <1>11, AddingFrame DEF CountRequest, Launcher!Count, mainVars, executorVars
<1>12. CASE UNCHANGED vars
  BY <1>12, AddingFrame DEF vars, launcherVars, mainVars, executorVars
<1> QED
  BY <1>1, <1>2, <1>3, <1>4, <1>5, <1>6, <1>7, <1>8, <1>9, <1>10, <1>11, <1>12, StepCases

LEMMA OneByOneFrame ==
  ASSUME OneByOne, UNCHANGED <<pc, i, writeset_>>,
         records_' = records_ \/ (pc \in During /\ records_'["db_simple"] = records_["db_simple"])
  PROVE  OneByOne'
  BY DEF OneByOne, Writers, During

LEMMA OneByOneStep ==
  ASSUME TypeOK, Setup, Executing, Adding, OneByOne, [Next]_vars
  PROVE  OneByOne'
<1>0. /\ records_ \in [Databases -> [Records -> Fields]] /\ i \in Requests
      /\ {"db_test", "db_simple"} \subseteq Databases
  BY DEF TypeOK, Databases
<1>1. ASSUME NEW d \in Databases, Create(d) PROVE OneByOne'
  BY <1>1 DEF Create, At, OneByOne, During
<1>2. CASE Copy
  <2>1. \A k \in Records : records_'["db_simple"][k] = InitRecord("db_test", k)
    BY <1>0, <1>2, Untouched DEF Copy, At, Before
  <2> QED
    BY <1>2, <2>1 DEF Copy, At, OneByOne, During
<1>3. ASSUME NEW k \in Records, GenUnique(k) PROVE OneByOne'
  BY <1>3 DEF GenUnique, OneByOne, During
<1>4. CASE GenerateRequest \/ AllIssued \/ WaitOutstanding
  BY <1>4 DEF GenerateRequest, AllIssued, WaitOutstanding, At, Loop, OneByOne, During
<1>5. CASE SetDatabase
  <2>1. Loop("switch", "sequential") /\ records_' = records_ /\ writeset_' = writeset_
    BY <1>5 DEF SetDatabase
  <2>2. /\ pc = "switch"
        /\ \/ pc' = "switch"
           \/ pc' = "sequential" /\ i' = 1 /\ \A r \in Requests : ~(r < 1)
    BY <2>1, LoopIs
  <2>3. \A k \in Records : records_'["db_simple"][k] = Sum(k, {})
    BY <2>1, <2>2, SumIs DEF OneByOne
  <2>4. CASE pc' = "switch"
    BY <2>1, <2>2, <2>4 DEF OneByOne, During
  <2>5. CASE pc' = "sequential"
    <3>1. \A k : {r \in Writers(k)' : r < i'} = {}
      BY <2>2, <2>5 DEF Writers
    <3> QED
      BY <2>3, <2>5, <3>1 DEF OneByOne, During
  <2> QED
    BY <2>2, <2>4, <2>5
<1>6. CASE SequentialExecute
  <2>1. /\ Loop("sequential", "compare") /\ writeset_' = writeset_
        /\ records_' = [records_ EXCEPT !["db_simple"] =
                          Updated(@, ToSet(writeset_[i]), updates_[i])]
    BY <1>6, SequentialIs DEF SequentialExecute
  <2>2. /\ pc = "sequential"
        /\ \/ i = NumRequests /\ pc' = "compare" /\ \A r \in Requests : r < i \/ r = i
           \/ i' = i + 1 /\ pc' = "sequential"
        /\ \A r \in Requests : r < i + 1 <=> r < i \/ r = i
        /\ ~(i < i)
    BY <1>0, <2>1, LoopIs DEF Requests
  <2>3. ASSUME NEW k \in Records
        PROVE  records_'["db_simple"][k] = Sum(k, {r \in Writers(k) : r < i \/ r = i})
    <3>1. PICK S : S = {r \in Writers(k) : r < i}
      OBVIOUS
    <3>2. /\ S \in SUBSET Requests /\ i \in Requests \ S
          /\ records_["db_simple"][k] = Sum(k, S)
      BY <1>0, <2>2, <3>1 DEF OneByOne, Writers
    <3>3. records_'["db_simple"][k] =
            IF k \in ToSet(writeset_[i]) THEN Plus(Sum(k, S), updates_[i]) ELSE Sum(k, S)
      BY <1>0, <2>1, <3>2 DEF Updated
    <3>4. CASE k \in ToSet(writeset_[i])
      <4>1. S \union {i} = {r \in Writers(k) : r < i \/ r = i}
        BY <1>0, <3>1, <3>4 DEF Writers
      <4>2. Sum(k, S \union {i}) = Plus(Sum(k, S), updates_[i])
        BY <3>2, SumIs
      <4> QED
        BY <3>3, <3>4, <4>1, <4>2
    <3>5. CASE k \notin ToSet(writeset_[i])
      <4>1. S = {r \in Writers(k) : r < i \/ r = i}
        BY <3>1, <3>5 DEF Writers
      <4> QED
        BY <3>3, <3>5, <4>1
    <3> QED
      BY <3>4, <3>5
  <2>4. \A k : Writers(k)' = Writers(k) /\ Writers(k) \subseteq Requests
    BY <2>1 DEF Writers
  <2>5. CASE i = NumRequests /\ pc' = "compare" /\ \A r \in Requests : r < i \/ r = i
    <3>1. \A k : {r \in Writers(k) : r < i \/ r = i} = Writers(k)'
      BY <2>4, <2>5
    <3> QED
      BY <2>3, <2>5, <3>1 DEF OneByOne, During
  <2>6. CASE i' = i + 1 /\ pc' = "sequential"
    <3>1. \A k : {r \in Writers(k) : r < i \/ r = i} = {r \in Writers(k)' : r < i'}
      BY <2>2, <2>4, <2>6
    <3> QED
      BY <2>3, <2>6, <3>1 DEF OneByOne, During
  <2> QED
    BY <2>2, <2>5, <2>6
<1>7. CASE Compare
  BY <1>7 DEF Compare, At, OneByOne, Writers, During
<1>8. ASSUME NEW r \in Requests, StoreField(r) PROVE OneByOne'
  <2>1. rec[r] = "db_test" /\ pc \in During
    BY <1>8, Active DEF StoreField, Executing
  <2>2. records_'["db_simple"] = records_["db_simple"]
    BY <1>0, <1>8, <2>1 DEF StoreField
  <2> QED
    BY <1>8, <2>1, <2>2, OneByOneFrame DEF StoreField, mainVars
<1>9. ASSUME UNCHANGED mainVars, records_' = records_ PROVE OneByOne'
  BY <1>9, OneByOneFrame DEF mainVars
<1> QED
  BY <1>1, <1>2, <1>3, <1>4, <1>5, <1>6, <1>7, <1>8, <1>9, StepCases
  DEF ExecuteRequest, LoadField, FinishRequest, CountRequest, vars

-----------------------------------------------------------------------------
LEMMA IInvInit == Init => IInv
<1> SUFFICES ASSUME Init PROVE IInv
  OBVIOUS
<1>1. /\ issued = 0 /\ running = {} /\ executed = 0 /\ phase = "dry"
      /\ pc = "create" /\ i = 1 /\ writeset_ = [r \in Requests |-> <<>>]
      /\ epc = [r \in Requests |-> "none"] /\ next = [r \in Requests |-> 1]
  BY DEF Init, Launcher!Init
<1>2. NumRequests \in Nat /\ TxnSize \in Nat /\ \A r \in Requests : r \in Nat /\ r >= 1
  BY RunTestAssumption DEF Requests
<1>3. TypeOK
  BY <1>1, <1>2, Domains DEF TypeOK, Init
<1>4. Setup
  BY <1>1, <1>2, EmptyQueue DEF Setup, Before, During
<1>5. Executing
  BY <1>1, <1>2, FS_EmptySet DEF Executing, Before, After
<1>6. Adding
  BY <1>1 DEF Adding
<1>7. OneByOne
  BY <1>1 DEF OneByOne, During
<1> QED
  BY <1>3, <1>4, <1>5, <1>6, <1>7 DEF IInv

(* IInv, which the other theorems follow from, is inductive: for any records,
   requests and draws of rand(), any launcher that keeps the promise of
   BoundedLauncher and any interleaving of its executors' loads and stores. *)
THEOREM Invariant == Spec => []IInv
<1>1. IInv /\ [Next]_vars => IInv'
  <2> SUFFICES ASSUME IInv, [Next]_vars PROVE IInv'
    OBVIOUS
  <2>1. TypeOK' /\ Setup' /\ Executing'
    BY TypesStep, SetupStep, ExecutingStep DEF IInv
  <2>2. Adding' /\ OneByOne'
    BY <2>1, AddingStep, OneByOneStep DEF IInv
  <2> QED
    BY <2>1, <2>2 DEF IInv
<1> QED
  BY <1>1, IInvInit, PTL DEF Spec

(* Every variable of run_test, its requests and its databases keeps its type;
   in particular no executor reads past its write set. *)
THEOREM TypeCorrect == Spec => []TypeOK
<1>1. IInv => TypeOK
  BY DEF IInv
<1> QED
  BY <1>1, Invariant, PTL

LEMMA Returned ==
  ASSUME TypeOK, Executing, pc \in After
  PROVE  \A r \in Requests : epc[r] = "returned"
<1>1. \A r \in Requests : r <= issued
  BY RunTestAssumption DEF Executing, Requests
<1>2. \A r \in Requests : r \in Nat /\ issued \in Nat
  BY DEF TypeOK, Requests
<1>3. \A r \in Requests : epc[r] \notin {"none", "load", "store"}
  BY <1>1, <1>2 DEF Executing
<1> QED
  BY <1>3 DEF TypeOK

(* db_start.cc:155-158: when main points the requests at db_simple, every
   executor has returned, and nothing has been written there before. *)
THEOREM SwitchesAfterDrain == Spec => []SwitchAfterDrain
<1>1. IInv => SwitchAfterDrain
  BY Returned DEF IInv, SwitchAfterDrain, OneByOne, During, After
<1> QED
  BY <1>1, Invariant, PTL

LEMMA RecordIs ==
  ASSUME IInv, \A r \in Requests : epc[r] = "returned", NEW k \in Records
  PROVE  \E S \in SUBSET Writers(k) :
           /\ records_["db_test"][k] = Sum(k, S)
           /\ Writers(k) # {} => S # {}
           /\ overlap = {} => S = Writers(k)
<1>1. pc # "create"
  BY Idle, Domains DEF IInv, Before
<1>2. Stored(k) = Writers(k)
  BY AllStored DEF IInv
<1>3. PICK S \in SUBSET Requests :
        MadeOf(records_["db_test"][k], k, S) /\ (Stored(k) # {} => S # {})
  BY <1>1 DEF IInv, Adding
<1> QED
  BY <1>2, <1>3 DEF MadeOf

(* request.cc:62-73: whatever the interleaving, when all executors have returned
   a record holds what it held at first plus the updates of some of its writers,
   of at least one if it has any: a race loses whole updates and nothing else. *)
THEOREM LosesUpdatesOnly == Spec => []OnlyUpdatesLost
<1>1. IInv => OnlyUpdatesLost
  <2> SUFFICES ASSUME IInv, \A r \in Requests : epc[r] = "returned", NEW k \in Records
               PROVE  IF Writers(k) = {}
                        THEN records_["db_test"][k] = InitRecord("db_test", k)
                        ELSE \E S \in SUBSET Writers(k) :
                               S # {} /\ records_["db_test"][k] = Sum(k, S)
    BY DEF OnlyUpdatesLost
  <2>1. PICK S \in SUBSET Writers(k) :
          records_["db_test"][k] = Sum(k, S) /\ (Writers(k) # {} => S # {})
    BY RecordIs
  <2> QED
    BY <2>1, SumIs
<1> QED
  BY <1>1, Invariant, PTL

(* db_start.cc:163-165: the test fails only if two requests with a common record
   were in execution at once, and passes only if no update was lost, for any
   number of requests and in whatever order the launcher ran them. *)
THEOREM VerdictIsSound == Spec => []VerdictSound
<1>1. IInv => VerdictSound
  <2> SUFFICES ASSUME IInv, pc \in {"passed", "mismatch"} PROVE VerdictSound
    BY DEF VerdictSound
  <2>1. \A r \in Requests : epc[r] = "returned"
    BY Returned DEF IInv, After
  <2>2. \A k \in Records : records_["db_simple"][k] = Sum(k, Writers(k))
    BY DEF IInv, OneByOne
  <2>3. ASSUME pc = "mismatch", overlap = {} PROVE FALSE
    <3>1. \A k \in Records : records_["db_test"][k] = Sum(k, Writers(k))
      BY <2>1, <2>3, RecordIs
    <3>2. records_["db_test"] \in [Records -> Fields]
          /\ records_["db_simple"] \in [Records -> Fields]
      BY DEF IInv, TypeOK, Databases
    <3>3. records_["db_test"] = records_["db_simple"]
      BY <2>2, <3>1, <3>2
    <3> QED
      BY <2>3, <3>3 DEF IInv, OneByOne
  <2>4. pc = "passed" => \A k \in Records : records_["db_test"][k] = Sum(k, Writers(k))
    BY <2>2 DEF IInv, OneByOne
  <2> QED
    BY <2>3, <2>4 DEF VerdictSound
<1> QED
  BY <1>1, Invariant, PTL
=============================================================================
