------------------------ MODULE SerialSchedulerProofs ------------------------
(***************************************************************************)
(* The serial scheduler for any transactions and any store: it serves the  *)
(* requests in their order, hands every result back once, and is a serial  *)
(* database.                                                               *)
(***************************************************************************)
EXTENDS SerialScheduler, CommonFacts

Types ==
  /\ pc \in {"pop", "decide", "return"}
  /\ txn \in Txns \union {None}
  /\ pc # "pop" => txn \in Txns
  /\ txn_requests_ \in Seq(Txns)
  /\ completed_txns_ \in Seq(Txns)
  /\ committed_txns_ \in Seq(Txns)
  /\ txn_results_ \in Seq(Txns)
  /\ next_unique_id_ \in Nat \ {0}
  /\ unique_id_ \in [Txns -> Nat]
  /\ txns = [t \in Txns |-> txns[t]]
  /\ received \in SUBSET Txns

(* Transactions are numbered, and popped, in the order of their requests. *)
Waits(t)  == t \in ToSet(txn_requests_)
Popped(t) == unique_id_[t] # 0 /\ ~Waits(t)

Order ==
  /\ \A t, u \in Txns : unique_id_[t] = unique_id_[u] /\ unique_id_[t] # 0 => t = u
  /\ \A t \in Txns : unique_id_[t] < next_unique_id_
  /\ \A t \in Txns : Waits(t) => unique_id_[t] # 0
  /\ \A i, j \in DOMAIN txn_requests_ :
       i < j => unique_id_[txn_requests_[i]] < unique_id_[txn_requests_[j]]
  /\ \A t, u \in Txns : Popped(t) /\ Waits(u) => unique_id_[t] < unique_id_[u]
  /\ pc # "pop" => Popped(txn)
  /\ \A t \in Txns : Popped(t) /\ pc = "decide" /\ t # txn => unique_id_[t] < unique_id_[txn]

(* A transaction has its verdict when the scheduler has gone by it, and until
   then it has what it read from the store as it is. *)
Decided ==
  /\ \A t \in Txns : Final(t) <=> Popped(t) /\ ~(pc = "decide" /\ txn = t)
  /\ \A t \in Txns : ~Popped(t) => txns[t] = NewTxn
  /\ pc = "decide" => txns[txn] = RunOn(Program[txn], NewTxn, data_)

(* What is handed back has a verdict, and is in one place. *)
Handed ==
  /\ IsInjective(txn_results_)
  /\ ToSet(txn_results_) \cap received = {}
  /\ \A t \in ToSet(txn_results_) \union received : Final(t) /\ ~(pc = "return" /\ txn = t)

IInv == Types /\ Order /\ Decided /\ Handed

-----------------------------------------------------------------------------
LEMMA IInvInit == Init => IInv
<1> SUFFICES ASSUME Init PROVE IInv
  OBVIOUS
<1>1. ToSet(<<>>) = {} /\ IsInjective(<<>>)
  BY EmptyQueue
<1>2. Types
  BY DEF Init, Types
<1>3. /\ \A t \in Txns : unique_id_[t] = 0 /\ txns[t] = NewTxn /\ ~Waits(t) /\ ~Popped(t)
      /\ pc = "pop" /\ next_unique_id_ = 1 /\ DOMAIN txn_requests_ = {}
      /\ ToSet(txn_results_) = {} /\ received = {} /\ IsInjective(txn_results_)
  BY <1>1 DEF Init, Waits, Popped
<1>4. Order
  BY <1>3 DEF Order
<1>5. Decided
  BY <1>3, NewIs DEF Decided, Final
<1>6. Handed
  BY <1>3 DEF Handed
<1> QED
  BY <1>2, <1>4, <1>5, <1>6 DEF IInv

LEMMA RequestStep ==
  ASSUME IInv, NEW t \in Txns, NewTxnRequest(t)
  PROVE  IInv'
<1>0. /\ Types /\ Order /\ Decided /\ Handed
      /\ unique_id_[t] = 0 /\ unique_id_' = [unique_id_ EXCEPT ![t] = next_unique_id_]
      /\ next_unique_id_' = next_unique_id_ + 1
      /\ txn_requests_' = Append(txn_requests_, t)
      /\ UNCHANGED <<received, pc, txn, completed_txns_, committed_txns_, txn_results_, txns,
                     data_>>
  BY DEF IInv, NewTxnRequest
<1>1. /\ txn_requests_ \in Seq(Txns) /\ next_unique_id_ \in Nat \ {0}
      /\ unique_id_ \in [Txns -> Nat] /\ \A u \in Txns : unique_id_[u] \in Nat
  BY <1>0 DEF Types
<1>2. /\ unique_id_'[t] = next_unique_id_
      /\ \A u \in Txns \ {t} : unique_id_'[u] = unique_id_[u]
  BY <1>0, <1>1
<1>3. txn_requests_' \in Seq(Txns) /\ ToSet(txn_requests_') = ToSet(txn_requests_) \union {t}
  BY <1>0, <1>1, AppendToQueue
<1>4. Types'
  BY <1>0, <1>1, <1>3 DEF Types
<1>5. \A u \in Txns : (Waits(u)' <=> Waits(u) \/ u = t) /\ (Popped(u)' <=> Popped(u))
  BY <1>0, <1>1, <1>2, <1>3 DEF Waits, Popped
<1>6. \A i, j \in DOMAIN txn_requests_' :
        i < j => unique_id_'[txn_requests_'[i]] < unique_id_'[txn_requests_'[j]]
  <2> SUFFICES ASSUME NEW i \in DOMAIN txn_requests_', NEW j \in DOMAIN txn_requests_', i < j
               PROVE  unique_id_'[txn_requests_'[i]] < unique_id_'[txn_requests_'[j]]
    OBVIOUS
  <2>1. /\ i \in DOMAIN txn_requests_ /\ txn_requests_'[i] = txn_requests_[i]
        /\ (j \in DOMAIN txn_requests_ /\ txn_requests_'[j] = txn_requests_[j])
             \/ txn_requests_'[j] = t
    BY <1>0, <1>1, AppendInOrder
  <2>2. \A l \in DOMAIN txn_requests_ :
          txn_requests_[l] \in Txns /\ Waits(txn_requests_[l]) /\ txn_requests_[l] # t
    BY <1>0, <1>1, QueueIndex DEF Waits, Order
  <2> QED
    BY <1>0, <1>2, <2>1, <2>2 DEF Order
<1>7. pc # "pop" => txn \in Txns \ {t}
  BY <1>0 DEF Types, Order, Popped
<1>8. Order'
  <2>1. \A u \in Txns : unique_id_[u] < next_unique_id_
    BY <1>0 DEF Order
  <2>2. /\ \A u \in Txns : unique_id_'[u] < next_unique_id_'
        /\ \A u, v \in Txns : unique_id_'[u] = unique_id_'[v] /\ unique_id_'[u] # 0 => u = v
    BY <1>0, <1>1, <1>2, <2>1 DEF Order
  <2>3. \A u \in Txns : Waits(u)' => unique_id_'[u] # 0
    BY <1>0, <1>1, <1>2, <1>5 DEF Order
  <2>4. \A u, v \in Txns : Popped(u)' /\ Waits(v)' => unique_id_'[u] < unique_id_'[v]
    BY <1>0, <1>1, <1>2, <1>5, <2>1 DEF Order, Popped
  <2>5. \A u \in Txns : Popped(u)' /\ pc = "decide" /\ u # txn => unique_id_'[u] < unique_id_'[txn]
    BY <1>0, <1>1, <1>2, <1>5, <1>7 DEF Order, Popped
  <2>6. pc # "pop" => Popped(txn)'
    BY <1>0, <1>5, <1>7 DEF Order
  <2> QED
    BY <1>0, <1>6, <2>2, <2>3, <2>4, <2>5, <2>6 DEF Order
<1>9. Decided'
  BY <1>0, <1>5 DEF Decided, Final
<1>10. Handed'
  BY <1>0 DEF Handed, Final
<1> QED
  BY <1>4, <1>8, <1>9, <1>10 DEF IInv

LEMMA ResultStep ==
  ASSUME IInv, GetTxnResult
  PROVE  /\ IInv'
         /\ \E h \in Txns : Final(h) /\ h \notin received /\ received' = received \union {h}
<1>0. /\ Types /\ Order /\ Decided /\ Handed /\ txn_results_ \in Seq(Txns)
      /\ txn_results_ # <<>> /\ txn_results_' = Tail(txn_results_)
      /\ UNCHANGED <<next_unique_id_, unique_id_, pc, txn, txn_requests_, completed_txns_,
                     committed_txns_, txns, data_>>
  BY DEF IInv, Types, GetTxnResult
<1>1. PICK h \in Txns : /\ h = Head(txn_results_) /\ h \in ToSet(txn_results_)
                        /\ received' = received \union {h}
  BY <1>0, TakeFromQueue DEF GetTxnResult
<1>2. /\ txn_results_' \in Seq(Txns) /\ IsInjective(txn_results_')
      /\ ToSet(txn_results_') = ToSet(txn_results_) \ {h}
  BY <1>0, <1>1, TakeFromQueue DEF Handed
<1>3. \A t \in Txns : (Waits(t)' <=> Waits(t)) /\ (Popped(t)' <=> Popped(t))
                      /\ (Final(t)' <=> Final(t))
  BY <1>0 DEF Waits, Popped, Final
<1>4. Types'
  BY <1>0, <1>1, <1>2 DEF Types
<1>5. Order'
  BY <1>0, <1>3 DEF Order, Types
<1>6. Decided'
  BY <1>0, <1>3 DEF Decided
<1>7. Handed'
  <2>1. ToSet(txn_results_') \union received' = ToSet(txn_results_) \union received
    BY <1>1, <1>2
  <2>2. ToSet(txn_results_') \cap received' = {}
    BY <1>0, <1>1, <1>2 DEF Handed
  <2> QED
    BY <1>0, <1>2, <2>1, <2>2 DEF Handed, Final
<1>8. Final(h) /\ h \notin received
  BY <1>0, <1>1 DEF Handed
<1> QED
  BY <1>1, <1>4, <1>5, <1>6, <1>7, <1>8 DEF IInv

LEMMA ExecuteStep ==
  ASSUME IInv, ExecuteNext
  PROVE  /\ IInv'
         /\ \E h \in Txns : /\ \A t \in Txns \ {h} : txns'[t] = txns[t]
                            /\ ~Final(h) /\ ~Final(h)'
<1>0. /\ Types /\ Order /\ Decided /\ Handed /\ pc = "pop" /\ pc' = "decide"
      /\ txn_requests_ \in Seq(Txns) /\ txn_requests_ # <<>>
      /\ txn_requests_' = Tail(txn_requests_)
      /\ \A t \in Txns : unique_id_[t] \in Nat
      /\ UNCHANGED <<next_unique_id_, unique_id_, received, committed_txns_, txn_results_, data_>>
  BY DEF IInv, Types, ExecuteNext, clientVars
<1>1. PICK h \in Txns : /\ h = Head(txn_requests_) /\ h = txn' /\ Waits(h)
                        /\ txns' = [txns EXCEPT ![h] = RunOn(Program[h], txns[h], data_)]
                        /\ completed_txns_' = Append(completed_txns_, h)
  BY <1>0, TakeFromQueue DEF ExecuteNext, Waits
<1>2. /\ txn_requests_' \in Seq(Txns)
      /\ ToSet(txn_requests_) = ToSet(txn_requests_') \union {h}
  BY <1>0, <1>1, TakeFromQueue
<1>3. \A t \in Txns : Waits(t)' => unique_id_[h] < unique_id_[t]
  <2> SUFFICES ASSUME NEW t \in Txns, t \in ToSet(Tail(txn_requests_))
               PROVE  unique_id_[h] < unique_id_[t]
    BY <1>0 DEF Waits
  <2>1. PICK a, b \in DOMAIN txn_requests_ :
          a < b /\ txn_requests_[a] = h /\ txn_requests_[b] = t
    BY <1>0, <1>1, TakeInOrder
  <2> QED
    BY <1>0, <2>1 DEF Order
<1>4. \A t \in Txns : Waits(t)' <=> Waits(t) /\ t # h
  BY <1>0, <1>2, <1>3 DEF Waits
<1>5. \A t \in Txns : Popped(t)' <=> Popped(t) \/ t = h
  BY <1>0, <1>1, <1>4 DEF Popped, Order
<1>6. /\ txns[h] = NewTxn
      /\ txns'[h] = RunOn(Program[h], NewTxn, data_)
      /\ \A t \in Txns \ {h} : txns'[t] = txns[t]
      /\ txns' = [t \in Txns |-> txns'[t]]
  <2>1. ~Popped(h)
    BY <1>1 DEF Popped
  <2>2. txns[h] = NewTxn
    BY <1>0, <2>1 DEF Decided
  <2>3. txns = [t \in Txns |-> txns[t]]
    BY <1>0 DEF Types
  <2> QED
    BY <1>1, <2>2, <2>3
<1>7. ~Final(h) /\ ~Final(h)' /\ \A t \in Txns \ {h} : Final(t)' <=> Final(t)
  BY <1>6, NewIs, RunOnIs DEF Final
<1>8. Types'
  <2>1. completed_txns_' \in Seq(Txns)
    BY <1>0, <1>1, AppendToQueue DEF Types
  <2> QED
    BY <1>0, <1>1, <1>2, <1>6, <2>1 DEF Types
<1>9. Order'
  <2>1. \A i, j \in DOMAIN txn_requests_' :
          i < j => unique_id_[txn_requests_'[i]] < unique_id_[txn_requests_'[j]]
    BY <1>0, TakeInOrder DEF Order
  <2>2. \A t, u \in Txns : Popped(t)' /\ Waits(u)' => unique_id_[t] < unique_id_[u]
    BY <1>0, <1>3, <1>4, <1>5 DEF Order
  <2>3. \A t \in Txns : Popped(t)' /\ t # h => unique_id_[t] < unique_id_[h]
    BY <1>0, <1>1, <1>5 DEF Order
  <2>4. \A t \in Txns : Waits(t)' => unique_id_[t] # 0
    BY <1>0, <1>4 DEF Order
  <2> QED
    BY <1>0, <1>1, <1>5, <2>1, <2>2, <2>3, <2>4 DEF Order
<1>10. Decided'
  BY <1>0, <1>1, <1>5, <1>6, <1>7 DEF Decided
<1>11. Handed'
  <2>1. \A t \in ToSet(txn_results_) \union received : t \in Txns \ {h}
    BY <1>0, <1>7, QueueIndex DEF Handed, Types
  <2> QED
    BY <1>0, <1>7, <2>1 DEF Handed
<1> QED
  BY <1>6, <1>7, <1>8, <1>9, <1>10, <1>11 DEF IInv

LEMMA DecideStep ==
  ASSUME IInv, Decide
  PROVE  /\ IInv'
         /\ \E h \in Txns :
              LET ran == RunOn(Program[h], NewTxn, data_)
              IN  /\ Popped(h) /\ ~Final(h) /\ Final(h)' /\ txns'[h] = Verdict(ran)
                  /\ \A t \in Txns \ {h} : txns'[t] = txns[t]
                  /\ data_' = IF ran.status_ = "COMPLETED_C" THEN Applied(ran, data_) ELSE data_
<1>0. /\ Types /\ Order /\ Decided /\ Handed /\ pc = "decide"
      /\ UNCHANGED <<next_unique_id_, unique_id_, received, txn, txn_requests_,
                     completed_txns_, txn_results_>>
  BY DEF IInv, Decide, clientVars
<1>1. PICK h \in Txns : h = txn /\ Popped(h)
  BY <1>0 DEF Types, Order
<1>2. PICK ran : ran = RunOn(Program[h], NewTxn, data_)
  OBVIOUS
<1>3. /\ IsTxn(ran) /\ txns[h] = ran
      /\ ran.status_ = "COMPLETED_C" \/ ran.status_ = "COMPLETED_A"
  <2>1. txns[h] = ran
    BY <1>0, <1>1, <1>2 DEF Decided
  <2>2. IsTxn(ran) /\ ran.status_ \in {"COMPLETED_C", "COMPLETED_A"}
    BY <1>2, RunOnIs
  <2> QED
    BY <2>1, <2>2
<1>4. /\ pc' = "return"
      /\ txns' = [txns EXCEPT ![h] = Verdict(ran)]
      /\ data_' = IF ran.status_ = "COMPLETED_C" THEN Applied(ran, data_) ELSE data_
      /\ committed_txns_' = committed_txns_ \/ committed_txns_' = Append(committed_txns_, h)
  BY <1>1, <1>3 DEF Decide
<1>5. /\ txns'[h] = Verdict(ran) /\ \A t \in Txns \ {h} : txns'[t] = txns[t]
      /\ txns' = [t \in Txns |-> txns'[t]]
  <2>1. txns = [t \in Txns |-> txns[t]]
    BY <1>0 DEF Types
  <2> QED
    BY <1>4, <2>1
<1>6. Verdict(ran).status_ \in {"COMMITTED", "ABORTED"}
  BY <1>3 DEF Verdict, IsTxn
<1>7. ~Final(h) /\ Final(h)' /\ \A t \in Txns \ {h} : Final(t)' <=> Final(t)
  BY <1>3, <1>5, <1>6 DEF Final
<1>8. \A t \in Txns : (Waits(t)' <=> Waits(t)) /\ (Popped(t)' <=> Popped(t))
  BY <1>0 DEF Waits, Popped
<1>9. Types'
  <2>1. committed_txns_' \in Seq(Txns)
    <3>1. committed_txns_ \in Seq(Txns)
      BY <1>0 DEF Types
    <3> QED
      BY <1>4, <3>1, AppendToQueue
  <2> QED
    BY <1>0, <1>4, <1>5, <2>1 DEF Types
<1>10. Order'
  BY <1>0, <1>1, <1>4, <1>8 DEF Order
<1>11. Decided'
  <2>1. \A t \in Txns : Final(t)' <=> Popped(t)'
    BY <1>0, <1>1, <1>7, <1>8 DEF Decided
  <2>2. \A t \in Txns : ~Popped(t)' => txns'[t] = NewTxn
    BY <1>0, <1>1, <1>5, <1>8 DEF Decided
  <2> QED
    BY <1>0, <1>4, <2>1, <2>2 DEF Decided
<1>12. Handed'
  <2>1. \A t \in ToSet(txn_results_) \union received : t \in Txns \ {h}
    BY <1>0, <1>7, QueueIndex DEF Handed, Types
  <2> QED
    BY <1>0, <1>1, <1>7, <2>1 DEF Handed
<1>13. IInv'
  BY <1>9, <1>10, <1>11, <1>12 DEF IInv
<1> QED
  BY <1>1, <1>2, <1>4, <1>5, <1>7, <1>13

LEMMA ReturnStep ==
  ASSUME IInv, ReturnResult
  PROVE  IInv'
<1>0. /\ Types /\ Order /\ Decided /\ Handed /\ pc = "return" /\ pc' = "pop"
      /\ txn_results_ \in Seq(Txns)
      /\ UNCHANGED <<next_unique_id_, unique_id_, received, txn, txn_requests_,
                     completed_txns_, committed_txns_, txns, data_>>
  BY DEF IInv, Types, ReturnResult, clientVars
<1>1. PICK h \in Txns : /\ h = txn /\ Popped(h) /\ h \notin ToSet(txn_results_) \union received
                        /\ txn_results_' = Append(txn_results_, h)
  BY <1>0 DEF Types, Order, Handed, ReturnResult
<1>2. /\ txn_results_' \in Seq(Txns) /\ IsInjective(txn_results_')
      /\ ToSet(txn_results_') = ToSet(txn_results_) \union {h}
  BY <1>0, <1>1, AppendToQueue DEF Handed
<1>3. \A t \in Txns : /\ (Waits(t)' <=> Waits(t)) /\ (Popped(t)' <=> Popped(t))
                      /\ Final(t)' <=> Final(t)
  BY <1>0 DEF Waits, Popped, Final
<1>4. Types'
  BY <1>0, <1>2 DEF Types
<1>5. Order'
  BY <1>0, <1>3 DEF Order
<1>6. Decided'
  BY <1>0, <1>3 DEF Decided
<1>7. Final(h)
  BY <1>0, <1>1 DEF Decided
<1>8. Handed'
  BY <1>0, <1>1, <1>2, <1>7 DEF Handed, Final
<1> QED
  BY <1>4, <1>5, <1>6, <1>8 DEF IInv

LEMMA IInvStutter ==
  ASSUME IInv, UNCHANGED vars
  PROVE  IInv'
<1>1. UNCHANGED <<pc, txn, txn_requests_, completed_txns_, committed_txns_, txn_results_,
                  next_unique_id_, unique_id_, txns, data_, received>>
  BY DEF vars, clientVars
<1>2. \A t : (Waits(t)' <=> Waits(t)) /\ (Popped(t)' <=> Popped(t)) /\ (Final(t)' <=> Final(t))
  BY <1>1 DEF Waits, Popped, Final
<1>3. Types'
  BY <1>1 DEF IInv, Types
<1>4. Order'
  BY <1>1, <1>2 DEF IInv, Order
<1>5. Decided' /\ Handed'
  BY <1>1, <1>2 DEF IInv, Decided, Handed
<1> QED
  BY <1>3, <1>4, <1>5 DEF IInv

LEMMA IInvStep == IInv /\ [Next]_vars => IInv'
  BY RequestStep, ResultStep, ExecuteStep, DecideStep, ReturnStep, IInvStutter
  DEF Next, SchedulerStep

LEMMA Invariance == Spec => []IInv
  BY IInvInit, IInvStep, PTL DEF Spec

-----------------------------------------------------------------------------
(* txn_processor.cc:73-76, 118-146: requests are served in the order of their
   numbers, and none is returned before it has a verdict. *)
THEOREM ServesInOrder == Spec => []ServedInOrder
<1>1. IInv => ServedInOrder
  <2> SUFFICES ASSUME IInv PROVE ServedInOrder
    OBVIOUS
  <2>0. /\ Types /\ Order /\ Decided /\ Handed /\ \A t \in Txns : unique_id_[t] \in Nat
    BY DEF IInv, Types
  <2>1. ASSUME NEW t \in Txns, NEW u \in Txns, unique_id_[t] \in 1..(unique_id_[u] - 1), Final(u)
        PROVE  Final(t)
    <3>1. /\ unique_id_[t] # 0 /\ unique_id_[t] < unique_id_[u] /\ ~(unique_id_[u] < unique_id_[t])
      BY <2>0, <2>1
    <3>2. Popped(u) /\ ~(pc = "decide" /\ txn = u)
      BY <2>0, <2>1 DEF Decided
    <3>3. ~Waits(t)
      BY <2>0, <3>1, <3>2 DEF Order
    <3>4. ~(pc = "decide" /\ txn = t)
      BY <2>0, <3>1, <3>2 DEF Order
    <3> QED
      BY <2>0, <3>1, <3>3, <3>4 DEF Decided, Popped
  <2> QED
    BY <2>0, <2>1 DEF ServedInOrder, Handed
<1> QED
  BY <1>1, Invariance, PTL

-----------------------------------------------------------------------------
(* TypeOK: what the programs compute stays among Values. *)
ValuesClosed ==
  /\ Closed(Values)
  /\ \A t \in Txns : PutsIn(Program[t], Values)
  /\ \A k \in DOMAIN InitialStore : InitialStore[k] \in Values

InStore(f) == DOMAIN f \subseteq Keys /\ \A k \in DOMAIN f : f[k] \in Values

ValueTypes ==
  /\ \A t \in Txns : /\ IsTxn(txns[t]) /\ txns[t].status_ \in Status
                     /\ txns[t].reads_ \in Stores(Keys, Values)
                     /\ txns[t].writes_ \in Stores(Keys, Values)
  /\ InStore(data_)

LEMMA ValuesStep ==
  ASSUME ValuesClosed, IInv, ValueTypes, [Next]_vars
  PROVE  ValueTypes'
<1>0. Types /\ Decided
  BY DEF IInv
<1>1. CASE ExecuteNext
  <2>1. PICK h \in Txns : /\ h = Head(txn_requests_) /\ Waits(h)
                          /\ txns' = [txns EXCEPT ![h] = RunOn(Program[h], txns[h], data_)]
                          /\ data_' = data_
    BY <1>0, <1>1, TakeFromQueue DEF ExecuteNext, Types, Waits
  <2>2. PICK ran : ran = RunOn(Program[h], NewTxn, data_)
    OBVIOUS
  <2>3. txns[h] = NewTxn
    BY <1>0, <2>1 DEF Decided, Popped
  <2>4. KeySet(Program[h]) \subseteq Keys /\ Closed(Values) /\ PutsIn(Program[h], Values)
    BY SerialSchedulerAssumption DEF ValuesClosed
  <2>5. \A k \in DOMAIN data_ : data_[k] \in Values
    BY DEF ValueTypes, InStore
  <2>6. ran.reads_ \in Stores(Keys, Values) /\ ran.writes_ \in Stores(Keys, Values)
    BY <2>2, <2>4, <2>5, RunOnValues
  <2>7. IsTxn(ran) /\ ran.status_ \in Status
    BY <2>2, RunOnIs DEF Status
  <2>8. txns'[h] = ran /\ \A t \in Txns \ {h} : txns'[t] = txns[t]
    <3>1. txns = [t \in Txns |-> txns[t]]
      BY <1>0 DEF Types
    <3> QED
      BY <2>1, <2>2, <2>3, <3>1
  <2> QED
    BY <2>1, <2>6, <2>7, <2>8 DEF ValueTypes
<1>2. CASE Decide
  <2>1. PICK h \in Txns :
          LET ran == RunOn(Program[h], NewTxn, data_)
          IN  /\ txns'[h] = Verdict(ran) /\ h = txn /\ ran = txns[h]
              /\ \A t \in Txns \ {h} : txns'[t] = txns[t]
              /\ data_' = IF ran.status_ = "COMPLETED_C" THEN Applied(ran, data_) ELSE data_
    <3>1. PICK h \in Txns : h = txn /\ txns[h] = RunOn(Program[h], NewTxn, data_)
      BY <1>0, <1>2 DEF Types, Decided, Decide
    <3>2. txns[h].status_ \in {"COMPLETED_C", "COMPLETED_A"}
      BY <3>1, RunOnIs
    <3>3. txns = [t \in Txns |-> txns[t]]
      BY <1>0 DEF Types
    <3>4. txns' = [txns EXCEPT ![h] = Verdict(txns[h])]
      BY <1>2, <3>1, <3>2 DEF Decide
    <3>5. data_' = IF txns[h].status_ = "COMPLETED_C" THEN Applied(txns[h], data_) ELSE data_
      BY <1>2, <3>1 DEF Decide
    <3>6. txns'[h] = Verdict(txns[h]) /\ \A t \in Txns \ {h} : txns'[t] = txns[t]
      BY <3>3, <3>4
    <3> QED
      BY <3>1, <3>5, <3>6
  <2>2. PICK ran : /\ ran = txns[h] /\ txns'[h] = Verdict(ran)
                   /\ data_' = data_ \/ data_' = Over(ran.writes_, data_)
    BY <2>1 DEF Applied
  <2>3. IsTxn(ran) /\ ran.reads_ \in Stores(Keys, Values) /\ ran.writes_ \in Stores(Keys, Values)
    BY <2>2 DEF ValueTypes
  <2>4. /\ IsTxn(txns'[h]) /\ txns'[h].status_ \in Status
        /\ txns'[h].reads_ \in Stores(Keys, Values) /\ txns'[h].writes_ \in Stores(Keys, Values)
    BY <2>2, <2>3 DEF Verdict, IsTxn, Status
  <2>5. InStore(data_')
    <3>1. InStore(data_)
      BY DEF ValueTypes
    <3>2. InStore(ran.writes_)
      BY <2>3, StoreIs DEF InStore
    <3>3. InStore(Over(ran.writes_, data_))
      BY <3>1, <3>2 DEF InStore, Over
    <3> QED
      BY <2>2, <3>1, <3>3
  <2> QED
    BY <2>1, <2>4, <2>5 DEF ValueTypes, InStore
<1>3. CASE UNCHANGED <<txns, data_>>
  BY <1>3 DEF ValueTypes, InStore
<1> QED
  BY <1>1, <1>2, <1>3 DEF Next, SchedulerStep, NewTxnRequest, GetTxnResult, ReturnResult, vars

(* txn_processor.cc:118-146 and txn_types.h: every variable keeps its type, and
   DIE (line 139) never ends the process.  What a program writes is a value it was
   constructed with or an increment, so the values have to be closed under these. *)
THEOREM TypeCorrect ==
  ASSUME ValuesClosed
  PROVE  Spec => []TypeOK
<1>1. Init => ValueTypes
  <2> SUFFICES ASSUME Init PROVE ValueTypes
    OBVIOUS
  <2>1. data_ = InitialStore /\ \A t \in Txns : txns[t] = NewTxn
    BY DEF Init
  <2>2. InStore(data_)
    BY <2>1, SerialSchedulerAssumption DEF ValuesClosed, InStore
  <2> QED
    BY <2>1, <2>2, NewIs, StoreIs DEF ValueTypes, Status
<1>2. IInv /\ ValueTypes /\ [Next]_vars => ValueTypes'
  BY ValuesStep
<1>3. IInv /\ ValueTypes => TypeOK
  <2> SUFFICES ASSUME IInv, ValueTypes PROVE TypeOK
    OBVIOUS
  <2>1. txns \in [Txns -> TxnRecords(Keys, Values)]
    <3>1. ASSUME NEW t \in Txns PROVE txns[t] \in TxnRecords(Keys, Values)
      <4>1. txns[t] = [status_ |-> txns[t].status_, reads_ |-> txns[t].reads_,
                       writes_ |-> txns[t].writes_]
        BY DEF ValueTypes, IsTxn
      <4> QED
        BY <4>1 DEF TxnRecords, Stores, ValueTypes
    <3>2. txns = [t \in Txns |-> txns[t]]
      BY DEF IInv, Types
    <3> QED
      BY <3>1, <3>2
  <2> QED
    BY <2>1 DEF IInv, Types, ValueTypes, InStore, TypeOK
<1> QED
  BY <1>1, <1>2, <1>3, Invariance, PTL DEF Spec

-----------------------------------------------------------------------------
(* The processor implements the serial database: a transaction takes effect when
   the scheduler goes by its verdict. *)

(* The definitions of TxnTypes are the same in the database. *)
LEMMA DatabaseTypes ==
  /\ Database!NewTxn = NewTxn
  /\ \A x : Database!Verdict(x) = Verdict(x)
  /\ \A x, store : Database!Applied(x, store) = Applied(x, store)
  /\ \A p, x, store : Database!RunOn(p, x, store) = RunOn(p, x, store)
<1>1. Database!NoRecords = NoRecords
  BY DEF Database!NoRecords, NoRecords
<1>2. \A f, g : Database!Over(f, g) = Over(f, g)
  BY DEF Database!Over, Over
<1>3. \A p : Database!ReadSet(p) = ReadSet(p) /\ Database!WriteSet(p) = WriteSet(p)
  BY DEF Database!ReadSet, ReadSet, Database!WriteSet, WriteSet
<1>4. \A p : Database!KeySet(p) = KeySet(p)
  BY <1>3 DEF Database!KeySet, KeySet
<1>5. \A x, k : Database!CanRead(x, k) <=> CanRead(x, k)
  BY DEF Database!CanRead, CanRead
<1>6. \A x, m : Database!WriteAll(x, m) = WriteAll(x, m)
  BY <1>2 DEF Database!WriteAll, WriteAll
<1>7. \A x, keys : Database!Incremented(x, keys) = Incremented(x, keys)
  BY <1>5 DEF Database!Incremented, Incremented
<1>8. \A p, x : Database!Commits(p, x) <=> Commits(p, x)
  BY <1>5 DEF Database!Commits, Commits
<1>9. \A p, x : Database!Writes(p, x) = Writes(p, x)
  BY <1>1, <1>7 DEF Database!Writes, Writes
<1>10. \A p, x : Database!Run(p, x) = Run(p, x)
  BY <1>6, <1>8, <1>9 DEF Database!Run, Run
<1>11. \A p, x, store : Database!ReadAll(p, x, store) = ReadAll(p, x, store)
  BY <1>2, <1>4 DEF Database!ReadAll, ReadAll
<1>12. \A p, x, store : Database!RunOn(p, x, store) = RunOn(p, x, store)
  BY <1>10, <1>11 DEF Database!RunOn, RunOn
<1>13. \A x, store : Database!Applied(x, store) = Applied(x, store)
  BY <1>2 DEF Database!Applied, Applied
<1>14. \A x : Database!Verdict(x) = Verdict(x)
  BY DEF Database!Verdict, Verdict
<1>15. Database!NewTxn = NewTxn
  BY <1>1 DEF Database!NewTxn, NewTxn
<1> QED
  BY <1>12, <1>13, <1>14, <1>15

Requests == {t \in Txns : unique_id_[t] # 0}

Outcome(t) == IF Final(t) THEN txns[t] ELSE NewTxn

LEMMA DatabaseInit == Init => Database!Init
<1> SUFFICES ASSUME Init PROVE Database!Init
  OBVIOUS
<1>1. data_ = InitialStore /\ received = {} /\ Requests = {}
  BY DEF Init, Requests
<1>2. [t \in Txns |-> Outcome(t)] = [t \in Txns |-> NewTxn]
  BY NewIs DEF Init, Outcome, Final
<1> QED
  BY <1>1, <1>2, DatabaseTypes DEF Database!Init, Requests, Outcome

LEMMA Unnoticed ==
  ASSUME data_' = data_, Requests' = Requests, received' = received,
         \A t \in Txns : Outcome(t)' = Outcome(t)
  PROVE  UNCHANGED Database!dbVars
<1>1. [t \in Txns |-> Outcome(t)]' = [t \in Txns |-> Outcome(t)]
  OBVIOUS
<1> QED
  BY <1>1 DEF Database!dbVars, Requests, Outcome

LEMMA DatabaseStep ==
  ASSUME IInv, [Next]_vars
  PROVE  [Database!Next]_(Database!dbVars)
<1>0. Types /\ Order /\ Decided
  BY DEF IInv
<1>1. ASSUME NEW t \in Txns, NewTxnRequest(t) PROVE Database!Next
  <2>1. t \notin Requests /\ Requests' = Requests \union {t}
    BY <1>0, <1>1 DEF Types, NewTxnRequest, Requests
  <2>2. [u \in Txns |-> Outcome(u)]' = [u \in Txns |-> Outcome(u)]
    BY <1>1 DEF NewTxnRequest, Outcome, Final
  <2>3. Database!Request(t)
    BY <1>1, <2>1, <2>2 DEF Database!Request, NewTxnRequest, Requests, Outcome
  <2> QED
    BY <2>3 DEF Database!Next
<1>2. CASE GetTxnResult
  <2>1. PICK h \in Txns : Final(h) /\ h \notin received /\ received' = received \union {h}
    BY <1>2, ResultStep
  <2>2. Outcome(h) # NewTxn
    BY <2>1, NewIs DEF Outcome, Final
  <2>3. /\ [u \in Txns |-> Outcome(u)]' = [u \in Txns |-> Outcome(u)]
        /\ data_' = data_ /\ Requests' = Requests
    BY <1>2 DEF GetTxnResult, Outcome, Final, Requests
  <2>4. Database!Deliver(h)
    BY <2>1, <2>2, <2>3, DatabaseTypes DEF Database!Deliver, Requests, Outcome
  <2> QED
    BY <2>4 DEF Database!Next
<1>3. CASE ExecuteNext
  <2>1. PICK h \in Txns : /\ \A t \in Txns \ {h} : txns'[t] = txns[t]
                          /\ ~Final(h) /\ ~Final(h)'
    BY <1>3, ExecuteStep
  <2>2. \A t \in Txns : Outcome(t)' = Outcome(t)
    BY <2>1 DEF Outcome, Final
  <2> QED
    BY <1>3, <2>2, Unnoticed DEF ExecuteNext, clientVars, Requests
<1>4. CASE Decide
  <2>1. PICK h \in Txns :
              LET ran == RunOn(Program[h], NewTxn, data_)
              IN  /\ Popped(h) /\ ~Final(h) /\ Final(h)' /\ txns'[h] = Verdict(ran)
                  /\ \A t \in Txns \ {h} : txns'[t] = txns[t]
                  /\ data_' = IF ran.status_ = "COMPLETED_C" THEN Applied(ran, data_) ELSE data_
    BY <1>4, DecideStep
  <2>2. PICK ran : ran = RunOn(Program[h], NewTxn, data_)
    OBVIOUS
  <2>3. [t \in Txns |-> Outcome(t)]' = [[t \in Txns |-> Outcome(t)] EXCEPT ![h] = Verdict(ran)]
    BY <2>1, <2>2 DEF Outcome, Final
  <2>4. Outcome(h) = NewTxn /\ h \in Requests
    BY <2>1 DEF Outcome, Popped, Requests
  <2>5. received' = received /\ Requests' = Requests
    BY <1>4 DEF Decide, clientVars, Requests
  <2>6. Database!Execute(h)
    BY <2>1, <2>2, <2>3, <2>4, <2>5, DatabaseTypes DEF Database!Execute, Requests, Outcome
  <2> QED
    BY <2>6 DEF Database!Next
<1>5. CASE UNCHANGED <<txns, data_, received, unique_id_>>
  BY <1>5, Unnoticed DEF Outcome, Final, Requests
<1> QED
  BY <1>1, <1>2, <1>3, <1>4, <1>5 DEF Next, SchedulerStep, ReturnResult, vars, clientVars

(* txn_processor.cc:276-278, 303-305: the modes that run the serial scheduler are
   serial databases: every transaction is run once, against what those that
   committed before it have written, gets one verdict and is handed back once. *)
THEOREM RefinesSerialDatabaseSafety ==
  Spec => Database!Init /\ [][Database!Next]_(Database!dbVars)
<1>1. IInv /\ [Next]_vars => [Database!Next]_(Database!dbVars)
  BY DatabaseStep
<1> QED
  BY <1>1, DatabaseInit, Invariance, PTL DEF Spec
===============================================================================
