------------------------------ MODULE TaskPool ------------------------------
(***************************************************************************)
(* What a ThreadPool promises whoever owns it: every task offered to it is *)
(* accepted, run once, and finished; and once the owner destroys it, the   *)
(* destructor returns when every accepted task has finished.  A pool that  *)
(* lacks one of its threads promises less: it may strand a task it is      *)
(* offered, and its destructor need not return.                            *)
(***************************************************************************)
CONSTANT Tasks

VARIABLES
  status,  \* of every task: new, offered, waiting, stranded, running or done
  life,    \* of the pool: open, closing or closed
  lacking  \* whether some thread of the pool could not be created

poolVars == <<status, life, lacking>>

Init ==
  /\ status = [k \in Tasks |-> "new"]
  /\ life = "open"
  /\ lacking = FALSE

Change(k, from, to) ==
  /\ status[k] = from
  /\ status' = [status EXCEPT ![k] = to]
  /\ UNCHANGED <<life, lacking>>

(* A thread cannot be created, before any task is offered. *)
Lack ==
  /\ life = "open"
  /\ \A k \in Tasks : status[k] = "new"
  /\ lacking' = TRUE
  /\ UNCHANGED <<status, life>>

(* The owner calls AddTask, which returns some time after the task is taken. *)
Offer(k)  == life = "open" /\ Change(k, "new", "offered")
Accept(k) == life = "open" /\ Change(k, "offered", "waiting")
Strand(k) == life = "open" /\ lacking /\ Change(k, "offered", "stranded")

(* A thread of the pool runs the task. *)
Start(k)  == Change(k, "waiting", "running")
Finish(k) == Change(k, "running", "done")

(* The destructor is called, and returns. *)
Close ==
  /\ life = "open"
  /\ \A k \in Tasks : status[k] # "offered"
  /\ life' = "closing"
  /\ UNCHANGED <<status, lacking>>

Closed ==
  /\ life = "closing"
  /\ \A k \in Tasks : status[k] \in {"new", "done", "stranded"}
  /\ life' = "closed"
  /\ UNCHANGED <<status, lacking>>

Next ==
  \/ \E k \in Tasks : Offer(k) \/ Accept(k) \/ Strand(k) \/ Start(k) \/ Finish(k)
  \/ Lack \/ Close \/ Closed

Spec ==
  /\ Init
  /\ [][Next]_poolVars
  /\ \A k \in Tasks : /\ WF_poolVars(Accept(k) \/ Strand(k))
                      /\ WF_poolVars(Start(k))
                      /\ WF_poolVars(Finish(k))
  /\ WF_poolVars(~lacking /\ Closed)
=============================================================================
