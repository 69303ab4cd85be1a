---------------------------- MODULE RejoinProofs ----------------------------
(***************************************************************************)
(* Proofs about Rejoin for any number of members, writes, requests of the  *)
(* operator and failing calls.                                             *)
(*                                                                         *)
(* First a step's types; then who the tasks work on, which keeps a rejoin  *)
(* away from the primary; then what each member holds beside the log of    *)
(* the primary, which keeps a rejoined member clean.                       *)
(***************************************************************************)
EXTENDS Rejoin, FleetProofs

USE FleetAssumption, RejoinAssumption

-----------------------------------------------------------------------------
(* Types.                                                                  *)

(* A task that runs is about two nodes, its counters are in range, and a   *)
(* node's own task is about that node; only such a task watches.           *)
GoodTask(a, t) ==
    /\ t \in Task
    /\ t.at # "none" => t.node \in Node /\ t.old \in Node
    /\ t.at # "none" /\ a \in Node => t.node = a
    /\ t.at \in {"watch", "watch_primary"} => a \in Node
    /\ t.at # "slot" => t.errant <= 1
    /\ t.at = "watch_primary" => t.reads # VerifyReads

GoodMaint(m) ==
    /\ m \in Maint
    /\ m.at # "none" => m.node \in Node /\ m.donor \in Node

CtlTypes ==
    /\ primary \in Node
    /\ promoted \in Node \cup {NoNode}
    /\ elections \in 0 .. MaxElections
    /\ halted \in BOOLEAN
    /\ asked \in Node \cup {NoNode}
    /\ asks \in 0 .. MaxAsks
    /\ fails \in 0 .. MaxFails

TaskTypes ==
    /\ task \in [Actor -> Task]
    /\ \A a \in Actor : GoodTask(a, task[a])

TypeInv ==
    /\ FleetTypeOK
    /\ CtlTypes
    /\ TaskTypes
    /\ GoodMaint(maint)

(* A task as it moves on, and the update of one task.                      *)
Moved(t, step, S) == [t EXCEPT !.at = step, !.read = S]
Sets(a, t) == task' = [task EXCEPT ![a] = t]

(* SetsType: the update of one task leaves the others alone. *)
LEMMA SetsType ==
  ASSUME NEW a \in Actor, NEW t, TaskTypes, GoodTask(a, t), Sets(a, t)
  PROVE  /\ TaskTypes'
         /\ task'[a] = t
         /\ \A b \in Actor \ {a} : task'[b] = task[b]
<1>1. task' \in [Actor -> Task]
  BY DEF TaskTypes, Sets, GoodTask
<1>2. task'[a] = t /\ \A b \in Actor \ {a} : task'[b] = task[b]
  BY DEF TaskTypes, Sets
<1>3. \A b \in Actor : GoodTask(b, task'[b])
  BY <1>2 DEF TaskTypes
<1> QED BY <1>1, <1>2, <1>3 DEF TaskTypes

(* MovesSets: a task that moves on, ends or begins is such an update. *)
LEMMA MovesSets ==
  ASSUME NEW a \in Actor, TaskTypes
  PROVE  /\ \A step : Goes(a, step) => Sets(a, Moved(task[a], step, {}))
         /\ \A step, S : Reads(a, step, S) => Sets(a, Moved(task[a], step, S))
         /\ Ends(a) => Sets(a, NoTask)
  BY DEF TaskTypes, Task, Goes, Reads, Ends, Sets, Moved

(* TaskFacts: what a task is after each of them. *)
LEMMA TaskFacts ==
  ASSUME TaskTypes, CtlTypes, NEW a \in Actor
  PROVE  /\ GoodTask(a, NoTask) /\ NoTask.at = "none"
         /\ \A n \in Node : \A step \in {"second", "look"} :
              /\ a \in {n, Operator} => GoodTask(a, Begin(step, n))
              /\ Begin(step, n).at = step
              /\ Begin(step, n).node = n
              /\ Begin(step, n).old = primary
         /\ \A step \in TaskStep : \A S \in SUBSET Txn :
              /\ Moved(task[a], step, S).at = step
              /\ Moved(task[a], step, S).node = task[a].node
              /\ Moved(task[a], step, S).old = task[a].old
              /\ Moved(task[a], step, S).read = S
              /\ /\ task[a].at \notin {"none", "slot"}
                 /\ step \in {"watch", "watch_primary"} => a \in Node
                 /\ step = "watch_primary" => task[a].reads # VerifyReads
                 => GoodTask(a, Moved(task[a], step, S))
<1>1. GoodTask(a, NoTask) /\ NoTask.at = "none"
  BY DEF GoodTask, NoTask, Task, TaskStep
<1>2. ASSUME NEW n \in Node, NEW step \in {"second", "look"}
      PROVE  /\ a \in {n, Operator} => GoodTask(a, Begin(step, n))
             /\ Begin(step, n).at = step
             /\ Begin(step, n).node = n
             /\ Begin(step, n).old = primary
  <2>1. NoTask \in Task /\ NoTask.errant = 0 /\ 0 <= 1 /\ primary \in Node
    BY DEF NoTask, Task, TaskStep, CtlTypes
  <2>2. step \in TaskStep /\ step \notin {"none", "watch", "watch_primary"}
    BY DEF TaskStep
  <2>3. /\ Begin(step, n).at = step
        /\ Begin(step, n).node = n
        /\ Begin(step, n).old = primary
        /\ Begin(step, n).errant = 0
        /\ Begin(step, n) \in Task
    BY <2>1, <2>2 DEF Begin, Task
  <2> QED BY <2>1, <2>2, <2>3 DEF GoodTask
<1>3. ASSUME NEW step \in TaskStep, NEW S \in SUBSET Txn
      PROVE  /\ Moved(task[a], step, S).at = step
             /\ Moved(task[a], step, S).node = task[a].node
             /\ Moved(task[a], step, S).old = task[a].old
             /\ Moved(task[a], step, S).read = S
             /\ /\ task[a].at \notin {"none", "slot"}
                /\ step \in {"watch", "watch_primary"} => a \in Node
                /\ step = "watch_primary" => task[a].reads # VerifyReads
                => GoodTask(a, Moved(task[a], step, S))
  <2>1. task[a] \in Task /\ GoodTask(a, task[a])
    BY DEF TaskTypes
  <2> QED BY <2>1 DEF GoodTask, Moved, Task
<1> QED BY <1>1, <1>2, <1>3

(* StateTypes: the fence and the rebuild take node states to node states. *)
LEMMA StateTypes ==
  ASSUME NEW s \in NodeState, NEW data \in SUBSET Txn
  PROVE  /\ FenceDone(s) \subseteq NodeState
         /\ Released(s) \in NodeState
         /\ Cloned(s, data) \in NodeState
         /\ CloneFailed(s) \in NodeState
<1>1. FenceDone(s) \subseteq NodeState
  BY HandlerTypes DEF FenceDone
<1>2. Released(s) \in NodeState
  BY DEF Released, NodeState
<1>3. Cloned(s, data) \in NodeState
  BY DEF Cloned, NodeState
<1>4. CloneFailed(s) \in NodeState
  BY DEF CloneFailed, NodeState
<1> QED BY <1>1, <1>2, <1>3, <1>4

(* FailType: the count of the failures stays in its bounds. *)
LEMMA FailType ==
  ASSUME CtlTypes, Fail \/ UNCHANGED fails
  PROVE  fails' \in 0 .. MaxFails
  BY DEF CtlTypes, Fail

(* NodeKept: what an update of one node, or none, does to the others. *)
LEMMA NodeKept ==
  ASSUME FleetTypeOK, NEW n \in Node, NEW s \in NodeState,
         Becomes(n, s) \/ UNCHANGED node,
         UNCHANGED <<fencing, nextTxn, relayed, acked>>
  PROVE  /\ FleetTypeOK'
         /\ node'[n] \in {s, node[n]}
         /\ Becomes(n, s) => node'[n] = s
         /\ \A m \in Node \ {n} : node'[m] = node[m]
  BY BecomesType DEF FleetTypeOK

-----------------------------------------------------------------------------
(* Who the tasks work on.                                                  *)

(* A running task was one before, or goes on for the same two nodes. *)
TaskKept == \A b \in Actor : task'[b].at # "none" =>
    \E c \in Actor : /\ task[c].at # "none"
                     /\ task'[b].node = task[c].node
                     /\ task'[b].old = task[c].old

(* What a step of a task leaves alone. *)
TaskFrame(a) ==
    /\ a \in Actor /\ task[a].at # "none"
    /\ task[a].node \in Node
    /\ \A m \in Node \ {task[a].node} : node'[m] = node[m]
    /\ UNCHANGED <<fencing, nextTxn, relayed, acked, ctlVars>>
    /\ TaskKept

(* OneTask: the update of one task keeps the others. *)
LEMMA OneTask ==
  ASSUME TaskTypes, NEW a \in Actor, NEW t, GoodTask(a, t), Sets(a, t),
         \/ t.at = "none"
         \/ task[a].at # "none" /\ t.node = task[a].node
              /\ t.old = task[a].old
  PROVE  TaskTypes' /\ TaskKept
  BY SetsType DEF TaskKept

(* MoveType: a task that moves on. *)
LEMMA MoveType ==
  ASSUME TaskTypes, CtlTypes, NEW a \in Actor,
         NEW step \in TaskStep \ {"watch"}, NEW S \in SUBSET Txn,
         task[a].at \notin {"none", "slot"},
         step = "watch_primary" => a \in Node /\ task[a].reads # VerifyReads,
         Sets(a, Moved(task[a], step, S))
  PROVE  TaskTypes' /\ TaskKept
  BY OneTask, TaskFacts

(* EndType: a task that ends. *)
LEMMA EndType ==
  ASSUME TaskTypes, CtlTypes, NEW a \in Actor, Ends(a)
  PROVE  TaskTypes' /\ TaskKept
  BY OneTask, TaskFacts, MovesSets

(* WatchByType: the task that is left behind a repoint. *)
LEMMA WatchByType ==
  ASSUME TaskTypes, CtlTypes, NEW a \in Actor, task[a].at = "repoint",
         WatchBy(a, task[a].node)
  PROVE  /\ TaskTypes' /\ TaskKept
         /\ \A b \in Actor : task'[b] \in
              {task[b], NoTask, [task[a] EXCEPT !.at = "watch"]}
<1> DEFINE n == task[a].node
           t == [task[a] EXCEPT !.at = "watch"]
<1>1. task[a] \in Task /\ GoodTask(a, task[a]) /\ n \in Node
  BY DEF TaskTypes, GoodTask
<1>2. /\ t.at = "watch" /\ t.node = n /\ t.old = task[a].old
      /\ t.errant = task[a].errant /\ t \in Task
  BY <1>1 DEF Task, TaskStep
<1>3. GoodTask(n, t)
  BY <1>1, <1>2 DEF GoodTask
<1>4. GoodTask(a, NoTask) /\ NoTask.at = "none"
  BY TaskFacts
<1>5. \A b \in Actor : task'[b] = IF b = n /\ (a = n \/ ~Busy(n)) THEN t
                                  ELSE IF b = a THEN NoTask ELSE task[b]
  BY DEF WatchBy
<1>6. \A b \in Actor : GoodTask(b, task'[b])
  BY <1>3, <1>4, <1>5 DEF TaskTypes
<1>7. task' \in [Actor -> Task]
  <2>1. task' = [b \in Actor |-> task'[b]]
    BY DEF WatchBy
  <2> QED BY <1>6, <2>1 DEF GoodTask
<1>8. TaskKept
  <2>1. ASSUME NEW b \in Actor, task'[b].at # "none"
        PROVE  \E c \in Actor : /\ task[c].at # "none"
                                /\ task'[b].node = task[c].node
                                /\ task'[b].old = task[c].old
    <3>1. CASE task'[b] = t
      BY <1>2, <3>1
    <3>2. CASE task'[b] = task[b]
      BY <2>1, <3>2
    <3>3. CASE task'[b] = NoTask
      BY <1>4, <2>1, <3>3
    <3> QED BY <1>5, <3>1, <3>2, <3>3
  <2> QED BY <2>1 DEF TaskKept
<1> QED BY <1>5, <1>6, <1>7, <1>8 DEF TaskTypes

(* TaskRunsKeep: a step of a task touches one node at most, and nothing of *)
(* the manager but tasks, the rebuild and the count of the failures.       *)
LEMMA TaskRunsKeep ==
  ASSUME TypeInv, NEW a \in Actor, TaskRuns(a)
  PROVE  /\ TypeInv' /\ TaskFrame(a)
         /\ UNCHANGED maint \/ maint'.node = task[a].node
<1> USE DEF TypeInv
<1> DEFINE n == task[a].node
           old == task[a].old
<1>0. /\ TaskTypes /\ CtlTypes /\ FleetTypeOK
      /\ GoodTask(a, task[a]) /\ task[a] \in Task
      /\ node \in [Node -> NodeState]
  BY DEF TaskTypes, FleetTypeOK
<1>a. ASSUME task[a].at # "none", FleetTypeOK', TaskTypes', TaskKept,
             \A m \in Node \ {n} : node'[m] = node[m],
             UNCHANGED <<fencing, nextTxn, relayed, acked, ctlVars, maint>>,
             Fail \/ UNCHANGED fails
      PROVE  /\ TypeInv' /\ TaskFrame(a)
             /\ UNCHANGED maint \/ maint'.node = task[a].node
  <2>1. n \in Node
    BY <1>0, <1>a DEF GoodTask
  <2>2. fails' \in 0 .. MaxFails
    BY <1>0, <1>a, FailType
  <2> QED BY <1>0, <1>a, <2>1, <2>2
          DEF TaskFrame, CtlTypes, ctlVars, GoodMaint
<1>b. ASSUME task[a].at # "none", TaskTypes', TaskKept,
             UNCHANGED <<fleetVars, ctlVars, maint>>,
             Fail \/ UNCHANGED fails
      PROVE  /\ TypeInv' /\ TaskFrame(a)
             /\ UNCHANGED maint \/ maint'.node = task[a].node
  BY <1>0, <1>a, <1>b DEF fleetVars, FleetTypeOK
<1>c. ASSUME task[a].at # "none", TaskTypes', TaskKept,
             NEW s \in NodeState, Becomes(n, s) \/ UNCHANGED node,
             UNCHANGED <<fencing, nextTxn, relayed, acked, ctlVars, maint>>,
             Fail \/ UNCHANGED fails
      PROVE  /\ TypeInv' /\ TaskFrame(a)
             /\ UNCHANGED maint \/ maint'.node = task[a].node
  <2>1. n \in Node
    BY <1>0, <1>c DEF GoodTask
  <2>2. FleetTypeOK' /\ \A m \in Node \ {n} : node'[m] = node[m]
    BY <1>0, <1>c, <2>1, NodeKept
  <2> QED BY <1>a, <1>c, <2>2
<1>d. ASSUME NEW step \in TaskStep \ {"watch", "watch_primary"},
             task[a].at \notin {"none", "slot"}, Goes(a, step)
      PROVE  TaskTypes' /\ TaskKept
  BY <1>0, <1>d, MovesSets, MoveType
<1>e. task[a].at \notin {"none", "slot"} =>
        \E s \in NodeState : s \in FenceDone(node[n])
  BY <1>0, StateTypes DEF FenceDone, GoodTask
<1>s. /\ "fence" \in TaskStep \ {"watch", "watch_primary"}
      /\ "quiesce" \in TaskStep \ {"watch", "watch_primary"}
      /\ "again" \in TaskStep \ {"watch", "watch_primary"}
      /\ "compare" \in TaskStep \ {"watch", "watch_primary"}
      /\ "repoint" \in TaskStep \ {"watch", "watch_primary"}
      /\ "slot" \in TaskStep \ {"watch", "watch_primary"}
      /\ "watch_primary" \in TaskStep \ {"watch"}
      /\ "watch" \in TaskStep
  BY DEF TaskStep
<1>1. CASE FenceSecond(a)
  <2>0. task[a].at = "second" /\ n \in Node
    BY <1>0, <1>1 DEF FenceSecond, At, GoodTask
  <2>1. \E s \in NodeState : Becomes(n, s) \/ UNCHANGED node
    BY <1>0, <1>1, <1>e, <2>0, StateTypes DEF FenceSecond
  <2>2. TaskTypes' /\ TaskKept
    BY <1>0, <1>1, EndType DEF FenceSecond
  <2> QED BY <1>1, <1>c, <2>0, <2>1, <2>2 DEF FenceSecond
<1>2. CASE Look(a)
  <2>0. task[a].at = "look"
    BY <1>2 DEF Look, At
  <2>1. Goes(a, "fence") \/ Goes(a, "quiesce")
    BY <1>2 DEF Look
  <2> QED BY <1>2, <1>b, <1>d, <1>s, <2>0, <2>1 DEF Look
<1>3. CASE Fence(a)
  <2>0. task[a].at = "fence" /\ n \in Node
    BY <1>0, <1>3 DEF Fence, At, GoodTask
  <2>1. \E s \in NodeState : Becomes(n, s) \/ UNCHANGED node
    BY <1>0, <1>3, <1>e, <2>0, StateTypes DEF Fence
  <2>2. TaskTypes' /\ TaskKept
    BY <1>3, <1>d, <1>s, <2>0 DEF Fence
  <2> QED BY <1>3, <1>c, <2>0, <2>1, <2>2 DEF Fence
<1>4. CASE Quiesce(a)
  <2>0. task[a].at \in {"quiesce", "again"} /\ n \in Node
    BY <1>0, <1>4 DEF Quiesce, GoodTask
  <2>1. node[n].executed \in SUBSET Txn
    BY <1>0, <2>0 DEF NodeState
  <2>2. \/ Goes(a, "quiesce")
        \/ Reads(a, "compare", node[n].executed)
        \/ Reads(a, "again", node[n].executed)
    BY <1>4 DEF Quiesce
  <2>3. CASE Goes(a, "quiesce")
    BY <1>4, <1>b, <1>d, <1>s, <2>0, <2>3 DEF Quiesce
  <2>4. CASE Reads(a, "compare", node[n].executed)
    <3>1. TaskTypes' /\ TaskKept
      BY <1>0, <1>s, <2>0, <2>1, <2>4, MovesSets, MoveType
    <3> QED BY <1>4, <1>b, <2>0, <3>1 DEF Quiesce
  <2>5. CASE Reads(a, "again", node[n].executed)
    <3>1. TaskTypes' /\ TaskKept
      BY <1>0, <1>s, <2>0, <2>1, <2>5, MovesSets, MoveType
    <3> QED BY <1>4, <1>b, <2>0, <3>1 DEF Quiesce
  <2> QED BY <2>2, <2>3, <2>4, <2>5
<1>5. CASE QuiesceGivesUp(a)
  BY <1>5, <1>b, <1>d, <1>s DEF QuiesceGivesUp
<1>6. CASE Compare(a)
  <2>0. task[a].at = "compare"
    BY <1>6 DEF Compare, At
  <2>1. TaskTypes' /\ TaskKept
    BY <1>0, <1>6, <1>d, <1>s, <2>0, EndType DEF Compare
  <2> QED BY <1>6, <1>b, <2>0, <2>1 DEF Compare
<1>7. CASE Repoint(a)
  <2>0. task[a].at = "repoint" /\ n \in Node /\ old \in Node
    BY <1>0, <1>7 DEF Repoint, At, GoodTask
  <2>1. \E s \in NodeState : Becomes(n, s) \/ UNCHANGED node
    BY <1>0, <1>7, <2>0, HandlerTypes DEF Repoint
  <2>2. TaskTypes' /\ TaskKept
    BY <1>0, <1>7, <2>0, EndType, WatchByType DEF Repoint
  <2>3. Fail \/ UNCHANGED fails
    BY <1>7 DEF Repoint
  <2> QED BY <1>7, <1>c, <2>0, <2>1, <2>2, <2>3 DEF Repoint
<1>8. CASE Watch(a)
  <2>0. task[a].at = "watch" /\ a \in Node /\ n \in Node
    BY <1>0, <1>8 DEF Watch, At, GoodTask
  <2>1. node[a].executed \in SUBSET Txn
    BY <1>0, <2>0 DEF NodeState
  <2>2. \/ Ends(a)
        \/ /\ task[a].reads # VerifyReads
           /\ Reads(a, "watch_primary", node[a].executed)
    BY <1>8 DEF Watch
  <2>3. TaskTypes' /\ TaskKept
    <3>1. CASE Ends(a)
      BY <1>0, <3>1, EndType
    <3>2. CASE /\ task[a].reads # VerifyReads
               /\ Reads(a, "watch_primary", node[a].executed)
      BY <1>0, <1>s, <2>0, <2>1, <3>2, MovesSets, MoveType
    <3> QED BY <2>2, <3>1, <3>2
  <2> QED BY <1>8, <1>b, <2>0, <2>3 DEF Watch
<1>9. CASE WatchPrimary(a)
  <2>0. task[a].at = "watch_primary" /\ a \in Node /\ n \in Node
    BY <1>0, <1>9 DEF WatchPrimary, At, GoodTask
  <2>1. PICK e \in {0, task[a].errant + 1} :
          task' = [task EXCEPT ![a].at = IF e = 2 THEN "slot" ELSE "watch",
                               ![a].read = {},
                               ![a].errant = e,
                               ![a].reads = @ + 1]
    BY <1>9 DEF WatchPrimary
  <2> DEFINE t == [task[a] EXCEPT !.at = IF e = 2 THEN "slot" ELSE "watch",
                                  !.read = {}, !.errant = e, !.reads = @ + 1]
  <2>2. Sets(a, t)
    BY <1>0, <2>1 DEF TaskTypes, Task, Sets
  <2>3. /\ task[a].errant \in 0 .. 2 /\ task[a].errant <= 1
        /\ task[a].reads \in 0 .. VerifyReads /\ task[a].reads # VerifyReads
    BY <1>0, <2>0 DEF GoodTask, Task
  <2>4. e \in 0 .. 2 /\ task[a].reads + 1 \in 0 .. VerifyReads
        /\ (e # 2 => e <= 1)
    BY <2>3
  <2>5. /\ t \in Task
        /\ t.at \in {"slot", "watch"} /\ (t.at # "slot" => t.errant <= 1)
        /\ t.node = n /\ t.old = old
    BY <1>0, <1>s, <2>4 DEF Task
  <2>6. GoodTask(a, t)
    BY <1>0, <2>0, <2>5 DEF GoodTask
  <2>7. TaskTypes' /\ TaskKept
    BY <1>0, <2>0, <2>2, <2>5, <2>6, OneTask
  <2> QED BY <1>9, <1>b, <2>0, <2>7 DEF WatchPrimary
<1>10. CASE StartRebuild(a)
  <2>0. task[a].at = "slot" /\ n \in Node
    BY <1>0, <1>10 DEF StartRebuild, At, GoodTask
  <2>1. PICK d \in Node : maint' = [at |-> IF d = primary THEN "unstick"
                                                          ELSE "clone",
                                    node |-> n, donor |-> d]
    BY <1>0, <1>10 DEF StartRebuild, PickDonor, Donors, CtlTypes
  <2>2. GoodMaint(maint)' /\ maint'.node = n
    BY <2>0, <2>1 DEF GoodMaint, Maint
  <2>3. TaskTypes' /\ TaskKept
    BY <1>0, <1>10, EndType DEF StartRebuild
  <2>4. FleetTypeOK' /\ CtlTypes' /\ TaskFrame(a)
    BY <1>0, <1>10, <2>0, <2>3
       DEF StartRebuild, TaskFrame, fleetVars, ctlVars, FleetTypeOK, CtlTypes
  <2> QED BY <2>2, <2>3, <2>4
<1>11. CASE SlotGivesUp(a)
  <2>1. TaskTypes' /\ TaskKept
    BY <1>0, <1>11, EndType DEF SlotGivesUp
  <2> QED BY <1>11, <1>b, <2>1 DEF SlotGivesUp, At
<1> QED
  BY <1>1, <1>2, <1>3, <1>4, <1>5, <1>6, <1>7, <1>8, <1>9, <1>10, <1>11
     DEF TaskRuns

(* Read-only, and no session waits for an ack. *)
Still(s) == s.superReadOnly /\ s.pending = {}

(* An update of s that moves it to no other source, takes no transaction   *)
(* from it and adds nothing to a still one but what it had retrieved.      *)
Update(s, x, got) ==
    /\ x \in NodeState
    /\ x.source = s.source
    /\ x.partial \subseteq s.partial
    /\ s.executed \subseteq x.executed
    /\ s.executed \cup s.pending \subseteq x.executed \cup x.pending
    /\ x.retrieved \subseteq s.retrieved \cup got
    /\ s.superReadOnly => x.superReadOnly
    /\ Still(s) => Still(x) /\ x.executed \subseteq s.executed \cup s.retrieved
    /\ (Still(s) \/ s.ssSource) => (Still(x) \/ x.ssSource)

(* ReplicationUpdates: such are the updates of clients and replication,    *)
(* which keep the fence flag.                                              *)
LEMMA ReplicationUpdates ==
  ASSUME NEW s \in NodeState, NEW t \in Txn
  PROVE  /\ ~s.superReadOnly /\ s.ssSource
              => Update(s, Binlogged(s, t), {})
         /\ ~s.superReadOnly /\ ~s.ssSource => Update(s, Applied(s, t), {})
         /\ t \in s.retrieved => Update(s, Applied(s, t), {})
         /\ t \in s.pending => Update(s, Committed(s, t), {})
         /\ Update(s, Relayed(s, t), {t})
         /\ Binlogged(s, t).fenced = s.fenced
         /\ Applied(s, t).fenced = s.fenced
         /\ Committed(s, t).fenced = s.fenced
         /\ Relayed(s, t).fenced = s.fenced
<1>1. ~s.superReadOnly /\ s.ssSource => Update(s, Binlogged(s, t), {})
  BY ReplicationTypes DEF Update, NodeState, Binlogged, Still
<1>2. ~s.superReadOnly /\ ~s.ssSource => Update(s, Applied(s, t), {})
  BY ReplicationTypes DEF Update, NodeState, Applied, Still
<1>3. t \in s.retrieved => Update(s, Applied(s, t), {})
  BY ReplicationTypes DEF Update, NodeState, Applied, Still
<1>4. t \in s.pending => Update(s, Committed(s, t), {})
  BY ReplicationTypes DEF Update, NodeState, Committed, Still
<1>5. Update(s, Relayed(s, t), {t})
  BY ReplicationTypes DEF Update, NodeState, Relayed, Still
<1>6. /\ Binlogged(s, t).fenced = s.fenced
      /\ Applied(s, t).fenced = s.fenced
      /\ Committed(s, t).fenced = s.fenced
      /\ Relayed(s, t).fenced = s.fenced
  BY DEF NodeState, Binlogged, Applied, Committed, Relayed
<1> QED BY <1>1, <1>2, <1>3, <1>4, <1>5, <1>6

(* HandlerUpdates: so are restarts, killed sessions and the handlers that  *)
(* move the node to no other source.                                       *)
LEMMA HandlerUpdates ==
  ASSUME NEW s \in NodeState
  PROVE  /\ Update(s, ReplicaOn(s), {})
         /\ Update(s, Restarted(s), {})
         /\ Update(s, Released(s), {})
         /\ Update(s, RepointCut(s), {})
         /\ Update(s, CloneFailed(s), {})
         /\ \A x \in FenceDone(s) : Update(s, x, {}) /\ x.superReadOnly
         /\ ReplicaOn(s).fenced = s.fenced
         /\ Restarted(s).fenced = s.fenced
         /\ Released(s).fenced = s.fenced
<1>0. InitPrimary \in Node
  OBVIOUS
<1>1. Update(s, ReplicaOn(s), {})
  BY <1>0, HandlerTypes DEF Update, NodeState, ReplicaOn, Still
<1>2. Update(s, Restarted(s), {})
  <2>1. /\ Restarted(s).source = s.source
        /\ Restarted(s).superReadOnly
        /\ Restarted(s).executed = s.executed \cup s.pending
        /\ Restarted(s).pending = {}
        /\ Restarted(s).retrieved = {}
        /\ Restarted(s).partial = {}
    BY DEF NodeState, Restarted
  <2>2. Restarted(s) \in NodeState
    BY <1>0, HandlerTypes
  <2> QED BY <2>1, <2>2 DEF Update, Still
<1>3. Update(s, Released(s), {})
  <2>1. /\ Released(s).source = s.source
        /\ Released(s).superReadOnly = s.superReadOnly
        /\ Released(s).executed = s.executed \cup s.pending
        /\ Released(s).pending = {}
        /\ Released(s).retrieved = s.retrieved
        /\ Released(s).partial = s.partial
        /\ Released(s).ssSource = s.ssSource
    BY DEF NodeState, Released
  <2>2. Released(s) \in NodeState
    BY StateTypes
  <2> QED BY <2>1, <2>2 DEF Update, Still
<1>4. Update(s, RepointCut(s), {})
  <2>1. /\ RepointCut(s).source = s.source
        /\ RepointCut(s).superReadOnly
        /\ RepointCut(s).executed = s.executed
        /\ RepointCut(s).pending = s.pending
        /\ RepointCut(s).retrieved = s.retrieved
        /\ RepointCut(s).partial = s.partial
        /\ RepointCut(s).ssSource = s.ssSource
    BY DEF NodeState, RepointCut
  <2>2. RepointCut(s) \in NodeState
    BY <1>0, HandlerTypes
  <2> QED BY <2>1, <2>2 DEF Update, Still
<1>5. Update(s, CloneFailed(s), {})
  BY StateTypes DEF Update, NodeState, CloneFailed, Still
<1>6. Update(s, FencedByKill(s), {}) /\ FencedByKill(s).superReadOnly
  <2>1. /\ FencedByKill(s).source = s.source
        /\ FencedByKill(s).superReadOnly
        /\ FencedByKill(s).executed = s.executed \cup s.pending
        /\ FencedByKill(s).pending = {}
        /\ FencedByKill(s).retrieved = {}
        /\ FencedByKill(s).partial = {}
    BY DEF NodeState, FencedByKill, Restarted
  <2>2. FencedByKill(s) \in NodeState
    BY <1>0, HandlerTypes
  <2> QED BY <2>1, <2>2 DEF Update, Still
<1>7. Update(s, FencedBySql(s), {}) /\ FencedBySql(s).superReadOnly
  BY <1>0, HandlerTypes DEF Update, NodeState, FencedBySql, Still
<1>8. /\ ReplicaOn(s).fenced = s.fenced
      /\ Restarted(s).fenced = s.fenced
      /\ Released(s).fenced = s.fenced
  BY DEF NodeState, ReplicaOn, Restarted, Released
<1> QED
  BY <1>1, <1>2, <1>3, <1>4, <1>5, <1>6, <1>7, <1>8 DEF FenceDone

(* EnvironmentUpdates: and whatever happens around the manager, which      *)
(* fences no node; only a replica fetches anything.                        *)
LEMMA EnvironmentUpdates ==
  ASSUME TypeInv, NEW n \in Node, Environment(n),
         fencing = [m \in Node |-> "idle"]
  PROVE  /\ TypeInv' /\ UNCHANGED fencing
         /\ \A m \in Node \ {n} : node'[m] = node[m]
         /\ node'[n].fenced = node[n].fenced
         /\ \E got \in SUBSET Txn :
              /\ Update(node[n], node'[n], got)
              /\ got # {} =>
                   /\ node[n].source = InCharge \/ "tail" \in Faults
                   /\ node[n].source \in Node
                   /\ got \subseteq Binlog(node[n].source)
<1> USE DEF TypeInv
<1> DEFINE s == node[n]
<1>0. node \in [Node -> NodeState] /\ s \in NodeState
  BY DEF FleetTypeOK
<1>a. FleetTypeOK' => TypeInv'
  BY DEF Environment, ctlVars, CtlTypes, TaskTypes, GoodMaint
<1>b. ASSUME NEW x, NEW got, Becomes(n, x), Update(s, x, got)
      PROVE  /\ \A m \in Node \ {n} : node'[m] = node[m]
             /\ node'[n] = x
  BY <1>0, <1>b, BecomesType DEF Update
<1>c. ASSUME NEW x, Becomes(n, x), Update(s, x, {}), x.fenced = s.fenced,
             FleetTypeOK', UNCHANGED fencing
      PROVE  /\ TypeInv' /\ UNCHANGED fencing
             /\ \A m \in Node \ {n} : node'[m] = node[m]
             /\ node'[n].fenced = node[n].fenced
             /\ \E got \in SUBSET Txn :
                  /\ Update(node[n], node'[n], got)
                  /\ got # {} =>
                       /\ node[n].source = InCharge \/ "tail" \in Faults
                       /\ node[n].source \in Node
                       /\ got \subseteq Binlog(node[n].source)
  <2>1. /\ \A m \in Node \ {n} : node'[m] = node[m]
        /\ node'[n] = x
    BY <1>b, <1>c
  <2>2. {} \in SUBSET Txn
    OBVIOUS
  <2> QED BY <1>a, <1>c, <2>1, <2>2
<1>1. CASE FleetStep(n)
  <2>0. FleetTypeOK'
    BY <1>1, FleetStepType
  <2>1. CASE Commit(n)
    <3>1. nextTxn \in Txn /\ ~s.superReadOnly /\ UNCHANGED fencing
      BY <2>1 DEF Commit, Writable
    <3>2. CASE s.ssSource
      BY <1>0, <1>c, <2>0, <2>1, <3>1, <3>2, ReplicationUpdates DEF Commit
    <3>3. CASE ~s.ssSource
      BY <1>0, <1>c, <2>0, <2>1, <3>1, <3>3, ReplicationUpdates DEF Commit
    <3> QED BY <3>2, <3>3
  <2>2. CASE Apply(n)
    <3>1. PICK t \in First(Appliable(n)) : Becomes(n, Applied(s, t))
      BY <2>2 DEF Apply
    <3>2. t \in Txn /\ t \in s.retrieved
      BY <1>0, <3>1 DEF First, Appliable, NodeState
    <3>3. Update(s, Applied(s, t), {}) /\ Applied(s, t).fenced = s.fenced
      BY <1>0, <3>2, ReplicationUpdates
    <3> QED BY <1>c, <2>0, <2>2, <3>1, <3>3 DEF Apply
  <2>3. CASE \E t \in Txn : Ack(n, t)
    <3>1. PICK t \in Txn : Ack(n, t)
      BY <2>3
    <3>2. /\ Update(s, Committed(s, t), {})
          /\ Committed(s, t).fenced = s.fenced
      BY <1>0, <3>1, ReplicationUpdates DEF Ack
    <3> QED BY <1>c, <2>0, <3>1, <3>2 DEF Ack
  <2>4. CASE Reassert(n)
    BY <1>0, <1>c, <2>0, <2>4, HandlerUpdates DEF Reassert
  <2>5. CASE FenceBySql(n) \/ FenceByKill(n)
    BY <2>5 DEF FenceBySql, FenceByKill
  <2> QED BY <1>1, <2>1, <2>2, <2>3, <2>4, <2>5 DEF FleetStep
<1>2. CASE Replicate(n)
  <2>1. PICK t \in Txn : Receive(n, t)
    BY <1>2 DEF Replicate
  <2>2. PICK k \in Node : /\ Streaming(n, k)
                          /\ t \in First(Missing(n, k))
                          /\ Becomes(n, Relayed(s, t))
                          /\ UNCHANGED fencing
    BY <2>1 DEF Receive
  <2>3. FleetTypeOK'
    BY <2>1, ReceiveType
  <2>4. /\ Update(s, Relayed(s, t), {t})
        /\ Relayed(s, t).fenced = s.fenced
    BY <1>0, ReplicationUpdates
  <2>5. /\ \A m \in Node \ {n} : node'[m] = node[m]
        /\ node'[n] = Relayed(s, t)
    BY <1>b, <2>2, <2>4
  <2>6. s.source = k /\ {t} \subseteq Binlog(k) /\ {t} \in SUBSET Txn
    BY <2>2 DEF Streaming, First, Missing
  <2>7. s.source = InCharge \/ "tail" \in Faults
    BY <1>2 DEF Replicate
  <2> QED BY <1>a, <2>2, <2>3, <2>4, <2>5, <2>6, <2>7
<1>3. CASE SourceRestarts(n)
  <2>1. Restart(n)
    BY <1>3 DEF SourceRestarts
  <2>2. FleetTypeOK'
    BY <2>1, FailureType
  <2> QED BY <1>0, <1>c, <2>1, <2>2, HandlerUpdates DEF Restart
<1>4. CASE WaiterKilled(n)
  <2>1. /\ Becomes(n, Released(s))
        /\ UNCHANGED <<fencing, nextTxn, relayed, acked>>
    BY <1>4 DEF WaiterKilled
  <2>2. FleetTypeOK'
    BY <1>0, <2>1, NodeKept, StateTypes
  <2> QED BY <1>0, <1>c, <2>1, <2>2, HandlerUpdates
<1> QED BY <1>1, <1>2, <1>3, <1>4 DEF Environment

(* A task that begins now, for n. *)
Begins(b, n) ==
    /\ promoted = NoNode /\ n \in Node
    /\ n # primary \/ n = asked
    /\ task'[b].at \in {"second", "look"}
    /\ task'[b].node = n
    /\ task'[b].old = primary

(* RequestsKeep: a poll or a request of the operator begins one task at    *)
(* most, for a node that was not the primary when it was asked for.        *)
LEMMA RequestsKeep ==
  ASSUME TypeInv, Serve \/ \E n \in Node : Spawn(n) \/ Ask(n)
  PROVE  /\ TypeInv'
         /\ UNCHANGED <<fleetVars, primary, promoted, elections, maint>>
         /\ \A b \in Actor :
              task'[b] = task[b] \/ \E n \in Node : Begins(b, n)
         /\ \/ asked' \in {asked, NoNode}
            \/ /\ asked' \in Node /\ asked' # primary
               /\ "mid_rejoin" \in Faults \/ asked' # promoted
<1> USE DEF TypeInv
<1>0. TaskTypes /\ CtlTypes /\ FleetTypeOK /\ GoodMaint(maint)
      /\ Operator \in Actor /\ Operator \notin Node /\ Node \subseteq Actor
  BY DEF Actor
<1>a. ASSUME NEW a \in Actor, NEW n \in Node, NEW step \in {"second", "look"},
             a \in {n, Operator}, ~Locked, n # primary \/ n = asked,
             task' = [task EXCEPT ![a] = Begin(step, n)]
      PROVE  /\ TaskTypes'
             /\ \A b \in Actor :
                  task'[b] = task[b] \/ \E k \in Node : Begins(b, k)
  <2>1. /\ GoodTask(a, Begin(step, n))
        /\ Begin(step, n).at = step
        /\ Begin(step, n).node = n
        /\ Begin(step, n).old = primary
    BY <1>0, <1>a, TaskFacts
  <2>2. /\ TaskTypes' /\ task'[a] = Begin(step, n)
        /\ \A b \in Actor \ {a} : task'[b] = task[b]
    BY <1>0, <1>a, <2>1, SetsType DEF Sets
  <2>3. Begins(a, n)
    BY <1>a, <2>1, <2>2 DEF Begins, Locked
  <2> QED BY <2>2, <2>3
<1>b. ASSUME NEW n \in Node, OperatorBegins(n), n # primary \/ n = asked
      PROVE  /\ TaskTypes'
             /\ \A b \in Actor :
                  task'[b] = task[b] \/ \E k \in Node : Begins(b, k)
  BY <1>0, <1>a, <1>b DEF OperatorBegins
<1>c. UNCHANGED task => TaskTypes' /\ \A b \in Actor : task'[b] = task[b]
  BY <1>0 DEF TaskTypes
<1>d. UNCHANGED fleetVars => FleetTypeOK'
  BY DEF fleetVars, FleetTypeOK
<1>1. ASSUME NEW n \in Node, Spawn(n)
      PROVE  /\ TypeInv'
             /\ UNCHANGED <<fleetVars, primary, promoted, elections, maint>>
             /\ \A b \in Actor :
                  task'[b] = task[b] \/ \E k \in Node : Begins(b, k)
             /\ asked' \in {asked, NoNode}
  <2>1. /\ n # primary /\ ~Locked
        /\ \E step \in {"second", "look"} :
             task' = [task EXCEPT ![n] = Begin(step, n)]
        /\ UNCHANGED <<fleetVars, ctlVars, maint, fails>>
    BY <1>1 DEF Spawn, PollMayAct
  <2>2. /\ TaskTypes'
        /\ \A b \in Actor :
             task'[b] = task[b] \/ \E k \in Node : Begins(b, k)
    BY <1>0, <1>a, <2>1
  <2>3. CtlTypes' /\ GoodMaint(maint')
    BY <1>0, <2>1 DEF CtlTypes, ctlVars
  <2> QED BY <1>d, <2>1, <2>2, <2>3 DEF ctlVars
<1>2. ASSUME NEW n \in Node, Ask(n)
      PROVE  /\ TypeInv'
             /\ UNCHANGED <<fleetVars, primary, promoted, elections, maint>>
             /\ \A b \in Actor :
                  task'[b] = task[b] \/ \E k \in Node : Begins(b, k)
             /\ \/ asked' \in {asked, NoNode}
                \/ /\ asked' \in Node /\ asked' # primary
                   /\ "mid_rejoin" \in Faults \/ asked' # promoted
  <2>1. /\ n # primary /\ asks < MaxAsks /\ asks' = asks + 1
        /\ "mid_rejoin" \in Faults \/ n # promoted
        /\ \/ OperatorBegins(n) /\ asked' = asked
           \/ asked' = n /\ UNCHANGED task
        /\ UNCHANGED <<fleetVars, primary, promoted, elections, halted, maint,
                       fails>>
    BY <1>2 DEF Ask
  <2>2. /\ TaskTypes'
        /\ \A b \in Actor :
             task'[b] = task[b] \/ \E k \in Node : Begins(b, k)
    BY <1>b, <1>c, <2>1
  <2>3. asks' \in 0 .. MaxAsks
    BY <1>0, <2>1 DEF CtlTypes
  <2>4. CtlTypes' /\ GoodMaint(maint')
    BY <1>0, <2>1, <2>3 DEF CtlTypes
  <2> QED BY <1>d, <2>1, <2>2, <2>4
<1>3. CASE Serve
  <2>1. /\ asked \in Node /\ asked' = NoNode
        /\ \/ OperatorBegins(asked) /\ UNCHANGED fails
           \/ UNCHANGED task /\ Fail
        /\ UNCHANGED <<fleetVars, primary, promoted, elections, halted, asks,
                       maint>>
    BY <1>0, <1>3 DEF Serve, CtlTypes
  <2>2. /\ TaskTypes'
        /\ \A b \in Actor :
             task'[b] = task[b] \/ \E k \in Node : Begins(b, k)
    BY <1>b, <1>c, <2>1
  <2>3. fails' \in 0 .. MaxFails
    BY <1>0, <2>1, FailType
  <2>4. CtlTypes' /\ GoodMaint(maint')
    BY <1>0, <2>1, <2>3 DEF CtlTypes
  <2> QED BY <1>d, <2>1, <2>2, <2>4
<1> QED BY <1>1, <1>2, <1>3

(* MaintKeeps: a step of the rebuild touches the node it rebuilds, and     *)
(* kills the waiting sessions of its donor.                                *)
LEMMA MaintKeeps ==
  ASSUME TypeInv, Maintains
  PROVE  /\ TypeInv'
         /\ maint.at # "none" /\ maint.node \in Node /\ maint.donor \in Node
         /\ \A m \in Node : \/ node'[m] = node[m]
                            \/ m = maint.node
                            \/ m = maint.donor /\ node'[m] = Released(node[m])
         /\ UNCHANGED <<fencing, primary, promoted, elections, asked, task>>
         /\ maint'.at # "none"
              => maint'.node = maint.node /\ maint'.donor = maint.donor
<1> USE DEF TypeInv
<1> DEFINE n == maint.node
           d == maint.donor
<1>0. /\ node \in [Node -> NodeState] /\ FleetTypeOK /\ CtlTypes /\ TaskTypes
      /\ GoodMaint(maint) /\ maint \in Maint
      /\ maint.at # "none" /\ n \in Node /\ d \in Node
  BY DEF GoodMaint, FleetTypeOK, Maintains, Unstick, Clone, Join
<1>a. ASSUME NEW k \in Node, NEW s \in NodeState,
             Becomes(k, s) \/ UNCHANGED node,
             UNCHANGED <<fencing, nextTxn, relayed, acked>>,
             Fail \/ UNCHANGED fails, halted' \in BOOLEAN,
             UNCHANGED <<primary, promoted, elections, asked, asks, task>>,
             GoodMaint(maint')
      PROVE  /\ TypeInv' /\ (Becomes(k, s) => node'[k] = s)
             /\ \A m \in Node \ {k} : node'[m] = node[m]
  <2>1. fails' \in 0 .. MaxFails
    BY <1>0, <1>a, FailType
  <2>2. CtlTypes'
    BY <1>0, <1>a, <2>1 DEF CtlTypes
  <2>3. TaskTypes'
    BY <1>0, <1>a DEF TaskTypes
  <2> QED BY <1>0, <1>a, <2>2, <2>3, NodeKept
<1>b. ASSUME maint' = NoMaint \/ \E at \in {"clone", "join"} :
                                   maint' = [maint EXCEPT !.at = at]
      PROVE  /\ GoodMaint(maint')
             /\ maint'.at # "none" => maint'.node = n /\ maint'.donor = d
  BY <1>0, <1>b DEF GoodMaint, Maint, NoMaint
<1>1. CASE Unstick
  <2>1. Released(node[d]) \in NodeState
    BY <1>0, StateTypes
  <2>2. /\ Becomes(d, Released(node[d])) \/ UNCHANGED node
        /\ Fail \/ UNCHANGED fails
        /\ halted' \in BOOLEAN
        /\ maint' = NoMaint \/ \E at \in {"clone", "join"} :
                                 maint' = [maint EXCEPT !.at = at]
        /\ UNCHANGED <<fencing, nextTxn, relayed, acked>>
        /\ UNCHANGED <<primary, promoted, elections, asked, asks, task>>
    BY <1>0, <1>1 DEF Unstick, CtlTypes
  <2>3. /\ TypeInv'
        /\ Becomes(d, Released(node[d])) => node'[d] = Released(node[d])
        /\ \A m \in Node \ {d} : node'[m] = node[m]
    BY <1>0, <1>a, <1>b, <2>1, <2>2
  <2> QED BY <1>0, <1>b, <2>2, <2>3
<1>2. CASE Clone
  <2>0. node[d].executed \in SUBSET Txn
    BY <1>0 DEF NodeState
  <2>1. /\ Cloned(node[n], node[d].executed) \in NodeState
        /\ CloneFailed(node[n]) \in NodeState
    BY <1>0, <2>0, StateTypes
  <2>2. /\ \E s \in NodeState : Becomes(n, s) \/ UNCHANGED node
        /\ Fail \/ UNCHANGED fails
        /\ maint' = NoMaint \/ \E at \in {"clone", "join"} :
                                 maint' = [maint EXCEPT !.at = at]
        /\ UNCHANGED <<fencing, nextTxn, relayed, acked, ctlVars, task>>
    BY <1>0, <1>2, <2>1 DEF Clone
  <2>3. /\ UNCHANGED <<fencing, nextTxn, relayed, acked>>
        /\ UNCHANGED <<primary, promoted, elections, asked, asks, task>>
        /\ halted' \in BOOLEAN
    BY <1>0, <2>2 DEF ctlVars, CtlTypes
  <2>4. TypeInv' /\ \A m \in Node \ {n} : node'[m] = node[m]
    BY <1>0, <1>a, <1>b, <2>2, <2>3
  <2> QED BY <1>0, <1>b, <2>2, <2>3, <2>4
<1>3. CASE Join
  <2>1. /\ Repointed(node[n], primary) \in NodeState
        /\ RepointCut(node[n]) \in NodeState
    BY <1>0, HandlerTypes DEF CtlTypes
  <2>2. /\ \E s \in NodeState : Becomes(n, s) \/ UNCHANGED node
        /\ Fail \/ UNCHANGED fails
        /\ maint' = NoMaint
        /\ UNCHANGED <<fencing, nextTxn, relayed, acked, ctlVars, task>>
    BY <1>0, <1>3, <2>1 DEF Join
  <2>3. /\ UNCHANGED <<fencing, nextTxn, relayed, acked>>
        /\ UNCHANGED <<primary, promoted, elections, asked, asks, task>>
        /\ halted' \in BOOLEAN
    BY <1>0, <2>2 DEF ctlVars, CtlTypes
  <2>4. TypeInv' /\ \A m \in Node \ {n} : node'[m] = node[m]
    BY <1>0, <1>a, <1>b, <2>2, <2>3
  <2> QED BY <1>0, <1>b, <2>2, <2>3, <2>4
<1> QED BY <1>1, <1>2, <1>3 DEF Maintains

(* ElectFacts: the winner of an election holds whatever any member that    *)
(* answered holds, and has applied it; the others keep what they have.     *)
LEMMA ElectFacts ==
  ASSUME TypeInv, NEW w \in Node, Elect(w)
  PROVE  /\ TypeInv'
         /\ Electing /\ w # primary /\ promoted' = w
         /\ elections' = elections + 1
         /\ UNCHANGED <<fencing, primary, asked, task, maint>>
         /\ node[w].retrieved \subseteq node[w].executed
         /\ node'[w] = Promoted(node[w])
         /\ \/ node'[primary] = node[primary]
            \/ node'[primary] \in FenceDone(node[primary])
         /\ \E A \in SUBSET (Node \ {primary}) :
              \A n \in Node \ {primary, w} :
                /\ n \in A => /\ Holds(n) \subseteq Holds(w)
                              /\ node'[n] \in {IoStopped(node[n]),
                                               Repointed(node[n], w)}
                              /\ \/ node'[n] = IoStopped(node[n])
                                 \/ CanRepoint(n)
                /\ n \notin A =>
                     /\ node'[n] = node[n]
                     /\ "tail" \in Faults \/ Appliable(n) = {}
<1> USE DEF TypeInv
<1>0. node \in [Node -> NodeState] /\ FleetTypeOK /\ CtlTypes
  BY DEF FleetTypeOK
<1>1. PICK A \in SUBSET (Node \ {primary}) :
        LET views == [n \in Node |-> IF n \in A THEN Status(n)
                                                ELSE UnreachableView]
        IN  /\ Electing
            /\ w \in Winners(views, Candidates(views, A))
            /\ A \subseteq Candidates(views, A)
            /\ node[w].retrieved \subseteq node[w].executed
            /\ \/ "tail" \in Faults
               \/ \A n \in Node \ A : Appliable(n) = {}
            /\ \E R \in SUBSET {n \in A \ {w} : CanRepoint(n)},
                  fenced \in {node[primary]} \cup FenceDone(node[primary]) :
                 node' = [n \in Node |->
                            IF n = primary THEN fenced
                            ELSE IF n = w THEN Promoted(node[n])
                            ELSE IF n \in R THEN Repointed(node[n], w)
                            ELSE IF n \in A THEN IoStopped(node[n])
                            ELSE node[n]]
            /\ promoted' = w
            /\ elections' = elections + 1
            /\ UNCHANGED <<fencing, nextTxn, relayed, acked, primary, halted,
                           asked, asks, task, maint, fails>>
  BY DEF Elect
<1> DEFINE views == [n \in Node |-> IF n \in A THEN Status(n)
                                               ELSE UnreachableView]
<1>2. PICK R \in SUBSET {n \in A \ {w} : CanRepoint(n)},
           fenced \in {node[primary]} \cup FenceDone(node[primary]) :
        node' = [n \in Node |->
                   IF n = primary THEN fenced
                   ELSE IF n = w THEN Promoted(node[n])
                   ELSE IF n \in R THEN Repointed(node[n], w)
                   ELSE IF n \in A THEN IoStopped(node[n])
                   ELSE node[n]]
  BY <1>1
<1>3. w \in A /\ \A c \in A : Have(views[c]) \subseteq Have(views[w])
  <2>1. /\ w \in Best(views, Candidates(views, A))
        /\ ~Diverged(views, Candidates(views, A), w)
    BY <1>1 DEF Winners
  <2> HIDE DEF views
  <2>2. w \in A
    BY <2>1 DEF Best, Candidates
  <2>3. A \subseteq Candidates(views, A)
    BY <1>1 DEF views
  <2> QED BY <2>1, <2>2, <2>3 DEF Diverged
<1>4. \A c \in A : Have(views[c]) = Holds(c)
  BY DEF Have, Status, Holds
<1>5. w # primary /\ \A c \in A : Holds(c) \subseteq Holds(w)
  BY <1>3, <1>4
<1>6. /\ fenced \in NodeState
      /\ \A n \in Node : /\ Promoted(node[n]) \in NodeState
                         /\ Repointed(node[n], w) \in NodeState
                         /\ IoStopped(node[n]) \in NodeState
                         /\ node[n] \in NodeState
  <2>1. primary \in Node
    BY <1>0 DEF CtlTypes
  <2>2. fenced \in NodeState
    BY <1>0, <2>1, StateTypes
  <2> QED BY <1>0, <2>2, HandlerTypes
<1>7. node' \in [Node -> NodeState]
  BY <1>2, <1>6
<1>8. TypeInv'
  <2>1. FleetTypeOK' /\ TaskTypes' /\ GoodMaint(maint)'
    BY <1>0, <1>1, <1>7 DEF FleetTypeOK, TaskTypes
  <2>2. elections + 1 \in 0 .. MaxElections
    BY <1>0, <1>1 DEF Electing, CtlTypes
  <2>3. CtlTypes'
    BY <1>0, <1>1, <2>2 DEF CtlTypes
  <2> QED BY <2>1, <2>3
<1>9. \A n \in Node \ {primary, w} :
        /\ n \in A => /\ node'[n] \in {IoStopped(node[n]),
                                       Repointed(node[n], w)}
                      /\ node'[n] = IoStopped(node[n]) \/ CanRepoint(n)
        /\ n \notin A => node'[n] = node[n]
  BY <1>2
<1>10. /\ node'[w] = Promoted(node[w])
       /\ \/ node'[primary] = node[primary]
          \/ node'[primary] \in FenceDone(node[primary])
  <2>1. primary \in Node
    BY <1>0 DEF CtlTypes
  <2> QED BY <1>2, <1>5, <2>1
<1> QED BY <1>1, <1>5, <1>8, <1>9, <1>10

(* AdoptType: the manager adopts the new primary. *)
LEMMA AdoptType ==
  ASSUME TypeInv, Adopt
  PROVE  TypeInv'
  BY DEF Adopt, TypeInv, CtlTypes, TaskTypes, fleetVars, FleetTypeOK

(* EnvironmentType: what happens around the manager. *)
LEMMA EnvironmentType ==
  ASSUME TypeInv, NEW n \in Node, Environment(n)
  PROVE  TypeInv'
<1>1. node[n] \in NodeState /\ FleetTypeOK
  BY DEF TypeInv, FleetTypeOK
<1>2. FleetTypeOK'
  <2>1. CASE FleetStep(n)
    BY <1>1, <2>1, FleetStepType
  <2>2. CASE Replicate(n)
    BY <1>1, <2>2, ReceiveType DEF Replicate
  <2>3. CASE SourceRestarts(n)
    BY <1>1, <2>3, FailureType DEF SourceRestarts
  <2>4. CASE WaiterKilled(n)
    BY <1>1, <2>4, NodeKept, StateTypes DEF WaiterKilled
  <2> QED BY <2>1, <2>2, <2>3, <2>4 DEF Environment
<1> QED BY <1>2 DEF Environment, TypeInv, ctlVars, CtlTypes, TaskTypes

(* TypeStep: every step keeps the types. *)
LEMMA TypeStep == TypeInv /\ [Next]_vars => TypeInv'
<1> SUFFICES ASSUME TypeInv, [Next]_vars
             PROVE  TypeInv'
  OBVIOUS
<1>1. CASE Maintains
  BY <1>1, MaintKeeps
<1>2. CASE Adopt
  BY <1>2, AdoptType
<1>3. CASE \E a \in Actor : TaskRuns(a)
  BY <1>3, TaskRunsKeep
<1>4. CASE Serve \/ \E n \in Node : Spawn(n) \/ Ask(n)
  BY <1>4, RequestsKeep
<1>5. CASE \E w \in Node : Elect(w)
  BY <1>5, ElectFacts
<1>6. CASE \E n \in Node : Environment(n)
  BY <1>6, EnvironmentType
<1>7. CASE UNCHANGED vars
  BY <1>7 DEF TypeInv, vars, fleetVars, ctlVars, FleetTypeOK, CtlTypes,
              TaskTypes
<1> QED BY <1>1, <1>2, <1>3, <1>4, <1>5, <1>6, <1>7 DEF Next

(* TypeStart: the healthy set has the types. *)
LEMMA TypeStart == Init => TypeInv
<1> SUFFICES ASSUME Init PROVE TypeInv
  OBVIOUS
<1>1. FleetTypeOK
  BY FleetInitType DEF Init
<1>2. CtlTypes
  <2>1. 0 \in 0 .. MaxElections /\ 0 \in 0 .. MaxAsks /\ 0 \in 0 .. MaxFails
    OBVIOUS
  <2>2. /\ primary = InitPrimary /\ promoted = NoNode /\ asked = NoNode
        /\ halted = FALSE /\ elections = 0 /\ asks = 0 /\ fails = 0
    BY DEF Init
  <2> QED BY <2>1, <2>2 DEF CtlTypes
<1>3. TaskTypes
  <2>1. \A a : GoodTask(a, NoTask) /\ NoTask \in Task
    BY DEF GoodTask, NoTask, Task, TaskStep
  <2> QED BY <2>1 DEF Init, TaskTypes
<1>4. GoodMaint(maint)
  BY DEF Init, GoodMaint, NoMaint, Maint
<1> QED BY <1>1, <1>2, <1>3, <1>4 DEF TypeInv

(* TypeCorrect: the variables keep their types, whatever fails and however *)
(* often (dbguard/manager/rejoin.py).                                      *)
THEOREM TypeCorrect == Spec => []TypeOK
<1>1. TypeInv => TypeOK
  BY DEF TypeInv, TypeOK, CtlTypes, TaskTypes, GoodMaint
<1> QED BY <1>1, TypeStart, TypeStep, PTL DEF Spec

-----------------------------------------------------------------------------
(* The primary is left alone.                                              *)

Idle == (\A a \in Actor : task[a].at = "none") /\ maint.at = "none"

(* Nobody works on the primary: a task that runs is about another node and *)
(* began under this primary, and a failover waits for the tasks.           *)
StayInv ==
    /\ fencing = [n \in Node |-> "idle"]
    /\ ~node[InCharge].fenced /\ node[InCharge].source = NoNode
    /\ promoted # NoNode => promoted # primary /\ Idle
    /\ asked # NoNode => asked # primary /\ asked # promoted
    /\ \A a \in Actor : task[a].at # "none" =>
         task[a].node # primary /\ task[a].old = primary
    /\ maint.at # "none" => maint.node # primary

(* InChargeType: somebody is. *)
LEMMA InChargeType ==
  ASSUME TypeInv
  PROVE  /\ InCharge \in Node
         /\ promoted = NoNode => InCharge = primary
         /\ promoted # NoNode => InCharge = promoted
  BY DEF TypeInv, CtlTypes, InCharge

(* WorkAlone: while a task or a rebuild runs there is no failover. *)
LEMMA WorkAlone ==
  ASSUME TypeInv, StayInv,
         maint.at # "none" \/ \E a \in Actor : task[a].at # "none"
  PROVE  promoted = NoNode /\ InCharge = primary
  BY InChargeType DEF StayInv, Idle

(* StayTask: no task works on the primary. *)
LEMMA StayTask ==
  ASSUME TypeInv, StayInv, NEW a \in Actor, TaskRuns(a)
  PROVE  StayInv'
<1>1. /\ TaskFrame(a) /\ task[a].node # primary
      /\ UNCHANGED maint \/ maint'.node = task[a].node
  BY TaskRunsKeep DEF StayInv, TaskFrame
<1>2. /\ promoted = NoNode /\ InCharge = primary /\ InCharge' = primary
      /\ UNCHANGED <<fencing, primary, promoted, asked>>
  BY <1>1, WorkAlone DEF TaskFrame, ctlVars, InCharge
<1>3. node'[primary] = node[primary]
  BY <1>1, <1>2, InChargeType DEF TaskFrame
<1>4. \A b \in Actor : task'[b].at # "none" =>
        task'[b].node # primary /\ task'[b].old = primary
  BY <1>1 DEF TaskFrame, TaskKept, StayInv
<1>5. maint'.at # "none" => maint'.node # primary
  BY <1>1 DEF StayInv
<1> QED BY <1>2, <1>3, <1>4, <1>5 DEF StayInv

(* StayRequest: nor does a request reach it. *)
LEMMA StayRequest ==
  ASSUME TypeInv, StayInv, "mid_rejoin" \notin Faults,
         Serve \/ \E n \in Node : Spawn(n) \/ Ask(n)
  PROVE  StayInv'
<1>1. /\ UNCHANGED <<fleetVars, primary, promoted, elections, maint>>
      /\ \A b \in Actor :
           task'[b] = task[b] \/ \E n \in Node : Begins(b, n)
      /\ \/ asked' \in {asked, NoNode}
         \/ asked' \in Node /\ asked' # primary /\ asked' # promoted
  BY RequestsKeep
<1>2. InCharge' = InCharge /\ UNCHANGED <<fencing, node>>
  BY <1>1 DEF InCharge, fleetVars
<1>3. \A b \in Actor : task'[b].at # "none" =>
        task'[b].node # primary /\ task'[b].old = primary
  BY <1>1 DEF Begins, StayInv
<1>4. promoted # NoNode => \A b \in Actor : task'[b].at = "none"
  BY <1>1 DEF Begins, StayInv, Idle
<1> QED BY <1>1, <1>2, <1>3, <1>4 DEF StayInv, Idle

(* StayMaint: nor does a rebuild. *)
LEMMA StayMaint ==
  ASSUME TypeInv, StayInv, Maintains
  PROVE  StayInv'
<1>1. /\ maint.at # "none" /\ maint.node \in Node /\ maint.donor \in Node
      /\ \A m \in Node : \/ node'[m] = node[m]
                         \/ m = maint.node
                         \/ m = maint.donor /\ node'[m] = Released(node[m])
      /\ UNCHANGED <<fencing, primary, promoted, elections, asked, task>>
      /\ maint'.at # "none" => maint'.node = maint.node
  BY MaintKeeps
<1>2. /\ promoted = NoNode /\ InCharge = primary /\ InCharge' = primary
      /\ primary \in Node /\ maint.node # primary
      /\ node[primary] \in NodeState
  BY <1>1, WorkAlone, InChargeType
     DEF StayInv, InCharge, TypeInv, FleetTypeOK
<1>3. /\ node'[primary].fenced = node[primary].fenced
      /\ node'[primary].source = node[primary].source
  BY <1>1, <1>2, HandlerUpdates DEF Update
<1> QED BY <1>1, <1>2, <1>3 DEF StayInv

(* StayElect: a failover takes the lock, and waits for the tasks. *)
LEMMA StayElect ==
  ASSUME TypeInv, StayInv, "mid_rejoin" \notin Faults,
         NEW w \in Node, Elect(w)
  PROVE  StayInv' /\ Idle /\ promoted = NoNode
<1>1. /\ Electing /\ w # primary /\ promoted' = w
      /\ UNCHANGED <<fencing, primary, asked, task, maint>>
      /\ node'[w] = Promoted(node[w])
  BY ElectFacts
<1>2. /\ promoted = NoNode /\ asked = NoNode /\ task[Operator].at = "none"
      /\ \A n \in Node : task[n].at = "none" /\ maint.node # n
  BY <1>1 DEF Electing, PollMayAct, Locked, Busy
<1>3. Idle
  BY <1>2 DEF Idle, Actor, TypeInv, GoodMaint
<1>4. InCharge' = w /\ w # NoNode
  BY <1>1 DEF InCharge
<1>5. ~node'[w].fenced /\ node'[w].source = NoNode
  BY <1>1 DEF Promoted, PromotedReadOnly, TypeInv, FleetTypeOK, NodeState
<1> QED BY <1>1, <1>2, <1>3, <1>4, <1>5 DEF StayInv, Idle

(* StayAdopt: the promoted node is the new primary. *)
LEMMA StayAdopt ==
  ASSUME TypeInv, StayInv, Adopt
  PROVE  StayInv' /\ InCharge' = InCharge
<1>1. /\ promoted # NoNode /\ primary' = promoted /\ promoted' = NoNode
      /\ UNCHANGED <<node, fencing, asked, task, maint>>
  BY DEF Adopt, fleetVars
<1>2. InCharge' = InCharge
  BY <1>1 DEF InCharge
<1> QED BY <1>1, <1>2 DEF StayInv, Idle

(* StayEnvironment: nothing else fences or moves the primary. *)
LEMMA StayEnvironment ==
  ASSUME TypeInv, StayInv, NEW n \in Node, Environment(n)
  PROVE  StayInv' /\ InCharge' = InCharge
<1>1. /\ UNCHANGED fencing
      /\ \A m \in Node \ {n} : node'[m] = node[m]
      /\ node'[n].fenced = node[n].fenced
      /\ node'[n].source = node[n].source
  BY EnvironmentUpdates DEF StayInv, Update
<1>2. UNCHANGED <<primary, promoted, asked, task, maint>>
  BY DEF Environment, ctlVars
<1>3. InCharge' = InCharge /\ InCharge \in Node
  BY <1>2, InChargeType DEF InCharge
<1> QED BY <1>1, <1>2, <1>3 DEF StayInv, Idle

(* StayStep: so no step works on the primary. *)
LEMMA StayStep ==
  ASSUME TypeInv, StayInv, "mid_rejoin" \notin Faults, [Next]_vars
  PROVE  StayInv'
<1>1. CASE Maintains
  BY <1>1, StayMaint
<1>2. CASE Adopt
  BY <1>2, StayAdopt
<1>3. CASE \E a \in Actor : TaskRuns(a)
  BY <1>3, StayTask
<1>4. CASE Serve \/ \E n \in Node : Spawn(n) \/ Ask(n)
  BY <1>4, StayRequest
<1>5. CASE \E w \in Node : Elect(w)
  BY <1>5, StayElect
<1>6. CASE \E n \in Node : Environment(n)
  BY <1>6, StayEnvironment
<1>7. CASE UNCHANGED vars
  BY <1>7 DEF StayInv, Idle, InCharge, vars, fleetVars, ctlVars
<1> QED BY <1>1, <1>2, <1>3, <1>4, <1>5, <1>6, <1>7 DEF Next

(* StayStart: in the healthy set nobody works. *)
LEMMA StayStart == Init => StayInv
<1> SUFFICES ASSUME Init PROVE StayInv
  OBVIOUS
<1>1. /\ InCharge = InitPrimary /\ promoted = NoNode /\ asked = NoNode
      /\ fencing = [n \in Node |-> "idle"]
  BY DEF Init, FleetInit, InCharge
<1>2. ~node[InitPrimary].fenced /\ node[InitPrimary].source = NoNode
  BY DEF Init, FleetInit
<1>3. Idle
  BY DEF Init, Idle, NoTask, NoMaint
<1> QED BY <1>1, <1>2, <1>3 DEF StayInv, Idle

(* StaysCorrect: rejoin fences no primary and makes none a replica, however*)
(* many failovers, requests and failing calls there are, if a failover     *)
(* waits for the rejoins that run (rejoin_actions, set_rejoin).            *)
THEOREM StaysCorrect ==
  ASSUME "mid_rejoin" \notin Faults
  PROVE  Spec => []PrimaryStays
<1>1. Init => TypeInv /\ StayInv
  BY TypeStart, StayStart
<1>2. TypeInv /\ StayInv /\ [Next]_vars => (TypeInv /\ StayInv)'
  BY TypeStep, StayStep
<1>3. TypeInv /\ StayInv => PrimaryStays
  BY InChargeType DEF StayInv, PrimaryStays
<1> QED BY <1>1, <1>2, <1>3, PTL DEF Spec

-----------------------------------------------------------------------------
(* A rejoined member is clean.                                             *)

(* What the set cannot lose once it has failed over. *)
Log == Binlog(InCharge)

(* The node beside the primary: what it has fetched is in the log, and if  *)
(* it follows the primary, or nobody has failed over yet, so is what it    *)
(* has applied.                                                            *)
Clean(n) ==
    /\ node[n].source = InCharge =>
         Still(node[n]) /\ node[n].executed \subseteq Log
    /\ node[n].retrieved \subseteq node[n].executed \cup Log
    /\ elections = 0 => /\ Still(node[n])
                        /\ node[n].executed \subseteq Log
                        /\ node[n].source \in {NoNode, InCharge}

NodesInv ==
    /\ \A n \in Node : /\ node[n].partial = {}
                       /\ Still(node[n]) \/ node[n].ssSource
    /\ node[InCharge].retrieved = {}
    /\ \A n \in Node \ {InCharge} : Clean(n)

(* How far a task has come with its node: it is fenced or was read-only,   *)
(* and still once it was read without a session that waits; what it had    *)
(* applied when it was read twice is in that read or in the log, and       *)
(* whoever is to be repointed has nothing the log has not.                 *)
TaskFit(a) == LET t == task[a]
                  s == node[task[a].node]
              IN
    /\ t.at = "quiesce" => s.superReadOnly
    /\ t.at \in {"again", "compare", "repoint"} => Still(s)
    /\ t.at \in {"again", "compare"} => s.executed \subseteq t.read \cup Log
    /\ t.at = "repoint" => s.executed \subseteq Log

TasksInv == \A a \in Actor : TaskFit(a)

(* The rebuild: its donor is the primary or follows it, and the clone has  *)
(* nothing the log has not.                                                *)
MaintInv == maint.at # "none" =>
    /\ maint.donor # maint.node
    /\ maint.donor = InCharge \/ node[maint.donor].source = InCharge
    /\ maint.at = "unstick" => maint.donor = InCharge
    /\ maint.at = "join" => /\ Still(node[maint.node])
                            /\ node[maint.node].executed \subseteq Log

CleanInv == NodesInv /\ TasksInv /\ MaintInv

(* No failover while a rejoin runs, no fence that fails in front of one,   *)
(* nothing of a former primary fetched behind the failover, and no member  *)
(* that missed a failover back to the primary it still follows.            *)
Calm ==
    /\ Faults \cap {"mid_rejoin", "tail", "fence_fails"} = {}
    /\ MaxElections <= 1

(* What a step that works on one node means for the others' work: the log  *)
(* grows, a read-only node stays so, a still one stays still and applies   *)
(* nothing but the log, and who follows the primary goes on, but for the   *)
(* node that is rebuilt.                                                   *)
Harmless ==
    /\ InCharge' = InCharge
    /\ Log \subseteq Log'
    /\ \A m \in Node \ {InCharge} :
         node[m].superReadOnly => node'[m].superReadOnly
    /\ \A m \in Node \ {InCharge} : Still(node[m]) =>
         /\ Still(node'[m])
         /\ node'[m].executed \subseteq node[m].executed \cup Log'
    /\ \A m \in Node \ {maint.node} :
         node[m].source = InCharge => node'[m].source = InCharge

(* The three ways a step changes a node. *)
Works(n, x) ==
    \/ \E got \in SUBSET Txn :
         /\ Update(node[n], x, got)
         /\ got # {} => n # InCharge /\ got \subseteq Log
    \/ /\ n # InCharge /\ Still(node[n])
       /\ node[n].executed \subseteq Log
       /\ x = Repointed(node[n], InCharge)
    \/ /\ n # InCharge /\ n = maint.node
       /\ \E data \in SUBSET Log : x = Cloned(node[n], data)

(* ReplicaFacts: what a repoint and a clone make of a still node. *)
LEMMA ReplicaFacts ==
  ASSUME NEW s \in NodeState, NEW to, NEW data
  PROVE  /\ Repointed(s, to).source = to
         /\ Repointed(s, to).executed = s.executed
         /\ Repointed(s, to).retrieved = {}
         /\ Repointed(s, to).partial = {}
         /\ Repointed(s, to).pending = s.pending
         /\ Repointed(s, to).superReadOnly
         /\ Cloned(s, data).source = NoNode
         /\ Cloned(s, data).executed = data
         /\ Cloned(s, data).retrieved = {}
         /\ Cloned(s, data).partial = {}
         /\ Still(Cloned(s, data))
  BY DEF NodeState, Repointed, Cloned, Still

(* WorksKeep: whatever a step does to a node in one of these ways keeps    *)
(* the nodes clean and is harmless to the others.                          *)
LEMMA WorksKeep ==
  ASSUME TypeInv, StayInv, NodesInv, NEW n \in Node, Works(n, node'[n]),
         \A m \in Node \ {n} : node'[m] = node[m],
         InCharge' = InCharge, elections' = elections
  PROVE  NodesInv' /\ Harmless
<1> DEFINE s == node[n]
           x == node'[n]
           c == InCharge
<1>0. c \in Node /\ s \in NodeState /\ node[c].source = NoNode
  BY InChargeType DEF TypeInv, FleetTypeOK, StayInv
<1>1. /\ x.partial = {} /\ (Still(x) \/ x.ssSource)
      /\ n = c => /\ x.retrieved = {} /\ x.source = NoNode
                  /\ Binlog(n) \subseteq x.executed \cup x.pending
      /\ n # c =>
           /\ s.superReadOnly => x.superReadOnly
           /\ Still(s) => /\ Still(x)
                          /\ x.executed \subseteq s.executed \cup Log
           /\ x.source \in {s.source, NoNode} \/ x.source = c
           /\ n # maint.node /\ s.source = c => x.source = c
           /\ x.source = c => Still(x) /\ x.executed \subseteq Log
           /\ x.retrieved \subseteq x.executed \cup Log
           /\ elections = 0 => x.executed \subseteq Log
  <2>0. /\ s.partial = {} /\ (Still(s) \/ s.ssSource)
        /\ n = c => s.retrieved = {} /\ s.source = NoNode
        /\ n # c => Clean(n)
    BY <1>0 DEF NodesInv
  <2>1. CASE \E got \in SUBSET Txn :
               /\ Update(s, x, got)
               /\ got # {} => n # c /\ got \subseteq Log
    <3>1. PICK got \in SUBSET Txn :
            /\ Update(s, x, got)
            /\ got # {} => n # c /\ got \subseteq Log
      BY <2>1
    <3>2. /\ x.partial = {} /\ (Still(x) \/ x.ssSource)
          /\ x.source = s.source
          /\ s.superReadOnly => x.superReadOnly
      BY <2>0, <3>1 DEF Update
    <3>3. n = c => /\ x.retrieved = {}
                   /\ Binlog(n) \subseteq x.executed \cup x.pending
      BY <2>0, <3>1 DEF Update, Binlog
    <3>4. ASSUME n # c
          PROVE  /\ Still(s) => /\ Still(x)
                                /\ x.executed \subseteq s.executed \cup Log
                 /\ x.source = c => Still(x) /\ x.executed \subseteq Log
                 /\ x.retrieved \subseteq x.executed \cup Log
                 /\ elections = 0 => x.executed \subseteq Log
      <4>1. s.retrieved \subseteq s.executed \cup Log /\ got \subseteq Log
        BY <2>0, <3>1, <3>4 DEF Clean
      <4>2. Still(s) => /\ Still(x)
                        /\ x.executed \subseteq s.executed \cup Log
        BY <3>1, <4>1 DEF Update
      <4>3. x.retrieved \subseteq x.executed \cup Log
        BY <3>1, <4>1 DEF Update
      <4>4. x.source = c => Still(x) /\ x.executed \subseteq Log
        BY <2>0, <3>2, <3>4, <4>2 DEF Clean
      <4>5. elections = 0 => x.executed \subseteq Log
        BY <2>0, <3>4, <4>2 DEF Clean
      <4> QED BY <4>2, <4>3, <4>4, <4>5
    <3> QED BY <2>0, <3>2, <3>3, <3>4
  <2>2. CASE /\ n # c /\ Still(s) /\ s.executed \subseteq Log
             /\ x = Repointed(s, c)
    <3>1. /\ x.source = c /\ x.executed = s.executed /\ x.retrieved = {}
          /\ x.partial = {} /\ x.pending = s.pending /\ x.superReadOnly
      BY <1>0, <2>2, ReplicaFacts
    <3>2. Still(x)
      BY <2>2, <3>1 DEF Still
    <3> QED BY <2>2, <3>1, <3>2
  <2>3. CASE /\ n # c /\ n = maint.node
             /\ \E data \in SUBSET Log : x = Cloned(s, data)
    <3>1. /\ x.source = NoNode /\ x.executed \subseteq Log
          /\ x.retrieved = {} /\ x.partial = {} /\ Still(x)
      BY <1>0, <2>3, ReplicaFacts
    <3> QED BY <1>0, <2>3, <3>1 DEF Still
  <2> QED BY <2>1, <2>2, <2>3 DEF Works
<1>2. Log \subseteq Log'
  BY <1>0, <1>1 DEF Log, Binlog
<1>3. Harmless
  <2>1. ASSUME NEW m \in Node \ {c}, Still(node[m])
        PROVE  /\ Still(node'[m])
               /\ node'[m].executed \subseteq node[m].executed \cup Log'
    BY <1>1, <1>2, <2>1
  <2>2. ASSUME NEW m \in Node \ {maint.node}, node[m].source = c
        PROVE  node'[m].source = c
    BY <1>0, <1>1, <2>2
  <2>3. ASSUME NEW m \in Node \ {c}, node[m].superReadOnly
        PROVE  node'[m].superReadOnly
    BY <1>1, <2>3
  <2> QED BY <1>2, <2>1, <2>2, <2>3 DEF Harmless
<1>4. \A m \in Node \ {c} : Clean(m)'
  <2>1. ASSUME NEW m \in Node \ {c}, m # n
        PROVE  Clean(m)'
    <3>1. Clean(m) /\ node'[m] = node[m]
      BY <2>1 DEF NodesInv
    <3> QED BY <1>2, <3>1 DEF Clean
  <2>2. ASSUME n # c
        PROVE  Clean(n)'
    <3>1. Clean(n) /\ n \in Node \ {c}
      BY <2>2 DEF NodesInv
    <3>2. x.source = c => Still(x) /\ x.executed \subseteq Log'
      BY <1>1, <1>2, <2>2
    <3>3. x.retrieved \subseteq x.executed \cup Log'
      BY <1>1, <1>2, <2>2
    <3>4. elections = 0 => /\ Still(x) /\ x.executed \subseteq Log'
                           /\ x.source \in {NoNode, c}
      BY <1>1, <1>2, <2>2, <3>1 DEF Clean
    <3> QED BY <3>2, <3>3, <3>4 DEF Clean
  <2> QED BY <2>1, <2>2
<1>5. NodesInv'
  BY <1>0, <1>1, <1>4 DEF NodesInv
<1> QED BY <1>3, <1>5

(* FitKept: a step that is harmless leaves a task as fit as it was. *)
LEMMA FitKept ==
  ASSUME TypeInv, StayInv, Harmless, NEW b \in Actor, TaskFit(b),
         task'[b] = task[b] \/ task'[b].at \in {"none", "second", "look"}
  PROVE  TaskFit(b)'
<1>1. CASE task'[b].at \in {"none", "second", "look"}
  BY <1>1 DEF TaskFit
<1>2. CASE task'[b] = task[b] /\ task[b].at # "none"
  <2> DEFINE m == task[b].node
  <2>1. promoted = NoNode /\ InCharge = primary
    BY <1>2, WorkAlone
  <2>2. m \in Node \ {InCharge}
    BY <1>2, <2>1 DEF StayInv, TypeInv, TaskTypes, GoodTask
  <2>3. task[b].at = "quiesce" => node'[m].superReadOnly
    BY <2>2 DEF TaskFit, Harmless
  <2>4. CASE task[b].at \in {"again", "compare", "repoint"}
    <3>1. Still(node[m])
      BY <2>4 DEF TaskFit
    <3>2. /\ Still(node'[m])
          /\ node'[m].executed \subseteq node[m].executed \cup Log'
          /\ Log \subseteq Log'
      BY <2>2, <3>1 DEF Harmless
    <3>3. /\ task[b].at \in {"again", "compare"} =>
               node'[m].executed \subseteq task[b].read \cup Log'
          /\ task[b].at = "repoint" => node'[m].executed \subseteq Log'
      BY <3>2 DEF TaskFit
    <3> QED BY <1>2, <2>4, <3>2, <3>3 DEF TaskFit
  <2>5. CASE task[b].at \notin {"again", "compare", "repoint"}
    BY <1>2, <2>3, <2>5 DEF TaskFit
  <2> QED BY <2>4, <2>5
<1> QED BY <1>1, <1>2

(* MaintKept: and a rebuild. *)
LEMMA MaintKept ==
  ASSUME TypeInv, StayInv, MaintInv, Harmless, UNCHANGED maint
  PROVE  MaintInv'
<1> SUFFICES ASSUME maint.at # "none" PROVE MaintInv'
  BY DEF MaintInv
<1> DEFINE m == maint.node
           d == maint.donor
<1>1. InCharge = primary /\ m \in Node /\ d \in Node /\ m # primary
  BY WorkAlone DEF StayInv, TypeInv, GoodMaint
<1>2. /\ d # m
      /\ d = InCharge \/ node[d].source = InCharge
      /\ maint.at = "unstick" => d = InCharge
      /\ maint.at = "join" => Still(node[m]) /\ node[m].executed \subseteq Log
  BY DEF MaintInv
<1>3. Log \subseteq Log' /\ InCharge' = InCharge
  BY DEF Harmless
<1>4. d = InCharge \/ node'[d].source = InCharge
  BY <1>1, <1>2 DEF Harmless
<1>5. ASSUME maint.at = "join"
      PROVE  Still(node'[m]) /\ node'[m].executed \subseteq Log'
  <2>1. /\ Still(node'[m])
        /\ node'[m].executed \subseteq node[m].executed \cup Log'
    BY <1>1, <1>2, <1>5 DEF Harmless
  <2> QED BY <1>2, <1>3, <1>5, <2>1
<1> QED BY <1>2, <1>3, <1>4, <1>5 DEF MaintInv

(* TaskOther: a step of a task leaves the others fit, but for the watch    *)
(* that it may leave with its node.                                        *)
LEMMA TaskOther ==
  ASSUME TypeInv, StayInv, TasksInv, Harmless, NEW a \in Actor,
         \A b \in Actor \ {a} :
           task'[b] = task[b] \/ TaskFit(b)',
         TaskFit(a)'
  PROVE  TasksInv'
  BY FitKept DEF TasksInv

(* EnvironmentClean: what happens around the manager brings a member       *)
(* nothing but what the log has.                                           *)
LEMMA EnvironmentClean ==
  ASSUME TypeInv, StayInv, CleanInv, Calm, NEW n \in Node, Environment(n)
  PROVE  CleanInv'
<1>1. /\ \A m \in Node \ {n} : node'[m] = node[m]
      /\ \E got \in SUBSET Txn :
           /\ Update(node[n], node'[n], got)
           /\ got # {} => /\ node[n].source = InCharge
                          /\ node[n].source \in Node
                          /\ got \subseteq Binlog(node[n].source)
  BY EnvironmentUpdates DEF StayInv, Calm
<1>2. /\ UNCHANGED <<ctlVars, task, maint>>
      /\ InCharge' = InCharge /\ elections' = elections
  BY DEF Environment, ctlVars, InCharge
<1>3. node[InCharge].source = NoNode
  BY DEF StayInv
<1>4. Works(n, node'[n])
  BY <1>1, <1>3 DEF Works, Log
<1>5. NodesInv' /\ Harmless
  BY <1>1, <1>2, <1>4, WorksKeep DEF CleanInv
<1>6. TasksInv'
  BY <1>2, <1>5, FitKept DEF CleanInv, TasksInv
<1>7. MaintInv'
  BY <1>2, <1>5, MaintKept DEF CleanInv
<1> QED BY <1>5, <1>6, <1>7 DEF CleanInv

(* NothingWorks: a step that touches no node. *)
LEMMA NothingWorks ==
  ASSUME TypeInv, StayInv, NodesInv, UNCHANGED node,
         InCharge' = InCharge, elections' = elections
  PROVE  NodesInv' /\ Harmless
<1>1. InCharge \in Node
  BY InChargeType
<1>2. node[InCharge] \in NodeState
  BY <1>1 DEF TypeInv, FleetTypeOK
<1>3. Update(node[InCharge], node'[InCharge], {})
  BY <1>2 DEF Update, Still
<1>4. Works(InCharge, node'[InCharge])
  BY <1>3 DEF Works
<1> QED BY <1>1, <1>4, WorksKeep

(* RequestClean: a task that begins has shown nothing yet. *)
LEMMA RequestClean ==
  ASSUME TypeInv, StayInv, CleanInv,
         Serve \/ \E n \in Node : Spawn(n) \/ Ask(n)
  PROVE  CleanInv'
<1>1. /\ UNCHANGED <<fleetVars, primary, promoted, elections, maint>>
      /\ \A b \in Actor :
           task'[b] = task[b] \/ \E n \in Node : Begins(b, n)
  BY RequestsKeep
<1>2. UNCHANGED node /\ InCharge' = InCharge
  BY <1>1 DEF InCharge, fleetVars
<1>3. NodesInv' /\ Harmless
  BY <1>1, <1>2, NothingWorks DEF CleanInv
<1>4. TasksInv'
  BY <1>1, <1>3, FitKept DEF CleanInv, TasksInv, Begins
<1>5. MaintInv'
  BY <1>1, <1>3, MaintKept DEF CleanInv
<1> QED BY <1>3, <1>4, <1>5 DEF CleanInv

(* AdoptClean: who is in charge remains so when the manager adopts it. *)
LEMMA AdoptClean ==
  ASSUME TypeInv, StayInv, CleanInv, Adopt
  PROVE  CleanInv'
<1>1. /\ UNCHANGED <<fleetVars, elections, task, maint>>
      /\ InCharge' = InCharge
  BY StayAdopt DEF Adopt
<1>2. NodesInv' /\ Harmless
  BY <1>1, NothingWorks DEF CleanInv, fleetVars
<1>3. TasksInv'
  BY <1>1, <1>2, FitKept DEF CleanInv, TasksInv
<1>4. MaintInv'
  BY <1>1, <1>2, MaintKept DEF CleanInv
<1> QED BY <1>2, <1>3, <1>4 DEF CleanInv

(* ElectClean: the winner has all that any member that answers has, so its *)
(* log is one they are clean by; the others keep only what they applied.   *)
LEMMA ElectClean ==
  ASSUME TypeInv, StayInv, CleanInv, Calm, NEW w \in Node, Elect(w)
  PROVE  CleanInv'
<1>0. "mid_rejoin" \notin Faults /\ "tail" \notin Faults
  BY DEF Calm
<1>1. /\ Electing /\ w # primary /\ promoted' = w
      /\ elections' = elections + 1
      /\ UNCHANGED <<primary, task, maint>>
      /\ node[w].retrieved \subseteq node[w].executed
      /\ node'[w] = Promoted(node[w])
      /\ \/ node'[primary] = node[primary]
         \/ node'[primary] \in FenceDone(node[primary])
  BY ElectFacts
<1>2. PICK A \in SUBSET (Node \ {primary}) :
        \A n \in Node \ {primary, w} :
          /\ n \in A => /\ Holds(n) \subseteq Holds(w)
                        /\ node'[n] \in {IoStopped(node[n]),
                                         Repointed(node[n], w)}
                        /\ node'[n] = IoStopped(node[n]) \/ CanRepoint(n)
          /\ n \notin A => node'[n] = node[n] /\ Appliable(n) = {}
  BY <1>0, ElectFacts
<1>3. Idle /\ promoted = NoNode /\ InCharge = primary /\ primary \in Node
  BY <1>0, StayElect, InChargeType
<1>4. elections = 0 /\ elections' # 0
  BY <1>1 DEF Calm, Electing, TypeInv, CtlTypes
<1>5. InCharge' = w
  BY <1>1 DEF InCharge
<1>6. \A n \in Node :
        /\ node[n] \in NodeState
        /\ node[n].partial = {} /\ (Still(node[n]) \/ node[n].ssSource)
  BY DEF CleanInv, NodesInv, TypeInv, FleetTypeOK
<1>7. \A n \in Node \ {primary} :
        Still(node[n]) /\ node[n].source \in {NoNode, primary}
  BY <1>3, <1>4 DEF CleanInv, NodesInv, Clean
<1>8. /\ node[primary].retrieved = {} /\ node[primary].source = NoNode
  BY <1>3 DEF CleanInv, NodesInv, StayInv
<1>9. /\ node'[w].executed = node[w].executed
      /\ node'[w].retrieved = {} /\ node'[w].partial = {}
      /\ node'[w].ssSource
      /\ Log' = Binlog(w)'
      /\ node[w].executed \subseteq Log'
  <2>1. /\ Promoted(node[w]).executed = node[w].executed
        /\ Promoted(node[w]).retrieved = {}
        /\ Promoted(node[w]).partial = {}
        /\ Promoted(node[w]).ssSource
    BY <1>6 DEF Promoted, PromotedReadOnly, NodeState
  <2>2. Log' = Binlog(w)'
    BY <1>5 DEF Log, Binlog
  <2> QED BY <1>1, <2>1, <2>2 DEF Binlog
<1>10. Holds(w) \subseteq Log'
  BY <1>1, <1>9 DEF Holds
<1>11. ASSUME NEW n \in Node \ {primary, w}
       PROVE  /\ node'[n].partial = {}
              /\ Still(node'[n]) \/ node'[n].ssSource
              /\ Clean(n)'
  <2>0. /\ n # InCharge' /\ node[n] \in NodeState
        /\ node[n].source \in {NoNode, primary}
        /\ Still(node[n]) /\ node[n].partial = {}
    BY <1>5, <1>6, <1>7
  <2>1. CASE n \in A /\ node'[n] = IoStopped(node[n])
    <3>1. /\ node'[n].source = node[n].source
          /\ node'[n].executed = node[n].executed
          /\ node'[n].retrieved = node[n].retrieved
          /\ node'[n].partial = node[n].partial
          /\ Still(node'[n])
      BY <2>0, <2>1 DEF IoStopped, NodeState, Still
    <3>2. node'[n].retrieved \subseteq Log'
      BY <1>2, <1>10, <2>1, <3>1 DEF Holds
    <3> QED BY <1>1, <1>4, <1>5, <2>0, <3>1, <3>2 DEF Clean
  <2>2. CASE n \in A /\ node'[n] = Repointed(node[n], w) /\ CanRepoint(n)
    <3>1. /\ node'[n].executed = node[n].executed
          /\ node'[n].retrieved = {}
          /\ node'[n].partial = {}
          /\ node'[n].superReadOnly
          /\ node'[n].pending = node[n].pending
      BY <2>0, <2>2, ReplicaFacts
    <3>2. Still(node'[n]) /\ node'[n].executed \subseteq Log'
      BY <1>2, <1>10, <2>2, <3>1 DEF Holds, CanRepoint, Still
    <3> QED BY <1>4, <2>0, <3>1, <3>2 DEF Clean
  <2>3. CASE n \notin A
    <3>1. node'[n] = node[n] /\ Appliable(n) = {}
      BY <1>2, <2>3
    <3>2. node[n].retrieved \subseteq node[n].executed
      BY <2>0, <3>1 DEF Appliable
    <3> QED BY <1>1, <1>4, <1>5, <2>0, <3>1, <3>2 DEF Clean
  <2> QED BY <1>2, <2>1, <2>2, <2>3
<1>12. /\ node'[primary].partial = {}
       /\ Still(node'[primary]) \/ node'[primary].ssSource
       /\ node'[primary].source = NoNode
       /\ node'[primary].retrieved = {}
  <2>1. CASE node'[primary] = node[primary]
    BY <1>3, <1>6, <1>8, <2>1
  <2>2. CASE node'[primary] \in FenceDone(node[primary])
    <3>1. Update(node[primary], node'[primary], {})
      BY <1>3, <1>6, <2>2, HandlerUpdates
    <3> QED BY <1>3, <1>6, <1>8, <3>1 DEF Update
  <2> QED BY <1>1, <2>1, <2>2
<1>13. Clean(primary)'
  BY <1>1, <1>4, <1>5, <1>12 DEF Clean
<1>14. NodesInv'
  BY <1>1, <1>5, <1>9, <1>11, <1>12, <1>13 DEF NodesInv
<1>15. TasksInv' /\ MaintInv'
  BY <1>1, <1>3 DEF Idle, TasksInv, TaskFit, MaintInv
<1> QED BY <1>14, <1>15 DEF CleanInv

(* MaintClean: a rebuild copies a node that has nothing but the log, and   *)
(* the clone is repointed to the primary.                                  *)
LEMMA MaintClean ==
  ASSUME TypeInv, StayInv, CleanInv, Maintains
  PROVE  CleanInv'
<1> DEFINE n == maint.node
           d == maint.donor
<1>0. /\ maint.at # "none" /\ n \in Node /\ d \in Node
      /\ UNCHANGED <<primary, promoted, elections, task>>
  BY MaintKeeps
<1>1. /\ promoted = NoNode /\ InCharge = primary
      /\ InCharge' = InCharge /\ n # InCharge /\ InCharge \in Node
      /\ node[n] \in NodeState /\ node[d] \in NodeState
      /\ node \in [Node -> NodeState]
  BY <1>0, WorkAlone, InChargeType
     DEF StayInv, InCharge, TypeInv, FleetTypeOK
<1>2. /\ d # n
      /\ d = InCharge \/ node[d].source = InCharge
      /\ maint.at = "unstick" => d = InCharge
      /\ maint.at = "join" => Still(node[n]) /\ node[n].executed \subseteq Log
  BY <1>0 DEF CleanInv, MaintInv
<1>a. ASSUME NEW k \in Node, Works(k, node'[k]),
             \A m \in Node \ {k} : node'[m] = node[m]
      PROVE  NodesInv' /\ TasksInv' /\ Harmless
  <2>1. NodesInv' /\ Harmless
    BY <1>0, <1>1, <1>a, WorksKeep DEF CleanInv
  <2>2. TasksInv'
    BY <1>0, <2>1, FitKept DEF CleanInv, TasksInv
  <2> QED BY <2>1, <2>2
<1>b. ASSUME UNCHANGED node
      PROVE  NodesInv' /\ TasksInv' /\ Harmless
  <2>1. NodesInv' /\ Harmless
    BY <1>0, <1>1, <1>b, NothingWorks DEF CleanInv
  <2>2. TasksInv'
    BY <1>0, <2>1, FitKept DEF CleanInv, TasksInv
  <2> QED BY <2>1, <2>2
<1>c. ASSUME NEW k \in Node, NEW x, Becomes(k, x), Update(node[k], x, {})
      PROVE  NodesInv' /\ TasksInv' /\ Harmless
  <2>1. node'[k] = x /\ \A m \in Node \ {k} : node'[m] = node[m]
    BY <1>1, <1>c, BecomesType DEF Update
  <2>2. Works(k, node'[k])
    BY <1>c, <2>1 DEF Works
  <2> QED BY <1>a, <2>1, <2>2
<1>d. maint' = NoMaint => MaintInv'
  BY DEF NoMaint, MaintInv
<1>1a. CASE Unstick
  <2>1. CASE /\ Becomes(d, Released(node[d]))
             /\ maint' = [maint EXCEPT !.at = "clone"]
    <3>1. NodesInv' /\ TasksInv' /\ Harmless
      BY <1>0, <1>1, <1>c, <2>1, HandlerUpdates
    <3>2. maint'.at = "clone" /\ maint'.node = n /\ maint'.donor = d
      BY <2>1 DEF TypeInv, GoodMaint, Maint
    <3>3. d = InCharge
      BY <1>2, <1>1a DEF Unstick
    <3>4. MaintInv'
      BY <1>1, <1>2, <3>2, <3>3 DEF MaintInv
    <3> QED BY <3>1, <3>4 DEF CleanInv
  <2>2. CASE UNCHANGED node /\ maint' = NoMaint
    BY <1>b, <1>d, <2>2 DEF CleanInv
  <2> QED BY <1>1a, <2>1, <2>2 DEF Unstick
<1>2a. CASE Clone
  <2> DEFINE data == node[d].executed
  <2>1. data \subseteq Log
    <3>1. CASE d = InCharge
      BY <3>1 DEF Log, Binlog
    <3>2. CASE d # InCharge
      BY <1>0, <1>2, <3>2 DEF CleanInv, NodesInv, Clean
    <3> QED BY <3>1, <3>2
  <2>2. ASSUME Becomes(n, Cloned(node[n], data))
        PROVE  /\ NodesInv' /\ TasksInv' /\ Harmless
               /\ Still(node'[n]) /\ node'[n].executed \subseteq Log'
    <3>0. Cloned(node[n], data) \in NodeState
      BY <1>1, StateTypes DEF NodeState
    <3>1. /\ node'[n] = Cloned(node[n], data)
          /\ \A m \in Node \ {n} : node'[m] = node[m]
      BY <1>0, <1>1, <2>2, <3>0, BecomesType
    <3>2. Works(n, node'[n])
      BY <1>1, <2>1, <3>1 DEF Works
    <3>3. NodesInv' /\ TasksInv' /\ Harmless
      BY <1>0, <1>a, <3>1, <3>2
    <3>4. Still(node'[n]) /\ node'[n].executed = data
      BY <1>1, <3>1, ReplicaFacts
    <3> QED BY <2>1, <3>3, <3>4 DEF Harmless
  <2>3. CASE /\ Becomes(n, Cloned(node[n], data))
             /\ maint' = [maint EXCEPT !.at = "join"]
    <3>1. maint'.at = "join" /\ maint'.node = n /\ maint'.donor = d
      BY <2>3 DEF TypeInv, GoodMaint, Maint
    <3>2. d = InCharge \/ node'[d].source = InCharge
      BY <1>0, <1>2, <2>2, <2>3 DEF Harmless
    <3>3. MaintInv'
      BY <1>1, <1>2, <2>2, <2>3, <3>1, <3>2 DEF MaintInv
    <3> QED BY <2>2, <2>3, <3>3 DEF CleanInv
  <2>4. CASE /\ \/ UNCHANGED node
                \/ Becomes(n, CloneFailed(node[n]))
                \/ Becomes(n, Cloned(node[n], data))
             /\ maint' = NoMaint
    BY <1>0, <1>1, <1>b, <1>c, <1>d, <2>2, <2>4, HandlerUpdates DEF CleanInv
  <2> QED BY <1>2a, <2>3, <2>4 DEF Clone
<1>3a. CASE Join
  <2>0. /\ Still(node[n]) /\ node[n].executed \subseteq Log
        /\ maint' = NoMaint
    BY <1>2, <1>3a DEF Join
  <2>1. CASE Becomes(n, Repointed(node[n], primary))
    <3>0. Repointed(node[n], primary) \in NodeState
      BY <1>1, HandlerTypes
    <3>1. /\ node'[n] = Repointed(node[n], InCharge)
          /\ \A m \in Node \ {n} : node'[m] = node[m]
      BY <1>0, <1>1, <2>1, <3>0, BecomesType
    <3>2. Works(n, node'[n])
      BY <1>1, <1>2, <2>0, <3>1 DEF Works
    <3> QED BY <1>0, <1>a, <1>d, <2>0, <3>1, <3>2 DEF CleanInv
  <2>2. CASE Becomes(n, RepointCut(node[n]))
    BY <1>0, <1>1, <1>c, <1>d, <2>0, <2>2, HandlerUpdates DEF CleanInv
  <2>3. CASE UNCHANGED node
    BY <1>b, <1>d, <2>0, <2>3 DEF CleanInv
  <2> QED BY <1>3a, <2>1, <2>2, <2>3 DEF Join
<1> QED BY <1>1a, <1>2a, <1>3a DEF Maintains

(* TaskClean: a task repoints its node only when everything it has applied *)
(* is in the log.                                                          *)
LEMMA TaskClean ==
  ASSUME TypeInv, StayInv, CleanInv, Calm, NEW a \in Actor, TaskRuns(a)
  PROVE  CleanInv'
<1> DEFINE n == task[a].node
           s == node[n]
<1>0. /\ task[a].at # "none" /\ n \in Node /\ n # primary
      /\ task[a].old = primary /\ TaskFrame(a)
      /\ promoted = NoNode /\ InCharge = primary
      /\ InCharge' = InCharge /\ UNCHANGED <<primary, promoted, elections>>
      /\ s \in NodeState /\ node \in [Node -> NodeState]
      /\ TaskTypes /\ TaskTypes' /\ task[a] \in Task /\ NodesInv /\ TasksInv
      /\ CtlTypes
  BY TaskRunsKeep, WorkAlone
     DEF TaskFrame, StayInv, ctlVars, InCharge, TypeInv, FleetTypeOK,
         TaskTypes, CleanInv
<1>a. ASSUME NEW x, Becomes(n, x), x \in NodeState, Works(n, x)
      PROVE  NodesInv' /\ Harmless /\ node'[n] = x
  <2>1. node'[n] = x /\ \A m \in Node \ {n} : node'[m] = node[m]
    BY <1>0, <1>a, BecomesType
  <2> QED BY <1>0, <1>a, <2>1, WorksKeep
<1>b. ASSUME UNCHANGED node PROVE NodesInv' /\ Harmless
  BY <1>0, <1>b, NothingWorks
<1>c. ASSUME NEW x, Becomes(n, x), Update(s, x, {})
      PROVE  NodesInv' /\ Harmless /\ node'[n] = x
  <2>1. x \in NodeState /\ Works(n, x)
    BY <1>c DEF Update, Works
  <2> QED BY <1>a, <1>c, <2>1
<1>d. ASSUME NodesInv', Harmless, UNCHANGED maint,
             \A b \in Actor \ {a} : task'[b] = task[b], TaskFit(a)'
      PROVE  CleanInv'
  BY <1>0, <1>d, TaskOther, MaintKept DEF CleanInv
<1>e. Ends(a) => /\ \A b \in Actor \ {a} : task'[b] = task[b]
                 /\ TaskFit(a)'
  <2>1. Ends(a) => task'[a] = NoTask
                   /\ \A b \in Actor \ {a} : task'[b] = task[b]
    BY <1>0 DEF Ends, TaskTypes
  <2> QED BY <2>1 DEF NoTask, TaskFit
<1>f. \A step \in TaskStep : \A S \in SUBSET Txn :
        Sets(a, Moved(task[a], step, S)) =>
          /\ \A b \in Actor \ {a} : task'[b] = task[b]
          /\ task'[a].at = step /\ task'[a].node = n /\ task'[a].read = S
  BY <1>0, TaskFacts DEF Sets, TaskTypes
<1>g. \A step \in TaskStep : Goes(a, step) =>
        /\ \A b \in Actor \ {a} : task'[b] = task[b]
        /\ task'[a].at = step /\ task'[a].node = n
  BY <1>0, <1>f, MovesSets
<1>s. TaskFit(a) /\ {"quiesce", "again", "compare", "repoint", "watch",
                     "watch_primary", "slot", "fence"} \subseteq TaskStep
  BY <1>0 DEF TasksInv, TaskStep
<1>1. CASE FenceSecond(a)
  <2>1. NodesInv' /\ Harmless
    BY <1>0, <1>1, <1>b, <1>c, HandlerUpdates DEF FenceSecond
  <2> QED BY <1>1, <1>d, <1>e, <2>1 DEF FenceSecond
<1>2. CASE Look(a)
  <2>1. NodesInv' /\ Harmless /\ UNCHANGED <<node, maint>>
    BY <1>2, <1>b DEF Look, fleetVars
  <2>2. CASE Goes(a, "fence")
    BY <1>d, <1>g, <1>s, <2>1, <2>2 DEF TaskFit
  <2>3. CASE Goes(a, "quiesce") /\ ~s.ssSource
    <3>1. s.superReadOnly
      BY <1>0, <2>3 DEF NodesInv, Still
    <3> QED BY <1>d, <1>g, <1>s, <2>1, <2>3, <3>1 DEF TaskFit
  <2> QED BY <1>2, <2>2, <2>3 DEF Look
<1>3. CASE Fence(a)
  <2>1. PICK x \in FenceDone(s) : Becomes(n, x)
    BY <1>3 DEF Fence, Calm
  <2>2. NodesInv' /\ Harmless /\ node'[n] = x /\ x.superReadOnly
    BY <1>0, <1>c, <2>1, HandlerUpdates
  <2> QED BY <1>3, <1>d, <1>g, <1>s, <2>2 DEF Fence, TaskFit
<1>4. CASE Quiesce(a)
  <2>1. NodesInv' /\ Harmless /\ UNCHANGED <<node, maint>>
    BY <1>4, <1>b DEF Quiesce, fleetVars
  <2>2. s.superReadOnly /\ s.executed \in SUBSET Txn
    BY <1>0, <1>4, <1>s DEF Quiesce, TaskFit, Still, NodeState
  <2>3. CASE Goes(a, "quiesce")
    BY <1>d, <1>g, <1>s, <2>1, <2>2, <2>3 DEF TaskFit
  <2>4. ASSUME NEW step \in {"again", "compare"},
               Reads(a, step, s.executed), s.pending = {}
        PROVE  CleanInv'
    <3>0. step \in TaskStep
      BY <1>s
    <3>1. /\ \A b \in Actor \ {a} : task'[b] = task[b]
          /\ task'[a].at = step /\ task'[a].node = n
          /\ task'[a].read = s.executed
      BY <1>0, <1>f, <2>2, <2>4, <3>0, MovesSets
    <3>2. node'[n].executed \subseteq task'[a].read
      BY <2>1, <3>1
    <3>3. TaskFit(a)'
      BY <2>1, <2>2, <2>4, <3>1, <3>2 DEF TaskFit, Still
    <3> QED BY <1>d, <2>1, <3>1, <3>3
  <2> QED BY <1>4, <2>3, <2>4 DEF Quiesce
<1>5. CASE QuiesceGivesUp(a)
  <2>1. NodesInv' /\ Harmless /\ UNCHANGED <<node, maint>>
    BY <1>5, <1>b DEF QuiesceGivesUp, fleetVars
  <2> QED BY <1>5, <1>d, <1>g, <1>s, <2>1 DEF QuiesceGivesUp, TaskFit
<1>6. CASE Compare(a)
  <2>1. NodesInv' /\ Harmless /\ UNCHANGED <<node, maint>>
    BY <1>6, <1>b DEF Compare, fleetVars
  <2>2. Still(s) /\ s.executed \subseteq task[a].read \cup Log
    BY <1>0, <1>6, <1>s DEF Compare, At, TaskFit
  <2>3. CASE Ends(a)
    BY <1>d, <1>e, <2>1, <2>3
  <2>4. CASE Goes(a, "slot")
    BY <1>d, <1>g, <1>s, <2>1, <2>2, <2>4 DEF TaskFit
  <2>5. CASE /\ Goes(a, "repoint")
             /\ task[a].read \subseteq node[task[a].old].executed
    <3>1. s.executed \subseteq Log
      BY <1>0, <2>2, <2>5 DEF Log, Binlog
    <3>2. node'[n].executed \subseteq Log'
      BY <2>1, <3>1 DEF Harmless
    <3> QED BY <1>d, <1>g, <1>s, <2>1, <2>2, <2>5, <3>2 DEF TaskFit
  <2> QED BY <1>6, <2>3, <2>4, <2>5 DEF Compare
<1>7. CASE Repoint(a)
  <2>1. Still(s) /\ s.executed \subseteq Log /\ task[a].at = "repoint"
    BY <1>0, <1>7, <1>s DEF Repoint, At, TaskFit
  <2>2. UNCHANGED maint
    BY <1>7 DEF Repoint
  <2>3. ASSUME Becomes(n, Repointed(s, task[a].old))
        PROVE  NodesInv' /\ Harmless
    <3>1. /\ Repointed(s, primary) \in NodeState
          /\ Works(n, Repointed(s, primary))
      BY <1>0, <2>1, HandlerTypes DEF Works, CtlTypes
    <3> QED BY <1>0, <1>a, <2>3, <3>1
  <2>4. ASSUME WatchBy(a, n), NodesInv', Harmless
        PROVE  CleanInv'
    <3>1. \A b \in Actor : task'[b] \in
            {task[b], NoTask, [task[a] EXCEPT !.at = "watch"]}
      BY <1>0, <2>1, <2>4, WatchByType
    <3>2. /\ [task[a] EXCEPT !.at = "watch"].at = "watch"
          /\ [task[a] EXCEPT !.at = "watch"].node = n
      BY <1>0 DEF Task
    <3>3. \A b \in Actor : TaskFit(b)'
      <4>1. ASSUME NEW b \in Actor PROVE TaskFit(b)'
        <5>1. CASE task'[b] = task[b] \/ task'[b] = NoTask
          BY <1>0, <2>4, <5>1, FitKept DEF TasksInv, NoTask
        <5>2. CASE task'[b] = [task[a] EXCEPT !.at = "watch"]
          BY <2>4, <3>2, <5>2 DEF TaskFit
        <5> QED BY <3>1, <5>1, <5>2
      <4> QED BY <4>1
    <3> QED BY <2>2, <2>4, <3>3, MaintKept DEF CleanInv, TasksInv
  <2>5. CASE Becomes(n, Repointed(s, task[a].old)) /\ WatchBy(a, n)
    BY <2>3, <2>4, <2>5
  <2>6. CASE /\ \/ Becomes(n, RepointCut(s))
                \/ Becomes(n, Repointed(s, task[a].old))
                \/ UNCHANGED node
             /\ Ends(a)
    <3>1. NodesInv' /\ Harmless
      BY <1>0, <1>b, <1>c, <2>3, <2>6, HandlerUpdates
    <3> QED BY <1>d, <1>e, <2>2, <2>6, <3>1
  <2> QED BY <1>7, <2>5, <2>6 DEF Repoint
<1>8. CASE Watch(a)
  <2>1. NodesInv' /\ Harmless /\ UNCHANGED <<node, maint>>
    BY <1>8, <1>b DEF Watch, fleetVars
  <2>2. a \in Node
    BY <1>0, <1>8, <1>s DEF Watch, At, TaskTypes, GoodTask
  <2>3. CASE Ends(a)
    BY <1>d, <1>e, <2>1, <2>3
  <2>4. CASE Reads(a, "watch_primary", node[a].executed)
    <3>1. node[a].executed \in SUBSET Txn
      BY <1>0, <2>2 DEF NodeState
    <3>2. /\ \A b \in Actor \ {a} : task'[b] = task[b]
          /\ task'[a].at = "watch_primary" /\ task'[a].node = n
      BY <1>0, <1>f, <1>s, <2>4, <3>1, MovesSets
    <3> QED BY <1>d, <2>1, <2>2, <3>2 DEF TaskFit
  <2> QED BY <1>8, <2>3, <2>4 DEF Watch
<1>9. CASE WatchPrimary(a)
  <2>1. NodesInv' /\ Harmless /\ UNCHANGED <<node, maint>>
    BY <1>9, <1>b DEF WatchPrimary, fleetVars
  <2>3. PICK e : task' = [task EXCEPT ![a].at = IF e = 2 THEN "slot"
                                                         ELSE "watch",
                                      ![a].read = {},
                                      ![a].errant = e,
                                      ![a].reads = @ + 1]
    BY <1>9 DEF WatchPrimary
  <2>4. /\ \A b \in Actor \ {a} : task'[b] = task[b]
        /\ task'[a].at \in {"slot", "watch"} /\ task'[a].node = n
    BY <1>0, <2>3 DEF TaskTypes, Task
  <2>5. TaskFit(a)'
    BY <2>4 DEF TaskFit
  <2> QED BY <1>d, <2>1, <2>4, <2>5
<1>10. CASE StartRebuild(a)
  <2>1. NodesInv' /\ Harmless /\ UNCHANGED node
    BY <1>10, <1>b DEF StartRebuild, fleetVars
  <2>3. TasksInv'
    BY <1>0, <1>10, <1>e, <2>1, TaskOther DEF StartRebuild
  <2>4. PICK d \in PickDonor(n) :
          maint' = [at |-> IF d = primary THEN "unstick" ELSE "clone",
                    node |-> n, donor |-> d]
    BY <1>10 DEF StartRebuild
  <2>5. d # n /\ (d = primary \/ node[d].source = primary)
    BY <1>0, <2>4 DEF PickDonor, Donors, Streams
  <2>6. /\ maint'.at \in {"unstick", "clone"}
        /\ maint'.at = "unstick" => d = primary
        /\ maint'.node = n /\ maint'.donor = d
    BY <2>4
  <2>7. MaintInv'
    BY <1>0, <2>1, <2>5, <2>6 DEF MaintInv
  <2> QED BY <2>1, <2>3, <2>7 DEF CleanInv
<1>11. CASE SlotGivesUp(a)
  <2>1. NodesInv' /\ Harmless /\ UNCHANGED <<node, maint>>
    BY <1>11, <1>b DEF SlotGivesUp, fleetVars
  <2> QED BY <1>11, <1>d, <1>e, <2>1 DEF SlotGivesUp
<1> QED
  BY <1>1, <1>2, <1>3, <1>4, <1>5, <1>6, <1>7, <1>8, <1>9, <1>10, <1>11
     DEF TaskRuns

(* CleanStep: so every step keeps the members clean. *)
LEMMA CleanStep ==
  ASSUME TypeInv, StayInv, CleanInv, Calm, [Next]_vars
  PROVE  CleanInv'
<1>1. CASE Maintains
  BY <1>1, MaintClean
<1>2. CASE Adopt
  BY <1>2, AdoptClean
<1>3. CASE \E a \in Actor : TaskRuns(a)
  BY <1>3, TaskClean
<1>4. CASE Serve \/ \E n \in Node : Spawn(n) \/ Ask(n)
  BY <1>4, RequestClean
<1>5. CASE \E w \in Node : Elect(w)
  BY <1>5, ElectClean
<1>6. CASE \E n \in Node : Environment(n)
  BY <1>6, EnvironmentClean
<1>7. CASE UNCHANGED vars
  <2>1. UNCHANGED <<node, task, maint, elections>> /\ InCharge' = InCharge
    BY <1>7 DEF vars, fleetVars, ctlVars, InCharge
  <2>2. NodesInv' /\ Harmless
    BY <2>1, NothingWorks DEF CleanInv
  <2>3. TasksInv' /\ MaintInv'
    BY <2>1, <2>2, FitKept, MaintKept DEF CleanInv, TasksInv
  <2> QED BY <2>2, <2>3 DEF CleanInv
<1> QED BY <1>1, <1>2, <1>3, <1>4, <1>5, <1>6, <1>7 DEF Next

(* CleanStart: the healthy set is clean. *)
LEMMA CleanStart == Init => CleanInv
<1> SUFFICES ASSUME Init PROVE CleanInv
  OBVIOUS
<1>1. InCharge = InitPrimary
  BY DEF Init, InCharge
<1>2. \A n \in Node :
        /\ node[n].partial = {} /\ node[n].retrieved = {}
        /\ node[n].executed = {} /\ node[n].pending = {}
        /\ n = InitPrimary => node[n].ssSource
        /\ n # InitPrimary => /\ node[n].superReadOnly
                              /\ node[n].source = InitPrimary
  BY DEF Init, FleetInit
<1>3. NodesInv
  BY <1>1, <1>2 DEF NodesInv, Clean, Still
<1>4. TasksInv /\ MaintInv
  BY DEF Init, TasksInv, TaskFit, MaintInv, NoTask, NoMaint
<1> QED BY <1>3, <1>4 DEF CleanInv

(* CleanCorrect: whatever the number of members, writes, requests and      *)
(* failing calls, a member that streams from the primary behind a failover *)
(* holds nothing the primary does not hold (quiesce, the subset check, the *)
(* choice of a donor).                                                     *)
THEOREM CleanCorrect == ASSUME Calm PROVE Spec => []JoinedClean
<1>1. Init => TypeInv /\ StayInv /\ CleanInv
  BY TypeStart, StayStart, CleanStart
<1>2. /\ TypeInv /\ StayInv /\ CleanInv /\ [Next]_vars
      => (TypeInv /\ StayInv /\ CleanInv)'
  BY TypeStep, StayStep, CleanStep DEF Calm
<1>3. TypeInv /\ StayInv /\ CleanInv => JoinedClean
  <2>1. ASSUME TypeInv, StayInv, CleanInv, promoted = NoNode,
               NEW r \in Node, Streams(r)
        PROVE  Holds(r) \subseteq Binlog(primary)
    <3>1. InCharge = primary /\ primary \in Node
      BY <2>1, InChargeType
    <3>2. r # InCharge /\ node[r].source = InCharge
      BY <2>1, <3>1 DEF Streams, StayInv
    <3>3. Clean(r) /\ Log = Binlog(primary)
      BY <2>1, <3>1, <3>2 DEF CleanInv, NodesInv, Log
    <3> QED BY <3>2, <3>3 DEF Clean, Holds
  <2> QED BY <2>1 DEF JoinedClean
<1> QED BY <1>1, <1>2, <1>3, PTL DEF Spec
=============================================================================
