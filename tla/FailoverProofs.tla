--------------------------- MODULE FailoverProofs ---------------------------
(***************************************************************************)
(* Proofs about Failover for every replica set and every number of writes. *)
(*                                                                         *)
(* SingleWriter is proved for all faults and any number of failovers,      *)
(* StoppedOrFenced for all but those TLC breaks it with, and NoFalseHalt   *)
(* for the first failover with any fault.  Lossless and the refinement     *)
(* LosslessLog are proved for the first failover of a healthy set when the *)
(* only fault is an old primary whose agent does not answer, or, in a set  *)
(* of three, replicas that are read although their STOP REPLICA failed:    *)
(* waiting for the fence makes up for that.  NoErrantReplica needs the     *)
(* stops confirmed.  TLC breaks all three with other faults, such as a     *)
(* winner that restarts in the middle of the run, Lossless in a set of     *)
(* four with failed stops, and NoErrantReplica with failed stops.          *)
(***************************************************************************)
EXTENDS Failover, FleetProofs

-----------------------------------------------------------------------------
(* Type correctness.                                                       *)

USE FleetAssumption, FailoverAssumption

(* RunTypeOK: the part of TypeOK about the manager and the history. *)
RunTypeOK ==
    /\ pc \in Steps
    /\ primary \in Node
    /\ winner \in Node \cup {NoNode}
    /\ fenceTask \in {"none", "running"} \cup FenceOutcome
    /\ polled \subseteq Node
    /\ todo \subseteq Node
    /\ stopFailed \subseteq Node
    /\ views \in [Node -> NodeView(Txn)]
    /\ failovers \in Nat
    /\ lost \subseteq Txn
    /\ cutoff \subseteq Node
    /\ unfenced \subseteq Node
    /\ pc \in Chosen \cup {"record"} => winner \in Node
    /\ pc = "idle" => winner = NoNode /\ fenceTask = "none"

(* TypeInit: the initial state is well typed. *)
LEMMA TypeInit == Init => TypeOK
<1> SUFFICES ASSUME Init PROVE TypeOK
  OBVIOUS
<1>1. FleetTypeOK
  BY FleetInitType DEF Init
<1>2. views \in [Node -> NodeView(Txn)]
  BY DEF Init, NoViews, NodeView, UnreachableView
<1>3. QED
  BY <1>1, <1>2 DEF Init, TypeOK, Steps, Chosen, FenceOutcome

(* TypeStart: the start of a run keeps the types. *)
LEMMA TypeStart == TypeOK /\ Start => TypeOK'
  BY DEF TypeOK, FleetTypeOK, Start, Steps, Chosen, FenceStage, Others,
         histVars

(* TypeEnvironment: so does every step of the environment. *)
LEMMA TypeEnvironment ==
  ASSUME TypeOK, NEW n \in Node, Environment(n)
  PROVE  TypeOK'
<1>1. FleetTypeOK'
  BY FleetStepType, ReceiveType, FailureType
  DEF TypeOK, Environment, Replicate, RestartOutside, RestartInRun
<1>2. RunTypeOK'
  BY DEF TypeOK, FleetTypeOK, RunTypeOK, Environment, Replicate,
         RestartOutside, RestartInRun, mgrVars, histVars
<1> QED BY <1>1, <1>2 DEF TypeOK, RunTypeOK

(* TypeManager: and every step of the manager. *)
LEMMA TypeManager ==
  ASSUME TypeOK, ManagerStep
  PROVE  TypeOK'
<1> USE DEF TypeOK, Steps, Chosen, FenceOutcome, histVars
<1>a. ASSUME UNCHANGED fleetVars PROVE FleetTypeOK'
  BY <1>a DEF FleetTypeOK, fleetVars
<1>1. CASE StopIoEnds \/ FenceWaitEnds \/ FenceAnswers \/ FenceGivesUp
  BY <1>a, <1>1
  DEF StopIoEnds, FenceWaitEnds, FenceAnswers, FenceGivesUp, Others
<1>2. ASSUME NEW n \in Node, StopIo(n) PROVE TypeOK'
  BY <1>2, BecomesType, HandlerTypes DEF StopIo, FleetTypeOK
<1>3. ASSUME NEW n \in Node, StopIoFails(n) PROVE TypeOK'
  BY <1>a, <1>3 DEF StopIoFails
<1>4. ASSUME NEW n \in Node, View(n) PROVE TypeOK'
  <2>1. views' \in [Node -> NodeView(Txn)]
    BY <1>4, StatusType DEF View, FleetTypeOK, NodeView, UnreachableView
  <2> QED BY <1>a, <1>4, <2>1 DEF View
<1>5. CASE ViewsEnd \/ ChooseNone \/ CatchUp \/ CatchUpFails \/ RepointsEnd
  BY <1>a, <1>5
  DEF ViewsEnd, ChooseNone, CatchUp, CatchUpFails, RepointsEnd, Others,
      Answered
<1>6. ASSUME NEW n \in Node, Choose(n) PROVE TypeOK'
  BY <1>a, <1>6 DEF Choose, Others, FleetTypeOK
<1>7. ASSUME NEW n \in Node, Repoint(n) \/ RepointFails(n) PROVE TypeOK'
  <2>1. FleetTypeOK'
    BY <1>a, <1>7, BecomesType, HandlerTypes
    DEF Repoint, RepointFails, FleetTypeOK
  <2>2. RunTypeOK'
    BY <1>7 DEF Repoint, RepointFails, RunTypeOK
  <2> QED BY <2>1, <2>2 DEF RunTypeOK
<1>8. CASE Promote \/ PromoteFails
  <2>1. winner \in Node
    BY <1>8 DEF Promote, PromoteFails
  <2>2. FleetTypeOK'
    BY <1>8, <2>1, BecomesType, HandlerTypes
    DEF Promote, PromoteFails, FleetTypeOK
  <2>3. RunTypeOK'
    BY <1>8, <2>1 DEF Promote, PromoteFails, RunTypeOK
  <2> QED BY <2>2, <2>3 DEF RunTypeOK
<1>9. CASE AwaitFence \/ Record \/ Halt
  <2>1. NoViews \in [Node -> NodeView(Txn)]
    BY DEF NoViews, NodeView, UnreachableView
  <2> QED BY <1>a, <1>9, <2>1 DEF AwaitFence, Record, Halt
<1> QED
  BY <1>1, <1>2, <1>3, <1>4, <1>5, <1>6, <1>7, <1>8, <1>9 DEF ManagerStep

(* TypeStutter: a stuttering step changes nothing TypeOK reads. *)
LEMMA TypeStutter == TypeOK /\ UNCHANGED vars => TypeOK'
  BY DEF TypeOK, FleetTypeOK, vars, fleetVars, mgrVars, histVars

(* TypeCorrect: TypeOK holds in every behaviour of the set, whatever fails *)
(* and however many nodes, writes and failovers there are.                 *)
THEOREM TypeCorrect == Spec => []TypeOK
<1>1. TypeOK /\ [Next]_vars => TypeOK'
  BY TypeStart, TypeEnvironment, TypeManager, TypeStutter DEF Next
<1> QED BY TypeInit, <1>1, PTL DEF Spec

-----------------------------------------------------------------------------
(* SingleWriter.                                                           *)

InRun == pc \notin {"idle", "record"}

(* WriterInv, the inductive invariant: nothing is writable but the primary,*)
(* nodes whose fence was given up on, and a winner whose promote was       *)
(* answered too late; a fence that has answered has taken effect; and      *)
(* nothing is promoted before the fence has ended.                         *)
WriterInv ==
    /\ \A n \in Node : Writable(n) =>
         n = primary \/ n \in unfenced \/ (n = winner /\ pc = "halted")
    /\ InRun /\ fencing[primary] \in {"sql", "kill"} =>
         ~Writable(primary) \/ primary \in unfenced
    /\ InRun /\ fenceTask \in {"sql", "kill"} =>
         fencing[primary] \in {"sql", "kill"}
    /\ InRun /\ fenceTask = "unreachable" => primary \in unfenced
    /\ pc \in {"promote", "halted"} => FenceDone
    /\ pc \in Chosen => winner \in Others

(* WriterInit: it holds in a healthy set. *)
LEMMA WriterInit == Init => WriterInv
<1> SUFFICES ASSUME Init PROVE WriterInv
  OBVIOUS
<1>1. \A n \in Node : node[n].superReadOnly = (n # InitPrimary)
  BY DEF Init, FleetInit
<1>2. pc = "idle" /\ primary = InitPrimary
  BY DEF Init
<1> QED BY <1>1, <1>2 DEF WriterInv, InRun, Writable, Chosen

(* WriterStart: a run starts with nothing writable but what was. *)
LEMMA WriterStart == TypeOK /\ WriterInv /\ Start => WriterInv'
  BY DEF TypeOK, FleetTypeOK, WriterInv, InRun, Start, Writable, Chosen,
         FenceDone, FenceOutcome, histVars

(* WriterKept: a step that leaves the manager's run alone, makes no node   *)
(* writable and ends a fence only by making its node read-only keeps it.   *)
LEMMA WriterKept ==
  ASSUME TypeOK, WriterInv, UNCHANGED <<mgrVars, unfenced>>,
         \A m \in Node : Writable(m)' => Writable(m),
         \/ UNCHANGED fencing
         \/ \E n \in Node : /\ ~Writable(n)'
                            /\ \E how \in {"sql", "kill"} :
                                 fencing' = [fencing EXCEPT ![n] = how]
  PROVE  WriterInv'
<1> USE DEF TypeOK, FleetTypeOK, WriterInv, InRun, mgrVars
<1>1. UNCHANGED <<pc, primary, winner, fenceTask, unfenced, FenceDone, Others>>
  BY DEF FenceDone, Others
<1>2. ASSUME pc \notin {"idle", "record"},
             fencing'[primary] \in {"sql", "kill"}
      PROVE  ~Writable(primary)' \/ primary \in unfenced
  BY <1>2
<1>3. ASSUME pc \notin {"idle", "record"}, fenceTask \in {"sql", "kill"}
      PROVE  fencing'[primary] \in {"sql", "kill"}
  BY <1>3
<1> QED BY <1>1, <1>2, <1>3

(* WriterEnvironment: every step of the environment is such a step. *)
LEMMA WriterEnvironment ==
  ASSUME TypeOK, WriterInv, NEW n \in Node, Environment(n)
  PROVE  WriterInv'
<1>1. UNCHANGED <<mgrVars, unfenced>>
  BY DEF Environment, Replicate, RestartOutside, RestartInRun, histVars
<1>2. CASE FleetStep(n)
  BY <1>1, <1>2, FleetNoWriter, WriterKept DEF TypeOK
<1>3. CASE (\E t \in Txn : Receive(n, t)) \/ ReceivePartial(n)
             \/ Restart(n) \/ SqlError(n)
  BY <1>1, <1>3, FailureNoWriter, WriterKept DEF TypeOK
<1> QED
  BY <1>2, <1>3 DEF Environment, Replicate, RestartOutside, RestartInRun

(* WriterManager: every step of the manager keeps it. *)
LEMMA WriterManager ==
  ASSUME TypeOK, WriterInv, ManagerStep
  PROVE  WriterInv'
<1> USE DEF TypeOK, FleetTypeOK, WriterInv, InRun, Chosen, FenceDone,
            FenceOutcome, Others, histVars
<1>1. CASE StopIoEnds \/ FenceWaitEnds \/ FenceAnswers \/ FenceGivesUp
  BY <1>1 DEF StopIoEnds, FenceWaitEnds, FenceAnswers, FenceGivesUp,
              fleetVars, Writable
<1>2. ASSUME NEW n \in Node, StopIo(n) PROVE WriterInv'
  <2>1. \A m \in Node : Writable(m)' => Writable(m)
    BY <1>2, UpdateNoWriter, HandlerTypes, ReadOnlyFacts DEF StopIo
  <2> QED BY <1>2, <2>1 DEF StopIo
<1>3. ASSUME NEW n \in Node, StopIoFails(n) \/ View(n) PROVE WriterInv'
  BY <1>3 DEF StopIoFails, View, fleetVars, Writable
<1>4. CASE ViewsEnd \/ ChooseNone \/ CatchUp \/ CatchUpFails \/ RepointsEnd
  BY <1>4 DEF ViewsEnd, ChooseNone, CatchUp, CatchUpFails, RepointsEnd,
              fleetVars, Writable
<1>5. ASSUME NEW n \in Node, Choose(n) PROVE WriterInv'
  <2>1. n \in Node \ {primary}
    BY <1>5 DEF Choose, Winners, Best, Candidates
  <2> QED BY <1>5, <2>1 DEF Choose, fleetVars, Writable
<1>6. ASSUME NEW n \in Node, Repoint(n) \/ RepointFails(n) PROVE WriterInv'
  <2>1. \A m \in Node : Writable(m)' => Writable(m)
    <3>1. CASE Repoint(n)
      BY <1>6, <3>1, UpdateNoWriter, HandlerTypes, ReadOnlyFacts DEF Repoint
    <3>2. CASE RepointFails(n)
      BY <3>2 DEF RepointFails, fleetVars, Writable
    <3> QED BY <1>6, <3>1, <3>2
  <2> QED BY <1>6, <2>1 DEF Repoint, RepointFails, fleetVars
<1>7. CASE Promote
  <2>1. winner \in Node \ {primary} /\ FenceDone
    BY <1>7 DEF Promote
  <2>2. \A m \in Node \ {winner} : Writable(m)' => Writable(m)
    BY <1>7, <2>1, BecomesType, HandlerTypes DEF Promote, Writable
  <2> QED BY <1>7, <2>1, <2>2 DEF Promote
<1>8. CASE PromoteFails
  <2>1. winner \in Node \ {primary} /\ FenceDone
    BY <1>8 DEF PromoteFails
  <2>2. \A m \in Node \ {winner} : Writable(m)' => Writable(m)
    BY <1>8, <2>1, BecomesType, HandlerTypes DEF PromoteFails, Writable
  <2> QED BY <1>8, <2>1, <2>2 DEF PromoteFails
<1>9. CASE AwaitFence \/ Record \/ Halt
  BY <1>9 DEF AwaitFence, Record, Halt, fleetVars, Writable
<1> QED
  BY <1>1, <1>2, <1>3, <1>4, <1>5, <1>6, <1>7, <1>8, <1>9 DEF ManagerStep

(* WriterStutter: a stuttering step changes nothing it reads. *)
LEMMA WriterStutter == WriterInv /\ UNCHANGED vars => WriterInv'
  BY DEF WriterInv, InRun, Writable, FenceDone, Others, vars, fleetVars,
         mgrVars, histVars

(* WriterCorrect: whatever fails, however often the set fails over and of  *)
(* however many nodes it consists, no second node is writable but an old   *)
(* primary whose agent never answered the fence.                           *)
THEOREM WriterCorrect == Spec => []SingleWriter
<1>1. TypeOK /\ WriterInv /\ [Next]_vars => WriterInv'
  BY WriterStart, WriterEnvironment, WriterManager, WriterStutter DEF Next
<1>2. TypeOK /\ WriterInv => SingleWriter
  BY DEF TypeOK, Steps, WriterInv, SingleWriter, InRun, FenceDone, FenceOutcome
<1> QED BY TypeCorrect, WriterInit, <1>1, <1>2, PTL DEF Spec

-----------------------------------------------------------------------------
(* Lossless.                                                               *)

(* A primary and at most two replicas (deploy/fleet.yaml). *)
SmallSet == IsFiniteSet(Node) /\ Cardinality(Node) <= 3

(* No node is read whose STOP REPLICA failed. *)
StopsConfirmed == "failed_stop_answers" \notin Faults

(* What the theorem assumes: the first failover, and either no fault but   *)
(* an agent that does not answer the fence or, in a small set, none but    *)
(* replicas that answer although their STOP REPLICA failed.                *)
FirstFailover ==
    /\ MaxFailovers <= 1
    /\ \/ Faults \subseteq {"fence_unreachable"}
       \/ Faults \subseteq {"failed_stop_answers"} /\ SmallSet

Choosing == {"stop_io", "fence_wait", "view", "choose"}

(* Nothing has been promoted or repointed. *)
Intact == pc \in Choosing \/ (pc = "idle" /\ failovers = 0)
PromotionDone == pc = "record" \/ (pc = "idle" /\ failovers = 1)

(* A node that no client writes to. *)
Quiet(n) == node[n].superReadOnly /\ node[n].pending = {}

BaseInv ==
    /\ acked \subseteq relayed
    /\ \A n \in Node :
         /\ Writable(n) => node[n].ssSource
         /\ node[n].partial = {}
         /\ fencing[n] # "idle" => n = InitPrimary
    /\ node[InitPrimary].source = NoNode
    /\ failovers <= 1
    /\ pc \in Choosing \cup Chosen \cup {"record"} => failovers = 0
    /\ Intact \/ pc \in Chosen => primary = InitPrimary

(* A fence that has taken effect: no write waits for an ack any more, and  *)
(* none is accepted.                                                       *)
Sealed == fencing[InitPrimary] \in {"sql", "kill"}

(* The answer of the fence is what it did, and when a stop has failed, it  *)
(* is there before anybody is read.                                        *)
SealInv ==
    /\ Sealed => Quiet(InitPrimary)
    /\ fenceTask \in {"sql", "kill"} => Sealed
    /\ fenceTask = "unreachable" => "fence_unreachable" \in Faults
    /\ pc = "view" /\ stopFailed # {} => FenceDone

(* Until a choice the replicas are untouched and hold parts of what the    *)
(* primary holds.                                                          *)
IntactInv == Intact =>
    /\ relayed \subseteq Binlog(InitPrimary)
    /\ \A r \in Node \ {InitPrimary} :
         /\ node[r].source = InitPrimary
         /\ node[r].sql = "on"
         /\ node[r].ssReplica
         /\ Quiet(r)
         /\ Holds(r) \subseteq Binlog(InitPrimary)

(* A replica whose stop was confirmed stays stopped ...                    *)
StoppedInv ==
    /\ pc = "stop_io" =>
         \A n \in polled \ (todo \cup stopFailed) : node[n].ioStopped
    /\ pc \in {"fence_wait", "view"} =>
         \A n \in polled \ stopFailed : node[n].ioStopped
    /\ pc \in {"stop_io", "fence_wait", "view"} => polled \subseteq Others

(* ... so what its view says it holds is what it holds.  A replica that    *)
(* was read although its stop failed goes on to fetch, but acknowledges    *)
(* nothing, since the fence has taken effect.                              *)
Frozen(n) == node[n].ioStopped /\ Have(views[n]) = Holds(n)
Harmless == ~StopsConfirmed /\ Sealed

ViewInv == Intact =>
    \A n \in Others : views[n] # UnreachableView =>
        /\ pc \in {"view", "choose"}
        /\ Candidate(views[n])
        /\ Have(views[n]) \subseteq Holds(n)
        /\ Frozen(n) \/ Harmless

(* Whoever has acknowledged a write holds it, and has shown it if it has   *)
(* been read.                                                              *)
ShownInv == Intact =>
    \A t \in relayed : \E n \in Others :
        /\ t \in Holds(n)
        /\ views[n] # UnreachableView => t \in Have(views[n])

(* From the choice on only replicas that did not answer can still receive  *)
(* from the old primary while it waits for acks, and the winner holds      *)
(* every write that counts.                                                *)
Cut(r, p) ==
    \/ r \in cutoff
    \/ node[r].ioStopped
    \/ node[r].source = p
    \/ Harmless

ChosenInv ==
    /\ pc = "repoint" => todo \subseteq Others \ {winner}
    /\ pc \in Chosen =>
         /\ winner \in Others
         /\ StopsConfirmed => node[winner].ioStopped
         /\ relayed \ lost \subseteq Holds(winner)
         /\ \A r \in Others : Quiet(r) /\ Cut(r, winner)
    /\ pc \in Chosen \ {"catch_up"} =>
         relayed \ lost \subseteq node[winner].executed

PromotedInv == PromotionDone =>
    /\ primary # InitPrimary
    /\ node[primary].source = NoNode
    /\ relayed \ lost \subseteq Binlog(primary)
    /\ \A r \in Node \ {InitPrimary, primary} : Quiet(r) /\ Cut(r, primary)

(* LosslessInv, the inductive invariant. *)
LosslessInv ==
    /\ BaseInv
    /\ SealInv
    /\ IntactInv
    /\ StoppedInv
    /\ ViewInv
    /\ ShownInv
    /\ ChosenInv
    /\ PromotedInv

(* LosslessInit: it holds in a healthy set. *)
LEMMA LosslessInit == Init => LosslessInv
<1> SUFFICES ASSUME Init PROVE LosslessInv
  OBVIOUS
<1>1. \A n \in Node :
        /\ node[n].executed = {} /\ node[n].pending = {}
        /\ node[n].retrieved = {} /\ node[n].partial = {}
        /\ node[n].sql = "on"
        /\ node[n].source = IF n = InitPrimary THEN NoNode ELSE InitPrimary
  BY DEF Init, FleetInit
<1>2. \A n \in Node :
        /\ node[n].superReadOnly = (n # InitPrimary)
        /\ node[n].ssSource = (n = InitPrimary)
        /\ node[n].ssReplica = (n # InitPrimary)
  BY DEF Init, FleetInit
<1>3. /\ acked = {} /\ relayed = {} /\ pc = "idle" /\ failovers = 0
      /\ primary = InitPrimary /\ \A n \in Node : fencing[n] = "idle"
      /\ \A n \in Node : views[n] = UnreachableView
      /\ fenceTask = "none"
  BY DEF Init, FleetInit, NoViews
<1>4. BaseInv
  <2>1. \A n \in Node : Writable(n) => node[n].ssSource
    BY <1>2 DEF Writable
  <2> QED BY <1>1, <1>3, <2>1 DEF BaseInv, Choosing, Chosen
<1>5. IntactInv
  BY <1>1, <1>2, <1>3 DEF IntactInv, Quiet, Holds, Binlog
<1>6. StoppedInv /\ ViewInv /\ ChosenInv /\ PromotedInv
  BY <1>3 DEF StoppedInv, ViewInv, ChosenInv, PromotedInv, PromotionDone,
              Chosen, Others
<1>7. SealInv /\ ShownInv
  BY <1>3 DEF SealInv, Sealed, ShownInv
<1> QED BY <1>4, <1>5, <1>6, <1>7 DEF LosslessInv

(* Effect: what a step at n without the manager may do, replication aside. *)
Effect(n) ==
    /\ node' \in [Node -> NodeState]
    /\ \A m \in Node \ {n} : node'[m] = node[m]
    /\ node'[n].source = node[n].source
    /\ node'[n].partial = {}
    /\ Binlog(n) \subseteq Binlog(n)'
    /\ node[n].executed \subseteq node'[n].executed
    /\ Writable(n)' => node'[n].ssSource
    /\ Quiet(n) => Quiet(n)'
    /\ n \notin {InitPrimary, primary} /\ Quiet(n) =>
         /\ Holds(n)' = Holds(n)
         /\ node'[n].ioStopped = node[n].ioStopped
         /\ node'[n].sql = node[n].sql
         /\ node[n].ssReplica => node'[n].ssReplica
    /\ relayed' = relayed
    /\ acked' \subseteq relayed
    /\ \A m \in Node : fencing'[m] # "idle" => m = InitPrimary
    /\ \A m \in Node : \/ fencing'[m] = fencing[m]
                       \/ m = n /\ Quiet(n)' /\ fencing'[m] \in {"sql", "kill"}

(* ApplyEffect: the applier's step is one. *)
LEMMA ApplyEffect ==
  ASSUME TypeOK, BaseInv, NEW n \in Node, Apply(n)
  PROVE  Effect(n)
<1> USE DEF TypeOK, FleetTypeOK, BaseInv
<1>1. PICK t \in Appliable(n) : Becomes(n, Applied(node[n], t))
  BY DEF Apply, First
<1>2. node[n] \in NodeState /\ t \in Txn /\ t \in node[n].retrieved
  BY <1>1 DEF Appliable, NodeState
<1>3. /\ node' \in [Node -> NodeState]
      /\ node'[n] = Applied(node[n], t)
      /\ \A m \in Node \ {n} : node'[m] = node[m]
  BY <1>1, <1>2, BecomesType, ReplicationTypes
<1>4. /\ node'[n].executed = node[n].executed \cup {t}
      /\ node'[n].pending = node[n].pending
      /\ node'[n].retrieved = node[n].retrieved
      /\ node'[n].partial = node[n].partial
      /\ node'[n].source = node[n].source
      /\ node'[n].sql = node[n].sql
      /\ node'[n].ioStopped = node[n].ioStopped
      /\ node'[n].superReadOnly = node[n].superReadOnly
      /\ node'[n].ssSource = node[n].ssSource
      /\ node'[n].ssReplica = node[n].ssReplica
  BY <1>2, <1>3 DEF Applied, NodeState
<1>5. /\ relayed' = relayed /\ acked' \subseteq relayed
      /\ \A m \in Node : fencing'[m] # "idle" => m = InitPrimary
      /\ fencing' = fencing
  BY DEF Apply
<1> QED BY <1>2, <1>3, <1>4, <1>5 DEF Effect, Quiet, Binlog, Holds, Writable

(* CommitEffect: so is a client's commit, which waits for an ack. *)
LEMMA CommitEffect ==
  ASSUME TypeOK, BaseInv, NEW n \in Node, Commit(n)
  PROVE  Effect(n)
<1> USE DEF TypeOK, FleetTypeOK, BaseInv
<1>1. /\ nextTxn \in Txn
      /\ node[n].ssSource /\ ~node[n].superReadOnly
      /\ Becomes(n, Binlogged(node[n], nextTxn))
      /\ acked' = acked
  BY DEF Commit, Writable
<1>2. node[n] \in NodeState
  OBVIOUS
<1>3. /\ node' \in [Node -> NodeState]
      /\ node'[n] = Binlogged(node[n], nextTxn)
      /\ \A m \in Node \ {n} : node'[m] = node[m]
  BY <1>1, <1>2, BecomesType, ReplicationTypes
<1>4. /\ node'[n].executed = node[n].executed
      /\ node'[n].pending = node[n].pending \cup {nextTxn}
      /\ node'[n].retrieved = node[n].retrieved
      /\ node'[n].partial = node[n].partial
      /\ node'[n].source = node[n].source
      /\ node'[n].sql = node[n].sql
      /\ node'[n].ioStopped = node[n].ioStopped
      /\ node'[n].superReadOnly = node[n].superReadOnly
      /\ node'[n].ssSource = node[n].ssSource
      /\ node'[n].ssReplica = node[n].ssReplica
  BY <1>2, <1>3 DEF Binlogged, NodeState
<1>5. /\ relayed' = relayed /\ acked' \subseteq relayed
      /\ \A m \in Node : fencing'[m] # "idle" => m = InitPrimary
      /\ fencing' = fencing
  BY <1>1 DEF Commit
<1> QED
  BY <1>1, <1>2, <1>3, <1>4, <1>5 DEF Effect, Quiet, Binlog, Holds, Writable

(* AckEffect: so is an ack that reaches the source. *)
LEMMA AckEffect ==
  ASSUME TypeOK, BaseInv, NEW n \in Node, NEW t \in Txn, Ack(n, t)
  PROVE  Effect(n)
<1> USE DEF TypeOK, FleetTypeOK, BaseInv
<1>1. t \in node[n].pending /\ Becomes(n, Committed(node[n], t))
  BY DEF Ack
<1>2. node[n] \in NodeState
  OBVIOUS
<1>3. /\ node' \in [Node -> NodeState]
      /\ node'[n] = Committed(node[n], t)
      /\ \A m \in Node \ {n} : node'[m] = node[m]
  BY <1>1, <1>2, BecomesType, ReplicationTypes
<1>4. /\ node'[n].executed = node[n].executed \cup {t}
      /\ node'[n].pending = node[n].pending \ {t}
      /\ node'[n].retrieved = node[n].retrieved
      /\ node'[n].partial = node[n].partial
      /\ node'[n].source = node[n].source
      /\ node'[n].sql = node[n].sql
      /\ node'[n].ioStopped = node[n].ioStopped
      /\ node'[n].superReadOnly = node[n].superReadOnly
      /\ node'[n].ssSource = node[n].ssSource
      /\ node'[n].ssReplica = node[n].ssReplica
  BY <1>2, <1>3 DEF Committed, NodeState
<1>5. /\ relayed' = relayed /\ acked' \subseteq relayed
      /\ \A m \in Node : fencing'[m] # "idle" => m = InitPrimary
      /\ fencing' = fencing
  BY DEF Ack
<1> QED
  BY <1>1, <1>2, <1>3, <1>4, <1>5 DEF Effect, Quiet, Binlog, Holds, Writable

(* RestartEffect: so is a restart of the primary, past or present. *)
LEMMA RestartEffect ==
  ASSUME TypeOK, BaseInv, NEW n \in {InitPrimary, primary}, Restart(n)
  PROVE  Effect(n)
<1> USE DEF TypeOK, FleetTypeOK, BaseInv
<1>1. Becomes(n, Restarted(node[n]))
  BY DEF Restart
<1>2. node[n] \in NodeState
  OBVIOUS
<1>3. /\ node' \in [Node -> NodeState]
      /\ node'[n] = Restarted(node[n])
      /\ \A m \in Node \ {n} : node'[m] = node[m]
  BY <1>1, <1>2, BecomesType, HandlerTypes
<1>4. /\ node'[n].executed = node[n].executed \cup node[n].pending
      /\ node'[n].pending = {}
      /\ node'[n].retrieved = {}
      /\ node'[n].partial = {}
      /\ node'[n].source = node[n].source
      /\ node'[n].sql = "on"
      /\ node'[n].ioStopped = FALSE
      /\ node'[n].superReadOnly = TRUE
      /\ node'[n].ssSource = FALSE
      /\ node'[n].ssReplica = FALSE
  BY <1>2, <1>3 DEF Restarted, NodeState
<1>5. /\ relayed' = relayed /\ acked' \subseteq relayed
      /\ \A m \in Node : fencing'[m] # "idle" => m = InitPrimary
      /\ fencing' = fencing
  BY DEF Restart
<1> QED
  BY <1>1, <1>2, <1>3, <1>4, <1>5 DEF Effect, Quiet, Binlog, Holds, Writable

(* ReassertEffect: so is the agent re-asserting semi-sync. *)
LEMMA ReassertEffect ==
  ASSUME TypeOK, BaseInv, NEW n \in Node, Reassert(n)
  PROVE  Effect(n)
<1> USE DEF TypeOK, FleetTypeOK, BaseInv
<1>1. Becomes(n, ReplicaOn(node[n]))
  BY DEF Reassert
<1>2. node[n] \in NodeState
  OBVIOUS
<1>3. /\ node' \in [Node -> NodeState]
      /\ node'[n] = ReplicaOn(node[n])
      /\ \A m \in Node \ {n} : node'[m] = node[m]
  BY <1>1, <1>2, BecomesType, HandlerTypes
<1>4. /\ node'[n].executed = node[n].executed
      /\ node'[n].pending = node[n].pending
      /\ node'[n].retrieved = node[n].retrieved
      /\ node'[n].partial = node[n].partial
      /\ node'[n].source = node[n].source
      /\ node'[n].sql = node[n].sql
      /\ node'[n].ioStopped = node[n].ioStopped
      /\ node'[n].superReadOnly = node[n].superReadOnly
      /\ node'[n].ssSource = node[n].ssSource
      /\ node'[n].ssReplica = TRUE
  BY <1>2, <1>3 DEF ReplicaOn, NodeState
<1>5. /\ relayed' = relayed /\ acked' \subseteq relayed
      /\ \A m \in Node : fencing'[m] # "idle" => m = InitPrimary
      /\ fencing' = fencing
  BY DEF Reassert
<1> QED
  BY <1>1, <1>2, <1>3, <1>4, <1>5 DEF Effect, Quiet, Binlog, Holds, Writable

(* FenceSqlEffect: so is a fence by SQL, which only the old primary is sent. *)
LEMMA FenceSqlEffect ==
  ASSUME TypeOK, BaseInv, NEW n \in Node, FenceBySql(n)
  PROVE  Effect(n)
<1> USE DEF TypeOK, FleetTypeOK, BaseInv
<1>1. Becomes(n, FencedBySql(node[n]))
  BY DEF FenceBySql
<1>2. node[n] \in NodeState /\ n = InitPrimary
  BY DEF FenceBySql
<1>3. /\ node' \in [Node -> NodeState]
      /\ node'[n] = FencedBySql(node[n])
      /\ \A m \in Node \ {n} : node'[m] = node[m]
  BY <1>1, <1>2, BecomesType, HandlerTypes
<1>4. /\ node'[n].executed = node[n].executed
      /\ node'[n].pending = node[n].pending
      /\ node'[n].retrieved = node[n].retrieved
      /\ node'[n].partial = node[n].partial
      /\ node'[n].source = node[n].source
      /\ node'[n].sql = node[n].sql
      /\ node'[n].ioStopped = node[n].ioStopped
      /\ node'[n].superReadOnly = TRUE
      /\ node'[n].ssSource = node[n].ssSource
      /\ node'[n].ssReplica = node[n].ssReplica
  BY <1>2, <1>3 DEF FencedBySql, NodeState
<1>5. /\ relayed' = relayed /\ acked' \subseteq relayed
      /\ \A m \in Node : fencing'[m] # "idle" => m = InitPrimary
      /\ \A m \in Node \ {n} : fencing'[m] = fencing[m]
      /\ fencing'[n] = "sql"
      /\ node[n].pending = {}
  BY <1>2 DEF FenceBySql
<1> QED
  BY <1>1, <1>2, <1>3, <1>4, <1>5 DEF Effect, Quiet, Binlog, Holds, Writable

(* FenceKillEffect: and a fence by kill. *)
LEMMA FenceKillEffect ==
  ASSUME TypeOK, BaseInv, NEW n \in Node, FenceByKill(n)
  PROVE  Effect(n)
<1> USE DEF TypeOK, FleetTypeOK, BaseInv
<1>1. Becomes(n, FencedByKill(node[n]))
  BY DEF FenceByKill
<1>2. node[n] \in NodeState /\ n = InitPrimary
  BY DEF FenceByKill
<1>3. /\ node' \in [Node -> NodeState]
      /\ node'[n] = FencedByKill(node[n])
      /\ \A m \in Node \ {n} : node'[m] = node[m]
  BY <1>1, <1>2, BecomesType, HandlerTypes
<1>4. /\ node'[n].executed = node[n].executed \cup node[n].pending
      /\ node'[n].pending = {}
      /\ node'[n].retrieved = {}
      /\ node'[n].partial = {}
      /\ node'[n].source = node[n].source
      /\ node'[n].sql = "on"
      /\ node'[n].ioStopped = FALSE
      /\ node'[n].superReadOnly = TRUE
      /\ node'[n].ssSource = FALSE
      /\ node'[n].ssReplica = FALSE
  BY <1>2, <1>3 DEF FencedByKill, Restarted, NodeState
<1>5. /\ relayed' = relayed /\ acked' \subseteq relayed
      /\ \A m \in Node : fencing'[m] # "idle" => m = InitPrimary
      /\ \A m \in Node \ {n} : fencing'[m] = fencing[m]
      /\ fencing'[n] = "kill"
  BY <1>2 DEF FenceByKill
<1> QED
  BY <1>1, <1>2, <1>3, <1>4, <1>5 DEF Effect, Quiet, Binlog, Holds, Writable

(* LosslessEffect: such a step keeps the invariant. *)
LEMMA LosslessEffect ==
  ASSUME TypeOK, LosslessInv, NEW n \in Node, Effect(n),
         UNCHANGED <<mgrVars, histVars>>
  PROVE  LosslessInv'
<1> USE DEF LosslessInv, TypeOK, FleetTypeOK
<1>1. UNCHANGED <<pc, primary, winner, polled, todo, stopFailed, views,
                  failovers, lost, cutoff>>
  BY DEF mgrVars, histVars
<1>2. UNCHANGED <<Intact, PromotionDone, Others>>
  BY <1>1 DEF Intact, PromotionDone, Others
<1>3. \A m \in Node \ {n} :
        /\ node'[m] = node[m]
        /\ Binlog(m)' = Binlog(m) /\ Holds(m)' = Holds(m)
        /\ Quiet(m)' = Quiet(m) /\ Writable(m)' = Writable(m)
  BY DEF Effect, Binlog, Holds, Quiet, Writable
<1>a. UNCHANGED fenceTask
  BY DEF mgrVars
<1>b. Sealed => Sealed'
  BY DEF Sealed, Effect
<1>c. SealInv'
  <2>1. Sealed' => Quiet(InitPrimary)'
    <3>1. CASE n = InitPrimary
      BY <3>1 DEF Effect, SealInv, Sealed
    <3>2. CASE n # InitPrimary
      BY <1>3, <3>2 DEF Effect, SealInv, Sealed
    <3> QED BY <3>1, <3>2
  <2> QED BY <1>1, <1>a, <1>b, <2>1 DEF SealInv, FenceDone
<1>4. BaseInv'
  BY <1>1, <1>2, <1>3 DEF BaseInv, Effect
<1>5. IntactInv'
  BY <1>1, <1>2, <1>3 DEF IntactInv, BaseInv, Effect
<1>6. ASSUME n \in Others, Intact \/ pc \in Chosen
      PROVE  /\ Quiet(n)' /\ Holds(n)' = Holds(n)
             /\ node'[n].ioStopped = node[n].ioStopped
  <2>1. n \notin {InitPrimary, primary}
    BY <1>6 DEF Others, BaseInv
  <2>2. Quiet(n)
    BY <1>6, <2>1 DEF IntactInv, ChosenInv
  <2> QED BY <2>1, <2>2 DEF Effect
<1>7. StoppedInv'
  <2>1. \A m \in Others : Intact => node'[m].ioStopped = node[m].ioStopped
    BY <1>3, <1>6 DEF Others
  <2> QED BY <1>1, <1>2, <2>1 DEF StoppedInv, Intact, Choosing
<1>8. ViewInv' /\ ShownInv'
  <2>1. \A m \in Others : Intact =>
          /\ Holds(m)' = Holds(m)
          /\ node'[m].ioStopped = node[m].ioStopped
    BY <1>3, <1>6 DEF Others
  <2>2. ViewInv'
    BY <1>1, <1>2, <1>b, <2>1 DEF ViewInv, Frozen, Harmless
  <2>3. ShownInv'
    BY <1>1, <1>2, <2>1 DEF ShownInv, Effect
  <2> QED BY <2>2, <2>3
<1>9. ChosenInv'
  <2>1. ASSUME pc \in Chosen, NEW m \in Others
        PROVE  /\ Quiet(m)' /\ Holds(m)' = Holds(m)
               /\ node'[m].ioStopped = node[m].ioStopped
               /\ node'[m].source = node[m].source
    BY <1>3, <1>6, <2>1 DEF Others, Effect, ChosenInv
  <2>2. \A m \in Node : node[m].executed \subseteq node'[m].executed
    BY <1>3 DEF Effect
  <2>3. Harmless => Harmless'
    BY <1>b DEF Harmless
  <2>4. relayed' = relayed
    BY DEF Effect
  <2>5. ASSUME pc \in Chosen, NEW m \in Others, Cut(m, winner)
        PROVE  Cut(m, winner)'
    BY <1>1, <2>1, <2>3, <2>5 DEF Cut
  <2>6. pc \in Chosen => winner \in Others /\ winner \in Node
    BY DEF ChosenInv, Others
  <2> QED
    BY <1>1, <1>2, <2>1, <2>2, <2>4, <2>5, <2>6 DEF ChosenInv
<1>10. PromotedInv'
  <2>1. ASSUME NEW m \in Node \ {InitPrimary, primary}, Quiet(m)
        PROVE  /\ Quiet(m)'
               /\ node'[m].ioStopped = node[m].ioStopped
               /\ node'[m].source = node[m].source
    BY <1>3, <2>1 DEF Effect
  <2>2. Binlog(primary) \subseteq Binlog(primary)'
        /\ node'[primary].source = node[primary].source
    BY <1>1, <1>3 DEF Effect
  <2>3. Harmless => Harmless'
    BY <1>b DEF Harmless
  <2> QED
    BY <1>1, <1>2, <2>1, <2>2, <2>3 DEF PromotedInv, Cut, Effect
<1> QED BY <1>4, <1>5, <1>7, <1>8, <1>9, <1>10, <1>c

(* LosslessReplicate: so does replication.  A write becomes acknowledged   *)
(* after the choice only through a replica that did not answer.            *)
LEMMA LosslessReplicate ==
  ASSUME TypeOK, LosslessInv, NEW r \in Node, Replicate(r)
  PROVE  LosslessInv'
<1> USE DEF LosslessInv, TypeOK, FleetTypeOK
<1>1. PICK t \in Txn, s \in Node :
        /\ node[r].source = s /\ ~node[r].ioStopped
        /\ t \in Binlog(s)
        /\ Becomes(r, Relayed(node[r], t))
        /\ relayed' = IF Acknowledges(r, s, t)
                        THEN relayed \cup {t} ELSE relayed
        /\ lost' = IF r \in cutoff /\ t \notin relayed /\ t \in relayed'
                     THEN lost \cup {t} ELSE lost
        /\ UNCHANGED <<fencing, acked, mgrVars, cutoff>>
  BY DEF Replicate, Receive, Streaming, First, Missing
<1>2. UNCHANGED <<pc, primary, winner, polled, todo, stopFailed, views,
                  failovers, cutoff>>
  BY <1>1 DEF mgrVars
<1>3. UNCHANGED <<Intact, PromotionDone, Others>>
  BY <1>2 DEF Intact, PromotionDone, Others
<1>4. /\ node' \in [Node -> NodeState]
      /\ node'[r] = Relayed(node[r], t)
      /\ \A m \in Node \ {r} : node'[m] = node[m]
  BY <1>1, BecomesType, ReplicationTypes
<1>5. /\ node'[r].executed = node[r].executed
      /\ node'[r].pending = node[r].pending
      /\ node'[r].retrieved = node[r].retrieved \cup {t}
      /\ node'[r].partial = node[r].partial \ {t}
      /\ node'[r].source = node[r].source
      /\ node'[r].sql = node[r].sql
      /\ node'[r].ioStopped = node[r].ioStopped
      /\ node'[r].superReadOnly = node[r].superReadOnly
      /\ node'[r].ssSource = node[r].ssSource
      /\ node'[r].ssReplica = node[r].ssReplica
  BY <1>4 DEF Relayed, NodeState
<1>6. \A m \in Node \ {r} : Holds(m)' = Holds(m)
  BY <1>4 DEF Holds
<1>7. \A m \in Node :
        Binlog(m)' = Binlog(m) /\ Quiet(m)' = Quiet(m)
        /\ Writable(m)' = Writable(m)
  BY <1>4, <1>5 DEF Binlog, Quiet, Writable
<1>8. Holds(r)' = Holds(r) \cup {t}
  BY <1>5 DEF Holds
<1>9. s # NoNode /\ r # InitPrimary
  BY <1>1 DEF BaseInv
<1>10. BaseInv'
  BY <1>1, <1>2, <1>3, <1>4, <1>5, <1>7 DEF BaseInv
<1>11. IntactInv'
  BY <1>1, <1>2, <1>3, <1>4, <1>5, <1>6, <1>7, <1>8, <1>9 DEF IntactInv
<1>12. StoppedInv'
  <2>1. \A m \in Node : node'[m].ioStopped = node[m].ioStopped
    BY <1>4, <1>5
  <2> QED BY <1>2, <1>3, <2>1 DEF StoppedInv
<1>a. UNCHANGED <<fenceTask, Sealed, Harmless>>
  BY <1>1 DEF mgrVars, Sealed, Harmless
<1>b. SealInv'
  BY <1>2, <1>7, <1>a DEF SealInv, FenceDone
<1>c. ASSUME Harmless,
             \/ Intact
             \/ pc \in Chosen
             \/ PromotionDone /\ s # primary
      PROVE  relayed' = relayed
  <2>1. Quiet(InitPrimary)
    BY <1>c DEF SealInv, Harmless
  <2>2. CASE Intact
    BY <1>1, <1>9, <2>1, <2>2 DEF IntactInv, Quiet, Acknowledges
  <2>3. CASE pc \in Chosen
    <3>1. s = InitPrimary \/ Quiet(s)
      BY <2>3 DEF ChosenInv, BaseInv, Others
    <3> QED BY <1>1, <2>1, <3>1 DEF Quiet, Acknowledges
  <2>4. CASE PromotionDone /\ s # primary
    <3>1. s = InitPrimary \/ Quiet(s)
      BY <2>4 DEF PromotedInv
    <3> QED BY <1>1, <2>1, <3>1 DEF Quiet, Acknowledges
  <2> QED BY <1>c, <2>2, <2>3, <2>4
<1>13. ViewInv'
  <2>1. \A m \in Others : Frozen(m) => m # r
    BY <1>1 DEF Frozen
  <2>2. \A m \in Others : Holds(m) \subseteq Holds(m)'
    BY <1>6, <1>8 DEF Others
  <2>3. \A m \in Others : Frozen(m) => Frozen(m)'
    BY <1>2, <1>4, <1>6, <2>1 DEF Frozen, Others
  <2> QED BY <1>2, <1>3, <1>a, <2>2, <2>3 DEF ViewInv
<1>d. ShownInv'
  <2> SUFFICES ASSUME Intact, NEW u \in relayed'
               PROVE  \E m \in Others :
                        /\ u \in Holds(m)'
                        /\ views[m] # UnreachableView => u \in Have(views[m])
    BY <1>2, <1>3 DEF ShownInv
  <2>1. \A m \in Others : Holds(m) \subseteq Holds(m)'
    BY <1>6, <1>8 DEF Others
  <2>2. CASE u \in relayed
    BY <2>1, <2>2 DEF ShownInv
  <2>3. CASE u \notin relayed
    <3>1. u = t /\ ~Harmless
      BY <1>1, <1>c, <2>3
    <3>2. r \in Others
      BY <1>9 DEF Others, BaseInv
    <3>3. views[r] = UnreachableView
      BY <1>1, <3>1, <3>2 DEF ViewInv, Frozen
    <3> QED BY <1>8, <3>1, <3>2, <3>3
  <2> QED BY <2>2, <2>3
<1>14. ASSUME pc \in Chosen
       PROVE  relayed' \ lost' \subseteq relayed \ lost
  <2>1. r \in Others /\ Cut(r, winner)
    BY <1>1, <1>9, <1>14 DEF ChosenInv, BaseInv, Others
  <2>2. CASE r \in cutoff
    BY <1>1, <2>2
  <2>3. CASE r \notin cutoff /\ Harmless
    BY <1>1, <1>14, <1>c, <2>3
  <2>4. CASE r \notin cutoff /\ ~Harmless
    <3>1. s = winner /\ node[s].pending = {}
      BY <1>1, <1>14, <2>1, <2>4 DEF ChosenInv, Quiet, Cut
    <3> QED BY <1>1, <2>4, <3>1 DEF Acknowledges
  <2> QED BY <2>2, <2>3, <2>4
<1>15. ChosenInv'
  <2>1. \A m \in Node : /\ Holds(m) \subseteq Holds(m)'
                       /\ node'[m].executed = node[m].executed
                       /\ node'[m].source = node[m].source
                       /\ node'[m].ioStopped = node[m].ioStopped
    BY <1>4, <1>5, <1>6, <1>8
  <2>2. pc \in Chosen => winner \in Node
    BY DEF ChosenInv, Others
  <2> QED
    BY <1>2, <1>3, <1>7, <1>14, <1>a, <2>1, <2>2 DEF ChosenInv, Cut, Others
<1>16. ASSUME PromotionDone
       PROVE  relayed' \ lost' \subseteq Binlog(primary)
  <2>1. r \in Node \ {InitPrimary, primary} /\ Cut(r, primary)
    BY <1>1, <1>9, <1>16 DEF PromotedInv
  <2>2. CASE r \in cutoff
    BY <1>1, <1>16, <2>2 DEF PromotedInv
  <2>3. CASE s = primary
    BY <1>1, <1>16, <2>3 DEF PromotedInv
  <2>4. CASE r \notin cutoff /\ s # primary
    <3>1. relayed' = relayed
      BY <1>1, <1>16, <1>c, <2>1, <2>4 DEF Cut
    <3> QED BY <1>1, <1>16, <2>4, <3>1 DEF PromotedInv
  <2> QED BY <2>2, <2>3, <2>4
<1>17. PromotedInv'
  <2>1. \A m \in Node : /\ node'[m].source = node[m].source
                       /\ node'[m].ioStopped = node[m].ioStopped
    BY <1>4, <1>5
  <2> QED
    BY <1>2, <1>3, <1>7, <1>16, <1>a, <2>1 DEF PromotedInv, Cut
<1> QED
  BY <1>10, <1>11, <1>12, <1>13, <1>15, <1>17, <1>b, <1>d

(* LosslessEnvironment: so does every step of the environment. *)
LEMMA LosslessEnvironment ==
  ASSUME FirstFailover, TypeOK, LosslessInv, NEW n \in Node, Environment(n)
  PROVE  LosslessInv'
<1> USE DEF LosslessInv
<1>1. CASE Replicate(n)
  BY <1>1, LosslessReplicate
<1>2. CASE FleetStep(n) /\ UNCHANGED <<mgrVars, histVars>>
  <2>1. Effect(n)
    BY <1>2, CommitEffect, ApplyEffect, AckEffect, ReassertEffect,
       FenceSqlEffect, FenceKillEffect DEF FleetStep
  <2> QED BY <1>2, <2>1, LosslessEffect
<1>3. CASE RestartOutside(n)
  <2>1. n = primary /\ Restart(n)
    BY <1>3 DEF RestartOutside, FirstFailover
  <2> QED BY <1>3, <2>1, RestartEffect, LosslessEffect DEF RestartOutside
<1> QED
  BY <1>1, <1>2, <1>3 DEF Environment, RestartInRun, FirstFailover

(* NodesKept: a step that changes no node keeps what is read of nodes. *)
LEMMA NodesKept ==
  ASSUME UNCHANGED node
  PROVE  \A m \in Node :
           /\ Binlog(m)' = Binlog(m) /\ Holds(m)' = Holds(m)
           /\ Quiet(m)' = Quiet(m) /\ Writable(m)' = Writable(m)
  BY DEF Binlog, Holds, Quiet, Writable

(* LosslessStart: a run starts from an intact set. *)
LEMMA LosslessStart ==
  ASSUME FirstFailover, TypeOK, LosslessInv, Start
  PROVE  LosslessInv'
<1> USE DEF LosslessInv, TypeOK, FleetTypeOK
<1>1. /\ pc = "idle" /\ pc' = "stop_io" /\ failovers = 0
      /\ UNCHANGED <<node, relayed, acked, primary, winner, stopFailed,
                     views, failovers, lost, cutoff>>
      /\ fencing' = [fencing EXCEPT ![primary] = "sent"]
  BY DEF Start, FirstFailover, histVars
<1>2. Intact /\ Intact' /\ ~PromotionDone' /\ primary = InitPrimary
  BY <1>1 DEF Intact, PromotionDone, Choosing, BaseInv
<1>3. UNCHANGED Others
  BY <1>1 DEF Others
<1>4. PICK P \in SUBSET Others :
        polled' = P /\ todo' = {n \in P : node[n].source # NoNode}
  BY DEF Start
<1>5. BaseInv'
  BY <1>1, <1>2, NodesKept DEF BaseInv, Chosen, Choosing
<1>6. IntactInv'
  BY <1>1, <1>2, NodesKept DEF IntactInv
<1>7. StoppedInv'
  <2>1. \A n \in P : node[n].source # NoNode
    BY <1>2, <1>4 DEF IntactInv, Others
  <2> QED BY <1>1, <1>3, <1>4, <2>1 DEF StoppedInv
<1>8. ViewInv' /\ ShownInv'
  <2>1. \A n \in Others : views[n] = UnreachableView
    BY <1>1, <1>2 DEF ViewInv
  <2> QED BY <1>1, <1>2, <1>3, <2>1, NodesKept DEF ViewInv, ShownInv, Others
<1>9. ChosenInv' /\ PromotedInv'
  BY <1>1, <1>2 DEF ChosenInv, PromotedInv, Chosen
<1>10. SealInv'
  <2>1. ~Sealed'
    BY <1>1, <1>2 DEF Sealed
  <2>2. fenceTask' = "running"
    BY DEF Start
  <2> QED BY <1>1, <2>1, <2>2 DEF SealInv
<1> QED BY <1>5, <1>6, <1>7, <1>8, <1>9, <1>10

(* LosslessStopIo: stopping an IO thread keeps the invariant. *)
LEMMA LosslessStopIo ==
  ASSUME TypeOK, LosslessInv, NEW n \in Node, StopIo(n)
  PROVE  LosslessInv'
<1> USE DEF LosslessInv, TypeOK, FleetTypeOK
<1>1. /\ pc = "stop_io" /\ todo' = todo \ {n}
      /\ Becomes(n, IoStopped(node[n]))
      /\ UNCHANGED <<fencing, relayed, acked, pc, primary, winner, polled,
                     stopFailed, views, failovers, lost, cutoff, fenceTask>>
  BY DEF StopIo, histVars
<1>2. UNCHANGED <<Intact, PromotionDone, Others>>
  BY <1>1 DEF Intact, PromotionDone, Others
<1>3. /\ node' \in [Node -> NodeState]
      /\ node'[n] = IoStopped(node[n])
      /\ \A m \in Node \ {n} : node'[m] = node[m]
  BY <1>1, BecomesType, HandlerTypes
<1>4. /\ node'[n].executed = node[n].executed
      /\ node'[n].pending = node[n].pending
      /\ node'[n].retrieved = node[n].retrieved
      /\ node'[n].partial = node[n].partial
      /\ node'[n].source = node[n].source
      /\ node'[n].sql = node[n].sql
      /\ node'[n].ioStopped
      /\ node'[n].superReadOnly = node[n].superReadOnly
      /\ node'[n].ssSource = node[n].ssSource
      /\ node'[n].ssReplica = node[n].ssReplica
  BY <1>3 DEF IoStopped, NodeState
<1>5. \A m \in Node :
        /\ Binlog(m)' = Binlog(m) /\ Holds(m)' = Holds(m)
        /\ Quiet(m)' = Quiet(m) /\ Writable(m)' = Writable(m)
  BY <1>3, <1>4 DEF Binlog, Holds, Quiet, Writable
<1>6. BaseInv' /\ IntactInv'
  BY <1>1, <1>2, <1>3, <1>4, <1>5 DEF BaseInv, IntactInv
<1>7. StoppedInv'
  BY <1>1, <1>2, <1>3, <1>4 DEF StoppedInv
<1>8. ViewInv' /\ ShownInv'
  BY <1>1, <1>2, <1>5 DEF ViewInv, ShownInv, Others
<1>9. ChosenInv' /\ PromotedInv'
  BY <1>1 DEF ChosenInv, PromotedInv, PromotionDone, Chosen
<1>10. SealInv'
  BY <1>1, <1>5 DEF SealInv, Sealed, FenceDone
<1> QED BY <1>6, <1>7, <1>8, <1>9, <1>10

(* LosslessView: an answer comes from a replica whose stop was confirmed,  *)
(* or behind the fence.                                                    *)
LEMMA LosslessView ==
  ASSUME FirstFailover, TypeOK, LosslessInv, NEW n \in Node, View(n)
  PROVE  LosslessInv'
<1> USE DEF LosslessInv, TypeOK, FleetTypeOK
<1>1. /\ pc = "view"
      /\ UNCHANGED <<node, fencing, relayed, acked, pc, primary, winner,
                     polled, stopFailed, failovers, lost, cutoff, fenceTask>>
  BY DEF View, fleetVars, histVars
<1>2. UNCHANGED <<Intact, PromotionDone, Others, Sealed, Harmless>>
  BY <1>1 DEF Intact, PromotionDone, Others, Sealed, Harmless
<1>3. BaseInv' /\ IntactInv' /\ StoppedInv' /\ SealInv'
  BY <1>1, <1>2, NodesKept
  DEF BaseInv, IntactInv, StoppedInv, SealInv, FenceDone
<1>4. PICK answered \in BOOLEAN :
        /\ answered => n \in polled
        /\ answered => n \notin stopFailed \/ ~StopsConfirmed
        /\ views' = [views EXCEPT ![n] = IF answered THEN Status(n)
                                                     ELSE UnreachableView]
  BY DEF View, MayAnswer, FirstFailover, StopsConfirmed
<1>5. ASSUME answered
      PROVE  /\ n \in Others
             /\ node[n].ioStopped \/ Harmless
             /\ Candidate(Status(n))
             /\ Have(Status(n)) = Holds(n)
  <2>1. n \in Others /\ primary = InitPrimary /\ Intact
    BY <1>1, <1>4, <1>5 DEF StoppedInv, BaseInv, Intact, Choosing
  <2>a. ASSUME n \notin stopFailed PROVE node[n].ioStopped
    BY <1>1, <1>4, <1>5, <2>a DEF StoppedInv
  <2>b. ASSUME n \in stopFailed PROVE Harmless
    <3>1. ~StopsConfirmed
      BY <1>4, <1>5, <2>b
    <3>2. "fence_unreachable" \notin Faults
      BY <3>1 DEF FirstFailover, StopsConfirmed
    <3>3. fenceTask \in {"sql", "kill"}
      BY <1>1, <2>b, <3>2 DEF SealInv, FenceDone, FenceOutcome
    <3> QED BY <3>1, <3>3 DEF SealInv, Harmless
  <2>2. node[n].source # NoNode /\ node[n].sql = "on" /\ node[n].ssReplica
    BY <2>1 DEF IntactInv, Others
  <2>3. Candidate(Status(n))
    BY <2>2 DEF Candidate, Usable, Status
  <2>4. Have(Status(n)) = Holds(n)
    BY DEF Have, Status, Holds
  <2> QED BY <2>1, <2>a, <2>b, <2>3, <2>4
<1>a. \A m \in Node \ {n} : views'[m] = views[m]
  BY <1>4
<1>b. views'[n] # UnreachableView => answered /\ views'[n] = Status(n)
  BY <1>4
<1>6. ViewInv'
  BY <1>1, <1>2, <1>5, <1>a, <1>b, NodesKept DEF ViewInv, Others, Frozen
<1>c. ShownInv'
  BY <1>1, <1>2, <1>5, <1>a, <1>b, NodesKept DEF ShownInv, Others
<1>7. ChosenInv' /\ PromotedInv'
  BY <1>1 DEF ChosenInv, PromotedInv, PromotionDone, Chosen
<1> QED BY <1>3, <1>6, <1>7, <1>c

(* WinnerHoldsMost: the winner of a choice holds what every candidate's    *)
(* view shows (choose, selection.py).                                      *)
LEMMA WinnerHoldsMost ==
  ASSUME NEW cands, NEW w \in Winners(views, cands), NEW c \in cands
  PROVE  w \in cands /\ Have(views[c]) \subseteq Have(views[w])
  BY DEF Winners, Best, Diverged

(* AmongTwo: a small set has two replicas. *)
LEMMA AmongTwo ==
  ASSUME SmallSet, primary \in Node, NEW a \in Others, NEW b \in Others,
         NEW c \in Others
  PROVE  a = b \/ a = c \/ b = c
<1>1. /\ IsFiniteSet(Others)
      /\ Cardinality(Others) = Cardinality(Node) - 1
      /\ Cardinality(Node) \in Nat
  BY FS_RemoveElement, FS_CardinalityType DEF SmallSet, Others
<1>2. /\ IsFiniteSet(Others \ {a})
      /\ Cardinality(Others \ {a}) = Cardinality(Others) - 1
  BY <1>1, FS_RemoveElement
<1>3. ASSUME b # a
      PROVE  /\ IsFiniteSet((Others \ {a}) \ {b})
             /\ Cardinality((Others \ {a}) \ {b}) = Cardinality(Others) - 2
  <2>1. b \in Others \ {a}
    BY <1>3
  <2>2. /\ IsFiniteSet((Others \ {a}) \ {b})
        /\ Cardinality((Others \ {a}) \ {b})
             = Cardinality(Others \ {a}) - 1
    BY <1>2, <2>1, FS_RemoveElement
  <2> QED BY <1>1, <1>2, <2>2
<1>4. ASSUME b # a, c # a, c # b
      PROVE  FALSE
  <2>1. c \in (Others \ {a}) \ {b}
    BY <1>4
  <2>2. Cardinality((Others \ {a}) \ {b}) # 0
    BY <1>3, <1>4, <2>1, FS_EmptySet
  <2>3. Cardinality((Others \ {a}) \ {b}) \in Nat
    BY <1>3, <1>4, FS_CardinalityType
  <2> QED BY <1>1, <1>3, <1>4, <2>2, <2>3 DEF SmallSet
<1> QED BY <1>4

(* LosslessChoose: the winner holds every write that counts: what an       *)
(* answer shows it has fetched before, and a write that only one who has   *)
(* been read held then is in an answer.                                    *)
LEMMA LosslessChoose ==
  ASSUME FirstFailover, TypeOK, LosslessInv, NEW w \in Node, Choose(w)
  PROVE  LosslessInv'
<1> USE DEF LosslessInv, TypeOK, FleetTypeOK
<1> DEFINE cands == Candidates(views, Others)
<1>1. /\ pc = "choose" /\ pc' = "catch_up" /\ winner' = w
      /\ w \in Winners(views, cands)
      /\ lost' = lost \cup {t \in relayed :
                              \A n \in Answered : t \notin Durable(n)}
      /\ cutoff' = cutoff \cup (Others \ Answered)
      /\ UNCHANGED <<node, fencing, relayed, acked, primary, failovers,
                     fenceTask, stopFailed, Harmless>>
  BY DEF Choose, fleetVars, Harmless, Sealed
<1>2. Intact /\ ~Intact' /\ ~PromotionDone' /\ primary = InitPrimary
  BY <1>1 DEF Intact, PromotionDone, Choosing, BaseInv
<1>3. UNCHANGED Others
  BY <1>1 DEF Others
<1>4. BaseInv'
  BY <1>1, <1>2, NodesKept DEF BaseInv, Chosen, Choosing
<1>5. /\ IntactInv' /\ ViewInv' /\ PromotedInv' /\ StoppedInv'
      /\ ShownInv' /\ SealInv'
  BY <1>1, <1>2, NodesKept
  DEF IntactInv, ViewInv, PromotedInv, StoppedInv, ShownInv, SealInv, Sealed
<1>6. \A n \in Answered : views[n] # UnreachableView
  BY DEF Answered, Usable, UnreachableView
<1>7. \A n \in Answered :
        /\ n \in cands /\ n \in Others
        /\ Have(views[n]) \subseteq Holds(n)
        /\ Frozen(n) \/ Harmless
  BY <1>2, <1>6 DEF ViewInv, Answered, Candidates
<1>8. w \in cands /\ w \in Answered
  BY <1>1, WinnerHoldsMost
  DEF Winners, Best, Candidates, Candidate, Answered
<1>9. \A n \in Answered : Have(views[n]) \subseteq Holds(w)
  BY <1>1, <1>7, <1>8, WinnerHoldsMost
<1>10. relayed \ lost' \subseteq Holds(w)
  <2> SUFFICES ASSUME NEW t \in relayed \ lost' PROVE t \in Holds(w)
    OBVIOUS
  <2>1. PICK n \in Answered : t \in Holds(n)
    BY <1>1 DEF Durable
  <2>2. CASE ~Harmless
    BY <1>7, <1>9, <2>1, <2>2 DEF Frozen
  <2>3. CASE Harmless
    <3>1. SmallSet
      BY <2>3 DEF FirstFailover, Harmless, StopsConfirmed
    <3>2. PICK m \in Others :
            /\ t \in Holds(m)
            /\ views[m] # UnreachableView => t \in Have(views[m])
      BY <1>2 DEF ShownInv
    <3>3. CASE m \in Answered
      BY <1>6, <1>9, <3>2, <3>3
    <3>4. CASE m \notin Answered
      <4>1. n # m /\ w # m /\ n \in Others /\ w \in Others
        BY <1>7, <1>8, <2>1, <3>4
      <4>2. n = w
        BY <3>1, <4>1, AmongTwo
      <4> QED BY <2>1, <4>2
    <3> QED BY <3>3, <3>4
  <2> QED BY <2>2, <2>3
<1>11. \A r \in Others : Quiet(r) /\ Cut(r, w)'
  BY <1>1, <1>2, <1>7 DEF IntactInv, Others, Cut, Frozen
<1>12. ChosenInv'
  <2>1. w \in Others' /\ (StopsConfirmed => node'[w].ioStopped)
    BY <1>1, <1>3, <1>7, <1>8 DEF Answered, Frozen, Harmless
  <2>2. relayed' \ lost' \subseteq Holds(w)'
    BY <1>1, <1>10, NodesKept
  <2>3. \A r \in Others' : Quiet(r)' /\ Cut(r, w)'
    BY <1>1, <1>3, <1>11, NodesKept DEF Others
  <2> QED BY <1>1, <2>1, <2>2, <2>3 DEF ChosenInv
<1> QED BY <1>4, <1>5, <1>12

(* LosslessCatchUp: a winner that has caught up has applied what it held. *)
LEMMA LosslessCatchUp ==
  ASSUME TypeOK, LosslessInv, CatchUp
  PROVE  LosslessInv'
<1> USE DEF LosslessInv, TypeOK, FleetTypeOK
<1>1. /\ pc = "catch_up" /\ pc' = "repoint" /\ todo' = Answered \ {winner}
      /\ CaughtUp(winner)
      /\ UNCHANGED <<node, fencing, relayed, acked, primary, winner,
                     failovers, lost, cutoff, fenceTask, Harmless>>
  BY DEF CatchUp, fleetVars, histVars, Harmless, Sealed
<1>2. winner \in Node
  BY <1>1 DEF Chosen
<1>3. node[winner].retrieved \subseteq node[winner].executed
  BY <1>1, <1>2 DEF CaughtUp, Appliable, BaseInv
<1>4. relayed \ lost \subseteq node[winner].executed
  BY <1>1, <1>3 DEF ChosenInv, Chosen, Holds
<1>5. ~Intact' /\ ~PromotionDone'
  BY <1>1 DEF Intact, PromotionDone, Choosing
<1>6. /\ BaseInv' /\ IntactInv' /\ StoppedInv' /\ ViewInv' /\ PromotedInv'
      /\ ShownInv' /\ SealInv'
  BY <1>1, <1>5, NodesKept
  DEF BaseInv, IntactInv, StoppedInv, ViewInv, PromotedInv, Chosen, ShownInv,
      SealInv, Sealed
<1>7. ChosenInv'
  BY <1>1, <1>4, NodesKept DEF ChosenInv, Chosen, Answered, Others, Cut
<1> QED BY <1>6, <1>7

(* LosslessRepoint: a repointed replica is the winner's, or stopped. *)
LEMMA LosslessRepoint ==
  ASSUME TypeOK, LosslessInv, NEW n \in Node, Repoint(n)
  PROVE  LosslessInv'
<1> USE DEF LosslessInv, TypeOK, FleetTypeOK
<1>1. /\ pc = "repoint" /\ n \in todo /\ todo' = todo \ {n}
      /\ cutoff' = cutoff \ {n} \/ cutoff' = cutoff
      /\ UNCHANGED <<fencing, relayed, acked, pc, primary, winner, failovers,
                     lost, fenceTask, Harmless>>
  BY DEF Repoint, Harmless, Sealed
<1>2. /\ n \in Others /\ n # winner /\ n # InitPrimary
      /\ winner \in Others /\ Quiet(n) /\ primary = InitPrimary
  BY <1>1 DEF ChosenInv, Chosen, BaseInv, Others
<1>3. \/ Becomes(n, Repointed(node[n], winner))
      \/ Becomes(n, RepointCut(node[n])) /\ cutoff' = cutoff
  BY DEF Repoint
<1>4. /\ node' \in [Node -> NodeState]
      /\ \A m \in Node \ {n} : node'[m] = node[m]
      /\ \/ node'[n] = Repointed(node[n], winner)
         \/ node'[n] = RepointCut(node[n])
  BY <1>2, <1>3, BecomesType, HandlerTypes DEF Others
<1>5. /\ Quiet(n)' /\ ~Writable(n)' /\ node'[n].partial = {}
      /\ node'[n].ioStopped \/ node'[n].source = winner
  <2>1. CASE node'[n] = Repointed(node[n], winner)
    BY <1>2, <2>1 DEF Repointed, Quiet, Writable, NodeState
  <2>2. CASE node'[n] = RepointCut(node[n])
    BY <1>2, <2>2 DEF RepointCut, Quiet, Writable, NodeState, BaseInv
  <2> QED BY <1>4, <2>1, <2>2
<1>6. \A m \in Node \ {n} :
        /\ Holds(m)' = Holds(m) /\ Quiet(m)' = Quiet(m)
        /\ Writable(m)' = Writable(m)
  BY <1>4 DEF Holds, Quiet, Writable
<1>7. ~Intact' /\ ~PromotionDone'
  BY <1>1 DEF Intact, PromotionDone, Choosing
<1>8. BaseInv'
  BY <1>1, <1>2, <1>4, <1>5, <1>6, <1>7 DEF BaseInv
<1>9. /\ IntactInv' /\ StoppedInv' /\ ViewInv' /\ PromotedInv' /\ ShownInv'
      /\ SealInv'
  BY <1>1, <1>2, <1>6, <1>7
  DEF IntactInv, StoppedInv, ViewInv, PromotedInv, ShownInv, SealInv, Sealed
<1>10. ChosenInv'
  <2>1. Cut(n, winner)'
    BY <1>1, <1>5 DEF Cut
  <2>2. \A r \in Others \ {n} : Cut(r, winner) => Cut(r, winner)'
    BY <1>1, <1>4 DEF Cut, Others
  <2> QED
    BY <1>1, <1>2, <1>4, <1>5, <1>6, <2>1, <2>2 DEF ChosenInv, Chosen, Others
<1> QED BY <1>8, <1>9, <1>10

(* LosslessPromote: the promoted winner has every write that counts. *)
LEMMA LosslessPromote ==
  ASSUME TypeOK, LosslessInv, Promote
  PROVE  LosslessInv'
<1> USE DEF LosslessInv, TypeOK, FleetTypeOK
<1>1. /\ pc = "promote" /\ pc' = "record" /\ primary' = winner
      /\ Becomes(winner, Promoted(node[winner]))
      /\ UNCHANGED <<fencing, relayed, acked, winner, failovers, lost,
                     cutoff, fenceTask, Harmless>>
  BY DEF Promote, histVars, Harmless, Sealed
<1>2. /\ winner \in Others /\ winner # InitPrimary /\ primary = InitPrimary
      /\ relayed \ lost \subseteq node[winner].executed
  BY <1>1 DEF ChosenInv, Chosen, BaseInv, Others
<1>3. /\ node' \in [Node -> NodeState]
      /\ node'[winner] = Promoted(node[winner])
      /\ \A m \in Node \ {winner} : node'[m] = node[m]
  BY <1>1, <1>2, BecomesType, HandlerTypes DEF Others
<1>4. /\ node'[winner].executed = node[winner].executed
      /\ node'[winner].partial = {}
      /\ node'[winner].source = NoNode
      /\ node'[winner].ssSource
  BY <1>3 DEF Promoted, PromotedReadOnly, NodeState
<1>5. \A m \in Node \ {winner} :
        Quiet(m)' = Quiet(m) /\ Writable(m)' = Writable(m)
  BY <1>3 DEF Quiet, Writable
<1>6. ~Intact' /\ PromotionDone'
  BY <1>1 DEF Intact, PromotionDone, Choosing
<1>7. BaseInv'
  BY <1>1, <1>2, <1>3, <1>4, <1>5, <1>6 DEF BaseInv, Chosen
<1>8. /\ IntactInv' /\ StoppedInv' /\ ViewInv' /\ ChosenInv' /\ ShownInv'
      /\ SealInv'
  BY <1>1, <1>2, <1>5, <1>6
  DEF IntactInv, StoppedInv, ViewInv, ChosenInv, Chosen, ShownInv, SealInv,
      Sealed
<1>9. PromotedInv'
  BY <1>1, <1>2, <1>3, <1>4, <1>5
  DEF PromotedInv, ChosenInv, Chosen, Others, Binlog, Cut
<1> QED BY <1>7, <1>8, <1>9

(* LosslessHalt: a set that halts keeps only the base of the invariant. *)
LEMMA LosslessHalt ==
  ASSUME TypeOK, LosslessInv,
         ChooseNone \/ CatchUpFails \/ PromoteFails \/ Halt
  PROVE  LosslessInv'
<1> USE DEF LosslessInv, TypeOK, FleetTypeOK
<1>1. /\ pc' \in {"halting", "halted"}
      /\ UNCHANGED <<fencing, relayed, acked, primary, winner, failovers,
                     fenceTask>>
  BY DEF ChooseNone, CatchUpFails, PromoteFails, Halt, fleetVars
<1>2. \A m \in Node :
        /\ Writable(m)' => node'[m].ssSource
        /\ node'[m].partial = {}
        /\ m = InitPrimary => node'[m].source = NoNode
  <2>1. CASE UNCHANGED node
    BY <2>1 DEF BaseInv, Writable
  <2>2. CASE PromoteFails
    <3>1. winner \in Node
      BY <2>2 DEF PromoteFails, Chosen
    <3>2. /\ node' \in [Node -> NodeState]
          /\ \A m \in Node \ {winner} : node'[m] = node[m]
          /\ \/ node'[winner] = node[winner]
             \/ node'[winner] = PromotedReadOnly(node[winner])
             \/ node'[winner] = Promoted(node[winner])
      BY <2>2, <3>1, BecomesType, HandlerTypes DEF PromoteFails
    <3>3. ASSUME node'[winner] # node[winner]
          PROVE  /\ node'[winner].partial = {}
                 /\ node'[winner].source = NoNode
                 /\ node'[winner].ssSource
      <4>1. CASE node'[winner] = PromotedReadOnly(node[winner])
        BY <3>1, <4>1 DEF PromotedReadOnly, NodeState
      <4>2. CASE node'[winner] = Promoted(node[winner])
        BY <3>1, <4>2 DEF Promoted, PromotedReadOnly, NodeState
      <4> QED BY <3>2, <3>3, <4>1, <4>2
    <3> QED BY <3>2, <3>3 DEF BaseInv, Writable
  <2> QED BY <2>1, <2>2 DEF ChooseNone, CatchUpFails, Halt, fleetVars
<1>3. ~Intact' /\ ~PromotionDone'
  BY <1>1 DEF Intact, PromotionDone, Choosing
<1>4. BaseInv'
  BY <1>1, <1>2, <1>3 DEF BaseInv, Chosen, Choosing
<1>5. /\ IntactInv' /\ StoppedInv' /\ ViewInv' /\ ChosenInv'
      /\ PromotedInv' /\ ShownInv'
  BY <1>1, <1>3
  DEF IntactInv, StoppedInv, ViewInv, ChosenInv, PromotedInv, Chosen, ShownInv
<1>6. SealInv'
  <2>1. node'[InitPrimary] = node[InitPrimary]
    <3>1. CASE PromoteFails
      BY <3>1, BecomesType, HandlerTypes
      DEF PromoteFails, ChosenInv, Chosen, BaseInv, Others
    <3>2. CASE ~PromoteFails
      BY <3>2 DEF ChooseNone, CatchUpFails, Halt, fleetVars
    <3> QED BY <3>1, <3>2
  <2> QED BY <1>1, <2>1 DEF SealInv, Sealed, Quiet
<1> QED BY <1>4, <1>5, <1>6

(* LosslessQuietStep: the other steps, and stuttering, change no node. *)
LEMMA LosslessQuietStep ==
  ASSUME TypeOK, LosslessInv,
         \/ StopIoEnds \/ FenceWaitEnds \/ FenceAnswers \/ FenceGivesUp
         \/ ViewsEnd \/ RepointsEnd \/ AwaitFence \/ Record
         \/ \E n \in Node : StopIoFails(n) \/ RepointFails(n)
         \/ UNCHANGED vars
  PROVE  LosslessInv'
<1> USE DEF LosslessInv, TypeOK, FleetTypeOK, fleetVars, histVars, Intact,
            PromotionDone, Choosing, Chosen, Others, Sealed, Harmless, Cut,
            Frozen, FenceDone, FenceOutcome
<1> USE NodesKept
<1>1. CASE StopIoEnds
  BY <1>1 DEF StopIoEnds, BaseInv, IntactInv, StoppedInv, ViewInv,
              ChosenInv, PromotedInv, SealInv, ShownInv
<1>2. CASE FenceWaitEnds
  BY <1>2 DEF FenceWaitEnds, BaseInv, IntactInv, StoppedInv, ViewInv,
              ChosenInv, PromotedInv, SealInv, ShownInv
<1>3. CASE FenceAnswers \/ FenceGivesUp
  BY <1>3 DEF FenceAnswers, FenceGivesUp, BaseInv, IntactInv, StoppedInv,
              ViewInv, ChosenInv, PromotedInv, SealInv, ShownInv
<1>4. CASE ViewsEnd
  BY <1>4 DEF ViewsEnd, BaseInv, IntactInv, StoppedInv, ViewInv,
              ChosenInv, PromotedInv, SealInv, ShownInv
<1>5. CASE RepointsEnd
  BY <1>5 DEF RepointsEnd, BaseInv, IntactInv, StoppedInv, ViewInv,
              ChosenInv, PromotedInv, SealInv, ShownInv
<1>6. CASE AwaitFence
  BY <1>6 DEF AwaitFence, BaseInv, IntactInv, StoppedInv, ViewInv,
              ChosenInv, PromotedInv, SealInv, ShownInv
<1>7. CASE Record
  BY <1>7 DEF Record, BaseInv, IntactInv, StoppedInv, ViewInv,
              ChosenInv, PromotedInv, SealInv, ShownInv
<1>8. CASE \E n \in Node : StopIoFails(n) \/ RepointFails(n)
  BY <1>8 DEF StopIoFails, RepointFails, BaseInv, IntactInv, StoppedInv,
              ViewInv, ChosenInv, PromotedInv, SealInv, ShownInv
<1>9. CASE UNCHANGED vars
  <2>1. UNCHANGED <<node, fencing, relayed, acked, pc, primary, winner, polled,
                    todo, stopFailed, views, failovers, lost, cutoff,
                    fenceTask>>
    BY <1>9 DEF vars, mgrVars
  <2> QED
    BY <2>1 DEF BaseInv, IntactInv, StoppedInv, ViewInv, ChosenInv,
                PromotedInv, SealInv, ShownInv
<1> QED BY <1>1, <1>2, <1>3, <1>4, <1>5, <1>6, <1>7, <1>8, <1>9

(* LosslessAlways: so the invariant holds throughout. *)
LEMMA LosslessAlways ==
  ASSUME FirstFailover
  PROVE  Spec => []LosslessInv
<1>1. TypeOK /\ LosslessInv /\ [Next]_vars => LosslessInv'
  <2> SUFFICES ASSUME TypeOK, LosslessInv, [Next]_vars PROVE LosslessInv'
    OBVIOUS
  <2>1. CASE Start
    BY <2>1, LosslessStart
  <2>2. CASE ManagerStep
    BY <2>2, LosslessStopIo, LosslessView, LosslessChoose, LosslessCatchUp,
       LosslessRepoint, LosslessPromote, LosslessHalt, LosslessQuietStep
    DEF ManagerStep
  <2>3. CASE \E n \in Node : Environment(n)
    BY <2>3, LosslessEnvironment
  <2>4. CASE UNCHANGED vars
    BY <2>4, LosslessQuietStep
  <2> QED BY <2>1, <2>2, <2>3, <2>4 DEF Next
<1> QED BY TypeCorrect, LosslessInit, <1>1, PTL DEF Spec

(* LosslessImplied: and it implies the property. *)
LEMMA LosslessImplied == TypeOK /\ LosslessInv => Lossless
<1> SUFFICES ASSUME TypeOK, LosslessInv, InCharge
             PROVE  acked \ lost \subseteq Binlog(primary)
  BY DEF Lossless
<1>1. (Intact /\ primary = InitPrimary) \/ PromotionDone
  BY DEF LosslessInv, BaseInv, InCharge, Intact, PromotionDone, TypeOK
<1> QED BY <1>1 DEF LosslessInv, BaseInv, IntactInv, PromotedInv

(* LosslessCorrect: for any number of writes, the first failover of a      *)
(* healthy set loses no acknowledged write some replica that answered held *)
(* when the winner was chosen, whether the old primary is dead, alive,     *)
(* fenced or cut off (fence_and_stop_io, failover.py).                     *)
THEOREM LosslessCorrect ==
  ASSUME FirstFailover
  PROVE  Spec => []Lossless
BY TypeCorrect, LosslessAlways, LosslessImplied, PTL

-----------------------------------------------------------------------------
(* StoppedOrFenced.                                                        *)

(* What the theorem assumes: no replica restarts during a run, none that   *)
(* the last poll found unusable answers later, and either every fence is   *)
(* answered or the set fails over once.                                    *)
StopsHold ==
    /\ Faults \cap {"stale_view", "restart_in_run"} = {}
    /\ "fence_unreachable" \notin Faults \/ MaxFailovers <= 1

Stopped(n) == node[n].ioStopped \/ node[n].source = NoNode
NoRunLeft ==
    \/ pc = "record" /\ failovers + 1 >= MaxFailovers
    \/ pc = "idle" /\ failovers >= MaxFailovers

(* StopInv, the inductive invariant: a confirmed stop holds as long as the *)
(* run needs it, an answer comes from a confirmed stop or after the fence, *)
(* and no fence is on its way to a node that is not the primary.           *)
StopInv ==
    /\ pc \in {"idle", "stop_io", "fence_wait"} => views = NoViews
    /\ pc \in {"stop_io", "fence_wait", "view"} => polled \subseteq Others
    /\ pc = "stop_io" =>
         \A n \in polled \ (todo \cup stopFailed) : Stopped(n)
    /\ pc \in {"fence_wait", "view"} =>
         \A n \in polled \ stopFailed : Stopped(n)
    /\ pc = "view" /\ stopFailed # {} => FenceDone
    /\ pc \in {"view", "choose", "catch_up"} /\ ~FenceDone =>
         \A c \in Candidates(views, Others) : node[c].ioStopped
    /\ pc \notin {"idle", "record"} /\ fenceTask \in {"sql", "kill"} =>
         fencing[primary] \in {"sql", "kill"}
    /\ pc = "promote" => FenceDone /\ winner \in Node
    /\ fenceTask = "unreachable" => "fence_unreachable" \in Faults
    /\ \A n \in Node : fencing[n] = "sent" => n = primary \/ NoRunLeft

(* StopInit: it holds in a healthy set. *)
LEMMA StopInit == Init => StopInv
  BY DEF Init, FleetInit, StopInv, Others, NoRunLeft

(* StopStart: and when a run starts. *)
LEMMA StopStart ==
  ASSUME StopsHold, TypeOK, StopInv, Start
  PROVE  StopInv'
<1> USE DEF TypeOK, FleetTypeOK
<1>1. /\ pc = "idle" /\ pc' = "stop_io" /\ ~NoRunLeft /\ fenceTask' = "running"
      /\ fencing' = [fencing EXCEPT ![primary] = "sent"]
      /\ UNCHANGED <<node, primary, views>>
  BY DEF Start, NoRunLeft
<1>2. PICK P \in SUBSET Others :
        polled' = P /\ todo' = {n \in P : node[n].source # NoNode}
  BY DEF Start
<1>3. UNCHANGED <<Others, NoViews>> /\ \A n \in Node : Stopped(n)' = Stopped(n)
  BY <1>1 DEF Others, Stopped, NoViews
<1>4. \A n \in polled' \ todo' : Stopped(n)'
  BY <1>2, <1>3 DEF Stopped, Others
<1>5. \A n \in Node : fencing'[n] = "sent" => n = primary
  BY <1>1 DEF StopInv
<1> QED BY <1>1, <1>2, <1>3, <1>4, <1>5 DEF StopInv, FenceDone

(* StopEnvironment: no step of the environment undoes a stop in a run. *)
LEMMA StopEnvironment ==
  ASSUME StopsHold, TypeOK, StopInv, NEW n \in Node, Environment(n)
  PROVE  StopInv'
<1> USE DEF TypeOK
<1>1. UNCHANGED mgrVars
  BY DEF Environment, Replicate, RestartOutside, RestartInRun
<1>2. UNCHANGED <<pc, primary, winner, fenceTask, polled, todo, stopFailed,
                  views, failovers, Others, FenceDone, NoRunLeft>>
  BY <1>1 DEF mgrVars, Others, FenceDone, NoRunLeft
<1>3. \A m \in Node :
        \/ fencing'[m] = fencing[m]
        \/ fencing[m] = "sent" /\ fencing'[m] \in {"sql", "kill"}
  <2>1. CASE FleetStep(n)
    BY <2>1 DEF FleetStep, Commit, Apply, Ack, Reassert, FenceBySql,
                FenceByKill, FleetTypeOK
  <2>2. CASE ~FleetStep(n)
    BY <2>2 DEF Environment, Replicate, Receive, RestartOutside, RestartInRun,
                Restart, ReceivePartial, SqlError
  <2> QED BY <2>1, <2>2
<1>4. ASSUME pc \notin {"idle", "record"}, NEW m \in Others
      PROVE  /\ node'[m].source = node[m].source
             /\ node'[m].ioStopped = node[m].ioStopped
  <2>1. m \in Node /\ m # primary
    BY <1>4 DEF Others
  <2>2. CASE RestartOutside(n) \/ RestartInRun(n)
    <3>1. n = primary /\ Becomes(n, Restarted(node[n]))
      BY <1>4, <2>2 DEF RestartOutside, RestartInRun, Restart, StopsHold
    <3>2. node[n] \in NodeState
      BY DEF FleetTypeOK
    <3> QED
      BY <2>1, <3>1, <3>2, BecomesType, HandlerTypes DEF FleetTypeOK
  <2>3. m = n => ~FenceByKill(n)
    BY <1>4, <2>1 DEF FenceByKill, StopInv, NoRunLeft
  <2>4. CASE FleetStep(n) \/ ReceivePartial(n) \/ SqlError(n)
               \/ \E t \in Txn : Receive(n, t)
    BY <2>1, <2>3, <2>4, StreamKept
  <2> QED
    BY <2>2, <2>4 DEF Environment, Replicate
<1>5. ASSUME pc \notin {"idle", "record"}, NEW m \in Others
      PROVE  Stopped(m)' = Stopped(m)
  BY <1>4, <1>5 DEF Stopped
<1>6. UNCHANGED Candidates(views, Others)
  BY <1>2 DEF Candidates
<1>7. Candidates(views, Others) \subseteq Others
  BY DEF Candidates
<1>8. UNCHANGED NoViews
  BY DEF NoViews
<1> HIDE DEF TypeOK
<1>9. \A m \in Node : fencing'[m] = "sent" => m = primary' \/ NoRunLeft'
  BY <1>2, <1>3 DEF StopInv
<1>10. pc' \notin {"idle", "record"} /\ fenceTask' \in {"sql", "kill"} =>
         fencing'[primary'] \in {"sql", "kill"}
  BY <1>2, <1>3 DEF StopInv, TypeOK
<1>11. /\ pc' \in {"view", "choose", "catch_up"} /\ ~FenceDone' =>
            \A c \in Candidates(views, Others)' : node'[c].ioStopped
       /\ pc' = "stop_io" =>
            \A m \in polled' \ (todo' \cup stopFailed') : Stopped(m)'
       /\ pc' \in {"fence_wait", "view"} =>
            \A m \in polled' \ stopFailed' : Stopped(m)'
  BY <1>2, <1>4, <1>5, <1>6, <1>7 DEF StopInv
<1> QED BY <1>2, <1>8, <1>9, <1>10, <1>11 DEF StopInv

(* NoViewsEmpty: nobody is a candidate before anybody has answered. *)
LEMMA NoViewsEmpty ==
  views = NoViews => Candidates(views, Others) = {}
  BY DEF NoViews, Candidates, Candidate, Usable, UnreachableView, Others

(* StopView: an answer comes from a stopped replica or after the fence. *)
LEMMA StopView ==
  ASSUME StopsHold, TypeOK, StopInv, NEW n \in Node, View(n)
  PROVE  StopInv'
<1> USE DEF TypeOK, FleetTypeOK
<1>1. /\ pc = "view"
      /\ UNCHANGED <<node, fencing, pc, primary, winner, fenceTask, polled,
                     stopFailed, failovers>>
  BY DEF View, fleetVars
<1>2. UNCHANGED <<Others, FenceDone>> /\ \A m \in Node : UNCHANGED Stopped(m)
  BY <1>1 DEF Others, FenceDone, Stopped
<1>3. PICK answered \in BOOLEAN :
        /\ answered => n \in polled /\ MayAnswer(n)
        /\ views' = [views EXCEPT ![n] = IF answered THEN Status(n)
                                                     ELSE UnreachableView]
  BY DEF View, MayAnswer, StopsHold
<1>4. ASSUME ~FenceDone, NEW c \in Candidates(views, Others)'
      PROVE  node'[c].ioStopped
  <2>1. c \in Others /\ Candidate(views'[c])
    BY <1>2 DEF Candidates
  <2>2. CASE c # n
    BY <1>1, <1>3, <1>4, <2>1, <2>2 DEF StopInv, Candidates, Others
  <2>3. CASE c = n
    <3>1. views'[n] = IF answered THEN Status(n) ELSE UnreachableView
      BY <1>3
    <3>2. answered /\ node[n].source # NoNode
      BY <2>1, <2>3, <3>1
      DEF Candidate, Usable, Status, UnreachableView
    <3> QED
      BY <1>1, <1>3, <1>4, <2>3, <3>2 DEF StopInv, Stopped
  <2> QED BY <2>2, <2>3
<1> QED BY <1>1, <1>2, <1>4 DEF StopInv, NoRunLeft

(* StopManager: every other step of the manager keeps it. *)
LEMMA StopManager ==
  ASSUME StopsHold, TypeOK, StopInv, ManagerStep
  PROVE  StopInv'
<1> USE DEF TypeOK, FleetTypeOK, StopInv, NoRunLeft, Others, FenceDone,
            FenceOutcome, Candidates, Stopped, histVars, fleetVars
<1>1. CASE StopIoEnds \/ FenceWaitEnds
  BY <1>1, NoViewsEmpty DEF StopIoEnds, FenceWaitEnds
<1>2. CASE FenceAnswers \/ FenceGivesUp
  BY <1>2 DEF FenceAnswers, FenceGivesUp, NoViews
<1>3. ASSUME NEW n \in Node, StopIo(n) PROVE StopInv'
  <2>1. node' = [node EXCEPT ![n] = IoStopped(node[n])]
    BY <1>3 DEF StopIo, Becomes
  <2>2. node[n] \in NodeState
    OBVIOUS
  <2>3. IoStopped(node[n]).ioStopped
    BY <2>2 DEF IoStopped, NodeState
  <2>4. \A m \in Node : Stopped(m) => Stopped(m)'
    BY <2>1, <2>3
  <2>5. Stopped(n)'
    BY <2>1, <2>3
  <2> QED BY <1>3, <2>4, <2>5 DEF StopIo, NoViews
<1>4. ASSUME NEW n \in Node, StopIoFails(n) PROVE StopInv'
  BY <1>4 DEF StopIoFails, NoViews
<1>5. ASSUME NEW n \in Node, View(n) PROVE StopInv'
  BY <1>5, StopView
<1>6. CASE ViewsEnd \/ ChooseNone \/ CatchUp \/ CatchUpFails \/ RepointsEnd
  BY <1>6 DEF ViewsEnd, ChooseNone, CatchUp, CatchUpFails, RepointsEnd
<1>7. ASSUME NEW n \in Node, Choose(n) PROVE StopInv'
  BY <1>7 DEF Choose
<1>8. ASSUME NEW n \in Node, Repoint(n) \/ RepointFails(n) PROVE StopInv'
  BY <1>8 DEF Repoint, RepointFails
<1>9. CASE AwaitFence
  BY <1>9 DEF AwaitFence, Chosen
<1>10. CASE Promote
  BY <1>10 DEF Promote, StopsHold
<1>11. CASE PromoteFails \/ Record \/ Halt
  BY <1>11 DEF PromoteFails, Record, Halt, NoViews
<1> QED
  BY <1>1, <1>2, <1>3, <1>4, <1>5, <1>6, <1>7, <1>8, <1>9, <1>10, <1>11
  DEF ManagerStep

(* StoppedCorrect: no candidate of a choice made before the fence has      *)
(* ended still receives from the old primary, for any number of nodes,     *)
(* writes and failovers when every fence is answered, and for the first    *)
(* failover when it is not; a stop that fails, a stuck applier, a stream   *)
(* cut off and a replica that restarts between runs included.              *)
THEOREM StoppedCorrect ==
  ASSUME StopsHold
  PROVE  Spec => []StoppedOrFenced
<1>1. TypeOK /\ StopInv /\ [Next]_vars => StopInv'
  <2> SUFFICES ASSUME TypeOK, StopInv, [Next]_vars PROVE StopInv'
    OBVIOUS
  <2>1. CASE UNCHANGED vars
    BY <2>1 DEF vars, fleetVars, mgrVars, StopInv, NoRunLeft, Others, NoViews,
                FenceDone, Stopped, Candidates
  <2> QED BY <2>1, StopStart, StopEnvironment, StopManager DEF Next
<1>2. StopInv => StoppedOrFenced
  BY DEF StopInv, StoppedOrFenced
<1> QED BY TypeCorrect, StopInit, <1>1, <1>2, PTL DEF Spec

-----------------------------------------------------------------------------
(* NoErrantReplica.                                                        *)

(* AttachedInv, the inductive invariant on top of LosslessInv: a node that *)
(* has a source takes no writes and holds only what its source holds, ...  *)
AttachedInv ==
    /\ node[primary].source = NoNode
    /\ \A r, s \in Node : node[r].source = s =>
         Quiet(r) /\ Holds(r) \subseteq Binlog(s)

(* ... because what is repointed answered before the choice, holds no more *)
(* than the winner, and has stopped receiving.                             *)
RoomInv ==
    /\ pc = "catch_up" => \A r \in Answered :
         node[r].ioStopped /\ Holds(r) \subseteq Holds(winner)
    /\ pc = "repoint" => \A r \in todo :
         node[r].ioStopped /\ Holds(r) \subseteq node[winner].executed

ErrantInv == AttachedInv /\ RoomInv

(* ErrantInit: it holds in a healthy set. *)
LEMMA ErrantInit == Init => ErrantInv
<1> SUFFICES ASSUME Init PROVE ErrantInv
  OBVIOUS
<1>1. \A n \in Node :
        /\ node[n].executed = {} /\ node[n].pending = {}
        /\ node[n].retrieved = {}
        /\ node[n].superReadOnly = (n # InitPrimary)
        /\ node[n].source = IF n = InitPrimary THEN NoNode ELSE InitPrimary
  BY DEF Init, FleetInit
<1>2. pc = "idle" /\ primary = InitPrimary
  BY DEF Init
<1> QED BY <1>1, <1>2 DEF ErrantInv, AttachedInv, RoomInv, Quiet, Holds, Binlog

(* ErrantEffect: what happens at a node without the manager keeps it. *)
LEMMA ErrantEffect ==
  ASSUME TypeOK, LosslessInv, ErrantInv, NEW n \in Node, Effect(n),
         UNCHANGED <<mgrVars, histVars>>
  PROVE  ErrantInv'
<1> USE DEF TypeOK, FleetTypeOK
<1>1. UNCHANGED <<pc, primary, winner, todo, views, Others, Answered>>
  BY DEF mgrVars, Others, Answered
<1>2. \A m \in Node \ {n} :
        /\ node'[m] = node[m]
        /\ Binlog(m)' = Binlog(m) /\ Holds(m)' = Holds(m)
        /\ Quiet(m)' = Quiet(m)
  BY DEF Effect, Binlog, Holds, Quiet
<1>3. \A m \in Node : node'[m].source = node[m].source
  BY <1>2 DEF Effect
<1>4. \A m \in Node : Binlog(m) \subseteq Binlog(m)'
  BY <1>2 DEF Effect
<1>5. \A r, s \in Node : node[r].source = s => r \notin {InitPrimary, primary}
  BY DEF ErrantInv, AttachedInv, LosslessInv, BaseInv
<1>6. \A r, s \in Node : node[r].source = s =>
        Quiet(r)' /\ Holds(r)' = Holds(r)
  BY <1>2, <1>5 DEF ErrantInv, AttachedInv, Effect
<1>7. AttachedInv'
  BY <1>1, <1>3, <1>4, <1>6 DEF ErrantInv, AttachedInv
<1>8. ASSUME pc \in {"catch_up", "repoint"}, NEW r \in Others
      PROVE  node'[r].ioStopped = node[r].ioStopped /\ Holds(r)' = Holds(r)
  <2>1. r # primary /\ r # InitPrimary /\ Quiet(r)
    BY <1>8 DEF Others, LosslessInv, BaseInv, ChosenInv, Chosen
  <2> QED BY <1>2, <2>1 DEF Effect, Others
<1>9. node[winner].executed \subseteq node'[winner].executed
        \/ winner \notin Node
  BY <1>2 DEF Effect
<1>10. RoomInv'
  <2>1. pc \in {"catch_up", "repoint"} => winner \in Others /\ winner \in Node
    BY DEF LosslessInv, ChosenInv, Chosen, Others
  <2>2. pc = "repoint" => todo \subseteq Others
    BY DEF LosslessInv, ChosenInv
  <2>3. CASE pc = "catch_up"
    BY <1>1, <1>8, <2>1, <2>3 DEF ErrantInv, RoomInv, Answered
  <2>4. CASE pc = "repoint"
    BY <1>1, <1>8, <1>9, <2>1, <2>2, <2>4 DEF ErrantInv, RoomInv
  <2> QED BY <1>1, <2>3, <2>4 DEF RoomInv
<1> QED BY <1>7, <1>10 DEF ErrantInv

(* ErrantReplicate: so does replication. *)
LEMMA ErrantReplicate ==
  ASSUME StopsConfirmed, TypeOK, LosslessInv, ErrantInv, NEW r \in Node,
         Replicate(r)
  PROVE  ErrantInv'
<1> USE DEF TypeOK, FleetTypeOK
<1>1. PICK t \in Txn, s \in Node :
        /\ node[r].source = s /\ ~node[r].ioStopped
        /\ t \in Binlog(s)
        /\ Becomes(r, Relayed(node[r], t))
        /\ UNCHANGED mgrVars
  BY DEF Replicate, Receive, Streaming, First, Missing
<1>2. UNCHANGED <<pc, primary, winner, todo, views, Others, Answered>>
  BY <1>1 DEF mgrVars, Others, Answered
<1>3. /\ node' \in [Node -> NodeState]
      /\ node'[r] = Relayed(node[r], t)
      /\ \A m \in Node \ {r} : node'[m] = node[m]
  BY <1>1, BecomesType, ReplicationTypes
<1>4. /\ node'[r].executed = node[r].executed
      /\ node'[r].pending = node[r].pending
      /\ node'[r].retrieved = node[r].retrieved \cup {t}
      /\ node'[r].source = node[r].source
      /\ node'[r].ioStopped = node[r].ioStopped
      /\ node'[r].superReadOnly = node[r].superReadOnly
  BY <1>3 DEF Relayed, NodeState
<1>5. \A m \in Node :
        /\ Binlog(m)' = Binlog(m) /\ Quiet(m)' = Quiet(m)
        /\ node'[m].source = node[m].source
        /\ node'[m].ioStopped = node[m].ioStopped
        /\ node'[m].executed = node[m].executed
  BY <1>3, <1>4 DEF Binlog, Quiet
<1>6. \A m \in Node \ {r} : Holds(m)' = Holds(m)
  BY <1>3 DEF Holds
<1>7. Holds(r)' = Holds(r) \cup {t}
  BY <1>4 DEF Holds
<1>8. AttachedInv'
  BY <1>1, <1>2, <1>5, <1>6, <1>7 DEF ErrantInv, AttachedInv
<1>9. RoomInv'
  <2>1. CASE pc = "catch_up"
    <3>1. winner # r
      BY <1>1, <2>1 DEF LosslessInv, ChosenInv, Chosen, StopsConfirmed
    <3> QED BY <1>1, <1>2, <1>5, <1>6, <2>1, <3>1
            DEF ErrantInv, RoomInv, Answered, Others, LosslessInv, ChosenInv,
                Chosen
  <2>2. CASE pc = "repoint"
    BY <1>1, <1>2, <1>5, <1>6, <2>2
    DEF ErrantInv, RoomInv, LosslessInv, ChosenInv, Chosen, Others
  <2> QED BY <1>2, <2>1, <2>2 DEF RoomInv
<1> QED BY <1>8, <1>9 DEF ErrantInv

(* ErrantEnvironment: so does every step of the environment. *)
LEMMA ErrantEnvironment ==
  ASSUME StopsConfirmed, FirstFailover, TypeOK, LosslessInv, ErrantInv,
         NEW n \in Node, Environment(n)
  PROVE  ErrantInv'
<1>1. CASE Replicate(n)
  BY <1>1, ErrantReplicate
<1>2. CASE FleetStep(n) /\ UNCHANGED <<mgrVars, histVars>>
  <2>1. Effect(n)
    BY <1>2, CommitEffect, ApplyEffect, AckEffect, ReassertEffect,
       FenceSqlEffect, FenceKillEffect DEF FleetStep, LosslessInv
  <2> QED BY <1>2, <2>1, ErrantEffect
<1>3. CASE RestartOutside(n)
  <2>1. n = primary /\ Restart(n)
    BY <1>3 DEF RestartOutside, FirstFailover
  <2> QED
    BY <1>3, <2>1, RestartEffect, ErrantEffect DEF RestartOutside, LosslessInv
<1> QED
  BY <1>1, <1>2, <1>3 DEF Environment, RestartInRun, FirstFailover

(* ErrantChoose: whoever answered holds no more than the winner. *)
LEMMA ErrantChoose ==
  ASSUME StopsConfirmed, TypeOK, LosslessInv, ErrantInv, NEW w \in Node,
         Choose(w)
  PROVE  ErrantInv'
<1> USE DEF TypeOK, FleetTypeOK
<1>1. /\ pc = "choose" /\ pc' = "catch_up" /\ winner' = w
      /\ w \in Winners(views, Candidates(views, Others))
      /\ UNCHANGED <<node, primary, views>>
  BY DEF Choose, fleetVars
<1>2. UNCHANGED <<Others, Answered>>
  BY <1>1 DEF Others, Answered
<1>3. \A n \in Answered :
        n \in Candidates(views, Others) /\ node[n].ioStopped
          /\ Have(views[n]) = Holds(n)
  <2>1. \A n \in Answered : views[n] # UnreachableView
    BY DEF Answered, Usable, UnreachableView
  <2> QED
    BY <1>1, <2>1
    DEF LosslessInv, ViewInv, Answered, Candidates, Intact, Choosing, Frozen,
        Harmless
<1>4. w \in Answered
  BY <1>1 DEF Winners, Best, Candidates, Candidate, Answered
<1>5. \A n \in Answered : Holds(n) \subseteq Holds(w)
  BY <1>1, <1>3, <1>4, WinnerHoldsMost
<1> QED
  BY <1>1, <1>2, <1>3, <1>5, NodesKept DEF ErrantInv, AttachedInv, RoomInv,
     Answered, Others

(* ErrantCatchUp: a winner that has caught up has applied all of that. *)
LEMMA ErrantCatchUp ==
  ASSUME TypeOK, LosslessInv, ErrantInv, CatchUp
  PROVE  ErrantInv'
<1> USE DEF TypeOK, FleetTypeOK
<1>1. /\ pc = "catch_up" /\ pc' = "repoint" /\ todo' = Answered \ {winner}
      /\ CaughtUp(winner)
      /\ UNCHANGED <<node, primary, winner>>
  BY DEF CatchUp, fleetVars
<1>2. winner \in Node
  BY <1>1 DEF Chosen
<1>3. Holds(winner) = node[winner].executed
  BY <1>1, <1>2 DEF CaughtUp, Appliable, LosslessInv, BaseInv, Holds
<1> QED
  BY <1>1, <1>3, NodesKept
  DEF ErrantInv, AttachedInv, RoomInv, Answered, Others

(* ErrantRepoint: a replica is attached to a winner that has all it has. *)
LEMMA ErrantRepoint ==
  ASSUME TypeOK, LosslessInv, ErrantInv, NEW n \in Node, Repoint(n)
  PROVE  ErrantInv'
<1> USE DEF TypeOK, FleetTypeOK
<1>1. /\ pc = "repoint" /\ n \in todo /\ todo' = todo \ {n}
      /\ UNCHANGED <<pc, primary, winner>>
  BY DEF Repoint
<1>2. /\ n \in Others /\ n # winner /\ winner \in Node
      /\ Quiet(n) /\ n # primary
      /\ Holds(n) \subseteq node[winner].executed
  BY <1>1
  DEF LosslessInv, ChosenInv, Chosen, Others, ErrantInv, RoomInv
<1>3. /\ node' \in [Node -> NodeState]
      /\ \A m \in Node \ {n} : node'[m] = node[m]
      /\ \/ node'[n] = Repointed(node[n], winner)
         \/ node'[n] = RepointCut(node[n])
  BY <1>2, BecomesType, HandlerTypes DEF Repoint
<1>4. /\ Quiet(n)' /\ Holds(n)' \subseteq Holds(n)
      /\ Binlog(n)' = Binlog(n)
      /\ node'[n].source \in {winner, node[n].source}
  <2>1. CASE node'[n] = Repointed(node[n], winner)
    BY <1>2, <2>1 DEF Repointed, Quiet, Holds, Binlog, NodeState
  <2>2. CASE node'[n] = RepointCut(node[n])
    BY <1>2, <2>2 DEF RepointCut, Quiet, Holds, Binlog, NodeState
  <2> QED BY <1>3, <2>1, <2>2
<1>5. \A m \in Node \ {n} :
        /\ Holds(m)' = Holds(m) /\ Quiet(m)' = Quiet(m)
        /\ Binlog(m)' = Binlog(m)
  BY <1>3 DEF Holds, Quiet, Binlog
<1>6. Holds(n) \subseteq Binlog(winner)
  BY <1>2 DEF Binlog
<1>7. AttachedInv'
  BY <1>1, <1>2, <1>3, <1>4, <1>5, <1>6 DEF ErrantInv, AttachedInv
<1>8. RoomInv'
  BY <1>1, <1>2, <1>3, <1>5 DEF ErrantInv, RoomInv
<1> QED BY <1>7, <1>8 DEF ErrantInv

(* ErrantPromote: a promoted node has no source, its replicas stay. *)
LEMMA ErrantPromote ==
  ASSUME TypeOK, LosslessInv, ErrantInv, Promote \/ PromoteFails
  PROVE  ErrantInv'
<1> USE DEF TypeOK, FleetTypeOK
<1>1. /\ pc = "promote" /\ pc' \in {"record", "halted"}
      /\ \/ primary' = winner /\ node'[winner] = Promoted(node[winner])
         \/ primary' = primary
      /\ UNCHANGED winner
      /\ winner \in Others /\ winner \in Node /\ winner # primary
      /\ node' \in [Node -> NodeState]
      /\ \A m \in Node \ {winner} : node'[m] = node[m]
      /\ \/ node'[winner] = node[winner]
         \/ node'[winner] = PromotedReadOnly(node[winner])
         \/ node'[winner] = Promoted(node[winner])
  <2>1. pc = "promote" /\ winner \in Others /\ winner \in Node
    BY DEF Promote, PromoteFails, LosslessInv, ChosenInv, Chosen, Others
  <2> QED
    BY <2>1, BecomesType, HandlerTypes DEF Promote, PromoteFails, Others
<1>a. node[winner] \in NodeState
  BY <1>1
<1>2. ASSUME node'[winner] # node[winner]
      PROVE  /\ node'[winner].source = NoNode
             /\ Binlog(winner)' = Binlog(winner)
  <2>1. CASE node'[winner] = PromotedReadOnly(node[winner])
    BY <1>a, <1>1, <2>1 DEF PromotedReadOnly, Binlog, NodeState
  <2>2. CASE node'[winner] = Promoted(node[winner])
    BY <1>a, <1>1, <2>2 DEF Promoted, PromotedReadOnly, Binlog, NodeState
  <2> QED BY <1>1, <1>2, <2>1, <2>2
<1>3. Promoted(node[winner]).source = NoNode
  BY <1>a DEF Promoted, PromotedReadOnly, NodeState
<1>4. \A m \in Node : Binlog(m)' = Binlog(m)
  BY <1>1, <1>2 DEF Binlog
<1>5. \A m \in Node \ {winner} : Holds(m)' = Holds(m) /\ Quiet(m)' = Quiet(m)
  BY <1>1 DEF Holds, Quiet
<1>6. node'[winner] = node[winner] =>
        Holds(winner)' = Holds(winner) /\ Quiet(winner)' = Quiet(winner)
  BY <1>1 DEF Holds, Quiet
<1>7. node'[primary'].source = NoNode
  BY <1>1, <1>3 DEF ErrantInv, AttachedInv
<1>8. AttachedInv'
  BY <1>1, <1>2, <1>4, <1>5, <1>6, <1>7 DEF ErrantInv, AttachedInv
<1>9. RoomInv'
  BY <1>1 DEF RoomInv
<1> QED BY <1>8, <1>9 DEF ErrantInv

(* ErrantStopIo: stopping an IO thread keeps it. *)
LEMMA ErrantStopIo ==
  ASSUME TypeOK, ErrantInv, NEW n \in Node, StopIo(n)
  PROVE  ErrantInv'
<1> USE DEF TypeOK, FleetTypeOK
<1>1. /\ pc = "stop_io" /\ pc' = pc /\ primary' = primary
      /\ node' = [node EXCEPT ![n] = IoStopped(node[n])]
  BY DEF StopIo, Becomes
<1>2. \A m \in Node :
        /\ node'[m].source = node[m].source
        /\ Holds(m)' = Holds(m) /\ Quiet(m)' = Quiet(m)
        /\ Binlog(m)' = Binlog(m)
  BY <1>1 DEF IoStopped, NodeState, Holds, Quiet, Binlog
<1> QED BY <1>1, <1>2 DEF ErrantInv, AttachedInv, RoomInv

(* ErrantQuietStep: the other steps, and stuttering, change no node. *)
LEMMA ErrantQuietStep ==
  ASSUME TypeOK, LosslessInv, ErrantInv,
         \/ Start \/ StopIoEnds \/ FenceWaitEnds \/ FenceAnswers
         \/ FenceGivesUp \/ ViewsEnd \/ ChooseNone \/ CatchUpFails
         \/ RepointsEnd \/ AwaitFence \/ Record \/ Halt
         \/ \E n \in Node : StopIoFails(n) \/ View(n) \/ RepointFails(n)
         \/ UNCHANGED vars
  PROVE  ErrantInv'
<1>1. UNCHANGED <<node, primary>>
  BY DEF Start, StopIoEnds, FenceWaitEnds, FenceAnswers, FenceGivesUp,
         ViewsEnd, ChooseNone, CatchUpFails, RepointsEnd, AwaitFence, Record,
         Halt, StopIoFails, View, RepointFails, vars, fleetVars, mgrVars
<1>2. AttachedInv'
  BY <1>1, NodesKept DEF ErrantInv, AttachedInv
<1>3. \/ pc' \notin {"catch_up", "repoint"}
      \/ /\ UNCHANGED <<pc, primary, winner, views>>
         /\ todo' \subseteq todo
  BY DEF Start, StopIoEnds, FenceWaitEnds, FenceAnswers, FenceGivesUp,
         ViewsEnd, ChooseNone, CatchUpFails, RepointsEnd, AwaitFence, Record,
         Halt, StopIoFails, View, RepointFails, vars, mgrVars
<1>4. RoomInv'
  BY <1>1, <1>3, NodesKept
  DEF ErrantInv, RoomInv, Answered, Others, LosslessInv, ChosenInv, Chosen
<1> QED BY <1>2, <1>4 DEF ErrantInv

(* ErrantCorrect: for any number of nodes and writes, in the first         *)
(* failover of a healthy set nothing that replicates from the primary or   *)
(* from the winner holds a write its source lacks, also in a set that      *)
(* halts half way.                                                         *)
THEOREM ErrantCorrect ==
  ASSUME FirstFailover, StopsConfirmed
  PROVE  Spec => []NoErrantReplica
<1>1. TypeOK /\ LosslessInv /\ ErrantInv /\ [Next]_vars => ErrantInv'
  BY ErrantEnvironment, ErrantQuietStep, ErrantStopIo, ErrantChoose,
     ErrantCatchUp, ErrantRepoint, ErrantPromote DEF Next, ManagerStep
<1>2. TypeOK /\ ErrantInv => NoErrantReplica
  BY DEF TypeOK, ErrantInv, AttachedInv, NoErrantReplica, Durable
<1> QED BY TypeCorrect, LosslessAlways, ErrantInit, <1>1, <1>2, PTL DEF Spec

-----------------------------------------------------------------------------
(* NoFalseHalt.                                                            *)

(* The first transactions of B, up to some transaction of it. *)
PrefixOf(S, B) ==
    /\ S \subseteq B
    /\ \A t \in S : \A u \in B : u < t => u \in S

(* Everything a replica shows or has shown is such a prefix of B. *)
Follows(r, B) ==
    /\ Quiet(r)
    /\ node[r].source = InitPrimary
    /\ PrefixOf(node[r].executed, B)
    /\ PrefixOf(Durable(r), B)
    /\ PrefixOf(Holds(r), B)

(* PrefixInv, the inductive invariant: transactions are numbered in commit *)
(* order, and until a choice every replica has applied, has fetched and    *)
(* has shown a prefix of what its primary committed.                       *)
PrefixInv == Intact =>
    /\ primary = InitPrimary
    /\ node[primary].source = NoNode /\ node[primary].retrieved = {}
    /\ \A t \in Binlog(primary) : t < nextTxn
    /\ \A r \in Others :
         /\ Follows(r, Binlog(primary))
         /\ PrefixOf(Have(views[r]), Binlog(primary))

(* PrefixGrows: what the primary commits next makes no prefix less of one. *)
LEMMA PrefixGrows ==
  ASSUME NEW B \in SUBSET Txn, NEW S, PrefixOf(S, B), NEW x \in Nat,
         \A u \in B : u < x
  PROVE  PrefixOf(S, B \cup {x})
  BY DEF PrefixOf, Txn

(* PrefixNext: nor does fetching or applying the next one. *)
LEMMA PrefixNext ==
  ASSUME NEW B \in SUBSET Txn, NEW S, PrefixOf(S, B), NEW t \in B,
         \A u \in B : u < t => u \in S
  PROVE  PrefixOf(S \cup {t}, B)
  BY DEF PrefixOf

(* PrefixInit: the invariant holds in a healthy set. *)
LEMMA PrefixInit == Init => PrefixInv
<1> SUFFICES ASSUME Init PROVE PrefixInv
  OBVIOUS
<1>1. \A n \in Node :
        /\ node[n].executed = {} /\ node[n].pending = {}
        /\ node[n].retrieved = {}
        /\ node[n].superReadOnly = (n # InitPrimary)
        /\ node[n].source = IF n = InitPrimary THEN NoNode ELSE InitPrimary
  BY DEF Init, FleetInit
<1>2. /\ primary = InitPrimary /\ InitPrimary \in Node
      /\ \A n \in Node : views[n] = UnreachableView
  BY DEF Init, NoViews
<1>3. \A B : PrefixOf({}, B)
  BY DEF PrefixOf
<1>4. ASSUME NEW r \in Others
      PROVE  /\ Quiet(r) /\ node[r].source = InitPrimary
             /\ node[r].executed = {} /\ Durable(r) = {} /\ Holds(r) = {}
             /\ Have(views[r]) = {}
  <2>1. r \in Node /\ r # InitPrimary
    BY <1>2 DEF Others
  <2>2. node[r].superReadOnly
    BY <1>1, <2>1
  <2> QED
    BY <1>1, <1>2, <2>1, <2>2 DEF Quiet, Durable, Holds, Have, UnreachableView
<1>5. Binlog(primary) = {} /\ node[primary].source = NoNode
      /\ node[primary].retrieved = {}
  BY <1>1, <1>2 DEF Binlog
<1> QED BY <1>2, <1>3, <1>4, <1>5 DEF PrefixInv, Follows

(* PrefixPrimary: a step at the primary keeps it. *)
LEMMA PrefixPrimary ==
  ASSUME TypeOK, PrefixInv, Intact, Environment(primary)
  PROVE  PrefixInv'
<1> USE DEF TypeOK, FleetTypeOK
<1>1. UNCHANGED <<pc, primary, failovers, views, Others, Intact>>
  BY DEF Environment, Replicate, RestartOutside, RestartInRun, mgrVars, Others,
         Intact
<1>2. FleetStep(primary) \/ Restart(primary)
  BY DEF Environment, Replicate, Receive, ReceivePartial, Streaming, SqlError,
         Appliable, RestartOutside, RestartInRun, PrefixInv
<1>3. /\ node'[primary].retrieved = {}
      /\ node'[primary].source = node[primary].source
      /\ \A m \in Node \ {primary} : node'[m] = node[m]
      /\ \/ Binlog(primary)' = Binlog(primary) /\ nextTxn' = nextTxn
         \/ /\ Binlog(primary)' = Binlog(primary) \cup {nextTxn}
            /\ nextTxn' = nextTxn + 1
  BY <1>1, <1>2, BinlogGrows DEF PrefixInv, Binlog
<1>4. Binlog(primary) \in SUBSET Txn /\ nextTxn \in Nat
  BY DEF Binlog, NodeState
<1>5. \A S : PrefixOf(S, Binlog(primary)) => PrefixOf(S, Binlog(primary)')
  BY <1>3, <1>4, PrefixGrows DEF PrefixInv
<1>6. \A t \in Binlog(primary)' : t < nextTxn'
  BY <1>3, <1>4 DEF PrefixInv, Txn
<1>7. ASSUME NEW r \in Others
      PROVE  Follows(r, Binlog(primary))'
  <2>1. node'[r] = node[r] /\ Follows(r, Binlog(primary))
    BY <1>3 DEF Others, PrefixInv
  <2> QED BY <1>5, <2>1 DEF Follows, Quiet, Durable, Holds
<1> QED BY <1>1, <1>3, <1>5, <1>6, <1>7 DEF PrefixInv

(* ReplicaFollows: nor does a step at a replica. *)
LEMMA ReplicaFollows ==
  ASSUME TypeOK, NEW r \in Node, NEW B \in SUBSET Txn,
         Follows(r, B), B = Binlog(InitPrimary), Environment(r)
  PROVE  /\ Follows(r, B)'
         /\ nextTxn' = nextTxn
         /\ \A m \in Node \ {r} : node'[m] = node[m]
<1> USE DEF TypeOK, FleetTypeOK
<1> DEFINE s == node[r]
           Good(x) == /\ x.superReadOnly /\ x.pending = {}
                      /\ x.source = InitPrimary
                      /\ PrefixOf(x.executed, B)
                      /\ PrefixOf((x.executed \cup x.retrieved) \ x.partial, B)
                      /\ PrefixOf(x.executed \cup x.retrieved, B)
<1>0. s \in NodeState /\ Good(s)
  BY DEF Follows, Quiet, Durable, Holds
<1>a. ASSUME NEW x \in NodeState, Becomes(r, x), Good(x)
      PROVE  /\ Follows(r, B)'
             /\ \A m \in Node \ {r} : node'[m] = node[m]
  BY <1>a, BecomesType DEF Follows, Quiet, Durable, Holds
<1>b. /\ s.executed \cup s.pending = s.executed
      /\ s.executed \cup {} = s.executed
      /\ (s.executed \cup {}) \ {} = s.executed
  BY <1>0
<1>1. CASE FleetStep(r)
  <2>1. CASE Commit(r)
    BY <1>0, <2>1 DEF Commit, Writable
  <2>2. CASE Apply(r)
    <3>1. PICK t \in First(Appliable(r)) : Becomes(r, Applied(s, t))
      BY <2>2 DEF Apply
    <3>2. t \in Txn /\ t \in s.retrieved \ s.partial
      BY <1>0, <3>1 DEF First, Appliable, NodeState
    <3>3. /\ t \in B
          /\ \A u \in B :
               u < t => u \in (s.executed \cup s.retrieved) \ s.partial
      BY <1>0, <3>2 DEF PrefixOf
    <3>4. \A u \in B : u < t => u \in s.executed
      BY <3>1, <3>2, <3>3 DEF First, Appliable, Txn
    <3>5. PrefixOf(s.executed \cup {t}, B)
      BY <1>0, <3>3, <3>4, PrefixNext
    <3>6. Applied(s, t) \in NodeState
      BY <1>0, <3>2, ReplicationTypes
    <3>7. /\ Applied(s, t).executed = s.executed \cup {t}
          /\ Applied(s, t).retrieved = s.retrieved
          /\ Applied(s, t).partial = s.partial
          /\ Applied(s, t).superReadOnly = s.superReadOnly
          /\ Applied(s, t).pending = s.pending
          /\ Applied(s, t).source = s.source
      BY <1>0, <3>2 DEF Applied, NodeState
    <3>8. (s.executed \cup {t}) \cup s.retrieved
             = s.executed \cup s.retrieved
      BY <3>2
    <3>9. Good(Applied(s, t))
      BY <1>0, <3>5, <3>7, <3>8
    <3> QED BY <1>a, <2>2, <3>1, <3>6, <3>9 DEF Apply
  <2>3. CASE \E t \in Txn : Ack(r, t)
    BY <1>0, <2>3 DEF Ack
  <2>4. CASE Reassert(r)
    <3>1. ReplicaOn(s) \in NodeState /\ Good(ReplicaOn(s))
      BY <1>0, HandlerTypes DEF ReplicaOn, NodeState
    <3> QED BY <1>a, <2>4, <3>1 DEF Reassert
  <2>5. CASE FenceBySql(r)
    <3>1. FencedBySql(s) \in NodeState /\ Good(FencedBySql(s))
      BY <1>0, HandlerTypes DEF FencedBySql, NodeState
    <3> QED BY <1>a, <2>5, <3>1 DEF FenceBySql
  <2>6. CASE FenceByKill(r)
    <3>1. FencedByKill(s) \in NodeState
      BY <1>0, HandlerTypes
    <3>2. /\ FencedByKill(s).executed = s.executed \cup s.pending
          /\ FencedByKill(s).retrieved = {}
          /\ FencedByKill(s).partial = {}
          /\ FencedByKill(s).superReadOnly
          /\ FencedByKill(s).pending = {}
          /\ FencedByKill(s).source = s.source
      BY <1>0 DEF FencedByKill, Restarted, NodeState
    <3>3. Good(FencedByKill(s))
      BY <1>0, <1>b, <3>2
    <3> QED BY <1>a, <2>6, <3>1, <3>3 DEF FenceByKill
  <2> QED BY <1>1, <2>1, <2>2, <2>3, <2>4, <2>5, <2>6 DEF FleetStep
<1>2. CASE Restart(r)
  <2>1. Restarted(s) \in NodeState
    BY <1>0, HandlerTypes
  <2>2. /\ Restarted(s).executed = s.executed \cup s.pending
        /\ Restarted(s).retrieved = {}
        /\ Restarted(s).partial = {}
        /\ Restarted(s).superReadOnly
        /\ Restarted(s).pending = {}
        /\ Restarted(s).source = s.source
    BY <1>0 DEF Restarted, NodeState
  <2>3. Good(Restarted(s))
    BY <1>0, <1>b, <2>2
  <2> QED BY <1>a, <1>2, <2>1, <2>3 DEF Restart
<1>3. CASE SqlError(r)
  <2>1. SqlFailed(s) \in NodeState /\ Good(SqlFailed(s))
    BY <1>0, HandlerTypes DEF SqlFailed, NodeState
  <2> QED BY <1>a, <1>3, <2>1 DEF SqlError
<1>4. CASE ReceivePartial(r)
  <2>1. PICK t \in First(B \ Holds(r)) : Becomes(r, CutOff(s, t))
    BY <1>0, <1>4 DEF ReceivePartial, Streaming
  <2>2. t \in Txn /\ t \in B /\ t \notin s.executed \cup s.retrieved
    BY <2>1 DEF First, Holds
  <2>3. \A u \in B : u < t => u \in s.executed \cup s.retrieved
    BY <2>1, <2>2 DEF First, Holds, Txn
  <2>4. PrefixOf((s.executed \cup s.retrieved) \cup {t}, B)
    BY <1>0, <2>2, <2>3, PrefixNext
  <2>5. CutOff(s, t) \in NodeState
    BY <1>0, <2>2, ReplicationTypes
  <2>6. /\ CutOff(s, t).executed = s.executed
        /\ CutOff(s, t).retrieved = s.retrieved \cup {t}
        /\ CutOff(s, t).partial = s.partial \cup {t}
        /\ CutOff(s, t).superReadOnly = s.superReadOnly
        /\ CutOff(s, t).pending = s.pending
        /\ CutOff(s, t).source = s.source
    BY <1>0, <2>2 DEF CutOff, NodeState
  <2>7. /\ s.executed \cup (s.retrieved \cup {t})
             = (s.executed \cup s.retrieved) \cup {t}
        /\ (s.executed \cup (s.retrieved \cup {t})) \ (s.partial \cup {t})
             = (s.executed \cup s.retrieved) \ s.partial
    BY <2>2
  <2>8. Good(CutOff(s, t))
    BY <1>0, <2>4, <2>6, <2>7
  <2> QED BY <1>a, <1>4, <2>1, <2>5, <2>8 DEF ReceivePartial
<1>5. CASE Replicate(r)
  <2>1. PICK t \in Txn : /\ t \in First(B \ (Holds(r) \ s.partial))
                         /\ Becomes(r, Relayed(s, t))
                         /\ nextTxn' = nextTxn
    BY <1>0, <1>5 DEF Replicate, Receive, Streaming, Missing
  <2>2. t \in B
    BY <2>1 DEF First
  <2>3. \A u \in B : u < t => u \in (s.executed \cup s.retrieved) \ s.partial
    BY <2>1, <2>2 DEF First, Holds, Txn
  <2>4. /\ PrefixOf((s.executed \cup s.retrieved) \cup {t}, B)
        /\ PrefixOf(((s.executed \cup s.retrieved) \ s.partial) \cup {t}, B)
    BY <1>0, <2>2, <2>3, PrefixNext
  <2>5. Relayed(s, t) \in NodeState
    BY <1>0, ReplicationTypes
  <2>6. /\ Relayed(s, t).executed = s.executed
        /\ Relayed(s, t).retrieved = s.retrieved \cup {t}
        /\ Relayed(s, t).partial = s.partial \ {t}
        /\ Relayed(s, t).superReadOnly = s.superReadOnly
        /\ Relayed(s, t).pending = s.pending
        /\ Relayed(s, t).source = s.source
    BY <1>0 DEF Relayed, NodeState
  <2>7. /\ s.executed \cup (s.retrieved \cup {t})
             = (s.executed \cup s.retrieved) \cup {t}
        /\ (s.executed \cup (s.retrieved \cup {t})) \ (s.partial \ {t})
             = ((s.executed \cup s.retrieved) \ s.partial) \cup {t}
    OBVIOUS
  <2>8. Good(Relayed(s, t))
    BY <1>0, <2>4, <2>6, <2>7
  <2> QED BY <1>a, <2>1, <2>5, <2>8
<1> QED
  BY <1>1, <1>2, <1>3, <1>4, <1>5
  DEF Environment, RestartOutside, RestartInRun

(* PrefixEnvironment: so no step of the environment breaks it. *)
LEMMA PrefixEnvironment ==
  ASSUME TypeOK, PrefixInv, NEW n \in Node, Environment(n)
  PROVE  PrefixInv'
<1>1. UNCHANGED <<pc, primary, failovers, views, Others, Intact>>
  BY DEF Environment, Replicate, RestartOutside, RestartInRun, mgrVars, Others,
         Intact
<1> SUFFICES ASSUME Intact PROVE PrefixInv'
  BY <1>1 DEF PrefixInv
<1>2. CASE n = primary
  BY <1>2, PrefixPrimary
<1>3. CASE n # primary
  <2>1. n \in Others /\ Follows(n, Binlog(primary)) /\ primary = InitPrimary
    BY <1>3 DEF PrefixInv, Others
  <2>2. Binlog(primary) \in SUBSET Txn
    BY DEF TypeOK, FleetTypeOK, NodeState, Binlog
  <2>3. /\ \A B : B = Binlog(primary) => Follows(n, B)'
        /\ nextTxn' = nextTxn
        /\ \A m \in Node \ {n} : node'[m] = node[m]
    BY <2>1, <2>2, ReplicaFollows
  <2>4. primary \in Node /\ Binlog(primary)' = Binlog(primary)
    BY <1>1, <1>3, <2>3 DEF Binlog, TypeOK
  <2>5. ASSUME NEW r \in Others, r # n
        PROVE  Follows(r, Binlog(primary))'
    BY <2>3, <2>4, <2>5
    DEF PrefixInv, Others, Follows, Quiet, Durable, Holds
  <2>6. Follows(n, Binlog(primary))'
    BY <2>3, <2>4 DEF Follows
  <2> QED BY <1>1, <1>3, <2>3, <2>4, <2>5, <2>6 DEF PrefixInv
<1> QED BY <1>2, <1>3

(* PrefixManager: an answer shows what a replica holds, and the manager's  *)
(* other steps change nothing the invariant reads while it matters.        *)
LEMMA PrefixManager ==
  ASSUME MaxFailovers <= 1, TypeOK, PrefixInv,
         Start \/ ManagerStep \/ UNCHANGED vars
  PROVE  PrefixInv'
<1> USE DEF TypeOK, FleetTypeOK
<1>1. CASE \E n \in Node : StopIo(n)
  <2>1. PICK n \in Node : StopIo(n)
    BY <1>1
  <2>2. node' = [node EXCEPT ![n] = IoStopped(node[n])]
        /\ UNCHANGED <<pc, failovers, nextTxn, primary, views>>
    BY <2>1 DEF StopIo, Becomes
  <2>3. \A m \in Node :
          /\ Holds(m)' = Holds(m) /\ Binlog(m)' = Binlog(m)
          /\ Durable(m)' = Durable(m) /\ Quiet(m)' = Quiet(m)
          /\ node'[m].executed = node[m].executed
          /\ node'[m].retrieved = node[m].retrieved
          /\ node'[m].source = node[m].source
    BY <2>2 DEF IoStopped, NodeState, Holds, Binlog, Durable, Quiet
  <2> QED
    BY <2>2, <2>3 DEF PrefixInv, Follows, Others, Intact, Choosing
<1>2. CASE \E n \in Node : View(n)
  <2>1. PICK n \in Node : View(n)
    BY <1>2
  <2>2. /\ Intact /\ Intact' /\ UNCHANGED <<node, nextTxn, primary>>
        /\ \A m \in Node \ {n} : views'[m] = views[m]
        /\ views'[n] \in {Status(n), UnreachableView}
    BY <2>1 DEF View, Intact, Choosing, fleetVars
  <2>3. Have(views'[n]) \in {Holds(n), {}}
    BY <2>2 DEF Have, Status, UnreachableView, Holds
  <2>4. \A B : PrefixOf({}, B)
    BY DEF PrefixOf
  <2>5. \A m \in Node :
          /\ Holds(m)' = Holds(m) /\ Binlog(m)' = Binlog(m)
          /\ Durable(m)' = Durable(m) /\ Quiet(m)' = Quiet(m)
    BY <2>2 DEF Holds, Binlog, Durable, Quiet
  <2>6. ASSUME NEW r \in Others
        PROVE  Follows(r, Binlog(primary))'
    <3>1. /\ r \in Node /\ node'[r] = node[r] /\ primary \in Node
          /\ Follows(r, Binlog(primary)) /\ Binlog(primary)' = Binlog(primary)
      BY <2>2, <2>5 DEF PrefixInv, Others
    <3> QED BY <2>5, <3>1 DEF Follows
  <2>7. ASSUME NEW r \in Others
        PROVE  PrefixOf(Have(views'[r]), Binlog(primary))
    <3>1. /\ r \in Node /\ Follows(r, Binlog(primary))
          /\ PrefixOf(Have(views[r]), Binlog(primary))
      BY <2>2 DEF PrefixInv, Others
    <3>2. CASE r = n
      BY <2>3, <2>4, <3>1, <3>2 DEF Follows
    <3> QED BY <2>2, <3>1, <3>2
  <2>8. /\ primary = InitPrimary /\ Others' = Others
        /\ node[primary].source = NoNode /\ node[primary].retrieved = {}
        /\ \A t \in Binlog(primary) : t < nextTxn
        /\ Binlog(primary)' = Binlog(primary)
    BY <2>2, <2>5 DEF PrefixInv, Others
  <2> QED BY <2>2, <2>6, <2>7, <2>8 DEF PrefixInv
<1>3. CASE ~\E n \in Node : StopIo(n) \/ View(n)
  <2>1. Intact' => /\ Intact
                   /\ UNCHANGED <<node, nextTxn, primary, views>>
    BY <1>3 DEF Intact, Choosing, Start, ManagerStep, StopIoEnds,
       FenceWaitEnds, FenceAnswers, FenceGivesUp, StopIoFails, ViewsEnd,
       ChooseNone, CatchUp, CatchUpFails, Choose, Repoint, RepointFails,
       RepointsEnd, AwaitFence, Promote, PromoteFails, Record, Halt, vars,
       fleetVars, mgrVars
  <2> SUFFICES ASSUME Intact' PROVE PrefixInv'
    BY DEF PrefixInv
  <2>2. /\ PrefixInv /\ Intact /\ primary \in Node
        /\ UNCHANGED <<node, nextTxn, primary, views, Others>>
        /\ UNCHANGED Binlog(primary)
    BY <2>1 DEF Others, Binlog
  <2>3. ASSUME NEW r \in Others
        PROVE  /\ Follows(r, Binlog(primary))'
               /\ PrefixOf(Have(views[r]), Binlog(primary))'
    <3>1. r \in Node /\ UNCHANGED <<Holds(r), Durable(r), Quiet(r)>>
      BY <2>2 DEF Others, Holds, Durable, Quiet
    <3>2. /\ Follows(r, Binlog(primary))
          /\ PrefixOf(Have(views[r]), Binlog(primary))
      BY <2>2 DEF PrefixInv
    <3> QED BY <2>2, <3>1, <3>2 DEF Follows
  <2> QED BY <2>2, <2>3 DEF PrefixInv
<1> QED BY <1>1, <1>2, <1>3

(* HaltCorrect: for any number of nodes and writes, and whatever fails,    *)
(* the first failover of a healthy set never halts for diverged replicas:  *)
(* their views form a chain, also when they were read at different times,  *)
(* so if anybody may be promoted, somebody wins.                           *)
THEOREM HaltCorrect ==
  ASSUME MaxFailovers <= 1
  PROVE  Spec => []NoFalseHalt
<1>1. TypeOK /\ PrefixInv /\ [Next]_vars => PrefixInv'
  BY PrefixEnvironment, PrefixManager DEF Next
<1>2. TypeOK /\ PrefixInv => NoFalseHalt
  <2> DEFINE cands == Candidates(views, Others)
  <2> SUFFICES ASSUME TypeOK, PrefixInv, pc = "choose", cands # {}
               PROVE  Winners(views, cands) # {}
    BY DEF NoFalseHalt
  <2>1. \A c \in cands : PrefixOf(Have(views[c]), Binlog(primary))
    BY DEF Intact, Choosing, PrefixInv, Candidates
  <2>2. Binlog(primary) \subseteq Nat
    BY DEF Binlog, NodeState, Txn, TypeOK, FleetTypeOK
  <2>3. ASSUME NEW c \in cands, NEW d \in cands,
               NEW t \in Have(views[c]), t \notin Have(views[d])
        PROVE  Have(views[d]) \subseteq Have(views[c])
    <3>1. \A u \in Have(views[d]) : u < t
      <4> TAKE u \in Have(views[d])
      <4>1. ~(t < u)
        BY <2>1, <2>3 DEF PrefixOf
      <4>2. u \in Nat /\ t \in Nat /\ u # t
        BY <2>1, <2>2, <2>3 DEF PrefixOf
      <4> QED BY <4>1, <4>2
    <3> QED BY <2>1, <2>3, <3>1 DEF PrefixOf
  <2>4. \A c, d \in cands : \/ Have(views[c]) \subseteq Have(views[d])
                            \/ Have(views[d]) \subseteq Have(views[c])
    BY <2>3
  <2>5. cands \in SUBSET Node /\ views \in [Node -> NodeView(Txn)]
    BY DEF Candidates, Others, TypeOK
  <2> QED BY <2>4, <2>5, ChainWins
<1> QED BY TypeCorrect, PrefixInit, <1>1, <1>2, PTL DEF Spec

-----------------------------------------------------------------------------
(* LosslessLog: failover implements the abstract log.                      *)

(* LogInit: a healthy set is a log with an owner. *)
LEMMA LogInit == Init => Log!Init
  BY DEF Init, FleetInit, Log!Init, InCharge, Binlog

(* LogEnvironment: what happens without the manager serves the log, or     *)
(* leaves it adrift.                                                       *)
LEMMA LogEnvironment ==
  ASSUME FirstFailover, TypeOK, LosslessInv, TypeOK', Lossless',
         NEW n \in Node, Environment(n)
  PROVE  Log!Next
<1>0. \/ Replicate(n)
      \/ RestartOutside(n)
      \/ FleetStep(n) /\ UNCHANGED <<mgrVars, histVars>>
  BY DEF Environment, RestartInRun, FirstFailover
<1> USE DEF TypeOK, FleetTypeOK
<1>1. UNCHANGED <<pc, primary, InCharge>>
  BY DEF Environment, Replicate, RestartOutside, RestartInRun, mgrVars,
         InCharge
<1>2. Binlog(primary) \subseteq Binlog(primary)'
      /\ acked \ lost \subseteq (acked \ lost)'
  <2>1. CASE Replicate(n)
    <3>1. PICK t \in Txn, s \in Node : Becomes(n, Relayed(node[n], t))
      BY <2>1 DEF Replicate, Receive
    <3>2. /\ node'[n] = Relayed(node[n], t)
          /\ \A m \in Node \ {n} : node'[m] = node[m]
      BY <3>1, BecomesType, ReplicationTypes
    <3>3. Binlog(primary)' = Binlog(primary)
      <4>1. node[n] \in NodeState
        OBVIOUS
      <4>2. Relayed(node[n], t).executed = node[n].executed
            /\ Relayed(node[n], t).pending = node[n].pending
        BY <4>1 DEF Relayed, NodeState
      <4> QED BY <1>1, <3>2, <4>2 DEF Binlog
    <3>4. acked' = acked /\ acked \subseteq relayed
      BY <2>1 DEF Replicate, Receive, LosslessInv, BaseInv
    <3>5. \/ lost' = lost
          \/ \E u \in Txn : u \notin relayed /\ lost' = lost \cup {u}
      BY <2>1 DEF Replicate
    <3> QED BY <3>3, <3>4, <3>5
  <2>2. CASE /\ FleetStep(n) \/ (n = primary /\ Restart(n))
             /\ UNCHANGED <<mgrVars, histVars>>
    <3>1. Effect(n)
      BY <2>2, CommitEffect, ApplyEffect, AckEffect, ReassertEffect,
         FenceSqlEffect, FenceKillEffect, RestartEffect
      DEF FleetStep, LosslessInv
    <3>2. Binlog(primary) \subseteq Binlog(primary)'
      BY <1>1, <3>1 DEF Effect, Binlog
    <3>3. acked \subseteq acked' /\ lost' = lost
      BY <2>2 DEF FleetStep, Commit, Apply, Ack, Reassert, FenceBySql,
                  FenceByKill, Restart, histVars
    <3> QED BY <3>2, <3>3
  <2>3. CASE RestartOutside(n)
    BY <2>2, <2>3 DEF RestartOutside, FirstFailover
  <2> QED BY <1>0, <2>1, <2>2, <2>3
<1>3. Binlog(primary)' \in SUBSET Txn /\ (acked \ lost)' \in SUBSET Txn
  BY DEF NodeState, Binlog
<1>4. CASE InCharge
  <2>1. (acked \ lost)' \subseteq Binlog(primary)'
    BY <1>1, <1>4 DEF Lossless
  <2> QED BY <1>1, <1>2, <1>3, <1>4, <2>1 DEF Log!Next, Log!Serve
<1>5. CASE ~InCharge
  BY <1>1, <1>2, <1>3, <1>5 DEF Log!Next, Log!Adrift
<1> QED BY <1>4, <1>5

(* LogManager: a run begins by taking the log from its owner and ends by   *)
(* giving it to a node that has every answered write; nothing in between   *)
(* takes anything from it.                                                 *)
LEMMA LogManager ==
  ASSUME TypeOK, LosslessInv, TypeOK', Lossless', Start \/ ManagerStep
  PROVE  Log!Next \/ UNCHANGED Log!logVars
<1> USE DEF TypeOK, FleetTypeOK, InCharge
<1>1. Binlog(primary)' \in SUBSET Txn /\ (acked \ lost)' \in SUBSET Txn
  BY DEF NodeState, Binlog
<1>2. CASE Start
  <2>1. /\ pc = "idle" /\ pc' = "stop_io" /\ NoNode \notin Node
        /\ UNCHANGED <<node, primary, acked, lost>>
    BY <1>2 DEF Start, histVars
  <2>2. UNCHANGED Binlog(primary)
    BY <2>1 DEF Binlog
  <2> QED BY <2>1, <2>2 DEF Log!Next, Log!StepDown
<1>3. CASE Promote
  <2>1. /\ pc = "promote" /\ pc' = "record" /\ primary' \in Node
        /\ UNCHANGED <<acked, lost>>
    BY <1>3 DEF Promote, histVars
  <2>2. acked \ lost \subseteq Binlog(primary)'
    BY <2>1 DEF Lossless
  <2> QED BY <1>1, <2>1, <2>2 DEF Log!Next, Log!TakeOver
<1>4. CASE Record
  <2>1. /\ pc = "record" /\ pc' = "idle"
        /\ UNCHANGED <<node, primary, acked, lost>>
    BY <1>4 DEF Record, fleetVars, histVars
  <2>2. UNCHANGED Binlog(primary)
    BY <2>1 DEF Binlog
  <2> QED BY <2>1, <2>2 DEF Log!logVars
<1>5. ASSUME pc \notin {"idle", "record"}, pc' \notin {"idle", "record"},
             UNCHANGED primary, Binlog(primary) \subseteq Binlog(primary)'
      PROVE  Log!Next
  BY <1>1, <1>5 DEF Log!Next, Log!Adrift
<1>6. ASSUME NEW n \in Node, StopIo(n) \/ Repoint(n) PROVE Log!Next
  <2>1. /\ pc \notin {"idle", "record"} /\ pc' = pc /\ UNCHANGED primary
        /\ \/ node'[n] = IoStopped(node[n])
           \/ node'[n] = Repointed(node[n], winner)
           \/ node'[n] = RepointCut(node[n])
        /\ \A m \in Node \ {n} : node'[m] = node[m]
    BY <1>6, BecomesType, HandlerTypes DEF StopIo, Repoint, Chosen
  <2>2. node[n] \in NodeState
    OBVIOUS
  <2>3. node'[n].executed = node[n].executed
        /\ node'[n].pending = node[n].pending
    <3>1. CASE node'[n] = IoStopped(node[n])
      BY <2>2, <3>1 DEF IoStopped, NodeState
    <3>2. CASE node'[n] = Repointed(node[n], winner)
      BY <2>2, <3>2 DEF Repointed, NodeState
    <3>3. CASE node'[n] = RepointCut(node[n])
      BY <2>2, <3>3 DEF RepointCut, NodeState
    <3> QED BY <2>1, <3>1, <3>2, <3>3
  <2>4. Binlog(primary)' = Binlog(primary)
    BY <2>1, <2>3 DEF Binlog
  <2> QED BY <1>5, <2>1, <2>4
<1>7. CASE PromoteFails
  <2>1. /\ pc = "promote" /\ pc' = "halted" /\ UNCHANGED primary
        /\ winner \in Node /\ winner # primary
        /\ \A m \in Node \ {winner} : node'[m] = node[m]
    BY <1>7, BecomesType, HandlerTypes
    DEF PromoteFails, LosslessInv, ChosenInv, Chosen, Others
  <2>2. Binlog(primary)' = Binlog(primary)
    BY <2>1 DEF Binlog
  <2> QED BY <1>5, <2>1, <2>2
<1>8. ASSUME UNCHANGED <<node, primary>>, pc \notin {"idle", "record"},
             pc' \notin {"idle", "record"}
      PROVE  Log!Next
  BY <1>5, <1>8 DEF Binlog
<1>9. CASE \/ StopIoEnds \/ FenceWaitEnds \/ ViewsEnd \/ ChooseNone
           \/ CatchUp \/ CatchUpFails \/ RepointsEnd \/ AwaitFence \/ Halt
           \/ \E n \in Node : \/ StopIoFails(n) \/ View(n) \/ Choose(n)
                             \/ RepointFails(n)
  BY <1>8, <1>9 DEF StopIoEnds, FenceWaitEnds, ViewsEnd, ChooseNone, CatchUp,
     CatchUpFails, RepointsEnd, AwaitFence, Halt, StopIoFails, View, Choose,
     RepointFails, fleetVars
<1>10. CASE FenceAnswers \/ FenceGivesUp
  <2>1. UNCHANGED <<node, pc, primary, acked, lost>>
    BY <1>10 DEF FenceAnswers, FenceGivesUp, fleetVars, histVars
  <2> QED BY <2>1 DEF Log!logVars, Binlog
<1> QED
  BY <1>2, <1>3, <1>4, <1>6, <1>7, <1>9, <1>10 DEF ManagerStep

(* LogCorrect: for any number of nodes and writes, the first failover of a *)
(* healthy set implements the abstract log: a primary in charge forgets    *)
(* nothing, and none takes over from one that is in charge.                *)
THEOREM LogCorrect ==
  ASSUME FirstFailover
  PROVE  Spec => LosslessLog
<1>1. /\ TypeOK /\ LosslessInv /\ [Next]_vars
      /\ TypeOK' /\ LosslessInv'
      => [Log!Next]_Log!logVars
  <2> SUFFICES ASSUME TypeOK, LosslessInv, [Next]_vars, TypeOK', LosslessInv'
               PROVE  [Log!Next]_Log!logVars
    OBVIOUS
  <2>1. Lossless'
    BY LosslessImplied, PTL
  <2>2. CASE UNCHANGED vars
    BY <2>2 DEF vars, fleetVars, mgrVars, histVars, Log!logVars, Binlog,
                InCharge
  <2> QED BY <2>1, <2>2, LogEnvironment, LogManager DEF Next
<1> QED
  BY TypeCorrect, LosslessAlways, LogInit, <1>1, PTL
  DEF Spec, LosslessLog, Log!Spec
=============================================================================
