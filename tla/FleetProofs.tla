----------------------------- MODULE FleetProofs -----------------------------
(***************************************************************************)
(* Facts about the data plane's updates and the choice of a winner, for    *)
(* the proofs of the modules that compose them.                            *)
(***************************************************************************)
EXTENDS Fleet, TLAPS, FiniteSetTheorems, WellFoundedInduction

USE FleetAssumption

(* BecomesType: an update of one node leaves the others alone. *)
LEMMA BecomesType ==
  ASSUME NEW n \in Node, NEW s \in NodeState,
         node \in [Node -> NodeState], Becomes(n, s)
  PROVE  /\ node' \in [Node -> NodeState]
         /\ node'[n] = s
         /\ \A m \in Node \ {n} : node'[m] = node[m]
  BY DEF Becomes

(* ReplicationTypes: replication takes node states to node states. *)
LEMMA ReplicationTypes ==
  ASSUME NEW s \in NodeState, NEW t \in Txn
  PROVE  /\ Binlogged(s, t) \in NodeState
         /\ Committed(s, t) \in NodeState
         /\ Relayed(s, t) \in NodeState
         /\ CutOff(s, t) \in NodeState
         /\ Applied(s, t) \in NodeState
<1>1. Binlogged(s, t) \in NodeState
  BY DEF NodeState, Binlogged
<1>2. Committed(s, t) \in NodeState
  BY DEF NodeState, Committed
<1>3. Relayed(s, t) \in NodeState
  BY DEF NodeState, Relayed
<1>4. CutOff(s, t) \in NodeState
  BY DEF NodeState, CutOff
<1>5. Applied(s, t) \in NodeState
  BY DEF NodeState, Applied
<1> QED BY <1>1, <1>2, <1>3, <1>4, <1>5

(* HandlerTypes: so do failures and the agent's handlers. *)
LEMMA HandlerTypes ==
  ASSUME NEW s \in NodeState, NEW to \in Node
  PROVE  /\ Restarted(s) \in NodeState
         /\ SqlFailed(s) \in NodeState
         /\ ReplicaOn(s) \in NodeState
         /\ FencedBySql(s) \in NodeState
         /\ FencedByKill(s) \in NodeState
         /\ IoStopped(s) \in NodeState
         /\ PromotedReadOnly(s) \in NodeState
         /\ Promoted(s) \in NodeState
         /\ RepointCut(s) \in NodeState
         /\ Repointed(s, to) \in NodeState
<1>1. Restarted(s) \in NodeState
  BY DEF NodeState, Restarted
<1>2. SqlFailed(s) \in NodeState
  BY DEF NodeState, SqlFailed
<1>3. ReplicaOn(s) \in NodeState
  BY DEF NodeState, ReplicaOn
<1>4. FencedBySql(s) \in NodeState
  BY DEF NodeState, FencedBySql
<1>5. FencedByKill(s) \in NodeState
  BY <1>1 DEF NodeState, FencedByKill
<1>6. IoStopped(s) \in NodeState
  BY DEF NodeState, IoStopped
<1>7. PromotedReadOnly(s) \in NodeState
  BY DEF NodeState, PromotedReadOnly
<1>8. Promoted(s) \in NodeState
  BY <1>7 DEF NodeState, Promoted
<1>9. RepointCut(s) \in NodeState
  BY DEF NodeState, RepointCut
<1>10. Repointed(s, to) \in NodeState
  BY DEF NodeState, Repointed
<1> QED BY <1>1, <1>2, <1>3, <1>4, <1>5, <1>6, <1>7, <1>8, <1>9, <1>10

(* StatusType: what an answered /status shows is a view. *)
LEMMA StatusType ==
  ASSUME NEW n \in Node, node \in [Node -> NodeState]
  PROVE  Status(n) \in NodeView(Txn)
  BY DEF Status, NodeView, NodeState

(* FleetInitType: the healthy set is well typed. *)
LEMMA FleetInitType == FleetInit => FleetTypeOK
  BY DEF FleetInit, FleetTypeOK, NodeState, FenceStage, Txn

(* FleetStepType: so is whatever it becomes without the manager. *)
LEMMA FleetStepType ==
  ASSUME FleetTypeOK, NEW n \in Node, FleetStep(n)
  PROVE  FleetTypeOK'
<1> USE DEF FleetTypeOK
<1>0. node[n] \in NodeState
  OBVIOUS
<1>1. CASE Commit(n)
  <2>1. nextTxn \in Txn /\ nextTxn' \in 1 .. MaxTxn + 1
    BY <1>1 DEF Commit, Txn
  <2>2. node' \in [Node -> NodeState]
    BY <1>0, <1>1, <2>1, BecomesType, ReplicationTypes DEF Commit
  <2> QED BY <1>1, <2>1, <2>2 DEF Commit
<1>2. CASE Apply(n)
  <2>1. PICK t \in Appliable(n) : Becomes(n, Applied(node[n], t))
    BY <1>2 DEF Apply, First
  <2>2. t \in Txn
    BY <1>0, <2>1 DEF Appliable, NodeState
  <2> QED BY <1>0, <1>2, <2>1, <2>2, BecomesType, ReplicationTypes DEF Apply
<1>3. CASE \E t \in Txn : Ack(n, t)
  BY <1>0, <1>3, BecomesType, ReplicationTypes DEF Ack
<1>4. CASE Reassert(n)
  BY <1>0, <1>4, BecomesType, HandlerTypes DEF Reassert
<1>5. CASE FenceBySql(n)
  BY <1>0, <1>5, BecomesType, HandlerTypes DEF FenceBySql, FenceStage
<1>6. CASE FenceByKill(n)
  BY <1>0, <1>6, BecomesType, HandlerTypes DEF FenceByKill, FenceStage
<1> QED BY <1>1, <1>2, <1>3, <1>4, <1>5, <1>6 DEF FleetStep

(* ReceiveType: and what replication makes of it. *)
LEMMA ReceiveType ==
  ASSUME FleetTypeOK, NEW n \in Node, NEW t \in Txn, Receive(n, t)
  PROVE  FleetTypeOK'
  BY BecomesType, ReplicationTypes DEF Receive, FleetTypeOK

(* FailureType: and what failures make of it. *)
LEMMA FailureType ==
  ASSUME FleetTypeOK, NEW n \in Node,
         ReceivePartial(n) \/ Restart(n) \/ SqlError(n)
  PROVE  FleetTypeOK'
<1> USE DEF FleetTypeOK
<1>1. CASE ReceivePartial(n)
  <2>1. PICK s \in Node : \E u \in Binlog(s) : Becomes(n, CutOff(node[n], u))
    BY <1>1 DEF ReceivePartial, First
  <2>2. PICK u \in Binlog(s) : Becomes(n, CutOff(node[n], u))
    BY <2>1
  <2>3. u \in Txn
    BY <2>2 DEF Binlog, NodeState
  <2> QED
    BY <1>1, <2>2, <2>3, BecomesType, ReplicationTypes DEF ReceivePartial
<1>2. CASE Restart(n)
  BY <1>2, BecomesType, HandlerTypes DEF Restart
<1>3. CASE SqlError(n)
  BY <1>3, BecomesType, HandlerTypes DEF SqlError
<1> QED BY <1>1, <1>2, <1>3

-----------------------------------------------------------------------------
(* Which updates can make a node writable.                                 *)

(* ReadOnlyFacts: replication and failures do not, nor any handler but a   *)
(* whole promote; a fence, a restart and a repoint make it read-only.      *)
LEMMA ReadOnlyFacts ==
  ASSUME NEW s \in NodeState, NEW t, NEW to
  PROVE  /\ Binlogged(s, t).superReadOnly = s.superReadOnly
         /\ Committed(s, t).superReadOnly = s.superReadOnly
         /\ Relayed(s, t).superReadOnly = s.superReadOnly
         /\ CutOff(s, t).superReadOnly = s.superReadOnly
         /\ Applied(s, t).superReadOnly = s.superReadOnly
         /\ SqlFailed(s).superReadOnly = s.superReadOnly
         /\ ReplicaOn(s).superReadOnly = s.superReadOnly
         /\ IoStopped(s).superReadOnly = s.superReadOnly
         /\ PromotedReadOnly(s).superReadOnly = s.superReadOnly
         /\ Restarted(s).superReadOnly
         /\ FencedBySql(s).superReadOnly
         /\ FencedByKill(s).superReadOnly
         /\ RepointCut(s).superReadOnly
         /\ Repointed(s, to).superReadOnly
  BY DEF NodeState, Binlogged, Committed, Relayed, CutOff, Applied, SqlFailed,
         ReplicaOn, IoStopped, PromotedReadOnly, Restarted, FencedBySql,
         FencedByKill, RepointCut, Repointed

(* UpdateNoWriter: such an update of one node makes no node writable.      *)
LEMMA UpdateNoWriter ==
  ASSUME NEW n \in Node, NEW s \in NodeState,
         node \in [Node -> NodeState], Becomes(n, s),
         s.superReadOnly \/ s.superReadOnly = node[n].superReadOnly
  PROVE  \A m \in Node : Writable(m)' => Writable(m)
  BY BecomesType DEF Writable

(* ReplicationNoWriter: replication in particular. *)
LEMMA ReplicationNoWriter ==
  ASSUME NEW n \in Node, NEW t \in Txn, node \in [Node -> NodeState],
         \/ Becomes(n, Binlogged(node[n], t))
         \/ Becomes(n, Committed(node[n], t))
         \/ Becomes(n, Relayed(node[n], t))
         \/ Becomes(n, CutOff(node[n], t))
         \/ Becomes(n, Applied(node[n], t))
  PROVE  \A m \in Node : Writable(m)' => Writable(m)
<1>1. node[n] \in NodeState
  OBVIOUS
<1>2. /\ Binlogged(node[n], t) \in NodeState
      /\ Committed(node[n], t) \in NodeState
      /\ Relayed(node[n], t) \in NodeState
      /\ CutOff(node[n], t) \in NodeState
      /\ Applied(node[n], t) \in NodeState
  BY <1>1, ReplicationTypes
<1>3. /\ Binlogged(node[n], t).superReadOnly = node[n].superReadOnly
      /\ Committed(node[n], t).superReadOnly = node[n].superReadOnly
      /\ Relayed(node[n], t).superReadOnly = node[n].superReadOnly
      /\ CutOff(node[n], t).superReadOnly = node[n].superReadOnly
      /\ Applied(node[n], t).superReadOnly = node[n].superReadOnly
  BY <1>1, ReadOnlyFacts
<1>4. CASE Becomes(n, Binlogged(node[n], t))
  BY <1>2, <1>3, <1>4, UpdateNoWriter
<1>5. CASE Becomes(n, Committed(node[n], t))
  BY <1>2, <1>3, <1>5, UpdateNoWriter
<1>6. CASE Becomes(n, Relayed(node[n], t))
  BY <1>2, <1>3, <1>6, UpdateNoWriter
<1>7. CASE Becomes(n, CutOff(node[n], t))
  BY <1>2, <1>3, <1>7, UpdateNoWriter
<1>8. CASE Becomes(n, Applied(node[n], t))
  BY <1>2, <1>3, <1>8, UpdateNoWriter
<1> QED BY <1>4, <1>5, <1>6, <1>7, <1>8

(* HandlerNoWriter: and every handler but a whole promote. *)
LEMMA HandlerNoWriter ==
  ASSUME NEW n \in Node, node \in [Node -> NodeState],
         \/ Becomes(n, Restarted(node[n]))
         \/ Becomes(n, SqlFailed(node[n]))
         \/ Becomes(n, ReplicaOn(node[n]))
         \/ Becomes(n, FencedBySql(node[n]))
         \/ Becomes(n, FencedByKill(node[n]))
  PROVE  \A m \in Node : Writable(m)' => Writable(m)
<1>1. node[n] \in NodeState
  OBVIOUS
<1>2. /\ Restarted(node[n]) \in NodeState
      /\ SqlFailed(node[n]) \in NodeState
      /\ ReplicaOn(node[n]) \in NodeState
      /\ FencedBySql(node[n]) \in NodeState
      /\ FencedByKill(node[n]) \in NodeState
  BY <1>1, HandlerTypes
<1>3. /\ Restarted(node[n]).superReadOnly
      /\ SqlFailed(node[n]).superReadOnly = node[n].superReadOnly
      /\ ReplicaOn(node[n]).superReadOnly = node[n].superReadOnly
      /\ FencedBySql(node[n]).superReadOnly
      /\ FencedByKill(node[n]).superReadOnly
  BY <1>1, ReadOnlyFacts
<1>4. CASE Becomes(n, Restarted(node[n]))
  BY <1>2, <1>3, <1>4, UpdateNoWriter
<1>5. CASE Becomes(n, SqlFailed(node[n]))
  BY <1>2, <1>3, <1>5, UpdateNoWriter
<1>6. CASE Becomes(n, ReplicaOn(node[n]))
  BY <1>2, <1>3, <1>6, UpdateNoWriter
<1>7. CASE Becomes(n, FencedBySql(node[n]))
  BY <1>2, <1>3, <1>7, UpdateNoWriter
<1>8. CASE Becomes(n, FencedByKill(node[n]))
  BY <1>2, <1>3, <1>8, UpdateNoWriter
<1> QED BY <1>4, <1>5, <1>6, <1>7, <1>8

(* FenceReadOnly: a fence that took effect left its node read-only. *)
LEMMA FenceReadOnly ==
  ASSUME NEW n \in Node, node \in [Node -> NodeState],
         \/ Becomes(n, FencedBySql(node[n]))
         \/ Becomes(n, FencedByKill(node[n]))
  PROVE  ~Writable(n)'
<1>1. node[n] \in NodeState
  OBVIOUS
<1>2. FencedBySql(node[n]) \in NodeState /\ FencedByKill(node[n]) \in NodeState
  BY <1>1, HandlerTypes
<1>3. \/ node'[n] = FencedBySql(node[n])
      \/ node'[n] = FencedByKill(node[n])
  BY <1>2, BecomesType
<1>4. FencedBySql(node[n]).superReadOnly /\ FencedByKill(node[n]).superReadOnly
  BY <1>1, ReadOnlyFacts
<1> QED BY <1>3, <1>4 DEF Writable

(* FleetNoWriter: nothing that happens without the manager makes a node    *)
(* writable, and a fence that took effect left its node read-only.         *)
LEMMA FleetNoWriter ==
  ASSUME FleetTypeOK, NEW n \in Node, FleetStep(n)
  PROVE  /\ \A m \in Node : Writable(m)' => Writable(m)
         /\ \/ UNCHANGED fencing
            \/ /\ ~Writable(n)'
               /\ \E how \in {"sql", "kill"} :
                    fencing' = [fencing EXCEPT ![n] = how]
<1>0. node \in [Node -> NodeState]
  BY DEF FleetTypeOK
<1>1. CASE Commit(n)
  <2>1. nextTxn \in Txn /\ UNCHANGED fencing
    BY <1>1 DEF Commit
  <2>2. \/ Becomes(n, Binlogged(node[n], nextTxn))
        \/ Becomes(n, Applied(node[n], nextTxn))
    BY <1>1 DEF Commit
  <2> QED BY <1>0, <2>1, <2>2, ReplicationNoWriter
<1>2. CASE Apply(n)
  <2>1. PICK t \in Appliable(n) : Becomes(n, Applied(node[n], t))
    BY <1>2 DEF Apply, First
  <2>2. t \in Txn
    BY <1>0, <2>1 DEF Appliable, NodeState
  <2>3. UNCHANGED fencing
    BY <1>2 DEF Apply
  <2> QED BY <1>0, <2>1, <2>2, <2>3, ReplicationNoWriter
<1>3. CASE \E t \in Txn : Ack(n, t)
  <2>1. PICK t \in Txn : Ack(n, t)
    BY <1>3
  <2>2. Becomes(n, Committed(node[n], t)) /\ UNCHANGED fencing
    BY <2>1 DEF Ack
  <2> QED BY <1>0, <2>2, ReplicationNoWriter
<1>4. CASE Reassert(n)
  BY <1>0, <1>4, HandlerNoWriter DEF Reassert
<1>5. CASE FenceBySql(n)
  BY <1>0, <1>5, HandlerNoWriter, FenceReadOnly DEF FenceBySql
<1>6. CASE FenceByKill(n)
  BY <1>0, <1>6, HandlerNoWriter, FenceReadOnly DEF FenceByKill
<1> QED BY <1>1, <1>2, <1>3, <1>4, <1>5, <1>6 DEF FleetStep

(* FailureNoWriter: nor does replication or a failure. *)
LEMMA FailureNoWriter ==
  ASSUME FleetTypeOK, NEW n \in Node,
         \/ \E t \in Txn : Receive(n, t)
         \/ ReceivePartial(n) \/ Restart(n) \/ SqlError(n)
  PROVE  /\ \A m \in Node : Writable(m)' => Writable(m)
         /\ UNCHANGED fencing
<1>0. node \in [Node -> NodeState]
  BY DEF FleetTypeOK
<1>1. CASE \E t \in Txn : Receive(n, t)
  <2>1. PICK t \in Txn : Receive(n, t)
    BY <1>1
  <2>2. Becomes(n, Relayed(node[n], t)) /\ UNCHANGED fencing
    BY <2>1 DEF Receive
  <2> QED BY <1>0, <2>2, ReplicationNoWriter
<1>2. CASE ReceivePartial(n)
  <2>1. PICK s \in Node : \E u \in Binlog(s) : Becomes(n, CutOff(node[n], u))
    BY <1>2 DEF ReceivePartial, First
  <2>2. PICK u \in Binlog(s) : Becomes(n, CutOff(node[n], u))
    BY <2>1
  <2>3. u \in Txn
    BY <1>0, <2>2 DEF Binlog, NodeState
  <2>4. UNCHANGED fencing
    BY <1>2 DEF ReceivePartial
  <2> QED BY <1>0, <2>2, <2>3, <2>4, ReplicationNoWriter
<1>3. CASE Restart(n)
  BY <1>0, <1>3, HandlerNoWriter DEF Restart
<1>4. CASE SqlError(n)
  BY <1>0, <1>4, HandlerNoWriter DEF SqlError
<1> QED BY <1>1, <1>2, <1>3, <1>4

-----------------------------------------------------------------------------
(* What replicas receive and primaries commit.                             *)

(* StreamFacts: replication and the handlers below leave a node's source   *)
(* and its IO thread's switch alone.                                       *)
LEMMA StreamFacts ==
  ASSUME NEW s \in NodeState, NEW t
  PROVE  /\ Binlogged(s, t).source = s.source
         /\ Binlogged(s, t).ioStopped = s.ioStopped
         /\ Committed(s, t).source = s.source
         /\ Committed(s, t).ioStopped = s.ioStopped
         /\ Relayed(s, t).source = s.source
         /\ Relayed(s, t).ioStopped = s.ioStopped
         /\ CutOff(s, t).source = s.source
         /\ CutOff(s, t).ioStopped = s.ioStopped
         /\ Applied(s, t).source = s.source
         /\ Applied(s, t).ioStopped = s.ioStopped
         /\ SqlFailed(s).source = s.source
         /\ SqlFailed(s).ioStopped = s.ioStopped
         /\ ReplicaOn(s).source = s.source
         /\ ReplicaOn(s).ioStopped = s.ioStopped
         /\ FencedBySql(s).source = s.source
         /\ FencedBySql(s).ioStopped = s.ioStopped
  BY DEF NodeState, Binlogged, Committed, Relayed, CutOff, Applied, SqlFailed,
         ReplicaOn, FencedBySql

(* StreamKept: what happens without the manager leaves them alone on every *)
(* node but one whose mysqld is killed.                                    *)
LEMMA StreamKept ==
  ASSUME FleetTypeOK, NEW n \in Node,
         FleetStep(n) \/ ReceivePartial(n) \/ SqlError(n)
           \/ \E t \in Txn : Receive(n, t),
         NEW m \in Node, m # n \/ ~FenceByKill(n)
  PROVE  node'[m].source = node[m].source
         /\ node'[m].ioStopped = node[m].ioStopped
<1> DEFINE Kept == node'[m].source = node[m].source
                   /\ node'[m].ioStopped = node[m].ioStopped
<1>0. node[n] \in NodeState /\ node \in [Node -> NodeState]
  BY DEF FleetTypeOK
<1>a. ASSUME NEW s \in NodeState, Becomes(n, s), s.source = node[n].source,
             s.ioStopped = node[n].ioStopped
      PROVE  Kept
  BY <1>0, <1>a, BecomesType
<1> SUFFICES Kept
  BY DEF Kept
<1> HIDE DEF Kept
<1>b. \A t \in Txn :
        /\ Becomes(n, Binlogged(node[n], t)) => Kept
        /\ Becomes(n, Committed(node[n], t)) => Kept
        /\ Becomes(n, Relayed(node[n], t)) => Kept
        /\ Becomes(n, CutOff(node[n], t)) => Kept
        /\ Becomes(n, Applied(node[n], t)) => Kept
  BY <1>0, <1>a, StreamFacts, ReplicationTypes
<1>c. /\ Becomes(n, SqlFailed(node[n])) => Kept
      /\ Becomes(n, ReplicaOn(node[n])) => Kept
      /\ Becomes(n, FencedBySql(node[n])) => Kept
  BY <1>0, <1>a, StreamFacts, HandlerTypes
<1>1. CASE Commit(n)
  BY <1>1, <1>b DEF Commit
<1>2. CASE Apply(n)
  <2>1. PICK t \in Appliable(n) : Becomes(n, Applied(node[n], t))
    BY <1>2 DEF Apply, First
  <2>2. t \in Txn
    BY <1>0, <2>1 DEF Appliable, NodeState
  <2> QED BY <1>b, <2>1, <2>2
<1>3. CASE \E t \in Txn : Ack(n, t)
  BY <1>3, <1>b DEF Ack
<1>4. CASE Reassert(n) \/ FenceBySql(n) \/ SqlError(n)
  BY <1>4, <1>c DEF Reassert, FenceBySql, SqlError
<1>5. CASE FenceByKill(n)
  BY <1>0, <1>5, BecomesType, HandlerTypes DEF FenceByKill, Kept
<1>6. CASE ReceivePartial(n)
  <2>1. PICK s \in Node : \E u \in Binlog(s) : Becomes(n, CutOff(node[n], u))
    BY <1>6 DEF ReceivePartial, First
  <2>2. PICK u \in Binlog(s) : Becomes(n, CutOff(node[n], u))
    BY <2>1
  <2>3. u \in Txn
    BY <1>0, <2>2 DEF Binlog, NodeState
  <2> QED BY <1>b, <2>2, <2>3
<1>7. CASE \E t \in Txn : Receive(n, t)
  BY <1>7, <1>b DEF Receive
<1> QED
  BY <1>1, <1>2, <1>3, <1>4, <1>5, <1>6, <1>7 DEF FleetStep

(* BinlogGrows: what happens at a node that has received nothing adds at   *)
(* most the next transaction to its binlog.                                *)
LEMMA BinlogGrows ==
  ASSUME FleetTypeOK, NEW n \in Node, FleetStep(n) \/ Restart(n),
         node[n].retrieved = {}
  PROVE  /\ node'[n].retrieved = {}
         /\ node'[n].source = node[n].source
         /\ \A m \in Node \ {n} : node'[m] = node[m]
         /\ \/ Binlog(n)' = Binlog(n) /\ nextTxn' = nextTxn
            \/ /\ Binlog(n)' = Binlog(n) \cup {nextTxn}
               /\ nextTxn' = nextTxn + 1
<1> USE DEF FleetTypeOK
<1>0. node[n] \in NodeState
  OBVIOUS
<1>1. CASE Commit(n)
  <2>1. nextTxn \in Txn
    BY <1>1 DEF Commit
  <2>2. /\ \/ node'[n] = Binlogged(node[n], nextTxn)
           \/ node'[n] = Applied(node[n], nextTxn)
        /\ \A m \in Node \ {n} : node'[m] = node[m]
    BY <1>0, <1>1, <2>1, BecomesType, ReplicationTypes DEF Commit
  <2>3. /\ node'[n].retrieved = {} /\ node'[n].source = node[n].source
        /\ Binlog(n)' = Binlog(n) \cup {nextTxn}
    BY <1>0, <2>2 DEF Binlogged, Applied, Binlog, NodeState
  <2> QED BY <1>1, <2>2, <2>3 DEF Commit
<1>2. CASE Apply(n)
  BY <1>2 DEF Apply, First, Appliable
<1>3. CASE \E t \in Txn : Ack(n, t)
  <2>1. PICK t \in Txn : Ack(n, t)
    BY <1>3
  <2>2. /\ node'[n] = Committed(node[n], t) /\ t \in node[n].pending
        /\ \A m \in Node \ {n} : node'[m] = node[m]
    BY <1>0, <2>1, BecomesType, ReplicationTypes DEF Ack
  <2>3. /\ node'[n].retrieved = {} /\ node'[n].source = node[n].source
        /\ Binlog(n)' = Binlog(n)
    BY <1>0, <2>2 DEF Committed, Binlog, NodeState
  <2> QED BY <2>1, <2>2, <2>3 DEF Ack
<1>4. CASE Reassert(n) \/ FenceBySql(n) \/ FenceByKill(n) \/ Restart(n)
  <2>1. /\ \/ node'[n] = ReplicaOn(node[n])
           \/ node'[n] = FencedBySql(node[n])
           \/ node'[n] = FencedByKill(node[n])
           \/ node'[n] = Restarted(node[n])
        /\ \A m \in Node \ {n} : node'[m] = node[m]
    BY <1>0, <1>4, BecomesType, HandlerTypes
    DEF Reassert, FenceBySql, FenceByKill, Restart
  <2>2. /\ node'[n].retrieved = {} /\ node'[n].source = node[n].source
        /\ Binlog(n)' = Binlog(n)
    <3>1. CASE node'[n] = ReplicaOn(node[n])
      BY <1>0, <3>1 DEF ReplicaOn, Binlog, NodeState
    <3>2. CASE node'[n] = FencedBySql(node[n])
      BY <1>0, <3>2 DEF FencedBySql, Binlog, NodeState
    <3>3. CASE node'[n] = FencedByKill(node[n])
      BY <1>0, <3>3 DEF FencedByKill, Restarted, Binlog, NodeState
    <3>4. CASE node'[n] = Restarted(node[n])
      BY <1>0, <3>4 DEF Restarted, Binlog, NodeState
    <3> QED BY <2>1, <3>1, <3>2, <3>3, <3>4
  <2>3. nextTxn' = nextTxn
    BY <1>4 DEF Reassert, FenceBySql, FenceByKill, Restart
  <2> QED BY <2>1, <2>2, <2>3
<1> QED BY <1>1, <1>2, <1>3, <1>4 DEF FleetStep

-----------------------------------------------------------------------------
(* Choosing a winner.                                                      *)

(* Below: the order of the natural numbers, as a relation. *)
Below == {ss \in Nat \X Nat : ss[1] < ss[2]}

(* SmallestNat: a nonempty set of natural numbers has a smallest one. *)
LEMMA SmallestNat ==
  ASSUME NEW T, T \subseteq Nat, T # {}
  PROVE  \E x \in T : \A y \in T : x <= y
<1>1. IsWellFoundedOn(Below, Nat)
  BY NatLessThanWellFounded DEF OpToRel, Below
<1>2. PICK x \in T : \A y \in T : ~(<<y, x>> \in Below)
  BY <1>1, WFMin
<1>3. \A u, v \in Nat : u < v => <<u, v>> \in Below
  BY DEF Below
<1>4. \A y \in T : ~(y < x)
  BY <1>2, <1>3
<1>5. \A y \in T : x <= y
  BY <1>4
<1> QED BY <1>5

(* LargestBounded: a number attached to the members of a nonempty set, and *)
(* bounded, is largest at one of them.                                     *)
LEMMA LargestBounded ==
  ASSUME NEW S, S # {}, NEW b \in Nat, NEW f,
         \A x \in S : f[x] \in 0 .. b
  PROVE  \E x \in S : \A y \in S : f[x] >= f[y]
<1> DEFINE T == {b - f[x] : x \in S}
<1>1. T \subseteq Nat /\ T # {}
  OBVIOUS
<1>2. PICK m \in T : \A k \in T : m <= k
  BY <1>1, SmallestNat
<1>3. PICK x \in S : m = b - f[x]
  OBVIOUS
<1>4. ASSUME NEW y \in S PROVE f[x] >= f[y]
  <2>1. b - f[x] <= b - f[y]
    BY <1>2, <1>3
  <2>2. f[x] \in 0 .. b /\ f[y] \in 0 .. b
    OBVIOUS
  <2> QED BY <2>1, <2>2
<1> QED BY <1>4

(* CountFacts: counts of sets of transactions are bounded, and one that is *)
(* part of another is all of it unless it counts less.                     *)
LEMMA CountFacts ==
  ASSUME NEW S \in SUBSET Txn
  PROVE  /\ Cardinality(S) \in 0 .. MaxTxn
         /\ \A T \in SUBSET S : Cardinality(T) >= Cardinality(S) => T = S
<1>1. IsFiniteSet(Txn) /\ Cardinality(Txn) = MaxTxn
  <2>1. IsFiniteSet(Txn)
        /\ Cardinality(Txn) = IF 1 > MaxTxn THEN 0 ELSE MaxTxn - 1 + 1
    BY FS_Interval DEF Txn
  <2> QED BY <2>1
<1>2. IsFiniteSet(S) /\ Cardinality(S) <= MaxTxn
  BY <1>1, FS_Subset
<1>3. Cardinality(S) \in Nat
  BY <1>2, FS_CardinalityType
<1>4. ASSUME NEW T \in SUBSET S, Cardinality(T) >= Cardinality(S)
      PROVE  T = S
  <2>1. IsFiniteSet(T) /\ Cardinality(T) <= Cardinality(S)
        /\ (Cardinality(S) = Cardinality(T) => S = T)
    BY <1>2, FS_Subset
  <2>2. Cardinality(T) \in Nat
    BY <2>1, FS_CardinalityType
  <2> QED BY <1>3, <1>4, <2>1, <2>2
<1> QED BY <1>2, <1>3, <1>4

(* BestExists: among candidates one is best (choose, selection.py). *)
LEMMA BestExists ==
  ASSUME NEW vs \in [Node -> NodeView(Txn)], NEW cands \in SUBSET Node,
         cands # {}
  PROVE  Best(vs, cands) # {}
<1> DEFINE held == [c \in cands |-> Cardinality(Have(vs[c]))]
           applied == [c \in cands |-> Cardinality(vs[c].executed)]
           most == {c \in cands : \A d \in cands : held[c] >= held[d]}
<1>1. held \in [cands -> 0 .. MaxTxn] /\ applied \in [cands -> 0 .. MaxTxn]
  <2>1. \A c \in cands :
          Have(vs[c]) \in SUBSET Txn /\ vs[c].executed \in SUBSET Txn
    BY DEF Have, NodeView
  <2> QED BY <2>1, CountFacts
<1>2. most # {}
  BY <1>1, LargestBounded
<1>3. PICK w \in most : \A c \in most : applied[w] >= applied[c]
  <2>1. \A c \in most : applied[c] \in 0 .. MaxTxn
    BY <1>1
  <2> HIDE DEF most, applied
  <2> QED BY <1>2, <2>1, LargestBounded
<1>4. ASSUME NEW c \in cands
      PROVE  \/ held[w] - held[c] > 0
             \/ held[w] - held[c] = 0 /\ applied[w] - applied[c] >= 0
  <2>1. held[w] >= held[c]
    OBVIOUS
  <2>2. held[w] = held[c] => c \in most
    OBVIOUS
  <2> QED BY <1>1, <1>3, <2>1, <2>2
<1> QED BY <1>4 DEF Best

(* ChainWins: when everybody's view is part of everybody else's or the     *)
(* other way round, the best candidate may win.                            *)
LEMMA ChainWins ==
  ASSUME NEW vs \in [Node -> NodeView(Txn)], NEW cands \in SUBSET Node,
         cands # {},
         \A c, d \in cands : \/ Have(vs[c]) \subseteq Have(vs[d])
                             \/ Have(vs[d]) \subseteq Have(vs[c])
  PROVE  Winners(vs, cands) # {}
<1>1. PICK w \in Best(vs, cands) : TRUE
  BY BestExists
<1>2. \A c \in cands : Have(vs[c]) \in SUBSET Txn
  BY DEF Have, NodeView
<1>3. ASSUME NEW c \in cands PROVE Have(vs[c]) \subseteq Have(vs[w])
  <2>1. w \in cands
    BY DEF Best
  <2>2. /\ Cardinality(Have(vs[w])) \in Nat /\ Cardinality(Have(vs[c])) \in Nat
        /\ Have(vs[w]) \subseteq Have(vs[c])
           /\ Cardinality(Have(vs[w])) >= Cardinality(Have(vs[c]))
             => Have(vs[w]) = Have(vs[c])
    BY <1>2, <2>1, CountFacts
  <2>3. Cardinality(Have(vs[w])) >= Cardinality(Have(vs[c]))
    BY <2>2 DEF Best
  <2> QED BY <2>1, <2>2, <2>3
<1> QED BY <1>1, <1>3 DEF Winners, Diverged
=============================================================================
