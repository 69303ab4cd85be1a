-------------------------- MODULE SwitchoverProofs --------------------------
(***************************************************************************)
(* Proofs about Switchover for any number of writes, switchovers, crashes  *)
(* of the manager and restarts of servers.                                 *)
(*                                                                         *)
(* The sets are those the deployment runs: one primary and at most two     *)
(* replicas (SmallSet).  In a set of four, two replicas moved under a      *)
(* candidate are a majority, and a manager that starts then believes them  *)
(* although the old primary, which it does not reach, is writable: TLC     *)
(* breaks SingleWriter with four nodes.                                    *)
(***************************************************************************)
EXTENDS Switchover, FleetProofs

USE FleetAssumption, SwitchoverAssumption

(* SmallSet: a primary and at most two replicas (deploy/fleet.yaml). *)
SmallSet == IsFiniteSet(Node) /\ Cardinality(Node) <= 3

-----------------------------------------------------------------------------
(* What the calls and the environment make of the nodes.                   *)

(* What holds of each node by itself: a writable node follows nobody and   *)
(* is not fenced, only a writable one has a write waiting for its ack,     *)
(* and one without a source has no relay log.                              *)
Tidy(n) ==
    /\ Writable(n) => node[n].source = NoNode /\ ~node[n].fenced
    /\ ~Writable(n) => node[n].pending = {}
    /\ node[n].source = NoNode => node[n].retrieved = {}

(* Whatever a server has of the log, its relay log included. *)
Whole(n) == Binlog(n) \cup node[n].retrieved

(* What a node may hold after a step: what it held, what its source has,   *)
(* and what a client wrote on it.                                          *)
Known(m, t) ==
    \/ t \in Whole(m)
    \/ node[m].source \in Node /\ t \in Binlog(node[m].source)

Grows == \A m \in Node :
    /\ Binlog(m) \subseteq Binlog(m)'
    /\ \A t \in Whole(m)' : Known(m, t) \/ (Writable(m) /\ t \in Binlog(m)')

(* A step that brings nothing new to any node. *)
Shrinks == \A m \in Node :
    /\ Binlog(m) \subseteq Binlog(m)'
    /\ Whole(m)' \subseteq Whole(m)

(* An update of s that adds nothing to it but "new". *)
Plain(s, x, new) ==
    /\ x \in NodeState
    /\ x.source = s.source
    /\ ~x.superReadOnly => ~s.superReadOnly /\ x.fenced = s.fenced
    /\ x.superReadOnly /\ x.pending # {} => s.superReadOnly /\ s.pending # {}
    /\ x.retrieved \subseteq s.retrieved \cup new
    /\ s.executed \cup s.pending \subseteq x.executed \cup x.pending
    /\ x.executed \cup x.pending \cup x.retrieved
         \subseteq s.executed \cup s.pending \cup s.retrieved \cup new

(* PlainUpdates: such are the updates of clients and replication. *)
LEMMA PlainUpdates ==
  ASSUME NEW s \in NodeState, NEW t \in Txn
  PROVE  /\ ~s.superReadOnly => Plain(s, Binlogged(s, t), {t})
         /\ ~s.superReadOnly => Plain(s, Applied(s, t), {t})
         /\ t \in s.retrieved => Plain(s, Applied(s, t), {})
         /\ t \in s.pending => Plain(s, Committed(s, t), {})
         /\ Plain(s, Relayed(s, t), {t})
<1>1. ~s.superReadOnly => Plain(s, Binlogged(s, t), {t})
  BY ReplicationTypes DEF Plain, NodeState, Binlogged
<1>2. /\ ~s.superReadOnly => Plain(s, Applied(s, t), {t})
      /\ t \in s.retrieved => Plain(s, Applied(s, t), {})
  BY ReplicationTypes DEF Plain, NodeState, Applied
<1>3. t \in s.pending => Plain(s, Committed(s, t), {})
  BY ReplicationTypes DEF Plain, NodeState, Committed
<1>4. Plain(s, Relayed(s, t), {t})
  BY ReplicationTypes DEF Plain, NodeState, Relayed
<1> QED BY <1>1, <1>2, <1>3, <1>4

(* HandlerPlain: so are restarts and the agent's own handlers. *)
LEMMA HandlerPlain ==
  ASSUME NEW s \in NodeState
  PROVE  /\ Plain(s, ReplicaOn(s), {})
         /\ Plain(s, Restarted(s), {})
         /\ s.pending = {} => Plain(s, FencedBySql(s), {})
         /\ Plain(s, FencedByKill(s), {})
<1>0. InitPrimary \in Node
  OBVIOUS
<1>1. Plain(s, ReplicaOn(s), {})
  <2>1. ReplicaOn(s) \in NodeState
    BY <1>0, HandlerTypes
  <2>2. /\ ReplicaOn(s).source = s.source
        /\ ReplicaOn(s).superReadOnly = s.superReadOnly
        /\ ReplicaOn(s).fenced = s.fenced
        /\ ReplicaOn(s).executed = s.executed
        /\ ReplicaOn(s).pending = s.pending
        /\ ReplicaOn(s).retrieved = s.retrieved
    BY DEF NodeState, ReplicaOn
  <2> QED BY <2>1, <2>2 DEF Plain
<1>2. Plain(s, Restarted(s), {})
  <2>1. Restarted(s) \in NodeState
    BY <1>0, HandlerTypes
  <2>2. /\ Restarted(s).source = s.source
        /\ Restarted(s).superReadOnly
        /\ Restarted(s).executed = s.executed \cup s.pending
        /\ Restarted(s).pending = {}
        /\ Restarted(s).retrieved = {}
    BY DEF NodeState, Restarted
  <2> QED BY <2>1, <2>2 DEF Plain
<1>3. s.pending = {} => Plain(s, FencedBySql(s), {})
  <2>1. FencedBySql(s) \in NodeState
    BY <1>0, HandlerTypes
  <2>2. /\ FencedBySql(s).source = s.source
        /\ FencedBySql(s).superReadOnly
        /\ FencedBySql(s).executed = s.executed
        /\ FencedBySql(s).pending = s.pending
        /\ FencedBySql(s).retrieved = s.retrieved
    BY DEF NodeState, FencedBySql
  <2> QED BY <2>1, <2>2 DEF Plain
<1>4. Plain(s, FencedByKill(s), {})
  <2>1. FencedByKill(s) \in NodeState
    BY <1>0, HandlerTypes
  <2>2. /\ FencedByKill(s).source = s.source
        /\ FencedByKill(s).superReadOnly
        /\ FencedByKill(s).executed = s.executed \cup s.pending
        /\ FencedByKill(s).pending = {}
        /\ FencedByKill(s).retrieved = {}
    BY DEF NodeState, FencedByKill, Restarted
  <2> QED BY <2>1, <2>2 DEF Plain
<1> QED BY <1>1, <1>2, <1>3, <1>4

(* PlainStep: what such an update of one node means for all of them. *)
LEMMA PlainStep ==
  ASSUME node \in [Node -> NodeState], NEW n \in Node, Tidy(n),
         NEW x, NEW new, Plain(node[n], x, new), Becomes(n, x),
         node[n].source = NoNode
           => new = {} \/ x.retrieved = node[n].retrieved,
         \A t \in new :
           Known(n, t) \/ (Writable(n) /\ t \in x.executed \cup x.pending)
  PROVE  /\ \A m \in Node : node'[m].source = node[m].source
         /\ \A m \in Node : Writable(m)' => Writable(m)
         /\ \A m \in Node : Tidy(m) => Tidy(m)'
         /\ Grows
<1>1. /\ node'[n] = x /\ x \in NodeState
      /\ \A m \in Node \ {n} : node'[m] = node[m]
  BY BecomesType DEF Plain
<1>2. \A m \in Node : node'[m].source = node[m].source
  BY <1>1 DEF Plain
<1>3. \A m \in Node : Writable(m)' => Writable(m)
  BY <1>1 DEF Plain, Writable
<1>4. \A m \in Node \ {n} : /\ Tidy(m)' <=> Tidy(m)
                            /\ Whole(m)' = Whole(m) /\ Binlog(m)' = Binlog(m)
  BY <1>1 DEF Tidy, Writable, Whole, Binlog
<1>5. Tidy(n)'
  <2>1. Writable(n)' => node'[n].source = NoNode /\ ~node'[n].fenced
    BY <1>1 DEF Plain, Tidy, Writable
  <2>2. ~Writable(n)' => node'[n].pending = {}
    BY <1>1 DEF Plain, Tidy, Writable
  <2>3. node'[n].source = NoNode => node'[n].retrieved = {}
    BY <1>1 DEF Plain, Tidy
  <2> QED BY <2>1, <2>2, <2>3 DEF Tidy
<1>6. Binlog(n) \subseteq Binlog(n)'
  BY <1>1 DEF Plain, Binlog
<1>7. \A t \in Whole(n)' : Known(n, t) \/ (Writable(n) /\ t \in Binlog(n)')
  <2>1. Binlog(n)' = x.executed \cup x.pending
        /\ Whole(n)' = x.executed \cup x.pending \cup x.retrieved
    BY <1>1 DEF Binlog, Whole
  <2>2. \A t \in Whole(n)' : t \in Whole(n) \/ t \in new
    BY <2>1 DEF Plain, Whole, Binlog
  <2>3. \A t \in Whole(n) : Known(n, t)
    BY DEF Known
  <2> QED BY <2>1, <2>2, <2>3
<1>8. \A m \in Node \ {n} : \A t \in Whole(m)' : Known(m, t)
  BY <1>4 DEF Known
<1> QED BY <1>2, <1>3, <1>4, <1>5, <1>6, <1>7, <1>8 DEF Grows

(* EnvironmentKeeps: so nothing that happens without the manager makes a   *)
(* node writable, moves it to another source or adds to the log but by a   *)
(* write of a writable node.                                               *)
LEMMA EnvironmentKeeps ==
  ASSUME FleetTypeOK, NEW n \in Node, Tidy(n),
         FleetStep(n) \/ \E t \in Txn : Receive(n, t)
  PROVE  /\ \A m \in Node : node'[m].source = node[m].source
         /\ \A m \in Node : Writable(m)' => Writable(m)
         /\ \A m \in Node : Tidy(m) => Tidy(m)'
         /\ Grows
         /\ \A t \in acked' : t \in acked \/ \E m \in Node : t \in Binlog(m)'
<1> DEFINE s == node[n]
           Same == /\ \A m \in Node : node'[m].source = node[m].source
                   /\ \A m \in Node : Writable(m)' => Writable(m)
                   /\ \A m \in Node : Tidy(m) => Tidy(m)'
                   /\ Grows
<1>0. node \in [Node -> NodeState] /\ s \in NodeState
  BY DEF FleetTypeOK
<1>a. ASSUME NEW x, NEW new, Plain(s, x, new), Becomes(n, x),
             s.source = NoNode => new = {} \/ x.retrieved = s.retrieved,
             \A t \in new :
               Known(n, t) \/ (Writable(n) /\ t \in x.executed \cup x.pending)
      PROVE  Same
  BY <1>0, <1>a, PlainStep
<1>b. ASSUME NEW x, Plain(s, x, {}), Becomes(n, x)
      PROVE  Same
  BY <1>a, <1>b
<1> SUFFICES Same
             /\ \A t \in acked' :
                  t \in acked \/ \E m \in Node : t \in Binlog(m)'
  OBVIOUS
<1> HIDE DEF Same
<1>1. CASE Commit(n)
  <2>1. nextTxn \in Txn /\ ~s.superReadOnly /\ Writable(n)
    BY <1>1 DEF Commit, Writable
  <2>2. CASE s.ssSource
    <3>1. Becomes(n, Binlogged(s, nextTxn)) /\ acked' = acked
      BY <1>1, <2>2 DEF Commit
    <3>2. /\ Plain(s, Binlogged(s, nextTxn), {nextTxn})
          /\ nextTxn \in Binlogged(s, nextTxn).pending
          /\ Binlogged(s, nextTxn).retrieved = s.retrieved
      BY <1>0, <2>1, PlainUpdates DEF Binlogged, NodeState
    <3> QED BY <1>a, <2>1, <3>1, <3>2
  <2>3. CASE ~s.ssSource
    <3>1. Becomes(n, Applied(s, nextTxn)) /\ acked' = acked \cup {nextTxn}
      BY <1>1, <2>3 DEF Commit
    <3>2. /\ Plain(s, Applied(s, nextTxn), {nextTxn})
          /\ nextTxn \in Applied(s, nextTxn).executed
          /\ Applied(s, nextTxn).retrieved = s.retrieved
      BY <1>0, <2>1, PlainUpdates DEF Applied, NodeState
    <3>3. node'[n] = Applied(s, nextTxn)
      BY <1>0, <3>1 DEF Becomes
    <3> QED BY <1>a, <2>1, <3>1, <3>2, <3>3 DEF Binlog
  <2> QED BY <2>2, <2>3
<1>2. CASE Apply(n)
  <2>1. PICK t \in First(Appliable(n)) : Becomes(n, Applied(s, t))
    BY <1>2 DEF Apply
  <2>2. t \in Txn /\ t \in s.retrieved
    BY <1>0, <2>1 DEF First, Appliable, NodeState
  <2>3. Plain(s, Applied(s, t), {})
    BY <1>0, <2>2, PlainUpdates
  <2> QED BY <1>2, <1>b, <2>1, <2>3 DEF Apply
<1>3. CASE \E t \in Txn : Ack(n, t)
  <2>1. PICK t \in Txn : Ack(n, t)
    BY <1>3
  <2>2. /\ t \in s.pending /\ Becomes(n, Committed(s, t))
        /\ acked' = acked \cup {t}
    BY <2>1 DEF Ack
  <2>3. Plain(s, Committed(s, t), {}) /\ t \in Committed(s, t).executed
    BY <1>0, <2>2, PlainUpdates DEF Committed, NodeState
  <2>4. node'[n] = Committed(s, t)
    BY <1>0, <2>2 DEF Becomes
  <2> QED BY <1>b, <2>2, <2>3, <2>4 DEF Binlog
<1>4. CASE Reassert(n) \/ FenceBySql(n) \/ FenceByKill(n)
  <2>0. /\ Plain(s, ReplicaOn(s), {})
        /\ s.pending = {} => Plain(s, FencedBySql(s), {})
        /\ Plain(s, FencedByKill(s), {})
    BY <1>0, HandlerPlain
  <2>1. CASE Reassert(n)
    BY <1>b, <2>0, <2>1 DEF Reassert
  <2>2. CASE FenceBySql(n)
    BY <1>b, <2>0, <2>2 DEF FenceBySql
  <2>3. CASE FenceByKill(n)
    BY <1>b, <2>0, <2>3 DEF FenceByKill
  <2> QED BY <1>4, <2>1, <2>2, <2>3
<1>5. CASE \E t \in Txn : Receive(n, t)
  <2>1. PICK t \in Txn, k \in Node :
          /\ Streaming(n, k) /\ t \in First(Missing(n, k))
          /\ Becomes(n, Relayed(s, t)) /\ acked' = acked
    BY <1>5 DEF Receive
  <2>2. s.source = k /\ k # NoNode /\ Known(n, t)
    BY <2>1 DEF Streaming, First, Missing, Known
  <2>3. Plain(s, Relayed(s, t), {t})
    BY <1>0, PlainUpdates
  <2>4. \A u \in {t} : Known(n, u)
    BY <2>2
  <2> QED BY <1>a, <2>1, <2>2, <2>3, <2>4
<1> QED BY <1>1, <1>2, <1>3, <1>4, <1>5 DEF FleetStep

(* PromoteKeeps: a /promote, whole, cut short or not answered, touches one *)
(* node, which follows nobody if anything was done.                        *)
LEMMA PromoteKeeps ==
  ASSUME FleetTypeOK, NEW n \in Node, NEW ok, PromoteCall(n, ok)
  PROVE  /\ FleetTypeOK'
         /\ \A m \in Node \ {n} : node'[m] = node[m]
         /\ node'[n].source \in {node[n].source, NoNode}
         /\ ok => node'[n].source = NoNode
         /\ \A m \in Node : Tidy(m) => Tidy(m)'
         /\ Shrinks
<1> DEFINE s == node[n]
<1>0. node \in [Node -> NodeState] /\ s \in NodeState
  BY DEF FleetTypeOK
<1>1. PICK x \in {s, PromotedReadOnly(s), Promoted(s)} :
        Becomes(n, x) /\ (ok => x = Promoted(s))
  BY <1>0 DEF PromoteCall, Becomes
<1>2. PromotedReadOnly(s) \in NodeState /\ Promoted(s) \in NodeState
  BY <1>0, HandlerTypes
<1>3. /\ node' \in [Node -> NodeState]
      /\ node'[n] = x
      /\ \A m \in Node \ {n} : node'[m] = node[m]
  BY <1>0, <1>1, <1>2, BecomesType
<1>4. FleetTypeOK'
  BY <1>3 DEF PromoteCall, FleetTypeOK
<1>5. /\ PromotedReadOnly(s).source = NoNode
      /\ PromotedReadOnly(s).superReadOnly = s.superReadOnly
      /\ PromotedReadOnly(s).fenced = s.fenced
      /\ PromotedReadOnly(s).executed = s.executed
      /\ PromotedReadOnly(s).pending = s.pending
      /\ PromotedReadOnly(s).retrieved = {}
  BY <1>0 DEF PromotedReadOnly, NodeState
<1>6. /\ Promoted(s).source = NoNode
      /\ ~Promoted(s).superReadOnly
      /\ ~Promoted(s).fenced
      /\ Promoted(s).executed = s.executed
      /\ Promoted(s).pending = s.pending
      /\ Promoted(s).retrieved = {}
  BY <1>0 DEF Promoted, PromotedReadOnly, NodeState
<1>7. /\ x.source \in {s.source, NoNode} /\ (ok => x.source = NoNode)
      /\ x.executed = s.executed /\ x.pending = s.pending
      /\ x.retrieved \subseteq s.retrieved
  BY <1>1, <1>5, <1>6
<1>8. Tidy(n) => Tidy(n)'
  <2>1. CASE x = s
    BY <1>3, <2>1 DEF Tidy, Writable
  <2>2. CASE x = PromotedReadOnly(s)
    BY <1>3, <1>5, <2>2 DEF Tidy, Writable
  <2>3. CASE x = Promoted(s)
    BY <1>3, <1>6, <2>3 DEF Tidy, Writable
  <2> QED BY <1>1, <2>1, <2>2, <2>3
<1>9. \A m \in Node \ {n} : /\ Tidy(m)' <=> Tidy(m)
                            /\ Whole(m)' = Whole(m) /\ Binlog(m)' = Binlog(m)
  BY <1>3 DEF Tidy, Writable, Whole, Binlog
<1>10. Binlog(n)' = Binlog(n) /\ Whole(n)' \subseteq Whole(n)
  BY <1>3, <1>7 DEF Whole, Binlog
<1>11. Shrinks
  BY <1>9, <1>10 DEF Shrinks
<1> QED BY <1>3, <1>4, <1>7, <1>8, <1>9, <1>11

(* RepointKeeps: a /repoint touches one node, which stays where it was or  *)
(* follows the new source, and makes nobody writable.                      *)
LEMMA RepointKeeps ==
  ASSUME FleetTypeOK, NEW n \in Node, NEW src \in Node, NEW ok,
         RepointCall(n, src, ok)
  PROVE  /\ FleetTypeOK'
         /\ \A m \in Node \ {n} : node'[m] = node[m]
         /\ node'[n].source \in {node[n].source, src}
         /\ \A m \in Node : Writable(m)' => Writable(m)
         /\ \A m \in Node : Tidy(m) => Tidy(m)'
         /\ Shrinks
<1> DEFINE s == node[n]
<1>0. node \in [Node -> NodeState] /\ s \in NodeState /\ s.pending = {}
  BY DEF FleetTypeOK, RepointCall, CanRepoint
<1>1. PICK x \in {s, RepointCut(s), Repointed(s, src)} : Becomes(n, x)
  BY <1>0 DEF RepointCall, Becomes
<1>2. RepointCut(s) \in NodeState /\ Repointed(s, src) \in NodeState
  BY <1>0, HandlerTypes
<1>3. /\ node' \in [Node -> NodeState]
      /\ node'[n] = x
      /\ \A m \in Node \ {n} : node'[m] = node[m]
  BY <1>0, <1>1, <1>2, BecomesType
<1>4. FleetTypeOK'
  BY <1>3 DEF RepointCall, FleetTypeOK
<1>5. /\ RepointCut(s).source = s.source
      /\ RepointCut(s).superReadOnly
      /\ RepointCut(s).executed = s.executed
      /\ RepointCut(s).pending = s.pending
      /\ RepointCut(s).retrieved = s.retrieved
  BY <1>0 DEF RepointCut, NodeState
<1>6. /\ Repointed(s, src).source = src
      /\ Repointed(s, src).superReadOnly
      /\ Repointed(s, src).executed = s.executed
      /\ Repointed(s, src).pending = s.pending
      /\ Repointed(s, src).retrieved = {}
  BY <1>0 DEF Repointed, NodeState
<1>7. /\ x.source \in {s.source, src}
      /\ x.superReadOnly \/ x = s
      /\ x.executed = s.executed /\ x.pending = s.pending
      /\ x.retrieved \subseteq s.retrieved
  BY <1>1, <1>5, <1>6
<1>8. Tidy(n) => Tidy(n)'
  <2>1. CASE x = s
    BY <1>3, <2>1 DEF Tidy, Writable
  <2>2. CASE x = RepointCut(s)
    BY <1>0, <1>3, <1>5, <2>2 DEF Tidy, Writable
  <2>3. CASE x = Repointed(s, src)
    BY <1>0, <1>3, <1>6, <2>3 DEF Tidy, Writable
  <2> QED BY <1>1, <2>1, <2>2, <2>3
<1>9. \A m \in Node \ {n} : /\ Tidy(m)' <=> Tidy(m)
                            /\ Writable(m)' <=> Writable(m)
                            /\ Whole(m)' = Whole(m) /\ Binlog(m)' = Binlog(m)
  BY <1>3 DEF Tidy, Writable, Whole, Binlog
<1>10. Binlog(n)' = Binlog(n) /\ Whole(n)' \subseteq Whole(n)
  BY <1>3, <1>7 DEF Whole, Binlog
<1>11. Shrinks
  BY <1>9, <1>10 DEF Shrinks
<1>12. Writable(n)' => Writable(n)
  BY <1>3, <1>7 DEF Writable
<1> QED BY <1>3, <1>4, <1>7, <1>8, <1>9, <1>11, <1>12

(* RestartKeeps: nor does a restart of any of the servers. *)
LEMMA RestartKeeps ==
  ASSUME FleetTypeOK, RestartSome
  PROVE  /\ FleetTypeOK'
         /\ \A m \in Node : node'[m].source = node[m].source
         /\ \A m \in Node : Writable(m)' => Writable(m)
         /\ \A m \in Node : Tidy(m) => Tidy(m)'
         /\ Shrinks
<1>0. node \in [Node -> NodeState]
  BY DEF FleetTypeOK
<1>1. PICK S \in SUBSET Node :
        node' = [m \in Node |->
                   IF m \in S THEN Restarted(node[m]) ELSE node[m]]
  BY DEF RestartSome
<1>2. \A m \in Node : /\ Restarted(node[m]) \in NodeState
                      /\ Plain(node[m], Restarted(node[m]), {})
                      /\ Restarted(node[m]).pending = {}
                      /\ Restarted(node[m]).superReadOnly
  <2> TAKE m \in Node
  <2>1. node[m] \in NodeState /\ InitPrimary \in Node
    BY <1>0
  <2>2. Restarted(node[m]).pending = {} /\ Restarted(node[m]).superReadOnly
    BY <2>1 DEF Restarted, NodeState
  <2> QED BY <2>1, <2>2, HandlerTypes, HandlerPlain
<1>3. node' \in [Node -> NodeState]
  BY <1>0, <1>1, <1>2
<1>4. FleetTypeOK'
  BY <1>3 DEF FleetTypeOK, RestartSome
<1>5. \A m \in Node : node'[m] = node[m] \/ node'[m] = Restarted(node[m])
  BY <1>1
<1>6. ASSUME NEW m \in Node
      PROVE  /\ node'[m].source = node[m].source
             /\ Writable(m)' => Writable(m)
             /\ Tidy(m) => Tidy(m)'
             /\ Binlog(m) \subseteq Binlog(m)'
             /\ Whole(m)' \subseteq Whole(m)
  <2>1. CASE node'[m] = node[m]
    BY <2>1 DEF Writable, Tidy, Binlog, Whole
  <2>2. CASE node'[m] = Restarted(node[m])
    <3>1. Plain(node[m], node'[m], {}) /\ node'[m].superReadOnly
          /\ node'[m].pending = {}
      BY <1>2, <2>2
    <3>2. node'[m].source = node[m].source /\ ~Writable(m)'
      BY <3>1 DEF Plain, Writable
    <3>3. Tidy(m) => Tidy(m)'
      BY <3>1, <3>2 DEF Plain, Tidy
    <3> QED BY <3>1, <3>2, <3>3 DEF Plain, Binlog, Whole
  <2> QED BY <1>5, <2>1, <2>2
<1> QED BY <1>4, <1>6 DEF Shrinks

-----------------------------------------------------------------------------
(* Type correctness.                                                       *)

(* A start uses none of a switchover's variables. *)
StartOK ==
    /\ pc \in Cold \cup Boot => moved = {} /\ ~attached /\ ~known
    /\ pc = "boot_promote" => todo = {}
    /\ pc = "boot_repoint" => primary = to

TypeInv == TypeOK /\ StartOK

(* TypeInit: both initial states are well typed. *)
LEMMA TypeInit == Init => TypeInv
<1> SUFFICES ASSUME Init PROVE TypeInv
  OBVIOUS
<1>1. FleetTypeOK
  <2>1. CASE FleetInit
    BY <2>1, FleetInitType
  <2>2. CASE ~FleetInit
    <3>1. /\ node = [n \in Node |-> NewNode]
          /\ fencing = [n \in Node |-> "idle"]
          /\ nextTxn = 1 /\ relayed = {} /\ acked = {}
      BY <2>2 DEF Init
    <3>2. NewNode \in NodeState
      BY DEF NewNode, NodeState
    <3> QED BY <3>1, <3>2 DEF FleetTypeOK, FenceStage
  <2> QED BY <2>1, <2>2
<1>2. /\ pc \in {"idle", "discover"}
      /\ primary \in Node \cup {NoNode}
      /\ primary = NoNode => pc = "discover"
      /\ to = NoNode /\ todo = {} /\ moved = {} /\ attached = FALSE
      /\ known = FALSE /\ final = {} /\ chores = {} /\ coldSeen = 0
      /\ switchovers = 0 /\ crashes = 0 /\ restarts = 0 /\ unchecked = FALSE
  BY DEF Init
<1>3. StartOK
  BY <1>2 DEF StartOK, Cold, Boot
<1>4. {attached, known, unchecked} \subseteq BOOLEAN
  BY <1>2
<1>5. /\ switchovers \in 0 .. MaxSwitchovers /\ crashes \in 0 .. MaxCrashes
      /\ restarts \in 0 .. MaxRestarts
  BY <1>2
<1> QED BY <1>1, <1>2, <1>3, <1>4, <1>5 DEF TypeInv, TypeOK, Steps, Cold, Boot

(* CallTypes: the manager's calls keep the types of the nodes. *)
LEMMA CallTypes ==
  ASSUME FleetTypeOK, NEW n \in Node, NEW src \in Node, NEW ok
  PROVE  /\ PromoteCall(n, ok) => FleetTypeOK'
         /\ RepointCall(n, src, ok) => FleetTypeOK'
  BY PromoteKeeps, RepointKeeps

(* TypeSwitchover: the steps of a switchover keep them all. *)
LEMMA TypeSwitchover == TypeInv /\ SwitchoverStep => TypeInv'
<1> SUFFICES ASSUME TypeInv, SwitchoverStep PROVE TypeInv'
  OBVIOUS
<1> USE DEF TypeInv, TypeOK, StartOK, Steps, Stall, Cold, Boot
<1>1. ASSUME NEW n \in Node, Switchover(n) PROVE TypeInv'
  BY <1>1 DEF Switchover, fleetVars, FleetTypeOK
<1>2. ASSUME NEW n \in Node, Prepare(n) PROVE TypeInv'
  <2>1. FleetTypeOK' /\ to \in Node
    BY <1>2, CallTypes DEF Prepare
  <2> QED BY <1>2, <2>1 DEF Prepare
<1>3. CASE Quiesce
  <2>1. FleetTypeOK'
    BY <1>3 DEF Quiesce, FleetTypeOK, FenceStage
  <2> QED BY <1>3, <2>1 DEF Quiesce
<1>4. CASE Quiesced
  <2>1. FleetTypeOK' /\ final' \subseteq Txn
    BY <1>4 DEF Quiesced, fleetVars, FleetTypeOK, NodeState
  <2> QED BY <1>4, <2>1 DEF Quiesced
<1>5. CASE QuiesceUnreachable
  BY <1>5 DEF QuiesceUnreachable, Over, fleetVars, FleetTypeOK
<1>6. CASE CatchUp \/ CatchUpFails
  BY <1>6 DEF CatchUp, CatchUpFails, fleetVars, FleetTypeOK
<1>7. CASE PromoteBack
  <2>1. FleetTypeOK' /\ pc = "back"
    BY <1>7, CallTypes DEF PromoteBack
  <2> QED BY <1>7, <2>1 DEF PromoteBack, Over
<1>8. CASE RepointOld
  <2>1. FleetTypeOK' /\ pc = "repoint_old" /\ primary \in Node /\ to \in Node
    BY <1>8, CallTypes DEF RepointOld
  <2> QED BY <1>8, <2>1 DEF RepointOld
<1>9. CASE Promote
  <2>1. FleetTypeOK' /\ pc = "promote" /\ primary \in Node /\ to \in Node
    BY <1>9, CallTypes DEF Promote
  <2>2. chores' \subseteq Node \X Node /\ primary' \in Node
        /\ pc' \in {"idle", "halted"}
    BY <1>9, <2>1 DEF Promote
  <2> QED BY <1>9, <2>1, <2>2 DEF Promote, Over
<1>10. CASE RepointAfter
  <2>1. PICK c \in chores : /\ \E ok \in BOOLEAN : RepointCall(c[1], c[2], ok)
                            /\ chores' = chores \ {c}
    BY <1>10 DEF RepointAfter
  <2>2. FleetTypeOK'
    BY <2>1, CallTypes
  <2> QED BY <1>10, <2>1, <2>2 DEF RepointAfter
<1> QED
  BY <1>1, <1>2, <1>3, <1>4, <1>5, <1>6, <1>7, <1>8, <1>9, <1>10
  DEF SwitchoverStep

(* TypeStartup: so do discovery, cold start, bootstrap and a crash. *)
LEMMA TypeStartup == TypeInv /\ (StartupStep \/ Crash) => TypeInv'
<1> SUFFICES ASSUME TypeInv, StartupStep \/ Crash PROVE TypeInv'
  OBVIOUS
<1> USE DEF TypeInv, TypeOK, StartOK, Steps, Stall, Cold, Boot
<1>0. UNCHANGED fleetVars => FleetTypeOK'
  BY DEF fleetVars, FleetTypeOK
<1>1. CASE Discover
  <2>1. /\ pc = "discover" /\ UNCHANGED fleetVars
        /\ UNCHANGED <<moved, attached, known, final, chores, coldSeen,
                       switchovers, crashes, unchecked, restarts>>
    BY <1>1 DEF Discover
  <2>2. /\ primary' \in Node \cup {NoNode} /\ to' \in Node \cup {NoNode}
        /\ todo' \subseteq Node
        /\ \/ pc' = "idle" /\ primary' \in Node /\ to' = to /\ todo' = todo
           \/ pc' = "halted" /\ to' = to /\ todo' = todo
           \/ pc' = "boot_promote" /\ to' \in Node /\ todo' = todo
           \/ pc' = "cold_repoint" /\ to' \in Node
    <3>1. PICK A \in SUBSET Node :
            LET writable == {n \in A : AcceptsWrites(n)}
            IN  \/ /\ primary' \in writable
                   /\ pc' = "idle"
                   /\ UNCHANGED <<to, todo>>
                \/ /\ pc' = "halted"
                   /\ UNCHANGED <<primary, to, todo>>
                \/ /\ pc' = "boot_promote"
                   /\ to' = InitPrimary
                   /\ UNCHANGED <<primary, todo>>
                \/ DiscoverAmong(A)
      BY <1>1 DEF Discover
    <3>2. CASE DiscoverAmong(A)
      <4>1. Agreed(A) \subseteq Node /\ \A b : ColdChoice(A, b) \subseteq Node
        BY DEF Agreed, ColdChoice
      <4> QED BY <3>2, <4>1 DEF DiscoverAmong, ColdStart
    <3> QED BY <3>1, <3>2
  <2>3. /\ to = NoNode /\ todo = {} /\ moved = {} /\ ~attached /\ ~known
    BY <2>1
  <2>4. {attached, known, unchecked}' \subseteq BOOLEAN
    BY <2>1
  <2> QED BY <1>0, <2>1, <2>2, <2>3, <2>4
<1>2. CASE ColdCheck
  <2>1. PICK A \in SUBSET Node :
          /\ pc = "idle" /\ primary # NoNode /\ coldSeen' \in {0, 1}
          /\ \/ UNCHANGED <<pc, to, todo>>
             \/ pc' = "halted" /\ UNCHANGED <<to, todo>>
             \/ \E n \in ColdChoice(A, primary) : ColdStart(A, n)
    BY <1>2 DEF ColdCheck
  <2>2. /\ todo' \subseteq Node /\ to' \in Node \cup {NoNode}
        /\ \/ UNCHANGED <<pc, to, todo>>
           \/ pc' = "halted" /\ UNCHANGED <<to, todo>>
           \/ pc' = "cold_repoint" /\ to' \in Node
    <3>1. ColdChoice(A, primary) \subseteq Node
      BY DEF ColdChoice
    <3> QED BY <2>1, <3>1 DEF ColdStart
  <2> QED BY <1>0, <1>2, <2>1, <2>2 DEF ColdCheck
<1>3. CASE ColdRepointsEnd
  BY <1>0, <1>3 DEF ColdRepointsEnd
<1>4. CASE ColdPromote
  <2>1. FleetTypeOK' /\ pc = "cold_promote" /\ to \in Node
    BY <1>4, CallTypes DEF ColdPromote
  <2> QED BY <1>4, <2>1 DEF ColdPromote, Over
<1>5. ASSUME NEW n \in Node, ColdRepoint(n) \/ BootRepoint(n) PROVE TypeInv'
  <2>1. FleetTypeOK' /\ to \in Node
    BY <1>5, CallTypes DEF ColdRepoint, BootRepoint
  <2> QED BY <1>5, <2>1 DEF ColdRepoint, BootRepoint
<1>6. CASE BootPromote
  <2>1. FleetTypeOK' /\ pc = "boot_promote" /\ to \in Node
    BY <1>6, CallTypes DEF BootPromote
  <2> QED BY <1>6, <2>1 DEF BootPromote
<1>7. CASE BootEnds
  BY <1>0, <1>7 DEF BootEnds, Over
<1>8. CASE Crash
  <2>1. /\ pc' = "discover" /\ primary' = NoNode /\ to' = NoNode
        /\ todo' = {} /\ moved' = {} /\ attached' = FALSE /\ known' = FALSE
        /\ final' = {} /\ chores' = {} /\ coldSeen' = 0
        /\ UNCHANGED <<fleetVars, switchovers, unchecked, restarts>>
        /\ crashes' \in 0 .. MaxCrashes
    BY <1>8 DEF Crash, Over
  <2>2. {attached, known, unchecked}' \subseteq BOOLEAN
    BY <2>1
  <2> QED BY <1>0, <2>1, <2>2
<1> QED
  BY <1>1, <1>2, <1>3, <1>4, <1>5, <1>6, <1>7, <1>8 DEF StartupStep

(* TypeNext: every step keeps them. *)
LEMMA TypeNext == TypeInv /\ [Next]_vars => TypeInv'
<1>1. ASSUME TypeInv, NEW n \in Node, Environment(n) PROVE TypeInv'
  <2>1. FleetTypeOK'
    BY <1>1, FleetStepType, ReceiveType DEF TypeInv, TypeOK, Environment
  <2> QED BY <1>1, <2>1 DEF TypeInv, TypeOK, StartOK, Environment, mgrVars
<1>2. ASSUME TypeInv, RestartSome PROVE TypeInv'
  <2>1. FleetTypeOK'
    BY <1>2, RestartKeeps DEF TypeInv, TypeOK
  <2> QED BY <1>2, <2>1 DEF TypeInv, TypeOK, StartOK, RestartSome, mgrVars
<1>3. TypeInv /\ UNCHANGED vars => TypeInv'
  BY DEF TypeInv, TypeOK, StartOK, FleetTypeOK, vars, fleetVars, mgrVars
<1> SUFFICES ASSUME TypeInv, [Next]_vars PROVE TypeInv'
  OBVIOUS
<1> QED BY <1>1, <1>2, <1>3, TypeSwitchover, TypeStartup DEF Next

(* TypeCorrect: every variable keeps its type, for any number of nodes,    *)
(* writes, switchovers, crashes and restarts.                              *)
THEOREM TypeCorrect == Spec => []TypeOK
<1>1. Spec => []TypeInv
  BY TypeInit, TypeNext, PTL DEF Spec
<1>2. TypeInv => TypeOK
  BY DEF TypeInv
<1> QED BY <1>1, <1>2, PTL

-----------------------------------------------------------------------------
(* SingleWriter.                                                           *)

Only(p) == \A n \in Node : Writable(n) => n = p
NoWriter == \A n \in Node : ~Writable(n)

(* Everybody else replicates from s. *)
Named(s) == \A n \in Node \ {s} : node[n].source = s

Preparing == {"prepare", "quiesce", "catch_up", "back", "repoint_old"}

(* Who is promoted, who is moved and who is primary are different nodes,   *)
(* and the old primary follows nobody before it is repointed.              *)
OrderInv ==
    /\ pc \in {"cold_repoint", "boot_repoint"} => to \notin todo
    /\ pc = "prepare" => primary \notin todo /\ to \notin todo
    /\ pc \in Stall \cup {"prepare"} => to # primary
    /\ pc \in {"discover", "boot_promote"} => primary = NoNode
    /\ \A c \in chores : c[1] # c[2] /\ c[1] # primary
    /\ chores # {} => primary # NoNode
    /\ pc \in Preparing => node[primary].source = NoNode

(* WriterInv, the inductive invariant: only the primary may be writable    *)
(* until its fence has ended, and nobody is while another is promoted.     *)
WriterInv ==
    /\ \A n \in Node : Tidy(n) /\ node[n].source # n
    /\ OrderInv
    /\ SingleWriter
    /\ pc \in {"idle", "prepare", "quiesce", "boot_repoint"} => Only(primary)
    /\ pc = "quiesce" /\ fencing[primary] \in {"sql", "kill"}
         => ~Writable(primary)
    /\ pc \in (Stall \ {"quiesce"}) \cup Cold \cup {"boot_promote"}
         => NoWriter

(* AgreedNamed: in a small set, replicas that agree on a source are all    *)
(* the other nodes, and all of them answered.                              *)
LEMMA AgreedNamed ==
  ASSUME SmallSet, \A n \in Node : node[n].source # n,
         NEW A \in SUBSET Node, NEW s \in Agreed(A)
  PROVE  s \in Node /\ Named(s) /\ Node \ {s} \subseteq A
<1> DEFINE T == {n \in A : node[n].source = s}
<1>1. s \in Node /\ 2 * Cardinality(T) > Cardinality(Node) - 1
  BY DEF Agreed
<1>2. T \subseteq Node \ {s}
  BY <1>1
<1>3. IsFiniteSet(Node) /\ Cardinality(Node) \in Nat /\ Cardinality(Node) <= 3
  BY FS_CardinalityType DEF SmallSet
<1>4. IsFiniteSet(Node \ {s})
      /\ Cardinality(Node \ {s}) = Cardinality(Node) - 1
  BY <1>1, <1>3, FS_RemoveElement
<1>5. /\ IsFiniteSet(T) /\ Cardinality(T) <= Cardinality(Node \ {s})
      /\ Cardinality(T) = Cardinality(Node \ {s}) => T = Node \ {s}
  <2> HIDE DEF T
  <2> QED BY <1>2, <1>4, FS_Subset
<1>6. Cardinality(T) \in Nat
  BY <1>5, FS_CardinalityType
<1>7. Cardinality(T) = Cardinality(Node \ {s})
  BY <1>1, <1>3, <1>4, <1>5, <1>6
<1> QED BY <1>1, <1>5, <1>7 DEF Named

(* WriterInit: it holds in both initial states. *)
LEMMA WriterInit == Init => WriterInv
<1> SUFFICES ASSUME Init PROVE WriterInv
  OBVIOUS
<1>1. \A n \in Node :
        /\ node[n].executed = {} /\ node[n].pending = {}
        /\ node[n].retrieved = {} /\ node[n].fenced = FALSE
        /\ \/ node[n].superReadOnly = TRUE /\ node[n].source = NoNode
           \/ node[n].superReadOnly = TRUE /\ n # InitPrimary
              /\ node[n].source = InitPrimary /\ FleetInit
           \/ n = InitPrimary /\ node[n].source = NoNode /\ FleetInit
              /\ node[n].superReadOnly = FALSE
  <2>1. CASE FleetInit
    BY <2>1 DEF FleetInit
  <2>2. CASE ~FleetInit
    BY <2>2 DEF Init, NewNode
  <2> QED BY <2>1, <2>2
<1>2. /\ pc \in {"idle", "discover"} /\ chores = {}
      /\ pc = "idle" => primary = InitPrimary
      /\ pc = "discover" => primary = NoNode
  BY DEF Init
<1>3. \A n \in Node : Tidy(n) /\ node[n].source # n
  BY <1>1 DEF Tidy, Writable
<1>4. \A n \in Node : Writable(n) => n = InitPrimary
  BY <1>1 DEF Writable
<1> QED
  BY <1>2, <1>3, <1>4
  DEF WriterInv, OrderInv, SingleWriter, Only, Stall, Cold, Preparing

(* WriterQuiet: what happens without the manager keeps it. *)
LEMMA WriterQuiet ==
  ASSUME TypeInv, WriterInv, UNCHANGED mgrVars,
         \A m \in Node : node'[m].source = node[m].source,
         \A m \in Node : Writable(m)' => Writable(m),
         \A m \in Node : Tidy(m) => Tidy(m)',
         \A m \in Node : fencing'[m] = fencing[m] \/ ~Writable(m)'
  PROVE  WriterInv'
<1>1. /\ \A n \in Node : Tidy(n)' /\ node'[n].source # n
      /\ SingleWriter'
      /\ NoWriter => NoWriter'
  BY DEF WriterInv, SingleWriter, NoWriter
<1>2. primary' = primary /\ \A p : Only(p) => Only(p)'
  BY DEF mgrVars, Only
<1>3. OrderInv'
  <2>1. pc \in Preparing => primary \in Node
    BY DEF TypeInv, TypeOK, Preparing, Cold, Boot
  <2> QED BY <2>1 DEF WriterInv, OrderInv, mgrVars
<1>4. pc = "quiesce" /\ fencing'[primary] \in {"sql", "kill"}
        => ~Writable(primary)'
  <2> SUFFICES ASSUME pc = "quiesce", fencing'[primary] \in {"sql", "kill"}
               PROVE  ~Writable(primary)'
    BY <1>2
  <2>1. primary \in Node
    BY DEF TypeInv, TypeOK, Cold, Boot
  <2> QED BY <1>2, <2>1 DEF WriterInv, Writable
<1> QED BY <1>1, <1>2, <1>3, <1>4 DEF WriterInv, mgrVars

(* WriterEnvironment: the cases of the former. *)
LEMMA WriterEnvironment ==
  ASSUME TypeInv, WriterInv, RestartSome \/ \E n \in Node : Environment(n)
  PROVE  WriterInv'
<1>0. FleetTypeOK /\ \A n \in Node : Tidy(n)
  BY DEF TypeInv, TypeOK, WriterInv
<1>1. CASE RestartSome
  BY <1>0, <1>1, RestartKeeps, WriterQuiet DEF RestartSome
<1>2. ASSUME NEW n \in Node, Environment(n) PROVE WriterInv'
  <2>1. /\ \A m \in Node : node'[m].source = node[m].source
        /\ \A m \in Node : Writable(m)' => Writable(m)
        /\ \A m \in Node : Tidy(m) => Tidy(m)'
    BY <1>0, <1>2, EnvironmentKeeps DEF Environment
  <2>2. \A m \in Node : fencing'[m] = fencing[m] \/ ~Writable(m)'
    <3>1. \/ UNCHANGED fencing
          \/ /\ ~Writable(n)'
             /\ \E how \in {"sql", "kill"} :
                  fencing' = [fencing EXCEPT ![n] = how]
      BY <1>0, <1>2, FleetNoWriter, FailureNoWriter DEF Environment
    <3>2. fencing \in [Node -> FenceStage]
      BY <1>0 DEF FleetTypeOK
    <3> QED BY <3>1, <3>2
  <2> QED BY <1>2, <2>1, <2>2, WriterQuiet DEF Environment
<1> QED BY <1>1, <1>2

(* WriterPlan: nor does a step that leaves the nodes alone and goes to no  *)
(* stage of an operation but along its order.                              *)
LEMMA WriterPlan ==
  ASSUME UNCHANGED node, WriterInv
  PROVE  /\ \A n \in Node : Tidy(n)' /\ node'[n].source # n
         /\ SingleWriter'
         /\ NoWriter' = NoWriter
         /\ \A p : Only(p)' = Only(p)
         /\ \A p \in Node : Writable(p)' = Writable(p)
  BY DEF WriterInv, Tidy, Writable, SingleWriter, NoWriter, Only

(* WriterSwitchover: the steps of a switchover that call no node keep it.  *)
LEMMA WriterSwitchover ==
  ASSUME TypeInv, WriterInv,
         \/ \E n \in Node : Switchover(n)
         \/ Quiesce \/ Quiesced \/ QuiesceUnreachable
         \/ CatchUp \/ CatchUpFails
  PROVE  WriterInv'
<1>0. UNCHANGED node
  BY DEF Switchover, Quiesce, Quiesced, QuiesceUnreachable, CatchUp,
         CatchUpFails, fleetVars
<1>1. /\ \A n \in Node : Tidy(n)' /\ node'[n].source # n
      /\ SingleWriter'
      /\ NoWriter' = NoWriter
      /\ \A p : Only(p)' = Only(p)
      /\ \A p \in Node : Writable(p)' = Writable(p)
  BY <1>0, WriterPlan
<1>2. pc \in {"idle", "prepare", "quiesce", "catch_up", "back"}
        => primary \in Node
  BY DEF TypeInv, TypeOK, Cold, Boot
<1> USE DEF Stall, Cold, Boot, Preparing
<1>3. ASSUME NEW c \in Node, Switchover(c) PROVE WriterInv'
  <2>1. /\ pc' = "prepare" /\ to' = c /\ c # primary /\ primary' = primary
        /\ primary \notin todo' /\ c \notin todo' /\ primary \in Node
        /\ Only(primary) /\ chores' = chores
    BY <1>2, <1>3 DEF Switchover, WriterInv
  <2>2. node[primary].source = NoNode
    BY <1>2, <1>3 DEF Switchover, AcceptsWrites, WriterInv, Tidy
  <2> QED BY <1>0, <1>1, <2>1, <2>2 DEF WriterInv, OrderInv
<1>4. CASE Quiesce
  <2>1. /\ pc = "prepare" /\ pc' = "quiesce"
        /\ UNCHANGED <<primary, to, chores>>
        /\ Only(primary) /\ fencing'[primary] = "sent"
    BY <1>2, <1>4 DEF Quiesce, WriterInv, TypeInv, TypeOK, FleetTypeOK
  <2> QED BY <1>0, <1>1, <2>1 DEF WriterInv, OrderInv
<1>5. CASE Quiesced
  <2>1. /\ pc = "quiesce" /\ pc' = "catch_up"
        /\ UNCHANGED <<primary, to, chores, todo>>
        /\ Only(primary) /\ ~Writable(primary)
    BY <1>5 DEF Quiesced, WriterInv
  <2>2. NoWriter
    BY <2>1 DEF Only, NoWriter
  <2> QED BY <1>0, <1>1, <2>1, <2>2 DEF WriterInv, OrderInv
<1>6. CASE QuiesceUnreachable
  <2>1. /\ pc = "quiesce" /\ pc' = "idle" /\ UNCHANGED <<primary, chores>>
        /\ Only(primary)
    BY <1>6 DEF QuiesceUnreachable, WriterInv
  <2> QED BY <1>0, <1>1, <2>1 DEF WriterInv, OrderInv
<1>7. CASE CatchUp \/ CatchUpFails
  <2>1. /\ pc = "catch_up" /\ pc' \in {"promote", "repoint_old", "back"}
        /\ UNCHANGED <<primary, to, chores>>
        /\ NoWriter
    BY <1>7 DEF CatchUp, CatchUpFails, WriterInv
  <2> QED BY <1>0, <1>1, <2>1 DEF WriterInv, OrderInv
<1> QED BY <1>3, <1>4, <1>5, <1>6, <1>7

(* CallWriters: a call keeps the writer rules of the nodes themselves, and *)
(* only a promotion makes its node writable.                               *)
LEMMA CallWriters ==
  ASSUME TypeInv, WriterInv, NEW n \in Node, NEW ok
  PROVE  /\ PromoteCall(n, ok) =>
              /\ \A m \in Node : Tidy(m)' /\ node'[m].source # m
              /\ \A m \in Node \ {n} : node'[m] = node[m]
              /\ \A m \in Node \ {n} : Writable(m)' => Writable(m)
              /\ NoWriter => Only(n)' /\ SingleWriter'
         /\ \A src \in Node \ {n} : RepointCall(n, src, ok) =>
              /\ \A m \in Node : Tidy(m)' /\ node'[m].source # m
              /\ \A m \in Node \ {n} : node'[m] = node[m]
              /\ \A m \in Node : Writable(m)' => Writable(m)
              /\ SingleWriter' /\ (NoWriter => NoWriter')
              /\ \A p : Only(p) => Only(p)'
<1>0. FleetTypeOK /\ NoNode \notin Node
      /\ \A m \in Node : Tidy(m) /\ node[m].source # m
  BY DEF TypeInv, TypeOK, WriterInv
<1>1. ASSUME PromoteCall(n, ok)
      PROVE  /\ \A m \in Node : Tidy(m)' /\ node'[m].source # m
             /\ \A m \in Node \ {n} : node'[m] = node[m]
  BY <1>0, <1>1, PromoteKeeps
<1>2. ASSUME PromoteCall(n, ok)
      PROVE  /\ \A m \in Node \ {n} : Writable(m)' => Writable(m)
             /\ NoWriter => Only(n)' /\ SingleWriter'
  <2>1. \A m \in Node \ {n} : Writable(m)' => Writable(m)
    BY <1>1, <1>2 DEF Writable
  <2> QED BY <2>1 DEF NoWriter, Only, SingleWriter
<1>3. ASSUME NEW src \in Node \ {n}, RepointCall(n, src, ok)
      PROVE  /\ \A m \in Node : Tidy(m)' /\ node'[m].source # m
             /\ \A m \in Node \ {n} : node'[m] = node[m]
             /\ \A m \in Node : Writable(m)' => Writable(m)
  BY <1>0, <1>3, RepointKeeps
<1>4. ASSUME NEW src \in Node \ {n}, RepointCall(n, src, ok)
      PROVE  /\ SingleWriter' /\ (NoWriter => NoWriter')
             /\ \A p : Only(p) => Only(p)'
  BY <1>3, <1>4 DEF WriterInv, SingleWriter, NoWriter, Only
<1> QED BY <1>1, <1>2, <1>3, <1>4

(* WriterCalls: the steps that call a node keep it. *)
LEMMA WriterCalls ==
  ASSUME TypeInv, WriterInv,
         \/ \E n \in Node : Prepare(n) \/ ColdRepoint(n) \/ BootRepoint(n)
         \/ PromoteBack \/ RepointOld \/ Promote \/ RepointAfter
         \/ ColdPromote \/ BootPromote
  PROVE  WriterInv'
<1> USE DEF Stall, Cold, Boot, Preparing
<1>0. /\ pc \in Stall \cup {"prepare", "boot_repoint"} => primary \in Node
      /\ pc \in Stall \cup Cold \cup Boot \cup {"prepare"} => to \in Node
      /\ chores \subseteq Node \X Node /\ todo \subseteq Node
      /\ pc = "boot_repoint" => primary = to
      /\ primary \in Node \cup {NoNode} /\ NoNode \notin Node
  BY DEF TypeInv, TypeOK, StartOK
<1>1. ASSUME NEW n \in Node, Prepare(n) PROVE WriterInv'
  <2>1. PICK ok \in BOOLEAN : RepointCall(n, to, ok)
    BY <1>1 DEF Prepare
  <2>2. /\ pc = "prepare" /\ UNCHANGED <<pc, primary, to, chores>>
        /\ n \in todo /\ todo' = todo \ {n} /\ n # primary /\ to \in Node \ {n}
        /\ primary \in Node /\ Only(primary)
    BY <1>0, <1>1 DEF Prepare, WriterInv, OrderInv
  <2>3. /\ \A m \in Node : Tidy(m)' /\ node'[m].source # m
        /\ node'[primary] = node[primary]
        /\ SingleWriter' /\ \A p : Only(p) => Only(p)'
    BY <2>1, <2>2, CallWriters
  <2> QED BY <2>2, <2>3 DEF WriterInv, OrderInv
<1>2. ASSUME NEW n \in Node, ColdRepoint(n) PROVE WriterInv'
  <2>1. PICK ok \in BOOLEAN : RepointCall(n, to, ok)
    BY <1>2 DEF ColdRepoint
  <2>2. /\ pc = "cold_repoint" /\ UNCHANGED <<pc, primary, to, chores>>
        /\ n \in todo /\ todo' = todo \ {n} /\ to \in Node \ {n} /\ NoWriter
    BY <1>0, <1>2 DEF ColdRepoint, WriterInv, OrderInv
  <2>3. /\ \A m \in Node : Tidy(m)' /\ node'[m].source # m
        /\ SingleWriter' /\ NoWriter'
    BY <2>1, <2>2, CallWriters
  <2> QED BY <2>2, <2>3 DEF WriterInv, OrderInv
<1>3. ASSUME NEW n \in Node, BootRepoint(n) PROVE WriterInv'
  <2>1. PICK ok \in BOOLEAN : RepointCall(n, to, ok)
    BY <1>3 DEF BootRepoint
  <2>2. /\ pc = "boot_repoint" /\ UNCHANGED <<pc, primary, to, chores>>
        /\ n \in todo /\ todo' = todo \ {n} /\ to \in Node \ {n}
        /\ Only(primary)
    BY <1>0, <1>3 DEF BootRepoint, WriterInv, OrderInv
  <2>3. /\ \A m \in Node : Tidy(m)' /\ node'[m].source # m
        /\ SingleWriter' /\ \A p : Only(p) => Only(p)'
    BY <2>1, <2>2, CallWriters
  <2> QED BY <2>2, <2>3 DEF WriterInv, OrderInv
<1>4. CASE PromoteBack
  <2>1. PICK ok \in BOOLEAN : PromoteCall(primary, ok)
    BY <1>4 DEF PromoteBack
  <2>2. /\ pc = "back" /\ pc' \in {"idle", "halted"}
        /\ UNCHANGED <<primary, chores>> /\ primary \in Node /\ NoWriter
    BY <1>0, <1>4 DEF PromoteBack, WriterInv
  <2>3. /\ \A m \in Node : Tidy(m)' /\ node'[m].source # m
        /\ SingleWriter'
    BY <2>1, <2>2, CallWriters
  <2>4. \A m \in Node \ {primary} : ~Writable(m)'
    BY <2>1, <2>2, CallWriters DEF NoWriter
  <2> QED BY <2>2, <2>3, <2>4 DEF WriterInv, OrderInv, Only
<1>5. CASE RepointOld
  <2>1. PICK ok \in BOOLEAN : RepointCall(primary, to, ok)
    BY <1>5 DEF RepointOld
  <2>2. /\ pc = "repoint_old" /\ pc' = "promote"
        /\ UNCHANGED <<primary, to, chores>>
        /\ primary \in Node /\ to \in Node \ {primary} /\ NoWriter
    BY <1>0, <1>5 DEF RepointOld, WriterInv, OrderInv
  <2>3. /\ \A m \in Node : Tidy(m)' /\ node'[m].source # m
        /\ SingleWriter' /\ NoWriter'
    BY <2>1, <2>2, CallWriters
  <2> QED BY <2>2, <2>3 DEF WriterInv, OrderInv
<1>6. CASE Promote
  <2>1. PICK ok \in BOOLEAN :
          /\ PromoteCall(to, ok)
          /\ IF ok
               THEN /\ pc' = "idle" /\ primary' = to
                    /\ \/ chores' = chores
                       \/ chores' = chores \cup {<<primary, to>>}
               ELSE pc' = "halted" /\ UNCHANGED <<primary, chores>>
    BY <1>6 DEF Promote
  <2>2. /\ primary \in Node /\ to \in Node /\ primary # to /\ NoWriter
        /\ \A c \in chores : c[1] # to
    BY <1>0, <1>6 DEF Promote, PromoteCall, Busy, WriterInv, OrderInv
  <2>3. /\ \A m \in Node : Tidy(m)' /\ node'[m].source # m
        /\ SingleWriter'
    BY <2>1, <2>2, CallWriters
  <2>4. \A m \in Node \ {to} : ~Writable(m)'
    BY <2>1, <2>2, CallWriters DEF NoWriter
  <2>5. CASE ok
    <3>1. \A c \in chores' : c[1] # c[2] /\ c[1] # to
      BY <2>1, <2>2, <2>5 DEF WriterInv, OrderInv
    <3>2. OrderInv'
      BY <1>0, <2>1, <2>2, <2>5, <3>1 DEF OrderInv
    <3>3. Only(primary)'
      BY <2>1, <2>4, <2>5 DEF Only
    <3> QED BY <2>1, <2>3, <2>5, <3>2, <3>3 DEF WriterInv
  <2>6. CASE ~ok
    BY <2>1, <2>2, <2>3, <2>6 DEF WriterInv, OrderInv
  <2> QED BY <2>5, <2>6
<1>7. CASE RepointAfter
  <2>1. PICK c \in chores : /\ \E ok \in BOOLEAN : RepointCall(c[1], c[2], ok)
                            /\ chores' = chores \ {c}
    BY <1>7 DEF RepointAfter
  <2>2. PICK ok \in BOOLEAN : RepointCall(c[1], c[2], ok)
    BY <2>1
  <2>3. c[1] \in Node /\ c[2] \in Node \ {c[1]} /\ c[1] # primary
    BY <1>0 DEF WriterInv, OrderInv
  <2>4. /\ \A m \in Node : Tidy(m)' /\ node'[m].source # m
        /\ \A m \in Node \ {c[1]} : node'[m] = node[m]
        /\ SingleWriter' /\ (NoWriter => NoWriter')
        /\ \A p : Only(p) => Only(p)'
        /\ \A m \in Node : Writable(m)' => Writable(m)
    BY <2>2, <2>3, CallWriters
  <2>5. UNCHANGED <<pc, primary, to, todo, fencing>>
    BY <1>7, <2>2 DEF RepointAfter, RepointCall
  <2>6. primary \in Node => Writable(primary)' = Writable(primary)
    BY <2>3, <2>4, <2>5 DEF Writable
  <2>7. OrderInv'
    BY <1>0, <2>1, <2>3, <2>4, <2>5 DEF WriterInv, OrderInv
  <2>8. pc = "quiesce" /\ fencing[primary] \in {"sql", "kill"}
          => ~Writable(primary)'
    BY <1>0, <2>6 DEF WriterInv
  <2> QED BY <2>4, <2>5, <2>7, <2>8 DEF WriterInv
<1>8. CASE ColdPromote
  <2>1. PICK ok \in BOOLEAN : PromoteCall(to, ok)
    BY <1>8 DEF ColdPromote
  <2>2. /\ pc = "cold_promote" /\ pc' = "idle" /\ primary' = to
        /\ chores' = chores /\ to \in Node /\ NoWriter
        /\ \A c \in chores : c[1] # to
    BY <1>0, <1>8, <2>1 DEF ColdPromote, PromoteCall, Busy, WriterInv
  <2>3. /\ \A m \in Node : Tidy(m)' /\ node'[m].source # m
        /\ SingleWriter'
    BY <2>1, <2>2, CallWriters
  <2>4. \A m \in Node \ {to} : ~Writable(m)'
    BY <2>1, <2>2, CallWriters DEF NoWriter
  <2>5. OrderInv'
    BY <1>0, <2>2 DEF WriterInv, OrderInv
  <2> QED BY <2>2, <2>3, <2>4, <2>5 DEF WriterInv, Only
<1>9. CASE BootPromote
  <2>1. PICK ok \in BOOLEAN :
          /\ PromoteCall(to, ok)
          /\ \/ pc' = "boot_repoint" /\ primary' = to /\ to' = to
                /\ todo' = Node \ {to}
             \/ pc' = "halted" /\ primary' = primary
    BY <1>9 DEF BootPromote
  <2>2. /\ pc = "boot_promote" /\ chores' = chores /\ chores = {}
        /\ to \in Node /\ NoWriter
    BY <1>0, <1>9 DEF BootPromote, WriterInv, OrderInv
  <2>3. /\ \A m \in Node : Tidy(m)' /\ node'[m].source # m
        /\ SingleWriter'
    BY <2>1, <2>2, CallWriters
  <2>4. \A m \in Node \ {to} : ~Writable(m)'
    BY <2>1, <2>2, CallWriters DEF NoWriter
  <2>5. OrderInv'
    BY <2>1, <2>2 DEF OrderInv
  <2> QED BY <2>1, <2>3, <2>4, <2>5 DEF WriterInv, Only
<1> QED BY <1>1, <1>2, <1>3, <1>4, <1>5, <1>6, <1>7, <1>8, <1>9

(* WriterStartup: discovery believes a writable node, or replicas that all *)
(* name one source, and a cold start finds nobody writable.                *)
LEMMA WriterStartup ==
  ASSUME SmallSet, TypeInv, WriterInv,
         Discover \/ ColdCheck \/ ColdRepointsEnd \/ BootEnds \/ Crash
  PROVE  WriterInv'
<1> USE DEF Stall, Cold, Boot, Preparing
<1>0. UNCHANGED node
  BY DEF Discover, ColdCheck, ColdRepointsEnd, BootEnds, Crash, fleetVars
<1>1. /\ \A n \in Node : Tidy(n)' /\ node'[n].source # n
      /\ SingleWriter'
      /\ NoWriter' = NoWriter
      /\ \A p : Only(p)' = Only(p)
  BY <1>0, WriterPlan
<1>2. \A n \in Node : Tidy(n) /\ node[n].source # n
  BY DEF WriterInv
<1>3. \A n \in Node : Writable(n) => AcceptsWrites(n)
  BY <1>2 DEF Tidy, AcceptsWrites
<1>4. CASE Discover
  <2>1. /\ pc = "discover" /\ chores = {} /\ chores' = chores
        /\ primary = NoNode
    BY <1>4 DEF Discover, WriterInv, OrderInv
  <2>a. NoNode \notin Node
    OBVIOUS
  <2>2. \/ pc' = "idle" /\ Only(primary')
        \/ pc' = "halted"
        \/ pc' = "boot_promote" /\ primary' = primary /\ NoWriter
        \/ /\ pc' = "cold_repoint" /\ primary' = primary /\ NoWriter
           /\ to' \notin todo'
    <3>1. PICK A \in SUBSET Node :
            LET writable == {n \in A : AcceptsWrites(n)}
            IN  \/ /\ primary' \in writable
                   /\ pc' = "idle"
                \/ pc' = "halted"
                \/ /\ IsNew(A)
                   /\ pc' = "boot_promote"
                   /\ UNCHANGED primary
                \/ DiscoverAmong(A)
      BY <1>4 DEF Discover
    <3>2. CASE primary' \in {n \in A : AcceptsWrites(n)} /\ pc' = "idle"
      BY <3>2 DEF AcceptsWrites, WriterInv, SingleWriter, Only
    <3>3. CASE IsNew(A) /\ pc' = "boot_promote" /\ UNCHANGED primary
      BY <3>3 DEF IsNew, NoWriter, Writable
    <3>4. CASE DiscoverAmong(A)
      <4>1. PICK src \in IF Agreed(A) = {} THEN {NoNode} ELSE Agreed(A) :
              \/ /\ IsCold(A, src)
                 /\ \/ pc' = "halted"
                    \/ \E n \in ColdChoice(A, src) : ColdStart(A, n)
                 /\ UNCHANGED primary
              \/ /\ src # NoNode
                 /\ primary' = src
                 /\ pc' = "idle"
        BY <3>4 DEF DiscoverAmong
      <4>2. src # NoNode => src \in Agreed(A)
        BY <4>1
      <4>3. src # NoNode => src \in Node /\ Only(src)
        <5> SUFFICES ASSUME src # NoNode PROVE src \in Node /\ Only(src)
          OBVIOUS
        <5>1. src \in Node /\ Named(src)
          BY <1>2, <4>2, AgreedNamed
        <5> QED BY <1>2, <2>a, <5>1 DEF Only, Named, Tidy
      <4>4. IsCold(A, src) => NoWriter
        <5>1. CASE src = NoNode
          BY <1>3, <5>1 DEF IsCold, NoWriter
        <5>2. CASE src # NoNode
          BY <4>3, <5>2 DEF IsCold, NoWriter, Only, Writable
        <5> QED BY <5>1, <5>2
      <4> QED BY <4>1, <4>3, <4>4 DEF ColdStart
    <3> QED BY <3>1, <3>2, <3>3, <3>4
  <2> QED BY <1>1, <2>1, <2>2 DEF WriterInv, OrderInv
<1>5. CASE ColdCheck
  <2>1. PICK A \in SUBSET Node :
          /\ pc = "idle" /\ UNCHANGED <<primary, chores>> /\ primary # NoNode
          /\ \/ UNCHANGED <<pc, to, todo>>
             \/ pc' = "halted"
             \/ /\ IsCold(A, primary)
                /\ \E n \in ColdChoice(A, primary) : ColdStart(A, n)
    BY <1>5 DEF ColdCheck
  <2>2. Only(primary)
    BY <2>1 DEF WriterInv
  <2>3. IsCold(A, primary) => NoWriter
    BY <2>1, <2>2 DEF IsCold, NoWriter, Only, Writable
  <2>4. \/ pc' \in {"idle", "halted"}
        \/ pc' = "cold_repoint" /\ to' \notin todo' /\ NoWriter
    BY <2>1, <2>3 DEF ColdStart
  <2> QED BY <1>1, <2>1, <2>2, <2>4 DEF WriterInv, OrderInv
<1>6. CASE ColdRepointsEnd
  <2>1. /\ pc = "cold_repoint" /\ pc' = "cold_promote"
        /\ UNCHANGED <<primary, chores>> /\ NoWriter
    BY <1>6 DEF ColdRepointsEnd, WriterInv
  <2> QED BY <1>1, <2>1 DEF WriterInv, OrderInv
<1>7. CASE BootEnds
  <2>1. /\ pc = "boot_repoint" /\ pc' = "idle"
        /\ UNCHANGED <<primary, chores>> /\ Only(primary)
    BY <1>7 DEF BootEnds, WriterInv
  <2> QED BY <1>1, <2>1 DEF WriterInv, OrderInv
<1>8. CASE Crash
  <2>1. pc' = "discover" /\ primary' = NoNode /\ chores' = {}
    BY <1>8 DEF Crash
  <2> QED BY <1>1, <2>1 DEF WriterInv, OrderInv
<1> QED BY <1>4, <1>5, <1>6, <1>7, <1>8

(* WriterHolds: the invariant of small sets. *)
LEMMA WriterHolds ==
  ASSUME SmallSet
  PROVE  Spec => [](TypeInv /\ WriterInv)
<1>1. TypeInv /\ WriterInv /\ UNCHANGED vars => WriterInv'
  <2> SUFFICES ASSUME TypeInv, WriterInv, UNCHANGED vars PROVE WriterInv'
    OBVIOUS
  <2>1. /\ UNCHANGED <<mgrVars, fencing>> /\ UNCHANGED node
    BY DEF vars, fleetVars
  <2> QED BY <2>1, WriterQuiet DEF Tidy, Writable
<1>2. TypeInv /\ WriterInv /\ [Next]_vars => WriterInv'
  <2> SUFFICES ASSUME TypeInv, WriterInv, [Next]_vars PROVE WriterInv'
    OBVIOUS
  <2> QED
    BY <1>1, WriterEnvironment, WriterSwitchover, WriterCalls, WriterStartup
    DEF Next, SwitchoverStep, StartupStep
<1> QED BY TypeInit, TypeNext, WriterInit, <1>2, PTL DEF Spec

(* WriterCorrect: in a set of a primary and at most two replicas no two    *)
(* nodes are writable at once, whatever call fails, wherever the manager   *)
(* crashes and whichever servers restart.                                  *)
THEOREM WriterCorrect ==
  ASSUME SmallSet
  PROVE  Spec => []SingleWriter
<1>1. WriterInv => SingleWriter
  BY DEF WriterInv
<1> QED BY WriterHolds, <1>1, PTL

-----------------------------------------------------------------------------
(* Kept and NoErrantReplica.                                               *)

(* Full: n's binlog holds whatever any server has. *)
Full(n) == \A m \in Node : Whole(m) \subseteq Binlog(n)

(* Backed: not everybody else is about to follow s, unless it is full. *)
Backed(s) ==
    \/ Full(s)
    \/ \E n \in Node \ {s} : /\ node[n].source = NoNode
                             /\ \A c \in chores : c[1] # n

(* ChoreInv: a node that a background task is to repoint is read-only and  *)
(* follows nobody else meanwhile, and there is one task of a node.         *)
ChoreInv ==
    /\ \A c \in chores :
         ~Writable(c[1]) /\ node[c[1]].source \in {NoNode, c[2]}
    /\ \A c, d \in chores : c[1] = d[1] => c = d
    /\ pc = "promote" => node[primary].source \in {NoNode, to}

(* HeadInv, the inductive invariant: whoever is writable, or named by all  *)
(* the others, or primary, or about to be promoted, is full; in a set that *)
(* halted in a switchover, where the candidate may have been promoted and  *)
(* the manager does not know, whoever follows the old primary lags it.     *)
HeadInv == ~unchecked =>
    /\ \A n \in Node : Writable(n) \/ Named(n) => Full(n)
    /\ primary # NoNode /\ pc # "halted" => Full(primary)
    /\ pc \in {"repoint_old", "promote", "boot_promote"} \cup Cold => Full(to)
    /\ pc \in Cold /\ primary # NoNode => to = primary
    /\ pc = "catch_up" /\ known => \A m \in Node : Whole(m) \subseteq final
    /\ chores # {} /\ pc \notin {"promote", "halted"}
         => node[primary].source = NoNode
    /\ pc = "halted" /\ primary # NoNode =>
         /\ \A s \in {primary, node[primary].source} \ {NoNode} : Backed(s)
         /\ \A r \in Node :
              node[r].source = primary \/ <<r, primary>> \in chores
                => Whole(r) \subseteq Binlog(primary)

(* AckedInv: every write answered OK is in somebody's binlog. *)
AckedInv == \A t \in acked : \E n \in Node : t \in Binlog(n)

(* FullStable: who is full stays full while nobody else is written to. *)
LEMMA FullStable ==
  ASSUME Grows, NEW h \in Node, Full(h), Only(h)
  PROVE  Full(h)'
<1> SUFFICES ASSUME NEW m \in Node, NEW t \in Whole(m)'
             PROVE  t \in Binlog(h)'
  BY DEF Full
<1>1. CASE Known(m, t)
  <2>1. t \in Binlog(h)
    BY <1>1 DEF Known, Full, Whole
  <2> QED BY <2>1 DEF Grows
<1>2. CASE Writable(m) /\ t \in Binlog(m)'
  BY <1>2 DEF Only
<1> QED BY <1>1, <1>2 DEF Grows

(* FullKept: and in any step that brings nothing new. *)
LEMMA FullKept ==
  ASSUME Shrinks, NEW h \in Node, Full(h)
  PROVE  Full(h)'
  BY DEF Shrinks, Full

(* HeadQuiet: what happens without the manager keeps both. *)
LEMMA HeadQuiet ==
  ASSUME TypeInv, WriterInv, ChoreInv, HeadInv,
         UNCHANGED <<mgrVars, unchecked>>,
         \A m \in Node : node'[m].source = node[m].source,
         \A m \in Node : Writable(m)' => Writable(m),
         Grows
  PROVE  ChoreInv' /\ HeadInv'
<1>0. /\ chores \subseteq Node \X Node
      /\ pc \in {"promote"} \cup Preparing => primary \in Node
      /\ pc \in {"repoint_old", "promote", "boot_promote"} \cup Cold
           => to \in Node
      /\ primary \in Node \cup {NoNode}
      /\ primary = NoNode => pc \in {"discover", "halted"} \cup Cold \cup Boot
      /\ chores # {} => primary # NoNode
      /\ NoNode \notin Node
  BY DEF TypeInv, TypeOK, WriterInv, OrderInv, Cold, Boot, Preparing
<1>1. UNCHANGED <<pc, primary, to, chores, known, final, unchecked>>
  BY DEF mgrVars
<1>2. ChoreInv'
  BY <1>0, <1>1 DEF ChoreInv
<1> SUFFICES ASSUME ~unchecked PROVE HeadInv'
  BY <1>1, <1>2 DEF HeadInv
<1>3. ASSUME NEW n \in Node, (Writable(n) \/ Named(n))'
      PROVE  Full(n)'
  <2>1. Writable(n) \/ Named(n)
    BY <1>3 DEF Named
  <2>2. Full(n)
    BY <2>1 DEF HeadInv
  <2>3. Only(n)
    BY <1>0, <2>1 DEF WriterInv, SingleWriter, Tidy, Named, Only
  <2> QED BY <2>2, <2>3, FullStable
<1>4. primary # NoNode /\ pc # "halted" => Full(primary)'
  <2> SUFFICES ASSUME primary # NoNode, pc # "halted" PROVE Full(primary)'
    OBVIOUS
  <2>1. primary \in Node /\ Full(primary)
    BY <1>0 DEF HeadInv
  <2>2. Only(primary) \/ NoWriter
    BY DEF WriterInv, OrderInv, TypeInv, TypeOK, Steps, Stall, Cold, Boot
  <2>3. Full(primary)' <=> \A m \in Node : Whole(m)' \subseteq Binlog(primary)'
    BY <1>1 DEF Full
  <2>4. \A p : p = primary => (p \in Node /\ Full(p) /\ Only(p) => Full(p)')
    BY FullStable
  <2> QED BY <1>1, <2>1, <2>2, <2>4 DEF Only, NoWriter, Full, Binlog
<1>5. pc \in {"repoint_old", "promote", "boot_promote"} \cup Cold => Full(to)'
  <2> SUFFICES ASSUME pc \in {"repoint_old", "promote", "boot_promote"}
                             \cup Cold
               PROVE  Full(to)'
    OBVIOUS
  <2>1. to \in Node /\ Full(to)
    BY <1>0 DEF HeadInv
  <2>2. NoWriter
    BY DEF WriterInv, Stall, Cold
  <2>3. \A p : p = to => (p \in Node /\ Full(p) /\ Only(p) => Full(p)')
    BY FullStable
  <2> QED BY <1>1, <2>1, <2>2, <2>3 DEF Only, NoWriter, Full, Binlog
<1>6. pc = "catch_up" /\ known => \A m \in Node : Whole(m)' \subseteq final
  <2> SUFFICES ASSUME pc = "catch_up", known, NEW m \in Node,
                      NEW t \in Whole(m)'
               PROVE  t \in final
    OBVIOUS
  <2>1. NoWriter
    BY DEF WriterInv, Stall
  <2>2. Known(m, t)
    BY <2>1 DEF Grows, NoWriter
  <2> QED BY <2>2 DEF HeadInv, Known, Whole
<1>7. ASSUME chores # {}, pc \notin {"promote", "halted"}
      PROVE  node'[primary].source = NoNode
  BY <1>0, <1>7 DEF HeadInv
<1>8. ASSUME pc = "halted", primary # NoNode,
             NEW s \in {primary, node'[primary].source} \ {NoNode}
      PROVE  Backed(s)'
  <2>1. /\ s \in Node /\ Backed(s)
    BY <1>0, <1>8 DEF HeadInv, TypeInv, TypeOK, FleetTypeOK, NodeState
  <2>2. CASE \E n \in Node \ {s} : /\ node[n].source = NoNode
                                   /\ \A c \in chores : c[1] # n
    BY <1>1, <2>2 DEF Backed
  <2>3. CASE Full(s) /\ Only(s)
    BY <2>1, <2>3, FullStable DEF Backed
  <2>4. CASE ~Only(s)
    <3>1. PICK w \in Node \ {s} : Writable(w)
      BY <2>4 DEF Only
    <3>2. node[w].source = NoNode /\ \A c \in chores : c[1] # w
      BY <3>1 DEF WriterInv, Tidy, ChoreInv
    <3> QED BY <1>1, <3>2 DEF Backed
  <2> QED BY <2>1, <2>2, <2>3, <2>4 DEF Backed
<1>9. ASSUME pc = "halted", primary # NoNode, NEW r \in Node,
             node[r].source = primary \/ <<r, primary>> \in chores,
             NEW t \in Whole(r)'
      PROVE  t \in Binlog(primary)'
  <2>1. primary \in Node /\ Whole(r) \subseteq Binlog(primary)
    BY <1>0, <1>9 DEF HeadInv
  <2>2. ~Writable(r) /\ node[r].source \in {NoNode, primary}
    BY <1>0, <1>9 DEF WriterInv, Tidy, ChoreInv
  <2>3. Known(r, t)
    BY <2>2 DEF Grows
  <2>4. t \in Binlog(primary)
    BY <1>0, <2>1, <2>2, <2>3 DEF Known
  <2>5. \A p \in Node : Binlog(p) \subseteq Binlog(p)'
    BY DEF Grows
  <2> QED BY <1>1, <2>1, <2>4, <2>5 DEF Binlog
<1>10. \A r \in Node :
         (node[r].source = primary \/ <<r, primary>> \in chores)'
           => node[r].source = primary \/ <<r, primary>> \in chores
  BY <1>1
<1> QED
  BY <1>0, <1>1, <1>3, <1>4, <1>5, <1>6, <1>7, <1>8, <1>9, <1>10 DEF HeadInv

(* HeadInit: everything is empty. *)
LEMMA HeadInit == Init => ChoreInv /\ HeadInv /\ AckedInv
<1> SUFFICES ASSUME Init PROVE ChoreInv /\ HeadInv /\ AckedInv
  OBVIOUS
<1>1. \A n \in Node : /\ node[n].executed = {} /\ node[n].pending = {}
                      /\ node[n].retrieved = {}
  BY DEF Init, FleetInit, NewNode
<1>2. \A n \in Node : Full(n)
  BY <1>1 DEF Full, Whole, Binlog
<1>3. /\ pc \in {"idle", "discover"} /\ chores = {} /\ acked = {}
      /\ primary \in Node \cup {NoNode}
  BY DEF Init, FleetInit
<1> QED BY <1>2, <1>3 DEF ChoreInv, HeadInv, AckedInv, Cold

(* HeadEnvironment: the cases of HeadQuiet. *)
LEMMA HeadEnvironment ==
  ASSUME TypeInv, WriterInv, ChoreInv, HeadInv, AckedInv,
         RestartSome \/ \E n \in Node : Environment(n)
  PROVE  ChoreInv' /\ HeadInv' /\ AckedInv'
<1>0. FleetTypeOK /\ \A n \in Node : Tidy(n)
  BY DEF TypeInv, TypeOK, WriterInv
<1>1. /\ UNCHANGED <<mgrVars, unchecked>>
      /\ \A m \in Node : node'[m].source = node[m].source
      /\ \A m \in Node : Writable(m)' => Writable(m)
      /\ Grows
      /\ \A t \in acked' : t \in acked \/ \E m \in Node : t \in Binlog(m)'
  <2>1. CASE RestartSome
    <3>1. /\ \A m \in Node : node'[m].source = node[m].source
          /\ \A m \in Node : Writable(m)' => Writable(m)
          /\ Shrinks
      BY <1>0, <2>1, RestartKeeps
    <3>2. Grows
      BY <3>1 DEF Shrinks, Grows, Known
    <3> QED BY <2>1, <3>1, <3>2 DEF RestartSome
  <2>2. ASSUME NEW n \in Node, Environment(n)
        PROVE  /\ UNCHANGED <<mgrVars, unchecked>>
               /\ \A m \in Node : node'[m].source = node[m].source
               /\ \A m \in Node : Writable(m)' => Writable(m)
               /\ Grows
               /\ \A t \in acked' :
                    t \in acked \/ \E m \in Node : t \in Binlog(m)'
    BY <1>0, <2>2, EnvironmentKeeps DEF Environment
  <2> QED BY <2>1, <2>2
<1>2. ChoreInv' /\ HeadInv'
  BY <1>1, HeadQuiet
<1>3. AckedInv'
  BY <1>1 DEF AckedInv, Grows
<1> QED BY <1>2, <1>3

(* HeadPlan: a step that leaves the nodes alone leaves what is said of     *)
(* them alone.                                                             *)
LEMMA HeadPlan ==
  ASSUME UNCHANGED node
  PROVE  \A n \in Node : /\ Writable(n)' <=> Writable(n)
                         /\ Named(n)' <=> Named(n)
                         /\ Full(n)' <=> Full(n)
                         /\ Whole(n)' = Whole(n)
                         /\ Binlog(n)' = Binlog(n)
  BY DEF Writable, Named, Full, Whole, Binlog

(* FullApplied: a read-only node is full when it has applied all of it. *)
LEMMA FullApplied ==
  ASSUME NEW n \in Node, Tidy(n), ~Writable(n)
  PROVE  /\ Binlog(n) = node[n].executed
         /\ Full(n) <=> \A m \in Node : Whole(m) \subseteq node[n].executed
  BY DEF Tidy, Full, Binlog

(* HeadSwitchover: the steps of a switchover that call no node. *)
LEMMA HeadSwitchover ==
  ASSUME TypeInv, WriterInv, ChoreInv, HeadInv,
         \/ \E n \in Node : Switchover(n)
         \/ Quiesce \/ Quiesced \/ QuiesceUnreachable
         \/ CatchUp \/ CatchUpFails
  PROVE  ChoreInv' /\ HeadInv'
<1> USE DEF Stall, Cold, Boot, Preparing
<1>0. UNCHANGED <<node, primary, chores>>
  BY DEF Switchover, Quiesce, Quiesced, QuiesceUnreachable, CatchUp,
         CatchUpFails, fleetVars
<1>1. /\ pc \in {"idle", "prepare", "quiesce", "catch_up"}
      /\ pc' \in {"idle", "prepare", "quiesce", "catch_up", "back",
                  "repoint_old", "promote"}
      /\ pc' \in {"repoint_old", "promote"} => CatchUp
      /\ pc' = "catch_up" => Quiesced
      /\ unchecked => unchecked'
  <2>1. CASE \E n \in Node : Switchover(n)
    BY <2>1 DEF Switchover
  <2>2. CASE Quiesce
    BY <2>2 DEF Quiesce
  <2>3. CASE Quiesced
    BY <2>3 DEF Quiesced
  <2>4. CASE QuiesceUnreachable
    BY <2>4 DEF QuiesceUnreachable
  <2>5. CASE CatchUp
    BY <2>5 DEF CatchUp
  <2>6. CASE CatchUpFails
    BY <2>6 DEF CatchUpFails
  <2> QED BY <2>1, <2>2, <2>3, <2>4, <2>5, <2>6
<1>2. primary \in Node /\ NoNode \notin Node
  BY <1>1 DEF TypeInv, TypeOK, Switchover, Quiesce, Quiesced,
              QuiesceUnreachable, CatchUp, CatchUpFails
<1>3. ChoreInv'
  <2>1. pc' = "promote" => node[primary].source = NoNode
    BY <1>1 DEF CatchUp, WriterInv, OrderInv
  <2> QED BY <1>0, <2>1 DEF ChoreInv, Writable
<1> SUFFICES ASSUME ~unchecked', ~unchecked PROVE HeadInv'
  BY <1>1, <1>3 DEF HeadInv
<1>5. \A n \in Node : (Writable(n) \/ Named(n))' => Full(n)'
  BY <1>0, HeadPlan DEF HeadInv
<1>6. Full(primary)
  BY <1>1, <1>2 DEF HeadInv
<1>7. CatchUp => to \in Node /\ to' = to /\ Full(to)
  <2> SUFFICES ASSUME CatchUp PROVE to \in Node /\ to' = to /\ Full(to)
    OBVIOUS
  <2>1. /\ pc = "catch_up" /\ known /\ final \subseteq node[to].executed
        /\ to' = to
    BY DEF CatchUp, HoldsFinal
  <2>2. to \in Node
    BY <2>1 DEF TypeInv, TypeOK
  <2> QED BY <2>1, <2>2 DEF HeadInv, Full, Binlog
<1>8. Quiesced /\ known' => \A m \in Node : Whole(m) \subseteq final'
  <2> SUFFICES ASSUME Quiesced, known'
               PROVE  \A m \in Node : Whole(m) \subseteq final'
    OBVIOUS
  <2>1. ~Writable(primary) /\ final' = node[primary].executed
    BY DEF Quiesced, WriterInv
  <2>2. Tidy(primary)
    BY <1>2 DEF WriterInv
  <2> QED BY <1>2, <1>6, <2>1, <2>2, FullApplied
<1>9. \A m \in Node : Whole(m)' = Whole(m)
  BY <1>0, HeadPlan
<1>10. Full(primary)'
  BY <1>0, <1>6 DEF Full, Whole, Binlog
<1>11. pc' \in {"repoint_old", "promote"} => Full(to)'
  BY <1>0, <1>1, <1>7 DEF Full, Whole, Binlog
<1>12. chores # {} => node[primary].source = NoNode
  BY <1>1 DEF HeadInv
<1> QED
  BY <1>0, <1>1, <1>5, <1>8, <1>9, <1>10, <1>11, <1>12 DEF HeadInv

(* ColdFull: with everybody read-only, a cold start that every node        *)
(* answers chooses a full one.                                             *)
LEMMA ColdFull ==
  ASSUME NEW src, \A m \in Node : Tidy(m), NoWriter
  PROVE  \A n \in ColdChoice(Node, src) : n \in Node /\ Full(n)
<1> DEFINE full == {n \in Node :
                      /\ node[n].superReadOnly /\ ~node[n].fenced
                      /\ \A m \in Node : Holds(m) \subseteq node[n].executed}
<1>1. \A m \in Node : /\ Binlog(m) = node[m].executed
                      /\ Whole(m) = Holds(m)
  BY DEF NoWriter, Tidy, Binlog, Whole, Holds
<1>2. ColdChoice(Node, src) = IF src \in full THEN {src} ELSE full
  BY DEF ColdChoice
<1>3. \A n \in full : n \in Node /\ Full(n)
  BY <1>1 DEF Full
<1> HIDE DEF full
<1> QED BY <1>2, <1>3

(* HeadStartup: discovery, cold start and a crash of the manager. *)
LEMMA HeadStartup ==
  ASSUME SmallSet, TypeInv, WriterInv, ChoreInv, HeadInv,
         Discover \/ ColdCheck \/ ColdRepointsEnd \/ BootEnds \/ Crash
  PROVE  ChoreInv' /\ HeadInv'
<1> USE DEF Stall, Cold, Boot, Preparing
<1>0. UNCHANGED <<node, unchecked>>
  BY DEF Discover, ColdCheck, ColdRepointsEnd, BootEnds, Crash, fleetVars
<1>1. /\ \A n \in Node : Tidy(n) /\ node[n].source # n
      /\ NoNode \notin Node
  BY DEF WriterInv
<1>a. pc' # "promote" /\ chores' \subseteq chores
  <2>1. CASE Discover
    BY <2>1 DEF Discover, DiscoverAmong, ColdStart
  <2>2. CASE ColdCheck
    BY <2>2 DEF ColdCheck, ColdStart
  <2>3. CASE ColdRepointsEnd
    BY <2>3 DEF ColdRepointsEnd
  <2>4. CASE BootEnds
    BY <2>4 DEF BootEnds
  <2>5. CASE Crash
    BY <2>5 DEF Crash
  <2> QED BY <2>1, <2>2, <2>3, <2>4, <2>5
<1>2. ChoreInv'
  BY <1>0, <1>a DEF ChoreInv, Writable
<1> SUFFICES ASSUME ~unchecked PROVE HeadInv'
  BY <1>0, <1>2 DEF HeadInv
<1>4. \A n \in Node : (Writable(n) \/ Named(n))' => Full(n)'
  BY <1>0, HeadPlan DEF HeadInv
<1>7. CASE Discover
  <2>1. /\ pc = "discover" /\ chores = {} /\ chores' = chores
        /\ primary = NoNode
    BY <1>7 DEF Discover, WriterInv, OrderInv
  <2>2. \/ pc' = "idle" /\ primary' \in Node /\ Full(primary)'
        \/ pc' = "halted" /\ primary' = primary
        \/ /\ pc' \in {"boot_promote", "cold_repoint"} /\ primary' = primary
           /\ to' \in Node /\ Full(to)'
    <3>1. PICK A \in SUBSET Node :
            LET writable == {n \in A : AcceptsWrites(n)}
            IN  \/ /\ primary' \in writable
                   /\ pc' = "idle"
                \/ pc' = "halted" /\ UNCHANGED primary
                \/ /\ IsNew(A)
                   /\ pc' = "boot_promote"
                   /\ to' = InitPrimary
                   /\ UNCHANGED primary
                \/ DiscoverAmong(A)
      BY <1>7 DEF Discover
    <3>2. CASE primary' \in {n \in A : AcceptsWrites(n)} /\ pc' = "idle"
      <4>1. PICK p \in Node : p = primary' /\ Full(p)
        BY <3>2 DEF AcceptsWrites, HeadInv
      <4> QED BY <1>0, <3>2, <4>1 DEF Full, Whole, Binlog
    <3>3. CASE /\ IsNew(A) /\ pc' = "boot_promote" /\ UNCHANGED primary
               /\ to' = InitPrimary
      <4>1. /\ NoWriter
            /\ \A n \in Node : node[n].source = NoNode
            /\ \A m, n \in Node : node[m].executed = node[n].executed
        BY <3>3 DEF IsNew, NoWriter, Writable, Configured
      <4>2. \A n \in Node : /\ node[n].pending = {}
                            /\ node[n].retrieved = {}
        BY <1>1, <4>1 DEF NoWriter, Tidy
      <4>3. InitPrimary \in Node
        OBVIOUS
      <4>4. Full(InitPrimary)
        BY <4>1, <4>2, <4>3 DEF Full, Whole, Binlog
      <4> QED BY <1>0, <3>3, <4>3, <4>4 DEF Full, Whole, Binlog
    <3>4. CASE DiscoverAmong(A)
      <4>1. PICK src \in IF Agreed(A) = {} THEN {NoNode} ELSE Agreed(A) :
              \/ /\ IsCold(A, src)
                 /\ \/ pc' = "halted"
                    \/ \E n \in ColdChoice(A, src) : ColdStart(A, n)
                 /\ UNCHANGED primary
              \/ /\ src # NoNode
                 /\ primary' = src
                 /\ pc' = "idle"
        BY <3>4 DEF DiscoverAmong
      <4>2. src # NoNode => src \in Agreed(A)
        BY <4>1
      <4>3. src # NoNode
              => /\ src \in Node /\ Named(src) /\ Node \ {src} \subseteq A
                 /\ Full(src) /\ Only(src)
        <5> SUFFICES ASSUME src # NoNode
                     PROVE  /\ src \in Node /\ Named(src)
                            /\ Node \ {src} \subseteq A
                            /\ Full(src) /\ Only(src)
          OBVIOUS
        <5>1. src \in Node /\ Named(src) /\ Node \ {src} \subseteq A
          BY <1>1, <4>2, AgreedNamed
        <5> QED BY <1>1, <5>1 DEF HeadInv, Only, Named, Tidy
      <4>4. IsCold(A, src) => NoWriter /\ A = Node
        <5>1. CASE src = NoNode
          BY <1>1, <5>1 DEF IsCold, NoWriter, AcceptsWrites, Tidy
        <5>2. CASE src # NoNode
          BY <4>3, <5>2 DEF IsCold, NoWriter, Only, Writable
        <5> QED BY <5>1, <5>2
      <4>5. CASE src # NoNode /\ primary' = src /\ pc' = "idle"
        BY <1>0, <4>3, <4>5 DEF Full, Whole, Binlog
      <4>6. CASE /\ IsCold(A, src) /\ UNCHANGED primary
                 /\ \E n \in ColdChoice(A, src) : ColdStart(A, n)
        <5>1. PICK n \in ColdChoice(Node, src) : ColdStart(A, n)
          BY <4>4, <4>6
        <5>2. n \in Node /\ Full(n)
          BY <1>1, <4>4, <4>6, ColdFull
        <5> QED BY <1>0, <4>6, <5>1, <5>2 DEF ColdStart, Full, Whole, Binlog
      <4> QED BY <4>1, <4>5, <4>6
    <3> QED BY <3>1, <3>2, <3>3, <3>4
  <2> QED BY <1>1, <1>4, <2>1, <2>2 DEF HeadInv
<1>8. CASE ColdCheck
  <2>1. PICK A \in SUBSET Node :
          /\ pc = "idle" /\ UNCHANGED <<primary, chores>> /\ primary # NoNode
          /\ \/ UNCHANGED <<pc, to, todo>>
             \/ IsCold(A, primary) /\ ColdChoice(A, primary) = {}
             \/ /\ IsCold(A, primary)
                /\ \E n \in ColdChoice(A, primary) : ColdStart(A, n)
    BY <1>8 DEF ColdCheck
  <2>2. primary \in Node /\ Only(primary) /\ Full(primary)
    BY <2>1 DEF WriterInv, HeadInv, TypeInv, TypeOK
  <2>3. \A S \in SUBSET Node : IsCold(S, primary) => ColdChoice(S, primary)
                                                      = {primary}
    <3> SUFFICES ASSUME NEW S \in SUBSET Node, IsCold(S, primary)
                 PROVE  ColdChoice(S, primary) = {primary}
      OBVIOUS
    <3>1. /\ primary \in S /\ node[primary].superReadOnly
          /\ ~node[primary].fenced
      BY <2>1 DEF IsCold
    <3>2. \A m \in S : Holds(m) \subseteq node[primary].executed
      BY <1>1, <2>2, <3>1 DEF Full, Whole, Binlog, Holds, Tidy, Writable
    <3> QED BY <3>1, <3>2 DEF ColdChoice
  <2>4. \/ pc' = "idle"
        \/ pc' = "cold_repoint" /\ to' = primary
    BY <2>1, <2>3 DEF ColdStart
  <2>5. Full(primary)' /\ (to' = primary => Full(to)')
    BY <1>0, <2>1, <2>2 DEF Full, Whole, Binlog
  <2>6. chores # {} => node[primary].source = NoNode
    BY <2>1 DEF HeadInv
  <2> QED BY <1>0, <1>4, <2>1, <2>4, <2>5, <2>6 DEF HeadInv
<1>9. CASE ColdRepointsEnd
  <2>1. /\ pc = "cold_repoint" /\ pc' = "cold_promote"
        /\ UNCHANGED <<primary, to, chores>>
    BY <1>9 DEF ColdRepointsEnd
  <2>2. /\ Full(to)
        /\ primary # NoNode => Full(primary)
        /\ primary # NoNode => to = primary
        /\ chores # {} => node[primary].source = NoNode
    BY <2>1 DEF HeadInv
  <2>3. Full(to)' /\ (primary # NoNode => Full(primary)')
    BY <1>0, <2>1, <2>2 DEF Full, Whole, Binlog
  <2> QED BY <1>0, <1>4, <2>1, <2>2, <2>3 DEF HeadInv
<1>10. CASE BootEnds
  <2>1. /\ pc = "boot_repoint" /\ pc' = "idle"
        /\ UNCHANGED <<primary, chores>>
    BY <1>10 DEF BootEnds
  <2>2. /\ primary # NoNode => Full(primary)
        /\ chores # {} => node[primary].source = NoNode
    BY <2>1 DEF HeadInv
  <2>3. primary # NoNode => Full(primary)'
    BY <1>0, <2>1, <2>2 DEF Full, Whole, Binlog
  <2> QED BY <1>0, <1>4, <2>1, <2>2, <2>3 DEF HeadInv
<1>11. CASE Crash
  <2>1. pc' = "discover" /\ primary' = NoNode /\ chores' = {}
    BY <1>11 DEF Crash
  <2> QED BY <1>4, <2>1 DEF HeadInv
<1> QED BY <1>7, <1>8, <1>9, <1>10, <1>11

(* HeadCall: a call of n leaves full nodes full, and a node that all the   *)
(* others name was named already, or n has come to follow it.              *)
LEMMA HeadCall ==
  ASSUME NEW n \in Node, Shrinks,
         \A m \in Node \ {n} : node'[m] = node[m]
  PROVE  /\ \A h \in Node : Full(h) => Full(h)'
         /\ \A h \in Node : Full(h) /\ primary' = h => Full(primary)'
         /\ \A h \in Node : Full(h) /\ to' = h => Full(to)'
         /\ \A h \in Node : Named(h)' => \/ Named(h)
                                         \/ /\ h # n
                                            /\ node'[n].source = h
                                            /\ node[n].source # h
  BY FullKept DEF Shrinks, Full, Named, Binlog

(* HeadMoves: the steps that move a replica under the node that is         *)
(* promoted.                                                               *)
LEMMA HeadMoves ==
  ASSUME TypeInv, WriterInv, ChoreInv, HeadInv,
         \/ \E n \in Node : Prepare(n) \/ ColdRepoint(n) \/ BootRepoint(n)
         \/ RepointOld
  PROVE  ChoreInv' /\ HeadInv'
<1> USE DEF Stall, Cold, Boot, Preparing
<1>0. /\ FleetTypeOK /\ chores \subseteq Node \X Node
      /\ NoNode \notin Node
      /\ \A m \in Node : Tidy(m) /\ node[m].source # m
  BY DEF TypeInv, TypeOK, WriterInv
<1>1. PICK n \in Node, ok \in BOOLEAN :
        /\ RepointCall(n, to, ok) /\ ~Busy(n)
        /\ UNCHANGED <<primary, to, chores, unchecked>>
        /\ \/ /\ pc \in {"prepare", "cold_repoint", "boot_repoint"}
              /\ pc' = pc /\ n \in todo
           \/ pc = "repoint_old" /\ pc' = "promote" /\ n = primary
  BY DEF Prepare, ColdRepoint, BootRepoint, RepointOld, TypeInv, TypeOK
<1>2. to \in Node \ {n} /\ primary \in Node \cup {NoNode}
  BY <1>1 DEF TypeInv, TypeOK, WriterInv, OrderInv
<1>3. /\ \A m \in Node \ {n} : node'[m] = node[m]
      /\ node'[n].source \in {node[n].source, to}
      /\ \A m \in Node : Writable(m)' => Writable(m)
      /\ Shrinks
  BY <1>0, <1>1, <1>2, RepointKeeps
<1>4. \A c \in chores : c[1] # n
  BY <1>1 DEF Busy
<1>5. ChoreInv'
  <2>1. pc' = "promote" => node'[primary].source \in {NoNode, to}
    BY <1>1, <1>3 DEF WriterInv, OrderInv
  <2> QED BY <1>0, <1>1, <1>3, <1>4, <2>1 DEF ChoreInv
<1> SUFFICES ASSUME ~unchecked PROVE HeadInv'
  BY <1>1, <1>5 DEF HeadInv
<1>6. /\ \A h \in Node : Full(h) => Full(h)'
      /\ \A h \in Node : Full(h) /\ primary' = h => Full(primary)'
      /\ \A h \in Node : Full(h) /\ to' = h => Full(to)'
      /\ \A h \in Node : Named(h)' => \/ Named(h)
                                      \/ /\ h # n
                                         /\ node'[n].source = h
                                         /\ node[n].source # h
  BY <1>3, HeadCall
<1>7. /\ primary # NoNode => Full(primary)
      /\ pc # "prepare" => Full(to)
  <2>1. primary # NoNode => Full(primary)
    BY <1>1 DEF HeadInv
  <2>2. pc \in {"cold_repoint", "repoint_old"} => Full(to)
    BY DEF HeadInv
  <2>3. pc = "boot_repoint" => primary = to
    BY DEF TypeInv, StartOK
  <2> QED BY <1>0, <1>1, <1>2, <2>1, <2>2, <2>3
<1>8. ASSUME NEW h \in Node, Named(h)' PROVE Full(h)'
  <2>1. CASE Named(h)
    BY <1>6, <2>1 DEF HeadInv
  <2>2. CASE h = to /\ pc # "prepare"
    BY <1>6, <1>7, <2>2
  <2>3. CASE pc = "prepare"
    <3>1. /\ primary \in Node /\ primary # n
          /\ node[primary].source = NoNode
      BY <1>1, <1>2, <2>3 DEF WriterInv, OrderInv, TypeInv, TypeOK
    <3>2. h = primary
      BY <1>0, <1>3, <1>8, <3>1 DEF Named
    <3>3. \A p : p = primary => (Full(p) => Full(p)') \/ p \notin Node
      BY <1>6
    <3> QED BY <1>0, <1>6, <1>7, <3>1, <3>2 DEF Full
  <2> QED BY <1>3, <1>6, <1>8, <2>1, <2>2, <2>3
<1>9. ASSUME NEW h \in Node, Writable(h)' PROVE Full(h)'
  BY <1>3, <1>6, <1>9 DEF HeadInv
<1>10. chores # {} /\ pc' # "promote" => node'[primary].source = NoNode
  <2> SUFFICES ASSUME chores # {}, pc' # "promote"
               PROVE  node'[primary].source = NoNode
    OBVIOUS
  <2>1. node[primary].source = NoNode /\ primary \in Node
    BY <1>1, <1>2 DEF HeadInv, WriterInv, OrderInv
  <2>2. n # primary
    <3>1. CASE pc = "prepare"
      BY <1>1, <3>1 DEF WriterInv, OrderInv
    <3>2. CASE pc \in {"cold_repoint", "boot_repoint"}
      BY <1>0, <1>1, <1>2, <2>1, <3>2 DEF HeadInv, TypeInv, StartOK
    <3> QED BY <1>1, <3>1, <3>2
  <2> QED BY <1>3, <2>1, <2>2
<1>11. /\ primary # NoNode => Full(primary)'
       /\ pc # "prepare" => Full(to)'
  BY <1>1, <1>2, <1>6, <1>7
<1>12. pc = "cold_repoint" /\ primary # NoNode => to = primary
  BY DEF HeadInv
<1> QED
  BY <1>1, <1>8, <1>9, <1>10, <1>11, <1>12 DEF HeadInv

(* HeadPromotes: the steps that promote a node, whether they succeed, fail *)
(* or are not answered.                                                    *)
LEMMA HeadPromotes ==
  ASSUME TypeInv, WriterInv, ChoreInv, HeadInv,
         PromoteBack \/ Promote \/ ColdPromote \/ BootPromote
  PROVE  ChoreInv' /\ HeadInv'
<1> USE DEF Stall, Cold, Boot, Preparing
<1>0. /\ FleetTypeOK /\ chores \subseteq Node \X Node
      /\ NoNode \notin Node
      /\ \A m \in Node : Tidy(m) /\ node[m].source # m
      /\ primary \in Node \cup {NoNode}
  BY DEF TypeInv, TypeOK, WriterInv
<1>1. PICK n \in Node, ok \in BOOLEAN :
        /\ PromoteCall(n, ok) /\ UNCHANGED unchecked
        /\ n = IF pc = "back" THEN primary ELSE to
        /\ \/ /\ pc = "back" /\ pc' \in {"idle", "halted"}
              /\ UNCHANGED <<primary, chores>>
           \/ /\ pc = "promote" /\ ok /\ pc' = "idle" /\ primary' = to
              /\ \/ chores' = chores
                 \/ chores' = chores \cup {<<primary, to>>}
           \/ /\ pc = "promote" /\ ~ok /\ pc' = "halted"
              /\ UNCHANGED <<primary, chores>>
           \/ /\ pc = "cold_promote" /\ pc' = "idle" /\ primary' = to
              /\ chores' = chores
           \/ /\ pc = "boot_promote" /\ ok /\ pc' = "boot_repoint"
              /\ primary' = to /\ chores' = chores
           \/ /\ pc = "boot_promote" /\ ~ok /\ pc' = "halted"
              /\ UNCHANGED <<primary, chores>>
  <2>1. /\ pc \in {"promote", "cold_promote", "boot_promote"} => to \in Node
        /\ pc = "back" => primary \in Node
    BY DEF TypeInv, TypeOK
  <2>2. CASE PromoteBack
    BY <2>1, <2>2 DEF PromoteBack
  <2>3. CASE Promote
    BY <2>1, <2>3 DEF Promote
  <2>4. CASE ColdPromote
    BY <2>1, <2>4 DEF ColdPromote
  <2>5. CASE BootPromote
    BY <2>1, <2>5 DEF BootPromote
  <2> QED BY <2>2, <2>3, <2>4, <2>5
<1>2. /\ \A m \in Node \ {n} : node'[m] = node[m]
      /\ node'[n].source \in {node[n].source, NoNode}
      /\ ok => node'[n].source = NoNode
      /\ Shrinks
  BY <1>0, <1>1, PromoteKeeps
<1>3. /\ \A c \in chores : c[1] # n
      /\ NoWriter
  BY <1>1 DEF PromoteCall, Busy, WriterInv
<1>4. /\ pc \in {"back", "promote"} => primary \in Node
      /\ pc = "promote" => primary # to
      /\ pc = "boot_promote" => primary = NoNode /\ chores = {}
      /\ pc = "back" => node[primary].source = NoNode
      /\ \A c \in chores : c[1] # primary
  BY DEF TypeInv, TypeOK, WriterInv, OrderInv
<1>5. ChoreInv'
  <2>1. \A m \in Node \ {n} : ~Writable(m)'
    BY <1>2, <1>3 DEF NoWriter, Writable
  <2>2. pc' # "promote"
    BY <1>1
  <2>3. CASE chores' = chores
    BY <1>0, <1>2, <1>3, <2>1, <2>2, <2>3 DEF ChoreInv
  <2>4. CASE pc = "promote" /\ chores' = chores \cup {<<primary, to>>}
    <3>1. primary \in Node \ {n}
      BY <1>1, <1>4, <2>4
    <3>2. node[primary].source \in {NoNode, to} /\ ~Writable(primary)
      BY <1>3, <2>4, <3>1 DEF ChoreInv, NoWriter
    <3>3. \A c \in chores' : c \in Node \X Node /\ c[1] # n
      BY <1>0, <1>1, <1>3, <2>4, <3>1
    <3>4. \A c \in chores' :
            ~Writable(c[1]) /\ node[c[1]].source \in {NoNode, c[2]}
      BY <2>4, <3>2 DEF ChoreInv
    <3>5. \A c, d \in chores' : c[1] = d[1] => c = d
      BY <1>4, <2>4 DEF ChoreInv
    <3> QED BY <1>2, <2>1, <2>2, <3>3, <3>4, <3>5 DEF ChoreInv
  <2> QED BY <1>1, <2>3, <2>4
<1> SUFFICES ASSUME ~unchecked PROVE HeadInv'
  BY <1>1, <1>5 DEF HeadInv
<1>6. /\ \A h \in Node : Full(h) => Full(h)'
      /\ \A h \in Node : Full(h) /\ primary' = h => Full(primary)'
      /\ \A h \in Node : Named(h)' => \/ Named(h)
                                      \/ /\ h # n
                                         /\ node'[n].source = h
                                         /\ node[n].source # h
  BY <1>2, HeadCall
<1>7. Full(n)
  <2>1. pc = "back" => Full(primary)
    BY <1>0, <1>4 DEF HeadInv
  <2>2. pc \in {"promote", "cold_promote", "boot_promote"} => Full(to)
    BY DEF HeadInv
  <2> QED BY <1>1, <2>1, <2>2
<1>8. ASSUME NEW h \in Node, (Writable(h) \/ Named(h))' PROVE Full(h)'
  <2>1. CASE Writable(h)'
    BY <1>2, <1>3, <1>6, <1>7, <2>1 DEF NoWriter, Writable
  <2>2. CASE Named(h)'
    BY <1>0, <1>2, <1>6, <2>2 DEF HeadInv
  <2> QED BY <1>8, <2>1, <2>2
<1>9. primary' # NoNode /\ pc' # "halted" => Full(primary)'
  <2>1. pc' # "halted" => primary' = n
    BY <1>1
  <2> QED BY <1>6, <1>7, <2>1
<1>10. chores' # {} /\ pc' # "halted" => node'[primary'].source = NoNode
  <2> SUFFICES ASSUME chores' # {}, pc' # "halted"
               PROVE  node'[primary'].source = NoNode
    OBVIOUS
  <2>1. primary' = n
    BY <1>1
  <2>2. CASE pc = "cold_promote"
    <3>1. chores # {}
      BY <1>1, <2>2
    <3>2. primary = to /\ node[primary].source = NoNode
      BY <2>2, <3>1 DEF HeadInv, WriterInv, OrderInv
    <3> QED BY <1>1, <1>2, <2>1, <2>2, <3>2
  <2>3. CASE pc # "cold_promote"
    BY <1>1, <1>2, <1>4, <2>1, <2>3
  <2> QED BY <2>2, <2>3
<1>11. ASSUME pc' = "halted", primary' # NoNode
       PROVE  /\ \A s \in {primary', node'[primary'].source} \ {NoNode} :
                   Backed(s)'
              /\ \A r \in Node : Whole(r)' \subseteq Binlog(primary)'
  <2>1. pc \in {"back", "promote"} /\ primary' = primary /\ primary \in Node
    BY <1>1, <1>4, <1>11
  <2>2. Full(primary)
    BY <2>1 DEF HeadInv
  <2>3. Full(primary)'
    BY <1>6, <2>1, <2>2
  <2>4. node'[primary].source \in {NoNode, n}
    BY <1>1, <1>2, <1>4, <2>1 DEF ChoreInv
  <2>5. \A s \in {primary, n} : Full(s)'
    BY <1>6, <1>7, <2>1, <2>2
  <2> QED BY <2>1, <2>3, <2>4, <2>5 DEF Backed, Full
<1>12. pc' \in {"idle", "halted", "boot_repoint"}
  BY <1>1
<1> QED BY <1>8, <1>9, <1>10, <1>11, <1>12 DEF HeadInv

(* HeadAfter: a background task repoints a former primary. *)
LEMMA HeadAfter ==
  ASSUME TypeInv, WriterInv, ChoreInv, HeadInv, RepointAfter
  PROVE  ChoreInv' /\ HeadInv'
<1> USE DEF Stall, Cold, Boot, Preparing
<1>0. /\ FleetTypeOK /\ chores \subseteq Node \X Node
      /\ NoNode \notin Node
      /\ primary \in Node \cup {NoNode}
  BY DEF TypeInv, TypeOK, WriterInv
<1>1. PICK n \in Node, s \in Node, ok \in BOOLEAN :
        /\ <<n, s>> \in chores /\ chores' = chores \ {<<n, s>>}
        /\ RepointCall(n, s, ok)
        /\ UNCHANGED <<pc, primary, to, known, final, unchecked>>
  <2>1. PICK c \in chores : /\ \E ok \in BOOLEAN : RepointCall(c[1], c[2], ok)
                            /\ chores' = chores \ {c}
    BY DEF RepointAfter
  <2>2. c = <<c[1], c[2]>> /\ c[1] \in Node /\ c[2] \in Node
    BY <1>0
  <2> QED BY <2>1, <2>2 DEF RepointAfter
<1>2. /\ n # s /\ n # primary /\ primary \in Node
      /\ ~Writable(n) /\ node[n].source \in {NoNode, s}
      /\ \A c \in chores' : c \in chores /\ c[1] # n
  <2>1. \A c \in chores : c[1] # c[2] /\ c[1] # primary
    BY DEF WriterInv, OrderInv
  <2>2. primary \in Node
    BY <1>0, <1>1 DEF WriterInv, OrderInv
  <2> QED BY <1>0, <1>1, <2>1, <2>2 DEF ChoreInv
<1>3. /\ \A m \in Node \ {n} : node'[m] = node[m]
      /\ node'[n].source \in {node[n].source, s}
      /\ \A m \in Node : Writable(m)' => Writable(m)
      /\ Shrinks
  BY <1>0, <1>1, RepointKeeps
<1>4. ChoreInv'
  BY <1>0, <1>1, <1>2, <1>3 DEF ChoreInv
<1> SUFFICES ASSUME ~unchecked PROVE HeadInv'
  BY <1>1, <1>4 DEF HeadInv
<1>5. /\ \A h \in Node : Full(h) => Full(h)'
      /\ \A h \in Node : Full(h) /\ primary' = h => Full(primary)'
      /\ \A h \in Node : Full(h) /\ to' = h => Full(to)'
      /\ \A h \in Node : Named(h)' => \/ Named(h)
                                      \/ /\ h # n
                                         /\ node'[n].source = h
                                         /\ node[n].source # h
  BY <1>3, HeadCall
<1>6. ASSUME NEW h \in Node, Named(h)' PROVE Full(h)'
  <2>1. CASE Named(h)
    BY <1>5, <2>1 DEF HeadInv
  <2>2. CASE ~Named(h)
    <3>1. h = s /\ node'[n].source = s
      BY <1>3, <1>5, <1>6, <2>2
    <3>2. Backed(s) => Full(s)
      <4> SUFFICES ASSUME NEW m \in Node \ {s}, node[m].source = NoNode,
                          \A c \in chores : c[1] # m
                   PROVE  FALSE
        BY DEF Backed
      <4>1. m # n
        BY <1>1
      <4> QED BY <1>0, <1>3, <1>6, <3>1, <4>1 DEF Named
    <3>3. Full(s)
      <4>1. CASE primary = s
        BY <1>2, <3>2, <4>1 DEF HeadInv
      <4>2. CASE primary # s
        <5>1. node[primary].source = s
          BY <1>2, <1>3, <1>6, <3>1, <4>2 DEF Named
        <5>2. pc \in {"promote", "halted"}
          BY <1>0, <1>1, <5>1 DEF HeadInv
        <5>3. CASE pc = "promote"
          BY <1>0, <5>1, <5>3 DEF ChoreInv, HeadInv
        <5>4. CASE pc = "halted"
          BY <1>0, <1>2, <3>2, <5>1, <5>4 DEF HeadInv
        <5> QED BY <5>2, <5>3, <5>4
      <4> QED BY <4>1, <4>2
    <3> QED BY <1>5, <3>1, <3>3
  <2> QED BY <2>1, <2>2
<1>7. ASSUME NEW h \in Node, Writable(h)' PROVE Full(h)'
  BY <1>3, <1>5, <1>7 DEF HeadInv
<1>8. pc # "halted" => Full(primary)'
  BY <1>0, <1>1, <1>2, <1>5 DEF HeadInv
<1>9. pc \in {"repoint_old", "promote", "boot_promote"} \cup Cold => Full(to)'
  <2>1. pc \in {"repoint_old", "promote", "boot_promote"} \cup Cold
          => Full(to) /\ to \in Node
    BY DEF HeadInv, TypeInv, TypeOK
  <2> QED BY <1>1, <1>5, <2>1
<1>10. pc = "catch_up" /\ known => \A m \in Node : Whole(m)' \subseteq final
  BY <1>3 DEF HeadInv, Shrinks
<1>11. node'[primary] = node[primary]
  BY <1>2, <1>3
<1>12. ASSUME NEW k \in Node, Backed(k) PROVE Backed(k)'
  <2>1. CASE Full(k)
    BY <1>5, <2>1 DEF Backed
  <2>2. ASSUME NEW m \in Node \ {k}, node[m].source = NoNode,
               \A c \in chores : c[1] # m
        PROVE  Backed(k)'
    <3>1. m # n
      BY <1>1, <2>2
    <3> QED BY <1>2, <1>3, <2>2, <3>1 DEF Backed
  <2> QED BY <1>12, <2>1, <2>2 DEF Backed
<1>13. ASSUME pc = "halted",
              NEW k \in {primary, node'[primary].source} \ {NoNode}
       PROVE  Backed(k)'
  <2>1. k \in Node
    BY <1>0, <1>11, <1>2 DEF FleetTypeOK, NodeState
  <2>2. Backed(k)
    BY <1>0, <1>2, <1>11, <1>13 DEF HeadInv
  <2> QED BY <1>12, <2>1, <2>2
<1>14. ASSUME pc = "halted", NEW r \in Node,
              node'[r].source = primary \/ <<r, primary>> \in chores'
       PROVE  Whole(r)' \subseteq Binlog(primary)'
  <2>1. node[r].source = primary \/ <<r, primary>> \in chores
    BY <1>1, <1>2, <1>3, <1>14
  <2>2. Whole(r) \subseteq Binlog(primary)
    BY <1>0, <1>2, <1>14, <2>1 DEF HeadInv
  <2>3. Binlog(primary)' = Binlog(primary)
    BY <1>1, <1>11 DEF Binlog
  <2> QED BY <1>3, <2>2, <2>3 DEF Shrinks
<1>15. pc \in Cold /\ primary # NoNode => to = primary
  BY DEF HeadInv
<1>16. chores # {} /\ pc \notin {"promote", "halted"}
         => node[primary].source = NoNode
  BY DEF HeadInv
<1> QED
  BY <1>1, <1>6, <1>7, <1>8, <1>9, <1>10, <1>11, <1>13, <1>14, <1>15, <1>16
  DEF HeadInv

(* AckedManager: no step of the manager answers a client, or takes what    *)
(* was answered from a binlog.                                             *)
LEMMA AckedManager ==
  ASSUME TypeInv, WriterInv, AckedInv, SwitchoverStep \/ StartupStep \/ Crash
  PROVE  AckedInv'
<1> USE DEF Stall, Cold, Boot
<1>0. FleetTypeOK /\ NoNode \notin Node /\ chores \subseteq Node \X Node
  BY DEF TypeInv, TypeOK
<1>1. ASSUME acked' = acked, \A m \in Node : Binlog(m) \subseteq Binlog(m)'
      PROVE  AckedInv'
  BY <1>1 DEF AckedInv
<1>2. ASSUME UNCHANGED <<node, acked>> PROVE AckedInv'
  BY <1>1, <1>2 DEF Binlog
<1>3. ASSUME NEW n \in Node, NEW ok, PromoteCall(n, ok) PROVE AckedInv'
  BY <1>0, <1>1, <1>3, PromoteKeeps DEF PromoteCall, Shrinks
<1>4. ASSUME NEW n \in Node, NEW s \in Node, NEW ok, RepointCall(n, s, ok)
      PROVE  AckedInv'
  BY <1>0, <1>1, <1>4, RepointKeeps DEF RepointCall, Shrinks
<1>5. /\ pc \in {"prepare", "repoint_old", "promote"} \cup Cold \cup Boot
           => to \in Node
      /\ pc \in {"back", "repoint_old"} => primary \in Node
  BY DEF TypeInv, TypeOK
<1>6. CASE SwitchoverStep
  <2>1. CASE \/ \E n \in Node : Switchover(n)
             \/ Quiesce \/ Quiesced \/ QuiesceUnreachable
             \/ CatchUp \/ CatchUpFails
    BY <1>2, <2>1 DEF Switchover, Quiesce, Quiesced, QuiesceUnreachable,
                      CatchUp, CatchUpFails, fleetVars
  <2>2. CASE (\E n \in Node : Prepare(n)) \/ RepointOld
    BY <1>4, <1>5, <2>2 DEF Prepare, RepointOld
  <2>3. CASE PromoteBack \/ Promote
    BY <1>3, <1>5, <2>3 DEF PromoteBack, Promote
  <2>4. CASE RepointAfter
    <3>1. PICK c \in chores, ok \in BOOLEAN : RepointCall(c[1], c[2], ok)
      BY <2>4 DEF RepointAfter
    <3>2. c[1] \in Node /\ c[2] \in Node
      BY <1>0
    <3> QED BY <1>4, <3>1, <3>2
  <2> QED BY <1>6, <2>1, <2>2, <2>3, <2>4 DEF SwitchoverStep
<1>7. CASE StartupStep \/ Crash
  <2>1. CASE Discover \/ ColdCheck \/ ColdRepointsEnd \/ BootEnds \/ Crash
    BY <1>2, <2>1 DEF Discover, ColdCheck, ColdRepointsEnd, BootEnds, Crash,
                      fleetVars
  <2>2. CASE \E n \in Node : ColdRepoint(n) \/ BootRepoint(n)
    BY <1>4, <1>5, <2>2 DEF ColdRepoint, BootRepoint
  <2>3. CASE ColdPromote \/ BootPromote
    BY <1>3, <1>5, <2>3 DEF ColdPromote, BootPromote
  <2> QED BY <1>7, <2>1, <2>2, <2>3 DEF StartupStep
<1> QED BY <1>6, <1>7

(* HeadHolds: the invariant of both. *)
LEMMA HeadHolds ==
  ASSUME SmallSet
  PROVE  Spec => [](TypeInv /\ WriterInv /\ ChoreInv /\ HeadInv /\ AckedInv)
<1> DEFINE Rest == ChoreInv /\ HeadInv /\ AckedInv
<1>1. TypeInv /\ WriterInv /\ Rest /\ UNCHANGED vars => Rest'
  <2> SUFFICES ASSUME TypeInv, WriterInv, Rest, UNCHANGED vars PROVE Rest'
    OBVIOUS
  <2>1. UNCHANGED <<mgrVars, unchecked>> /\ UNCHANGED node /\ acked' = acked
    BY DEF vars, fleetVars
  <2>2. Grows
    BY <2>1 DEF Grows, Known, Whole, Binlog
  <2>3. ChoreInv' /\ HeadInv'
    BY <2>1, <2>2, HeadQuiet DEF Writable
  <2> QED BY <2>1, <2>3 DEF AckedInv, Binlog
<1>2. TypeInv /\ WriterInv /\ Rest /\ [Next]_vars => Rest'
  <2> SUFFICES ASSUME TypeInv, WriterInv, Rest, [Next]_vars PROVE Rest'
    OBVIOUS
  <2>1. CASE UNCHANGED vars
    BY <1>1, <2>1
  <2>2. CASE RestartSome \/ \E n \in Node : Environment(n)
    BY <2>2, HeadEnvironment
  <2>3. CASE SwitchoverStep
    <3>1. ChoreInv' /\ HeadInv'
      BY <2>3, HeadSwitchover, HeadMoves, HeadPromotes, HeadAfter
      DEF SwitchoverStep
    <3> QED BY <2>3, <3>1, AckedManager
  <2>4. CASE StartupStep \/ Crash
    <3>1. ChoreInv' /\ HeadInv'
      BY <2>4, HeadStartup, HeadMoves, HeadPromotes DEF StartupStep
    <3> QED BY <2>4, <3>1, AckedManager
  <2> QED BY <2>1, <2>2, <2>3, <2>4 DEF Next
<1>3. Init => Rest
  BY HeadInit
<1>4. Spec => []Rest
  BY WriterHolds, <1>2, <1>3, PTL DEF Spec
<1> QED BY WriterHolds, <1>4, PTL

(* KeptCorrect: in such a set, whoever the manager has for primary between *)
(* its operations has every write that was answered OK, unless a candidate *)
(* was promoted without the final set of the old primary.                  *)
THEOREM KeptCorrect ==
  ASSUME SmallSet
  PROVE  Spec => []Kept
<1>1. TypeInv /\ HeadInv /\ AckedInv => Kept
  <2> SUFFICES ASSUME TypeInv, HeadInv, AckedInv,
                      ~unchecked, pc = "idle", primary # NoNode,
                      NEW t \in acked
               PROVE  t \in Binlog(primary)
    BY DEF Kept
  <2>1. Full(primary)
    BY DEF HeadInv
  <2>2. PICK n \in Node : t \in Binlog(n)
    BY DEF AckedInv
  <2> QED BY <2>1, <2>2 DEF Full, Whole
<1> QED BY HeadHolds, <1>1, PTL

(* ErrantCorrect: nor does a replica hold anything that the primary it     *)
(* follows, or the node the next step promotes, lacks: not even those that *)
(* were moved under the candidate while they were ahead of it.             *)
THEOREM ErrantCorrect ==
  ASSUME SmallSet
  PROVE  Spec => []NoErrantReplica
<1>1. TypeInv /\ HeadInv => NoErrantReplica
  <2> SUFFICES ASSUME TypeInv, HeadInv, ~unchecked, NEW p \in Node,
                      p = primary \/ (pc = "promote" /\ p = to),
                      NEW r \in Node, node[r].source = p
               PROVE  node[r].executed \subseteq Binlog(p)
    BY DEF NoErrantReplica, TypeInv, TypeOK
  <2>1. node[r].executed \subseteq Whole(r) /\ p # NoNode
    BY DEF Whole, Binlog
  <2>2. CASE pc # "halted"
    <3>1. Full(p)
      BY <2>1, <2>2 DEF HeadInv
    <3> QED BY <2>1, <3>1 DEF Full
  <2>3. CASE pc = "halted"
    BY <2>1, <2>3 DEF HeadInv
  <2> QED BY <2>2, <2>3
<1> QED BY HeadHolds, <1>1, PTL
=============================================================================
