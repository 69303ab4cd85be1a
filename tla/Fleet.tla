-------------------------------- MODULE Fleet --------------------------------
(***************************************************************************)
(* The data plane the manager works on: every node's mysqld under GTID     *)
(* semi-synchronous replication (AFTER_SYNC, one replica ack) and the      *)
(* handlers of the agent beside it.  The mysqld part follows the           *)
(* simulation the repository's own tests use (manager/fake.py), the agent  *)
(* part agent/core.py.                                                     *)
(*                                                                         *)
(* A transaction is numbered in commit order.  A write is "pending" while  *)
(* it is in the source's binlog and waits for its ack: replicas may fetch  *)
(* it, gtid_executed does not show it, and crash recovery commits it.      *)
(*                                                                         *)
(* Links, agents and servers may fail at any moment.  A mysqld that is     *)
(* hung, down or cut off takes no step and answers no call, and no step is *)
(* ever obliged to happen, so being down needs no state of its own: what a *)
(* crash changes is what the restarted server has kept and lost.           *)
(***************************************************************************)
EXTENDS Selection

CONSTANTS
    Node,           \* the members of the replica set
    NoNode,         \* no replication source configured
    InitPrimary,    \* the primary of the healthy set every behaviour starts in
    MaxTxn          \* bound: writes clients make in one behaviour

ASSUME FleetAssumption ==
    /\ NoNode \notin Node
    /\ InitPrimary \in Node
    /\ MaxTxn \in Nat

VARIABLES
    node,       \* node[n]: mysqld and the agent's fence flag, see NodeState
    fencing,    \* fencing[n]: a /fence sent to n's agent, and how it ended
    nextTxn,    \* the next write's number
    relayed,    \* writes a semi-sync replica has acknowledged to their source
    acked       \* writes answered OK to a client

fleetVars == <<node, fencing, nextTxn, relayed, acked>>

Txn == 1 .. MaxTxn

FenceStage == {"idle", "sent", "sql", "kill"}

NodeState ==
    [executed      : SUBSET Txn,            \* gtid_executed
     pending       : SUBSET Txn,            \* binlogged, waiting for an ack
     retrieved     : SUBSET Txn,            \* Retrieved_Gtid_Set
     partial       : SUBSET Txn,            \* cut off mid-send, not appliable
     source        : Node \cup {NoNode},
     ioStopped     : BOOLEAN,               \* STOP REPLICA IO_THREAD was run
     sql           : {"on", "stopped", "error"},  \* the SQL thread
     superReadOnly : BOOLEAN,
     ssSource      : BOOLEAN,               \* rpl_semi_sync_source_enabled
     ssReplica     : BOOLEAN,               \* rpl_semi_sync_replica_enabled
     fenced        : BOOLEAN]               \* the agent's fence flag file

Binlog(n) == node[n].executed \cup node[n].pending
Holds(n) == node[n].executed \cup node[n].retrieved
Writable(n) == ~node[n].superReadOnly

(* The first transaction of S, as a set: empty when S is. *)
First(S) == {t \in S : \A u \in S : t <= u}

-----------------------------------------------------------------------------
(* A healthy set: one writable semi-sync source, the rest its replicas. *)

FleetInit ==
    /\ node = [n \in Node |->
         [executed |-> {}, pending |-> {}, retrieved |-> {},
          partial |-> {},
          source |-> IF n = InitPrimary THEN NoNode ELSE InitPrimary,
          ioStopped |-> FALSE, sql |-> "on",
          superReadOnly |-> n # InitPrimary, ssSource |-> n = InitPrimary,
          ssReplica |-> n # InitPrimary, fenced |-> FALSE]]
    /\ fencing = [n \in Node |-> "idle"]
    /\ nextTxn = 1
    /\ relayed = {}
    /\ acked = {}

-----------------------------------------------------------------------------
(* Clients and replication. *)

(* What each statement or server event makes of a node's state. *)
Binlogged(s, t) == [s EXCEPT !.pending = @ \cup {t}]
Committed(s, t) == [s EXCEPT !.pending = @ \ {t}, !.executed = @ \cup {t}]
Relayed(s, t) == [s EXCEPT !.retrieved = @ \cup {t}, !.partial = @ \ {t}]
CutOff(s, t) == [s EXCEPT !.retrieved = @ \cup {t}, !.partial = @ \cup {t}]
Applied(s, t) == [s EXCEPT !.executed = @ \cup {t}]

Becomes(n, s) == node' = [node EXCEPT ![n] = s]

(* A client's session commits on a node that is not read-only.  With       *)
(* semi-sync source on the write waits for an ack, else it is answered at  *)
(* once.  A session opened before the fence flag is not stopped by it.     *)
Commit(n) ==
    /\ Writable(n)
    /\ nextTxn \in Txn
    /\ nextTxn' = nextTxn + 1
    /\ IF node[n].ssSource
         THEN Becomes(n, Binlogged(node[n], nextTxn)) /\ UNCHANGED acked
         ELSE /\ Becomes(n, Applied(node[n], nextTxn))
              /\ acked' = acked \cup {nextTxn}
    /\ UNCHANGED <<fencing, relayed>>

(* What r's IO thread can still fetch from s, in the order of s's binlog. *)
Missing(r, s) == Binlog(s) \ (Holds(r) \ node[r].partial)

Streaming(r, s) ==
    /\ node[r].source = s
    /\ ~node[r].ioStopped

(* A semi-sync replica acknowledges a write its source still waits for. *)
Acknowledges(r, s, t) ==
    t \in node[s].pending /\ node[s].ssSource /\ node[r].ssReplica

(* A replica's IO thread writes the next transaction to its relay log. *)
Receive(r, t) == \E s \in Node :
    /\ Streaming(r, s)
    /\ t \in First(Missing(r, s))
    /\ Becomes(r, Relayed(node[r], t))
    /\ relayed' = IF Acknowledges(r, s, t) THEN relayed \cup {t} ELSE relayed
    /\ UNCHANGED <<fencing, nextTxn, acked>>

(* The link breaks in the middle of a transaction: its GTID is retrieved,  *)
(* it is not acknowledged, and it can be applied only once sent again.     *)
ReceivePartial(r) == \E s \in Node :
    /\ Streaming(r, s)
    /\ \E t \in First(Binlog(s) \ Holds(r)) : Becomes(r, CutOff(node[r], t))
    /\ UNCHANGED <<fencing, nextTxn, relayed, acked>>

(* The applier, which keeps the source's commit order. *)
Appliable(r) == node[r].retrieved \ (node[r].executed \cup node[r].partial)

Apply(r) ==
    /\ node[r].sql = "on"
    /\ \E t \in First(Appliable(r)) : Becomes(r, Applied(node[r], t))
    /\ UNCHANGED <<fencing, nextTxn, relayed, acked>>

(* The ack reaches the source and the client is answered OK. *)
Ack(n, t) ==
    /\ t \in node[n].pending
    /\ t \in relayed
    /\ Becomes(n, Committed(node[n], t))
    /\ acked' = acked \cup {t}
    /\ UNCHANGED <<fencing, nextTxn, relayed>>

-----------------------------------------------------------------------------
(* Failures of mysqld. *)

(* Mutant: a server that boots writable. *)
RestartedWritable(s) ==
    [s EXCEPT !.executed = @ \cup s.pending, !.pending = {},
              !.retrieved = {}, !.partial = {}, !.ioStopped = FALSE,
              !.sql = "on", !.superReadOnly = FALSE, !.ssSource = FALSE,
              !.ssReplica = FALSE]

(* Mutant: crash recovery drops what waits for an ack. *)
RestartedWithoutTail(s) ==
    [s EXCEPT !.pending = {},
              !.retrieved = {}, !.partial = {}, !.ioStopped = FALSE,
              !.sql = "on", !.superReadOnly = TRUE, !.ssSource = FALSE,
              !.ssReplica = FALSE]

(* A crashed or killed mysqld is back: read-only, semi-sync off.  Crash    *)
(* recovery commits the pending writes, relay_log_recovery discards the    *)
(* relay log, and the replica threads start by themselves.                 *)
Restarted(s) ==
    [s EXCEPT !.executed = @ \cup s.pending, !.pending = {},
              !.retrieved = {}, !.partial = {}, !.ioStopped = FALSE,
              !.sql = "on", !.superReadOnly = TRUE, !.ssSource = FALSE,
              !.ssReplica = FALSE]

Restart(n) ==
    /\ Becomes(n, Restarted(node[n]))
    /\ UNCHANGED <<fencing, nextTxn, relayed, acked>>

SqlFailed(s) == [s EXCEPT !.sql = "error"]

(* The applier stops on an event it cannot apply. *)
SqlError(n) ==
    /\ Appliable(n) # {}
    /\ node[n].sql = "on"
    /\ Becomes(n, SqlFailed(node[n]))
    /\ UNCHANGED <<fencing, nextTxn, relayed, acked>>

-----------------------------------------------------------------------------
(* The agent's handlers.  Those of the manager's calls are operators on    *)
(* the node's state; the manager's module composes them with its own.      *)

ReplicaOn(s) == [s EXCEPT !.ssReplica = TRUE]

(* /configure after a restart: semi-sync replica on for a read-only node. *)
Reassert(n) ==
    /\ node[n].superReadOnly
    /\ ~node[n].ssSource /\ ~node[n].ssReplica
    /\ Becomes(n, ReplicaOn(node[n]))
    /\ UNCHANGED <<fencing, nextTxn, relayed, acked>>

(* /status, when it answers. *)
Status(n) ==
    [reachable |-> TRUE, responsive |-> TRUE,
     configured |-> node[n].source # NoNode,
     sqlError |-> node[n].sql = "error", sqlStopped |-> node[n].sql # "on",
     ssReplica |-> node[n].ssReplica,
     executed |-> node[n].executed, retrieved |-> node[n].retrieved]

FencedBySql(s) == [s EXCEPT !.fenced = TRUE, !.superReadOnly = TRUE]
FencedByKill(s) == [Restarted(s) EXCEPT !.fenced = TRUE]

(* /fence whose SET super_read_only=1 returns, which it does only when no  *)
(* session waits for an ack.                                               *)
FenceBySql(n) ==
    /\ fencing[n] = "sent"
    /\ node[n].pending = {}
    /\ Becomes(n, FencedBySql(node[n]))
    /\ fencing' = [fencing EXCEPT ![n] = "sql"]
    /\ UNCHANGED <<nextTxn, relayed, acked>>

(* /fence whose SET does not return in time: mysqld is killed, and its     *)
(* restart held back for a while.                                          *)
FenceByKill(n) ==
    /\ fencing[n] = "sent"
    /\ Becomes(n, FencedByKill(node[n]))
    /\ fencing' = [fencing EXCEPT ![n] = "kill"]
    /\ UNCHANGED <<nextTxn, relayed, acked>>

IoStopped(s) == [s EXCEPT !.ioStopped = TRUE]

(* /promote cut short before its last statement. *)
PromotedReadOnly(s) ==
    [s EXCEPT !.source = NoNode, !.retrieved = {}, !.partial = {},
              !.ioStopped = FALSE, !.sql = "on",
              !.ssReplica = FALSE, !.ssSource = TRUE]

(* ... and a whole one: the node is writable and its fence flag cleared. *)
Promoted(s) ==
    [PromotedReadOnly(s) EXCEPT !.superReadOnly = FALSE, !.fenced = FALSE]

(* /repoint cut short behind STOP REPLICA and the read-only SET. *)
RepointCut(s) ==
    [s EXCEPT !.ioStopped = TRUE, !.superReadOnly = TRUE,
              !.sql = IF @ = "on" THEN "stopped" ELSE @]

(* ... and a whole one to "to". *)
Repointed(s, to) ==
    [s EXCEPT !.source = to, !.retrieved = {}, !.partial = {},
              !.ioStopped = FALSE, !.sql = "on", !.ssReplica = TRUE,
              !.ssSource = FALSE, !.superReadOnly = TRUE]

(* SET super_read_only=1 waits for the sessions that wait for an ack. *)
CanRepoint(n) == node[n].pending = {}

-----------------------------------------------------------------------------
(* What happens without the manager.                                       *)

FleetStep(n) ==
    \/ Commit(n)
    \/ Apply(n)
    \/ \E t \in Txn : Ack(n, t)
    \/ Reassert(n)
    \/ FenceBySql(n)
    \/ FenceByKill(n)

FleetTypeOK ==
    /\ node \in [Node -> NodeState]
    /\ fencing \in [Node -> FenceStage]
    /\ nextTxn \in 1 .. MaxTxn + 1
    /\ relayed \subseteq Txn
    /\ acked \subseteq Txn
=============================================================================
