------------------------------- MODULE Rejoin -------------------------------
(***************************************************************************)
(* What brings a node back after a failover (dbguard/manager/rejoin.py):   *)
(* one background task per node that fences it, waits until it is          *)
(* quiescent, compares its transactions with the primary's and repoints it *)
(* or has it rebuilt from a donor, one rebuild at a time.  The tasks run   *)
(* without the set's lock, so failovers, clients, replication and each     *)
(* other's calls interleave with every await of theirs.                    *)
(*                                                                         *)
(* A failover is two steps here, the election up to the promotion and the  *)
(* moment the manager adopts the new primary; module Failover has what     *)
(* happens inside.  rejoin: manual and naive mode are left out.            *)
(***************************************************************************)
EXTENDS Fleet

CONSTANTS
    Faults,         \* which of PossibleFaults the environment may inject
    Operator,       \* who serves an operator's request to rejoin a node
    MaxElections,   \* bound: failovers in one behaviour
    MaxAsks,        \* bound: requests of the operator
    MaxFails,       \* bound: calls of rejoin that fail or are given up
    VerifyReads     \* bound: reads of the watch behind a repoint, 10 in the
                    \* code; those that get no answer are not counted

PossibleFaults ==
    {"fence_fails",     \* the fence in front of a rejoin fails, and the
                        \* rejoin goes on
     "mid_rejoin",      \* a failover while a rejoin runs, or one that
                        \* promotes a node whose rejoin waits for the lock
     "busy_node",       \* an operator's rejoin of a node that has a task
     "tail"}            \* a member that a failover could not reach still
                        \* applies or fetches what the former primary wrote

ASSUME RejoinAssumption ==
    /\ Faults \subseteq PossibleFaults
    /\ Operator \notin Node \cup {NoNode}
    /\ MaxElections \in Nat
    /\ MaxAsks \in Nat
    /\ MaxFails \in Nat
    /\ VerifyReads \in Nat \ {0}

VARIABLES
    primary,        \* ctl.primary
    promoted,       \* promoted by the failover that runs, not adopted yet
    elections,      \* failovers so far
    halted,         \* the set waits for an operator
    task,           \* task[n]: n's background task; task[Operator]: the
                    \* rejoin the operator asked for; see Task
    asked,          \* the node of a request that waits for the lock
    asks,           \* requests so far
    maint,          \* the maintenance task: a rebuild, or "none"
    fails           \* calls that failed or were given up

ctlVars == <<primary, promoted, elections, halted, asked, asks>>
vars == <<fleetVars, ctlVars, task, maint, fails>>

Actor == Node \cup {Operator}

TaskStep ==
    {"none", "second", "look", "fence", "quiesce", "again", "compare",
     "repoint", "watch", "watch_primary", "slot"}

Task ==
    [at     : TaskStep,
     node   : Node \cup {NoNode},       \* the node to rejoin
     old    : Node \cup {NoNode},       \* the primary when the task began
     read   : SUBSET Txn,               \* the last gtid_executed it read
     errant : 0 .. 2,                   \* reads in a row that were errant
     reads  : 0 .. VerifyReads]         \* reads of the watch

Maint ==
    [at    : {"none", "unstick", "clone", "join"},
     node  : Node \cup {NoNode},
     donor : Node \cup {NoNode}]

NoTask == [at |-> "none", node |-> NoNode, old |-> NoNode, read |-> {},
           errant |-> 0, reads |-> 0]
NoMaint == [at |-> "none", node |-> NoNode, donor |-> NoNode]

(* What node_busy sees: the node's own task and the maintenance task. *)
Busy(n) == task[n].at # "none" \/ maint.node = n

(* Mutant: the operator's rejoin does not hold the set's lock. *)
LockedNot == promoted # NoNode

(* The operator's rejoin holds the set's lock. *)
Locked == task[Operator].at # "none" \/ promoted # NoNode

(* The lock is fair: a request that waits for it goes before the poll. *)
PollMayAct == ~halted /\ ~Locked /\ asked = NoNode

(* Not a proper replica of the primary. *)
NeedsRejoin(n) ==
    \/ node[n].source # primary
    \/ node[n].ioStopped
    \/ node[n].sql # "on"

SecondWriter(n) == Writable(n) /\ ~node[n].fenced

Init ==
    /\ FleetInit
    /\ primary = InitPrimary
    /\ promoted = NoNode
    /\ elections = 0
    /\ halted = FALSE
    /\ task = [a \in Actor |-> NoTask]
    /\ asked = NoNode
    /\ asks = 0
    /\ maint = NoMaint
    /\ fails = 0

-----------------------------------------------------------------------------
(* A task's steps.                                                         *)

At(a, step) == task[a].at = step
Goes(a, step) == task' = [task EXCEPT ![a].at = step, ![a].read = {}]
Reads(a, step, S) == task' = [task EXCEPT ![a].at = step, ![a].read = S]
Ends(a) == task' = [task EXCEPT ![a] = NoTask]
Begin(step, n) ==
    [NoTask EXCEPT !.at = step, !.node = n, !.old = primary]

(* A call that fails, is given up or gets no answer. *)
Fail == fails < MaxFails /\ fails' = fails + 1

(* What /fence makes of a node.  On one that has just been thawed the SET  *)
(* returns beside sessions that wait, which it kills: see WaiterKilled.    *)
FenceDone(s) == {FencedByKill(s), FencedBySql(s)}

(* rejoin_actions, after a poll and under the set's lock. *)
Spawn(n) ==
    /\ PollMayAct
    /\ n # primary
    /\ ~Busy(n)
    /\ \/ /\ SecondWriter(n)
          /\ task' = [task EXCEPT ![n] = Begin("second", n)]
       \/ /\ ~SecondWriter(n)
          /\ NeedsRejoin(n)
          /\ task' = [task EXCEPT ![n] = Begin("look", n)]
    /\ UNCHANGED <<fleetVars, ctlVars, maint, fails>>

(* The rejoin of n that an operator asked for begins under the lock. *)
OperatorBegins(n) ==
    /\ ~Locked
    /\ "busy_node" \in Faults \/ ~Busy(n)
    /\ task' = [task EXCEPT ![Operator] = Begin("look", n)]

(* An operator asks for a rejoin: the primary is refused, and while the    *)
(* lock is held the request waits for it.                                  *)
Ask(n) ==
    /\ asks < MaxAsks
    /\ asked = NoNode
    /\ n # primary
    /\ "mid_rejoin" \in Faults \/ n # promoted
    /\ asks' = asks + 1
    /\ \/ OperatorBegins(n) /\ UNCHANGED asked
       \/ Locked /\ asked' = n /\ UNCHANGED task
    /\ UNCHANGED <<fleetVars, primary, promoted, elections, halted, maint,
                   fails>>

(* The lock is free; a node or a primary that does not answer ends it. *)
Serve ==
    /\ asked # NoNode
    /\ ~Locked
    /\ asked' = NoNode
    /\ \/ OperatorBegins(asked) /\ UNCHANGED fails
       \/ UNCHANGED task /\ Fail
    /\ UNCHANGED <<fleetVars, primary, promoted, elections, halted, asks,
                   maint>>

FenceSecond(a) == LET n == task[a].node IN
    /\ At(a, "second")
    /\ \/ (\E s \in FenceDone(node[n]) : Becomes(n, s)) /\ UNCHANGED fails
       \/ UNCHANGED node /\ Fail
    /\ Ends(a)
    /\ UNCHANGED <<fencing, nextTxn, relayed, acked, ctlVars, maint>>

(* The node is fenced first when it still looks like a primary. *)
Look(a) == LET n == task[a].node IN
    /\ At(a, "look")
    /\ Goes(a, IF node[n].ssSource \/ node[n].pending # {}
                 THEN "fence" ELSE "quiesce")
    /\ UNCHANGED <<fleetVars, ctlVars, maint, fails>>

Fence(a) == LET n == task[a].node IN
    /\ At(a, "fence")
    /\ \/ (\E s \in FenceDone(node[n]) : Becomes(n, s)) /\ UNCHANGED fails
       \/ "fence_fails" \in Faults /\ UNCHANGED node /\ Fail
    /\ Goes(a, "quiesce")
    /\ UNCHANGED <<fencing, nextTxn, relayed, acked, ctlVars, maint>>

(* Two equal reads without a waiting session. *)
Quiesce(a) == LET s == node[task[a].node] IN
    /\ task[a].at \in {"quiesce", "again"}
    /\ IF s.pending # {} THEN Goes(a, "quiesce")
       ELSE IF At(a, "again") /\ task[a].read = s.executed
              THEN Reads(a, "compare", s.executed)
              ELSE Reads(a, "again", s.executed)
    /\ UNCHANGED <<fleetVars, ctlVars, maint, fails>>

(* The deadline passes: the node is rebuilt, not trusted. *)
QuiesceGivesUp(a) == LET s == node[task[a].node] IN
    /\ task[a].at \in {"quiesce", "again"}
    /\ \/ s.pending # {} /\ UNCHANGED fails
       \/ s.pending = {} /\ Fail
    /\ Goes(a, "slot")
    /\ UNCHANGED <<fleetVars, ctlVars, maint>>

(* The primary is read after the node. *)
Compare(a) ==
    /\ At(a, "compare")
    /\ \/ /\ Goes(a, IF task[a].read \subseteq node[task[a].old].executed
                       THEN "repoint" ELSE "slot")
          /\ UNCHANGED fails
       \/ Ends(a) /\ Fail
    /\ UNCHANGED <<fleetVars, ctlVars, maint>>

(* Behind a repoint the operator's rejoin leaves the watch to a task of    *)
(* the node, unless one runs.                                              *)
WatchBy(a, n) ==
    task' = [b \in Actor |->
               IF b = n /\ (a = n \/ ~Busy(n))
                 THEN [task[a] EXCEPT !.at = "watch"]
               ELSE IF b = a THEN NoTask ELSE task[b]]

(* /repoint to the primary the task began with, whoever is primary now; a  *)
(* node cannot be its own source.  A call that is cut short or whose       *)
(* answer is lost is not watched.                                          *)
Repoint(a) == LET n == task[a].node IN
    /\ At(a, "repoint")
    /\ \/ /\ CanRepoint(n) /\ n # task[a].old
          /\ Becomes(n, Repointed(node[n], task[a].old))
          /\ WatchBy(a, n)
          /\ UNCHANGED fails
       \/ /\ CanRepoint(n) /\ n # task[a].old
          /\ \/ Becomes(n, RepointCut(node[n]))
             \/ Becomes(n, Repointed(node[n], task[a].old))
          /\ Ends(a)
          /\ Fail
       \/ UNCHANGED node /\ Ends(a) /\ Fail
       \/ /\ ~CanRepoint(n) \/ n = task[a].old
          /\ UNCHANGED <<node, fails>>
          /\ Ends(a)
    /\ UNCHANGED <<fencing, nextTxn, relayed, acked, ctlVars, maint>>

(* The watch reads the node first ... *)
Watch(n) ==
    /\ At(n, "watch")
    /\ IF primary # task[n].old \/ task[n].reads = VerifyReads
         THEN Ends(n)
         ELSE Reads(n, "watch_primary", node[n].executed)
    /\ UNCHANGED <<fleetVars, ctlVars, maint, fails>>

(* ... and then the primary.  Errant twice in a row means a rebuild. *)
WatchPrimary(n) ==
    /\ At(n, "watch_primary")
    /\ LET clean == task[n].read \subseteq node[task[n].old].executed
           errant == IF clean THEN 0 ELSE task[n].errant + 1
       IN  task' = [task EXCEPT ![n].at = IF errant = 2 THEN "slot"
                                                        ELSE "watch",
                                ![n].read = {},
                                ![n].errant = errant,
                                ![n].reads = @ + 1]
    /\ UNCHANGED <<fleetVars, ctlVars, maint, fails>>

(* Members that stream from the primary. *)
Streams(d) ==
    /\ node[d].source = primary
    /\ ~node[d].ioStopped
    /\ node[d].sql = "on"

(* Mutant: any other member is a donor. *)
DonorsAny(n) == Node \ {primary, n}

Donors(n) == {d \in Node \ {primary, n} : Streams(d)}

(* The primary is alive, writable and has no semi-sync replica. *)
Stalled ==
    /\ SecondWriter(primary)
    /\ node[primary].ssSource
    /\ \A r \in Node : ~(Streaming(r, primary) /\ node[r].ssReplica)

(* Mutant: no donor of last resort. *)
PickDonorReplica(n) == Donors(n)

(* The donor of last resort is the stalled primary. *)
PickDonor(n) ==
    IF Donors(n) # {} THEN Donors(n)
                      ELSE IF Stalled THEN {primary} ELSE {}

(* The maintenance slot is free and there is a donor. *)
StartRebuild(a) == LET n == task[a].node IN
    /\ At(a, "slot")
    /\ maint = NoMaint
    /\ \E d \in PickDonor(n) :
         maint' = [at |-> IF d = primary THEN "unstick" ELSE "clone",
                   node |-> n, donor |-> d]
    /\ Ends(a)
    /\ UNCHANGED <<fleetVars, ctlVars, fails>>

(* Only the watch waits for the slot as long as it takes. *)
SlotGivesUp(a) ==
    /\ At(a, "slot")
    /\ task[a].errant # 2
    /\ Ends(a)
    /\ \/ /\ maint # NoMaint \/ PickDonor(task[a].node) = {}
          /\ UNCHANGED fails
       \/ Fail
    /\ UNCHANGED <<fleetVars, ctlVars, maint>>

TaskRuns(a) ==
    \/ FenceSecond(a) \/ Look(a) \/ Fence(a) \/ Quiesce(a)
    \/ QuiesceGivesUp(a) \/ Compare(a) \/ Repoint(a) \/ Watch(a)
    \/ WatchPrimary(a) \/ StartRebuild(a) \/ SlotGivesUp(a)

-----------------------------------------------------------------------------
(* rebuild_and_join.                                                       *)

(* A waiting session that is killed commits, unacknowledged. *)
Released(s) == [s EXCEPT !.executed = @ \cup s.pending, !.pending = {}]

(* /unstick until no session waits, or the set halts. *)
Unstick ==
    /\ maint.at = "unstick"
    /\ \/ /\ Becomes(maint.donor, Released(node[maint.donor]))
          /\ maint' = [maint EXCEPT !.at = "clone"]
          /\ UNCHANGED <<halted, fails>>
       \/ /\ UNCHANGED node
          /\ maint' = NoMaint
          /\ halted' = TRUE
          /\ Fail
    /\ UNCHANGED <<fencing, nextTxn, relayed, acked, primary, promoted,
                   elections, asked, asks, task>>

(* The node as /rebuild leaves it: the donor's data, read-only, unattached. *)
Cloned(s, data) ==
    [s EXCEPT !.executed = data, !.pending = {}, !.retrieved = {},
              !.partial = {}, !.source = NoNode, !.ioStopped = FALSE,
              !.sql = "on", !.superReadOnly = TRUE, !.ssSource = FALSE,
              !.ssReplica = FALSE]

(* ... and when the clone failed. *)
CloneFailed(s) ==
    [s EXCEPT !.ioStopped = TRUE, !.superReadOnly = TRUE,
              !.sql = IF @ = "on" THEN "stopped" ELSE @]

Clone ==
    /\ maint.at = "clone"
    /\ LET n == maint.node IN
       \/ /\ Becomes(n, Cloned(node[n], node[maint.donor].executed))
          /\ maint' = [maint EXCEPT !.at = "join"]
          /\ UNCHANGED fails
       \/ /\ \/ UNCHANGED node
             \/ Becomes(n, CloneFailed(node[n]))
             \/ Becomes(n, Cloned(node[n], node[maint.donor].executed))
          /\ maint' = NoMaint
          /\ Fail
    /\ UNCHANGED <<fencing, nextTxn, relayed, acked, ctlVars, task>>

(* The clone is repointed to whoever is primary by then; a node cannot be  *)
(* its own source.                                                         *)
Join ==
    /\ maint.at = "join"
    /\ LET n == maint.node IN
       \/ /\ n # primary
          /\ Becomes(n, Repointed(node[n], primary))
          /\ UNCHANGED fails
       \/ n # primary /\ Becomes(n, RepointCut(node[n])) /\ Fail
       \/ UNCHANGED node /\ Fail
       \/ n = primary /\ UNCHANGED <<node, fails>>
    /\ maint' = NoMaint
    /\ UNCHANGED <<fencing, nextTxn, relayed, acked, ctlVars, task>>

Maintains == Unstick \/ Clone \/ Join

-----------------------------------------------------------------------------
(* The failover around it.                                                 *)

Electing ==
    /\ PollMayAct
    /\ elections < MaxElections
    /\ "mid_rejoin" \in Faults \/ \A n \in Node : ~Busy(n)

(* Fence, stop, choose, catch up, repoint and promote: the members in A    *)
(* answer, those in R are repointed.  A member that answers without being  *)
(* a candidate is left to module Failover.                                 *)
Elect(w) == \E A \in SUBSET (Node \ {primary}) :
    LET views == [n \in Node |-> IF n \in A THEN Status(n)
                                            ELSE UnreachableView]
    IN  /\ Electing
        /\ w \in Winners(views, Candidates(views, A))
        /\ A \subseteq Candidates(views, A)
        /\ node[w].retrieved \subseteq node[w].executed
        /\ \/ "tail" \in Faults
           \/ \A n \in Node \ A : Appliable(n) = {}
        /\ \E R \in SUBSET {n \in A \ {w} : CanRepoint(n)},
              fenced \in {node[primary]} \cup FenceDone(node[primary]) :
             node' = [n \in Node |->
                        IF n = primary THEN fenced
                        ELSE IF n = w THEN Promoted(node[n])
                        ELSE IF n \in R THEN Repointed(node[n], w)
                        ELSE IF n \in A THEN IoStopped(node[n])
                        ELSE node[n]]
        /\ promoted' = w
        /\ elections' = elections + 1
        /\ UNCHANGED <<fencing, nextTxn, relayed, acked, primary, halted,
                       asked, asks, task, maint, fails>>

(* set_primary *)
Adopt ==
    /\ promoted # NoNode
    /\ primary' = promoted
    /\ promoted' = NoNode
    /\ UNCHANGED <<fleetVars, elections, halted, asked, asks, task, maint,
                   fails>>

-----------------------------------------------------------------------------
(* The environment.                                                        *)

InCharge == IF promoted # NoNode THEN promoted ELSE primary

(* A replica that is still attached to a former primary gets nothing from  *)
(* it: its server is dead, cut off, or its restart is held.                *)
Replicate(r) ==
    /\ node[r].source = InCharge \/ "tail" \in Faults
    /\ \E t \in Txn : Receive(r, t)

(* The fence kills the sessions of clients, /unstick those that wait; they *)
(* commit some time after.                                                 *)
WaiterKilled(n) ==
    /\ \/ node[n].fenced
       \/ maint.at = "clone" /\ maint.donor = n
    /\ node[n].pending # {}
    /\ Becomes(n, Released(node[n]))
    /\ UNCHANGED <<fencing, nextTxn, relayed, acked>>

(* A primary or a former one restarts.  Replicas that do are the subject   *)
(* of module Failover; when the last primary does, the set cold-starts.    *)
SourceRestarts(n) ==
    /\ node[n].ssSource
    /\ n # InCharge \/ elections < MaxElections
    /\ Restart(n)

Environment(n) ==
    /\ FleetStep(n) \/ Replicate(n) \/ SourceRestarts(n) \/ WaiterKilled(n)
    /\ UNCHANGED <<ctlVars, task, maint, fails>>

Next ==
    \/ Maintains \/ Adopt \/ Serve
    \/ \E a \in Actor : TaskRuns(a)
    \/ \E n \in Node : Spawn(n) \/ Ask(n) \/ Elect(n) \/ Environment(n)

(* Every await of a task ends, the poll goes on, a failover that has       *)
(* promoted adopts and a free lock is taken.                               *)
Fairness ==
    /\ \A n \in Node : WF_vars(Spawn(n))
    /\ \A a \in Actor : WF_vars(TaskRuns(a))
    /\ WF_vars(Maintains)
    /\ WF_vars(Adopt)
    /\ WF_vars(Serve)

Spec == Init /\ [][Next]_vars /\ Fairness

-----------------------------------------------------------------------------
(* Properties.                                                             *)

TypeOK ==
    /\ FleetTypeOK
    /\ primary \in Node
    /\ promoted \in Node \cup {NoNode}
    /\ elections \in 0 .. MaxElections
    /\ halted \in BOOLEAN
    /\ asked \in Node \cup {NoNode}
    /\ asks \in 0 .. MaxAsks
    /\ task \in [Actor -> Task]
    /\ maint \in Maint
    /\ fails \in 0 .. MaxFails

(* JoinedClean: a node that streams from the primary and that no task      *)
(* watches or is about to rebuild holds nothing the primary does not hold  *)
(* (quiesce, the subset check, verify_after_repoint).                      *)
JoinedClean ==
    promoted = NoNode =>
        \A r \in Node : Streams(r) /\ ~Busy(r) =>
            Holds(r) \ node[r].partial \subseteq Binlog(primary)

(* PrimaryStays: rejoin never fences the node that is the set's primary,   *)
(* nor makes it a replica (rejoin_actions, set_rejoin).                    *)
PrimaryStays ==
    promoted = NoNode =>
        ~node[primary].fenced /\ node[primary].source = NoNode

(* AllJoin: in the end every member replicates from the primary, unless    *)
(* the set waits for an operator.                                          *)
AllJoin ==
    <>[](halted \/ \A n \in Node \ {primary} : ~NeedsRejoin(n) /\ ~Busy(n))
=============================================================================
