------------------------------ MODULE Failover ------------------------------
(***************************************************************************)
(* Automatic failover in dbguard mode (dbguard/manager/failover.py) run    *)
(* against the data plane of Fleet: the fence runs concurrently with       *)
(* stopping the replicas' IO threads, reading fresh views, choosing a      *)
(* winner, waiting for it to catch up and repointing the others; promotion *)
(* waits for the fence.  Each call to a node is a step of its own, so      *)
(* clients, replication, crashes and the fence interleave with all of it.  *)
(*                                                                         *)
(* Detection is not modelled here: a failover may start at any time, also  *)
(* when the primary is alive and still reachable by its clients and        *)
(* replicas, which is what a partition between it and the manager is.      *)
(*                                                                         *)
(* lost, cutoff and unfenced are history variables the properties use.     *)
(***************************************************************************)
EXTENDS Fleet

CONSTANTS
    Faults,         \* which of PossibleFaults the environment may inject
    MaxFailovers    \* bound: failovers in one behaviour

PossibleFaults ==
    {"fence_unreachable",   \* the /fence call ends without an answer
     "failed_stop_answers", \* a replica on which STOP REPLICA IO_THREAD failed
                            \* answers the fresh /status
     "stale_view",          \* a node unusable at the last poll answers the
                            \* fresh /status
     "partial_relay",       \* a stream is cut in the middle of a transaction
     "sql_error",           \* an applier stops on an error
     "replica_restart",     \* a replica restarts between failovers
     "restart_in_run"}      \* a replica restarts during a failover, or after
                            \* one that left its IO thread stopped

ASSUME FailoverAssumption ==
    /\ Faults \subseteq PossibleFaults
    /\ MaxFailovers \in Nat

VARIABLES
    pc,             \* the step the failover run is at, "idle" between runs
    primary,        \* ctl.primary
    winner,         \* the chosen replica, NoNode before
    fenceTask,      \* the background fence: none, running, or its outcome
    polled,         \* nodes usable in the last observation before the run
    todo,           \* nodes the current parallel step has not finished with
    stopFailed,     \* nodes on which STOP REPLICA IO_THREAD failed
    views,          \* the fresh views of this run
    failovers,      \* failovers_total
    lost,           \* acknowledged writes no replica that answered held when a
                    \* winner was chosen, or acknowledged after that by one
                    \* that had not answered: a second failure
    cutoff,         \* replicas that did not answer then, until repointed
    unfenced        \* old primaries whose fence was given up on

mgrVars == <<pc, primary, winner, fenceTask, polled, todo, stopFailed, views,
             failovers>>
histVars == <<lost, cutoff, unfenced>>
vars == <<fleetVars, mgrVars, histVars>>

Steps == {"idle", "stop_io", "fence_wait", "view", "choose", "catch_up",
          "repoint", "await_fence", "promote", "record", "halting", "halted"}

Chosen == {"catch_up", "repoint", "await_fence", "promote"}

FenceOutcome == {"sql", "kill", "unreachable"}

Others == Node \ {primary}
NoViews == [n \in Node |-> UnreachableView]
Durable(n) == Holds(n) \ node[n].partial
FenceDone == fenceTask \in FenceOutcome

Init ==
    /\ FleetInit
    /\ pc = "idle"
    /\ primary = InitPrimary
    /\ winner = NoNode
    /\ fenceTask = "none"
    /\ polled = {}
    /\ todo = {}
    /\ stopFailed = {}
    /\ views = NoViews
    /\ failovers = 0
    /\ lost = {}
    /\ cutoff = {}
    /\ unfenced = {}

-----------------------------------------------------------------------------
(* The manager.                                                            *)

(* Enter FAILING_OVER, start the fence in the background and stop the IO   *)
(* threads of the configured replicas the last poll found usable.          *)
Start ==
    /\ pc = "idle"
    /\ failovers < MaxFailovers
    /\ pc' = "stop_io"
    /\ fenceTask' = "running"
    /\ fencing' = [fencing EXCEPT ![primary] = "sent"]
    /\ \E P \in SUBSET Others :
         /\ polled' = P
         /\ todo' = {n \in P : node[n].source # NoNode}
    /\ UNCHANGED <<node, nextTxn, relayed, acked, primary, winner, stopFailed,
                   views, failovers, histVars>>

(* Mutant: a stopped IO thread that keeps receiving. *)
StopIoNothing(n) ==
    /\ pc = "stop_io"
    /\ n \in todo
    /\ todo' = todo \ {n}
    /\ UNCHANGED <<fleetVars, pc, primary, winner, fenceTask, polled,
                   stopFailed, views, failovers, histVars>>

StopIo(n) ==
    /\ pc = "stop_io"
    /\ n \in todo
    /\ todo' = todo \ {n}
    /\ Becomes(n, IoStopped(node[n]))
    /\ UNCHANGED <<fencing, nextTxn, relayed, acked, pc, primary, winner,
                   fenceTask, polled, stopFailed, views, failovers, histVars>>

StopIoFails(n) ==
    /\ pc = "stop_io"
    /\ n \in todo
    /\ todo' = todo \ {n}
    /\ stopFailed' = stopFailed \cup {n}
    /\ UNCHANGED <<fleetVars, pc, primary, winner, fenceTask, polled, views,
                   failovers, histVars>>

StopIoEnds ==
    /\ pc = "stop_io"
    /\ todo = {}
    /\ IF stopFailed = {}
         THEN pc' = "view" /\ todo' = Others
         ELSE pc' = "fence_wait" /\ todo' = {}
    /\ UNCHANGED <<fleetVars, primary, winner, fenceTask, polled, stopFailed,
                   views, failovers, histVars>>

(* Mutant: the fence is not awaited after a failed stop. *)
FenceWaitNot ==
    /\ pc = "fence_wait"
    /\ pc' = "view"
    /\ todo' = Others
    /\ UNCHANGED <<fleetVars, primary, winner, fenceTask, polled, stopFailed,
                   views, failovers, histVars>>

(* A replica may still take writes from a live old primary, so the fence   *)
(* is awaited before choosing.                                             *)
FenceWaitEnds ==
    /\ pc = "fence_wait"
    /\ FenceDone
    /\ pc' = "view"
    /\ todo' = Others
    /\ UNCHANGED <<fleetVars, primary, winner, fenceTask, polled, stopFailed,
                   views, failovers, histVars>>

(* The background fence gets its answer, or gives up. *)
FenceAnswers ==
    /\ fenceTask = "running"
    /\ fencing[primary] \in {"sql", "kill"}
    /\ fenceTask' = fencing[primary]
    /\ UNCHANGED <<fleetVars, pc, primary, winner, polled, todo, stopFailed,
                   views, failovers, histVars>>

FenceGivesUp ==
    /\ fenceTask = "running"
    /\ "fence_unreachable" \in Faults
    /\ fenceTask' = "unreachable"
    /\ unfenced' = unfenced \cup {primary}
    /\ UNCHANGED <<fleetVars, pc, primary, winner, polled, todo, stopFailed,
                   views, failovers, lost, cutoff>>

(* What the environment allows of a node that did not answer before. *)
MayAnswer(n) ==
    /\ n \in polled \/ "stale_view" \in Faults
    /\ n \notin stopFailed \/ "failed_stop_answers" \in Faults

(* One /status of fresh_views, answered or not. *)
View(n) ==
    /\ pc = "view"
    /\ n \in todo
    /\ todo' = todo \ {n}
    /\ \E answered \in BOOLEAN :
         /\ answered => MayAnswer(n)
         /\ views' = [views EXCEPT ![n] = IF answered THEN Status(n)
                                                      ELSE UnreachableView]
    /\ UNCHANGED <<fleetVars, pc, primary, winner, fenceTask, polled,
                   stopFailed, failovers, histVars>>

ViewsEnd ==
    /\ pc = "view"
    /\ todo = {}
    /\ pc' = "choose"
    /\ polled' = {}
    /\ stopFailed' = {}
    /\ UNCHANGED <<fleetVars, primary, winner, fenceTask, todo, views,
                   failovers, histVars>>

Answered == {n \in Others : Usable(views[n])}

(* Step 3.  A winner, or the set halts once the fence is collected. *)
Choose(w) ==
    /\ pc = "choose"
    /\ w \in Winners(views, Candidates(views, Others))
    /\ lost' = lost \cup {t \in relayed :
                            \A n \in Answered : t \notin Durable(n)}
    /\ cutoff' = cutoff \cup (Others \ Answered)
    /\ winner' = w
    /\ pc' = "catch_up"
    /\ UNCHANGED <<fleetVars, primary, fenceTask, polled, todo, stopFailed,
                   views, failovers, unfenced>>

ChooseNone ==
    /\ pc = "choose"
    /\ Winners(views, Candidates(views, Others)) = {}
    /\ pc' = "halting"
    /\ UNCHANGED <<fleetVars, primary, winner, fenceTask, polled, todo,
                   stopFailed, views, failovers, histVars>>

(* wait_caught_up: the relay log is applied or, with the IO thread not     *)
(* connected, what is left of it is a partial transaction and the SQL      *)
(* thread has read all the rest.                                           *)
CaughtUp(n) ==
    /\ node[n].sql # "error"
    /\ \/ node[n].retrieved \subseteq node[n].executed
       \/ node[n].sql = "on" /\ Appliable(n) = {}

CatchUp ==
    /\ pc = "catch_up"
    /\ CaughtUp(winner)
    /\ pc' = "repoint"
    /\ todo' = Answered \ {winner}
    /\ UNCHANGED <<fleetVars, primary, winner, fenceTask, polled, stopFailed,
                   views, failovers, histVars>>

(* Mutant: no deadline. *)
CatchUpNeverFails ==
    /\ pc = "catch_up"
    /\ node[winner].sql = "error"
    /\ pc' = "halting"
    /\ UNCHANGED <<fleetVars, primary, winner, fenceTask, polled, todo,
                   stopFailed, views, failovers, histVars>>

(* The deadline passed, or the SQL thread stopped on an error. *)
CatchUpFails ==
    /\ pc = "catch_up"
    /\ pc' = "halting"
    /\ UNCHANGED <<fleetVars, primary, winner, fenceTask, polled, todo,
                   stopFailed, views, failovers, histVars>>

(* Step 5, one target.  A failed call may have been cut short, or done     *)
(* with its answer lost; rejoin retries it later.                          *)
Repoint(n) ==
    /\ pc = "repoint"
    /\ n \in todo
    /\ CanRepoint(n)
    /\ \/ Becomes(n, Repointed(node[n], winner)) /\ cutoff' = cutoff \ {n}
       \/ Becomes(n, RepointCut(node[n])) /\ UNCHANGED cutoff
    /\ todo' = todo \ {n}
    /\ UNCHANGED <<fencing, nextTxn, relayed, acked, pc, primary, winner,
                   fenceTask, polled, stopFailed, views, failovers, lost,
                   unfenced>>

RepointFails(n) ==
    /\ pc = "repoint"
    /\ n \in todo
    /\ todo' = todo \ {n}
    /\ UNCHANGED <<fleetVars, pc, primary, winner, fenceTask, polled,
                   stopFailed, views, failovers, histVars>>

RepointsEnd ==
    /\ pc = "repoint"
    /\ todo = {}
    /\ pc' = "await_fence"
    /\ UNCHANGED <<fleetVars, primary, winner, fenceTask, polled, todo,
                   stopFailed, views, failovers, histVars>>

(* Mutant: promotion does not wait for the fence. *)
AwaitFenceNot ==
    /\ pc = "await_fence"
    /\ pc' = "promote"
    /\ UNCHANGED <<fleetVars, primary, winner, fenceTask, polled, todo,
                   stopFailed, views, failovers, histVars>>

(* Nothing becomes writable until the fence has finished or given up. *)
AwaitFence ==
    /\ pc = "await_fence"
    /\ FenceDone
    /\ pc' = "promote"
    /\ UNCHANGED <<fleetVars, primary, winner, fenceTask, polled, todo,
                   stopFailed, views, failovers, histVars>>

(* Step 6. *)
Promote ==
    /\ pc = "promote"
    /\ Becomes(winner, Promoted(node[winner]))
    /\ primary' = winner
    /\ pc' = "record"
    /\ UNCHANGED <<fencing, nextTxn, relayed, acked, winner, fenceTask, polled,
                   todo, stopFailed, views, failovers, histVars>>

(* The promote failed: no effect, cut short, or done with its answer lost. *)
PromoteFails ==
    /\ pc = "promote"
    /\ \/ UNCHANGED node
       \/ Becomes(winner, PromotedReadOnly(node[winner]))
       \/ Becomes(winner, Promoted(node[winner]))
    /\ pc' = "halted"
    /\ UNCHANGED <<fencing, nextTxn, relayed, acked, primary, winner,
                   fenceTask, polled, todo, stopFailed, views, failovers,
                   histVars>>

(* Mutant: the run's winner outlives the run. *)
RecordKeepsWinner ==
    /\ pc = "record"
    /\ pc' = "idle"
    /\ failovers' = failovers + 1
    /\ fenceTask' = "none"
    /\ views' = NoViews
    /\ UNCHANGED <<fleetVars, primary, winner, polled, todo, stopFailed,
                   histVars>>

(* Step 7: DEGRADED, the run is over and its state is gone. *)
Record ==
    /\ pc = "record"
    /\ pc' = "idle"
    /\ failovers' = failovers + 1
    /\ winner' = NoNode
    /\ fenceTask' = "none"
    /\ views' = NoViews
    /\ UNCHANGED <<fleetVars, primary, polled, todo, stopFailed, histVars>>

(* A halted run collects the fence before it records the event. *)
Halt ==
    /\ pc = "halting"
    /\ FenceDone
    /\ pc' = "halted"
    /\ UNCHANGED <<fleetVars, primary, winner, fenceTask, polled, todo,
                   stopFailed, views, failovers, histVars>>

ManagerStep ==
    \/ StopIoEnds \/ FenceWaitEnds \/ FenceAnswers \/ FenceGivesUp
    \/ \E n \in Node : StopIo(n) \/ StopIoFails(n) \/ View(n)
    \/ ViewsEnd \/ ChooseNone \/ CatchUp \/ CatchUpFails
    \/ \E n \in Node : Choose(n) \/ Repoint(n) \/ RepointFails(n)
    \/ RepointsEnd \/ AwaitFence \/ Promote \/ PromoteFails \/ Record \/ Halt

-----------------------------------------------------------------------------
(* The environment.                                                        *)

(* Replication, noting the writes only a cut-off replica acknowledged. *)
Replicate(r) == \E t \in Txn :
    /\ Receive(r, t)
    /\ lost' = IF r \in cutoff /\ t \notin relayed /\ t \in relayed'
                 THEN lost \cup {t} ELSE lost
    /\ UNCHANGED <<mgrVars, cutoff, unfenced>>

(* The primary restarts, or a replica between failovers. *)
RestartOutside(n) ==
    /\ n = primary \/ /\ "replica_restart" \in Faults
                      /\ pc = "idle"
                      /\ ~node[n].ioStopped
    /\ Restart(n)
    /\ UNCHANGED <<mgrVars, histVars>>

(* A replica restarts where its relay log may be all that is left: what no *)
(* other replica holds is lost with two failures.                          *)
RestartInRun(n) ==
    /\ "restart_in_run" \in Faults
    /\ n # primary
    /\ pc # "idle" \/ node[n].ioStopped
    /\ Restart(n)
    /\ lost' = lost \cup {t \in relayed :
                            \A m \in Others : t \notin Durable(m)'}
    /\ UNCHANGED <<mgrVars, cutoff, unfenced>>

Environment(n) ==
    \/ FleetStep(n) /\ UNCHANGED <<mgrVars, histVars>>
    \/ RestartOutside(n)
    \/ RestartInRun(n)
    \/ /\ "partial_relay" \in Faults
       /\ ReceivePartial(n)
       /\ UNCHANGED <<mgrVars, histVars>>
    \/ /\ "sql_error" \in Faults
       /\ SqlError(n)
       /\ UNCHANGED <<mgrVars, histVars>>
    \/ Replicate(n)

Next == Start \/ ManagerStep \/ \E n \in Node : Environment(n)

(* Every step of the manager is bounded by a deadline or a timeout of its  *)
(* own, so a run that can take a step takes one.  Nothing is assumed of    *)
(* clients, replication, agents or mysqld.                                 *)
Fairness == WF_vars(ManagerStep)

Spec == Init /\ [][Next]_vars /\ Fairness

-----------------------------------------------------------------------------
(* Properties.                                                             *)

InCharge == pc \in {"idle", "record"}

(* TypeOK: every variable has its type; a winner exists exactly from the   *)
(* choice on, and a run keeps nothing of its own once it is over.          *)
TypeOK ==
    /\ FleetTypeOK
    /\ pc \in Steps
    /\ primary \in Node
    /\ winner \in Node \cup {NoNode}
    /\ fenceTask \in {"none", "running"} \cup FenceOutcome
    /\ polled \subseteq Node
    /\ todo \subseteq Node
    /\ stopFailed \subseteq Node
    /\ views \in [Node -> NodeView(Txn)]
    /\ failovers \in Nat
    /\ lost \subseteq Txn
    /\ cutoff \subseteq Node
    /\ unfenced \subseteq Node
    /\ pc \in Chosen \cup {"record"} => winner \in Node
    /\ pc = "idle" => winner = NoNode /\ fenceTask = "none"

(* Lossless: between and after failovers every write that was answered OK  *)
(* is in the binlog of the set's primary, unless no replica that answered  *)
(* held it when the winner was chosen (choose, catch_up, promote).         *)
Lossless == InCharge => acked \ lost \subseteq Binlog(primary)

Log == INSTANCE LosslessLog
         WITH Nobody <- NoNode, Write <- Txn,
              owner <- IF InCharge THEN primary ELSE NoNode,
              log <- Binlog(primary), answered <- acked \ lost

(* LosslessLog: failover implements the abstract log.  On top of Lossless, *)
(* a primary in charge forgets nothing it has accepted, whatever restarts, *)
(* and no primary takes over from one that is still in charge (failover,   *)
(* SetController.set_primary, crash recovery).                             *)
LosslessLog == Log!Spec

(* SingleWriter: two nodes are writable at once only when one of them is   *)
(* an old primary whose fence was given up on (await_fence_before_promote).*)
SingleWriter ==
    \A m, n \in Node :
        Writable(m) /\ Writable(n) => m = n \/ m \in unfenced \/ n \in unfenced

(* NoErrantReplica: whatever replicates from the primary, or from a winner *)
(* about to be promoted, holds a subset of what its source holds, which is *)
(* what repoint assumes of the nodes it attaches.                          *)
NoErrantReplica ==
    \A p \in {primary, winner} \ {NoNode} : \A r \in Node :
        node[r].source = p => Durable(r) \subseteq Binlog(p)

(* NoFalseHalt: replicas fed by one primary form a chain, so the subset    *)
(* check of choose never halts the set when there is a candidate.          *)
NoFalseHalt ==
    pc = "choose" =>
        LET cands == Candidates(views, Others)
        IN  cands # {} => Winners(views, cands) # {}

(* StoppedOrFenced: no candidate may still receive from an old primary     *)
(* whose fence has not ended when a winner has been chosen                 *)
(* (fence_and_stop_io).                                                    *)
StoppedOrFenced ==
    pc = "catch_up" /\ ~FenceDone =>
        \A c \in Candidates(views, Others) : node[c].ioStopped

(* FailoverEnds: a failover run ends, promoted or halted.                  *)
FailoverEnds == pc = "stop_io" ~> pc \in {"idle", "halted"}
=============================================================================
