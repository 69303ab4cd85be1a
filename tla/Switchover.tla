----------------------------- MODULE Switchover -----------------------------
(***************************************************************************)
(* Planned switchover (dbguard/manager/switchover.py) and what a manager   *)
(* does that has just started (bootstrap.py: discovery, cold start and the *)
(* bootstrap of a brand-new set), run against the data plane of Fleet.     *)
(* The manager may crash before and after any of its calls, so a new one   *)
(* finds every set a half-done switchover leaves behind.                   *)
(*                                                                         *)
(* Failover and rejoin are not composed here: a set that only they bring   *)
(* forward stays as it is.  The order of the nodes, which breaks ties, is  *)
(* left open.  A poll reads the nodes that answer it in one step; what it  *)
(* saw may be out of date in every later step.                             *)
(***************************************************************************)
EXTENDS Fleet

CONSTANTS
    Faults,             \* which of PossibleFaults the environment may inject
    MaxSwitchovers,     \* bound: switchovers in one behaviour
    MaxCrashes,         \* bound: crashes of the manager in one behaviour
    MaxRestarts         \* bound: times mysqlds restart in one behaviour

(* The /fence call ends without an answer. *)
PossibleFaults == {"fence_unreachable"}

ASSUME SwitchoverAssumption ==
    /\ Faults \subseteq PossibleFaults
    /\ MaxSwitchovers \in Nat
    /\ MaxCrashes \in Nat
    /\ MaxRestarts \in Nat

VARIABLES
    pc,             \* the step the manager is at, "idle" between operations
    primary,        \* ctl.primary, NoNode for None
    to,             \* the node being promoted, NoNode between operations
    todo,           \* nodes the current parallel step has not finished with
    moved,          \* replicas repointed under the candidate before the stall
    attached,       \* one of them streamed from it in time
    known,          \* the fence answered the final gtid_executed ...
    final,          \* ... which is this
    chores,         \* <<former primary, source>>: repoints left to background
                    \* tasks
    coldSeen,       \* consecutive polls that looked like a cold start
    switchovers,
    crashes,
    restarts,
    unchecked       \* history: a candidate counted as caught up although the
                    \* final set of the old primary was not known

mgrVars == <<pc, primary, to, todo, moved, attached, known, final, chores,
             coldSeen, switchovers, crashes>>
vars == <<fleetVars, mgrVars, restarts, unchecked>>

Stall == {"quiesce", "catch_up", "back", "repoint_old", "promote"}
Cold == {"cold_repoint", "cold_promote"}
Boot == {"boot_promote", "boot_repoint"}
Steps == {"idle", "discover", "halted", "prepare"} \cup Stall \cup Cold
         \cup Boot

(* mysqld as the image's first start leaves it. *)
NewNode ==
    [executed |-> {}, pending |-> {}, retrieved |-> {}, partial |-> {},
     source |-> NoNode, ioStopped |-> FALSE, sql |-> "on",
     superReadOnly |-> TRUE, ssSource |-> FALSE, ssReplica |-> FALSE,
     fenced |-> FALSE]

(* The manager watches a healthy set, or has just started beside a new one. *)
Init ==
    /\ \/ FleetInit /\ pc = "idle" /\ primary = InitPrimary
       \/ /\ node = [n \in Node |-> NewNode]
          /\ fencing = [n \in Node |-> "idle"]
          /\ nextTxn = 1 /\ relayed = {} /\ acked = {}
          /\ pc = "discover" /\ primary = NoNode
    /\ to = NoNode
    /\ todo = {} /\ moved = {} /\ attached = FALSE
    /\ known = FALSE /\ final = {}
    /\ chores = {} /\ coldSeen = 0
    /\ switchovers = 0 /\ crashes = 0 /\ restarts = 0
    /\ unchecked = FALSE

-----------------------------------------------------------------------------
(* What the manager sees of the nodes that answer, and the calls it makes. *)

AcceptsWrites(n) == Writable(n) /\ ~node[n].fenced
Configured(n) == node[n].source # NoNode

(* The run is over: its variables are gone. *)
Over ==
    /\ to' = NoNode
    /\ todo' = {} /\ moved' = {} /\ attached' = FALSE
    /\ known' = FALSE /\ final' = {}

(* An agent changes its node's role one call after the other, so a call    *)
(* waits for the background task's, which was sent before.                 *)
Busy(n) == \E c \in chores : c[1] = n

(* A /repoint of n: done, cut short, without effect, or done and not       *)
(* answered.  "repointed" says which of them the manager was told of.      *)
RepointCall(n, source, repointed) ==
    /\ CanRepoint(n)
    /\ \/ repointed /\ Becomes(n, Repointed(node[n], source))
       \/ ~repointed /\ \/ UNCHANGED node
                        \/ Becomes(n, RepointCut(node[n]))
                        \/ Becomes(n, Repointed(node[n], source))
    /\ UNCHANGED <<fencing, nextTxn, relayed, acked>>

PromoteCall(n, promoted) ==
    /\ ~Busy(n)
    /\ \/ promoted /\ Becomes(n, Promoted(node[n]))
       \/ ~promoted /\ \/ UNCHANGED node
                       \/ Becomes(n, PromotedReadOnly(node[n]))
                       \/ Becomes(n, Promoted(node[n]))
    /\ UNCHANGED <<fencing, nextTxn, relayed, acked>>

-----------------------------------------------------------------------------
(* Switchover.                                                             *)

(* A switchover to c, the operator's choice or the best candidate: the     *)
(* primary must be writable, and c a candidate among those who answer.     *)
Switchover(c) ==
    /\ pc = "idle" /\ primary # NoNode
    /\ switchovers < MaxSwitchovers
    /\ AcceptsWrites(primary)
    /\ c # primary /\ Candidate(Status(c))
    /\ \E A \in SUBSET (Node \ {primary, c}) :
         todo' = {n \in A : Configured(n)}
    /\ pc' = "prepare"
    /\ to' = c
    /\ coldSeen' = 0
    /\ switchovers' = switchovers + 1
    /\ UNCHANGED <<fleetVars, primary, moved, attached, known, final, chores,
                   crashes, unchecked,
                   restarts>>

(* The other replicas are moved under the candidate before the stall. *)
Prepare(n) ==
    /\ pc = "prepare" /\ n \in todo
    /\ \E ok \in BOOLEAN :
         /\ ~Busy(n) /\ RepointCall(n, to, ok)
         /\ moved' = IF ok THEN moved \cup {n} ELSE moved
    /\ todo' = todo \ {n}
    /\ UNCHANGED <<pc, primary, to, attached, known, final, chores, coldSeen,
                   switchovers, crashes, unchecked,
                   restarts>>

(* wait_attached has seen one of them stream, or not; then /fence is sent. *)
Quiesce ==
    /\ pc = "prepare" /\ todo = {}
    /\ attached' \in IF moved = {} THEN {FALSE} ELSE BOOLEAN
    /\ pc' = "quiesce"
    /\ fencing' = [fencing EXCEPT ![primary] = "sent"]
    /\ UNCHANGED <<node, nextTxn, relayed, acked, primary, to, todo, moved,
                   known, final, chores, coldSeen, switchovers, crashes,
                   unchecked,
                   restarts>>

(* The fence answers.  After a kill, and when the query behind the SET     *)
(* failed, it knows no final gtid_executed.                                *)
Quiesced ==
    /\ pc = "quiesce"
    /\ fencing[primary] \in {"sql", "kill"}
    /\ known' \in IF fencing[primary] = "sql" THEN BOOLEAN ELSE {FALSE}
    /\ final' = IF known' THEN node[primary].executed ELSE {}
    /\ pc' = "catch_up"
    /\ UNCHANGED <<fleetVars, primary, to, todo, moved, attached, chores,
                   coldSeen, switchovers, crashes, unchecked,
                   restarts>>

(* Mutant: an unreachable old primary is left to semi-sync. *)
QuiesceUnreachableGoesOn ==
    /\ pc = "quiesce"
    /\ "fence_unreachable" \in Faults
    /\ pc' = "catch_up"
    /\ UNCHANGED <<fleetVars, primary, to, todo, moved, attached, known, final,
                   chores, coldSeen, switchovers, crashes, unchecked,
                   restarts>>

(* It does not: "nothing changed", although it may still land later. *)
QuiesceUnreachable ==
    /\ pc = "quiesce"
    /\ "fence_unreachable" \in Faults
    /\ pc' = "idle"
    /\ Over
    /\ UNCHANGED <<fleetVars, primary, chores, coldSeen, switchovers, crashes,
                   unchecked,
                   restarts>>

(* Mutant: the relay log is enough. *)
HoldsFinalOrLess(n) == node[n].retrieved \subseteq node[n].executed

(* With a final set the candidate must have applied all of it.  That it    *)
(* holds nothing more is checked too, unless the waiter has failed and the *)
(* /status of the check is not answered.                                   *)
HoldsFinal(n) == final \subseteq node[n].executed

(* Without one it only has to apply its relay log. *)
RelayApplied(n) ==
    /\ node[n].sql # "error"
    /\ \/ node[n].retrieved \subseteq node[n].executed
       \/ node[n].sql = "on" /\ Appliable(n) = {}

(* Mutant: the final set is not passed on. *)
CatchUpUntargeted ==
    /\ pc = "catch_up"
    /\ RelayApplied(to)
    /\ pc' = IF attached THEN "promote" ELSE "repoint_old"
    /\ unchecked' = (unchecked \/ ~known)
    /\ UNCHANGED <<fleetVars, primary, to, todo, moved, attached, known,
                   final, chores, coldSeen, switchovers, crashes, restarts>>

CatchUp ==
    /\ pc = "catch_up"
    /\ IF known THEN HoldsFinal(to) ELSE RelayApplied(to)
    /\ pc' = IF attached THEN "promote" ELSE "repoint_old"
    /\ unchecked' = (unchecked \/ ~known)
    /\ UNCHANGED <<fleetVars, primary, to, todo, moved, attached, known,
                   final, chores, coldSeen, switchovers, crashes, restarts>>

(* The deadline passed, or the candidate holds more than the old primary. *)
CatchUpFails ==
    /\ pc = "catch_up"
    /\ pc' = "back"
    /\ UNCHANGED <<fleetVars, primary, to, todo, moved, attached, known,
                   final, chores, coldSeen, switchovers, crashes, unchecked,
                   restarts>>

(* The old primary is made writable again, or the set halts. *)
PromoteBack ==
    /\ pc = "back"
    /\ \E ok \in BOOLEAN :
         /\ PromoteCall(primary, ok)
         /\ pc' = IF ok THEN "idle" ELSE "halted"
    /\ Over
    /\ UNCHANGED <<primary, chores, coldSeen, switchovers, crashes, unchecked,
                   restarts>>

(* Nobody is attached: the old primary is repointed inside the stall.  Its *)
(* failure is left to rejoin, and to the background task.                  *)
RepointOld ==
    /\ pc = "repoint_old"
    /\ \E ok \in BOOLEAN :
         /\ ~Busy(primary) /\ RepointCall(primary, to, ok)
         /\ moved' = IF ok THEN moved \cup {primary} ELSE moved
    /\ pc' = "promote"
    /\ UNCHANGED <<primary, to, todo, attached, known, final, chores, coldSeen,
                   switchovers, crashes, unchecked,
                   restarts>>

(* The candidate is promoted, or the set halts.  An old primary that is    *)
(* not repointed yet is repointed by a background task.                    *)
Promote ==
    /\ pc = "promote"
    /\ \E ok \in BOOLEAN :
         /\ PromoteCall(to, ok)
         /\ IF ok
              THEN /\ pc' = "idle"
                   /\ primary' = to
                   /\ chores' = IF primary \in moved \/ Busy(primary)
                                THEN chores
                                ELSE chores \cup {<<primary, to>>}
              ELSE pc' = "halted" /\ UNCHANGED <<primary, chores>>
    /\ Over
    /\ UNCHANGED <<coldSeen, switchovers, crashes, unchecked,
                   restarts>>

(* A background task repoints a former primary under the new one. *)
RepointAfter == \E c \in chores :
    /\ \E ok \in BOOLEAN : RepointCall(c[1], c[2], ok)
    /\ chores' = chores \ {c}
    /\ UNCHANGED <<pc, primary, to, todo, moved, attached, known, final,
                   coldSeen, switchovers, crashes, unchecked,
                   restarts>>

SwitchoverStep ==
    \/ \E n \in Node : Switchover(n) \/ Prepare(n)
    \/ Quiesce \/ Quiesced \/ QuiesceUnreachable \/ CatchUp \/ CatchUpFails
    \/ PromoteBack \/ RepointOld \/ Promote \/ RepointAfter

-----------------------------------------------------------------------------
(* Discovery and cold start.  A is the set of nodes that answer.           *)

(* The sources that enough of the replicas name. *)
Agreed(A) ==
    {s \in Node : 2 * Cardinality({n \in A : node[n].source = s})
                   > Cardinality(Node) - 1}

(* Everybody is read-only, and the believed primary answers and is not     *)
(* fenced; with none believed, every member answers.                       *)
IsCold(A, believed) ==
    /\ \A n \in A : ~AcceptsWrites(n)
    /\ IF believed = NoNode
         THEN A = Node /\ \E n \in A : Configured(n)
         ELSE /\ believed \in A
              /\ node[believed].superReadOnly /\ ~node[believed].fenced

(* Who may be promoted in place: an unfenced read-only node that has       *)
(* applied everything any node that answers holds.  Empty: the set halts.  *)
ColdChoice(A, believed) ==
    LET full == {n \in A :
                    /\ node[n].superReadOnly /\ ~node[n].fenced
                    /\ \A m \in A : Holds(m) \subseteq node[n].executed}
    IN  IF believed \in full THEN {believed} ELSE full

(* The nodes that do not follow the chosen one yet are repointed first. *)
ColdStart(A, n) ==
    /\ pc' = "cold_repoint"
    /\ to' = n
    /\ todo' = {m \in A \ {n} : node[m].source # n}

(* A brand-new set, every member answering. *)
IsNew(A) ==
    /\ A = Node
    /\ \A n \in A : node[n].superReadOnly /\ ~Configured(n)
    /\ \A m, n \in A : node[m].executed = node[n].executed

(* Nobody is writable: cold start, halt, or believe the replicas' source. *)
DiscoverAmong(A) ==
    LET believed == IF Agreed(A) = {} THEN {NoNode} ELSE Agreed(A)
    IN  \E src \in believed :
          \/ /\ IsCold(A, src)
             /\ IF ColdChoice(A, src) = {}
                  THEN pc' = "halted" /\ UNCHANGED <<to, todo>>
                  ELSE \E n \in ColdChoice(A, src) : ColdStart(A, n)
             /\ UNCHANGED primary
          \/ /\ ~IsCold(A, src) /\ src # NoNode
             /\ primary' = src
             /\ pc' = "idle"
             /\ UNCHANGED <<to, todo>>

(* One tick without a primary that settles on something; the other ticks   *)
(* wait.                                                                   *)
Discover == \E A \in SUBSET Node :
    LET writable == {n \in A : AcceptsWrites(n)}
    IN  /\ pc = "discover"
        /\ \/ /\ Cardinality(writable) = 1
              /\ primary' \in writable
              /\ pc' = "idle"
              /\ UNCHANGED <<to, todo>>
           \/ /\ Cardinality(writable) > 1
              /\ pc' = "halted"
              /\ UNCHANGED <<primary, to, todo>>
           \/ /\ writable = {} /\ IsNew(A)
              /\ pc' = "boot_promote"
              /\ to' = InitPrimary
              /\ UNCHANGED <<primary, todo>>
           \/ /\ writable = {} /\ ~IsNew(A)
              /\ DiscoverAmong(A)
        /\ UNCHANGED <<fleetVars, moved, attached, known, final, chores,
                       coldSeen, switchovers, crashes, unchecked,
                   restarts>>

(* The tick's own check, which acts on the second poll in a row. *)
ColdCheck == \E A \in SUBSET Node :
    /\ pc = "idle" /\ primary # NoNode
    /\ IF ~IsCold(A, primary)
         THEN coldSeen # 0 /\ coldSeen' = 0 /\ UNCHANGED <<pc, to, todo>>
         ELSE IF ColdChoice(A, primary) = {}
         THEN pc' = "halted" /\ UNCHANGED <<coldSeen, to, todo>>
         ELSE IF coldSeen = 0
         THEN coldSeen' = 1 /\ UNCHANGED <<pc, to, todo>>
         ELSE /\ coldSeen' = 0
              /\ \E n \in ColdChoice(A, primary) : ColdStart(A, n)
    /\ UNCHANGED <<fleetVars, primary, moved, attached, known, final, chores,
                   switchovers, crashes, unchecked,
                   restarts>>

ColdRepoint(n) ==
    /\ pc = "cold_repoint" /\ n \in todo
    /\ ~Busy(n) /\ (\E ok \in BOOLEAN : RepointCall(n, to, ok))
    /\ todo' = todo \ {n}
    /\ UNCHANGED <<pc, primary, to, moved, attached, known, final, chores,
                   coldSeen, switchovers, crashes, unchecked,
                   restarts>>

ColdRepointsEnd ==
    /\ pc = "cold_repoint" /\ todo = {}
    /\ pc' = "cold_promote"
    /\ UNCHANGED <<fleetVars, primary, to, todo, moved, attached, known,
                   final, chores, coldSeen, switchovers, crashes, unchecked,
                   restarts>>

(* A failed promote is left to detection: the node is the primary anyway. *)
ColdPromote ==
    /\ pc = "cold_promote"
    /\ \E ok \in BOOLEAN : PromoteCall(to, ok)
    /\ primary' = to
    /\ pc' = "idle"
    /\ Over
    /\ UNCHANGED <<chores, coldSeen, switchovers, crashes, unchecked,
                   restarts>>

(* Bootstrap: the first node is promoted, then the others are repointed. *)
BootPromote ==
    /\ pc = "boot_promote"
    /\ \E ok \in BOOLEAN :
         /\ PromoteCall(to, ok)
         /\ IF ok
              THEN /\ pc' = "boot_repoint"
                   /\ primary' = to
                   /\ todo' = Node \ {to}
                   /\ UNCHANGED to
              ELSE /\ pc' = "halted"
                   /\ to' = NoNode
                   /\ UNCHANGED <<primary, todo>>
    /\ UNCHANGED <<moved, attached, known, final, chores, coldSeen,
                   switchovers, crashes, unchecked,
                   restarts>>

BootRepoint(n) ==
    /\ pc = "boot_repoint" /\ n \in todo
    /\ ~Busy(n) /\ (\E ok \in BOOLEAN : RepointCall(n, to, ok))
    /\ todo' = todo \ {n}
    /\ UNCHANGED <<pc, primary, to, moved, attached, known, final, chores,
                   coldSeen, switchovers, crashes, unchecked,
                   restarts>>

BootEnds ==
    /\ pc = "boot_repoint" /\ todo = {}
    /\ pc' = "idle"
    /\ Over
    /\ UNCHANGED <<fleetVars, primary, chores, coldSeen, switchovers, crashes,
                   unchecked,
                   restarts>>

StartupStep ==
    \/ Discover \/ ColdCheck \/ ColdRepointsEnd \/ ColdPromote
    \/ \E n \in Node : ColdRepoint(n) \/ BootRepoint(n)
    \/ BootPromote \/ BootEnds

(* The manager crashes and another one starts: it knows nothing. *)
Crash ==
    /\ crashes < MaxCrashes
    /\ crashes' = crashes + 1
    /\ pc' = "discover"
    /\ primary' = NoNode
    /\ chores' = {} /\ coldSeen' = 0
    /\ Over
    /\ UNCHANGED <<fleetVars, switchovers, unchecked,
                   restarts>>

-----------------------------------------------------------------------------
Environment(n) ==
    /\ FleetStep(n) \/ \E t \in Txn : Receive(n, t)
    /\ UNCHANGED <<mgrVars, restarts, unchecked>>

(* One mysqld restarts, or several do together, up to the whole set. *)
RestartSome == \E S \in SUBSET Node \ {{}} :
    /\ restarts < MaxRestarts
    /\ restarts' = restarts + 1
    /\ node' = [n \in Node |-> IF n \in S THEN Restarted(node[n]) ELSE node[n]]
    /\ UNCHANGED <<fencing, nextTxn, relayed, acked, mgrVars, unchecked>>

Next ==
    \/ SwitchoverStep \/ StartupStep \/ Crash \/ RestartSome
    \/ \E n \in Node : Environment(n)

Spec == Init /\ [][Next]_vars

-----------------------------------------------------------------------------
(* Properties.                                                             *)

(* TypeOK: every variable has its type; a node is being promoted exactly   *)
(* during an operation, and an operation keeps nothing once it is over.    *)
TypeOK ==
    /\ FleetTypeOK
    /\ pc \in Steps
    /\ primary \in Node \cup {NoNode}
    /\ to \in Node \cup {NoNode}
    /\ todo \subseteq Node
    /\ moved \subseteq Node
    /\ {attached, known, unchecked} \subseteq BOOLEAN
    /\ final \subseteq Txn
    /\ chores \subseteq Node \X Node
    /\ coldSeen \in {0, 1}
    /\ switchovers \in 0 .. MaxSwitchovers
    /\ crashes \in 0 .. MaxCrashes
    /\ restarts \in 0 .. MaxRestarts
    /\ to = NoNode <=> pc \in {"idle", "discover", "halted"}
    /\ to = NoNode => todo = {} /\ moved = {} /\ ~attached /\ ~known
    /\ primary = NoNode => pc \in {"discover", "halted"} \cup Cold \cup Boot

(* Kept: whoever the manager has for primary between its operations, after *)
(* a switchover, its abort, a discovery, a cold start or a crash in the    *)
(* middle of one of them, has every write that was answered OK, unless a   *)
(* candidate was promoted without the old primary's final set.             *)
Kept ==
    ~unchecked /\ pc = "idle" /\ primary # NoNode
        => acked \subseteq Binlog(primary)

(* KeptAlways: the same of every switchover. *)
KeptAlways ==
    pc = "idle" /\ primary # NoNode => acked \subseteq Binlog(primary)

(* SingleWriter: no two nodes of the set are writable at once, whatever    *)
(* call of a switchover or a start fails and wherever the manager crashes. *)
SingleWriter ==
    \A m, n \in Node : Writable(m) /\ Writable(n) => m = n

(* NoErrantReplica: whatever replicates from the primary, or from a node   *)
(* the next step promotes, holds nothing its source lacks, although        *)
(* replicas are moved under the candidate while they are ahead of it.      *)
NoErrantReplica ==
    ~unchecked =>
        \A p \in {primary, IF pc = "promote" THEN to ELSE primary} \ {NoNode} :
            \A r \in Node :
                node[r].source = p => node[r].executed \subseteq Binlog(p)
=============================================================================
