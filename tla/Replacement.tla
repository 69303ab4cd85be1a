---------------------------- MODULE Replacement ----------------------------
(***************************************************************************)
(* The manager's picture of a set and what it does when a replica is lost  *)
(* (manager/replacement.py, and reconcile in controller.py): who is a      *)
(* member, when a set is HEALTHY or DEGRADED, and the background task that *)
(* provisions the spare, has it cloned from a replica, repoints it and     *)
(* makes it a member.  The poll goes on beside that task, and so does a    *)
(* failover.  Data is left out, and of a failover everything but its       *)
(* choice and its end (module Failover), and of a rejoin everything but    *)
(* its result (module Rejoin).                                             *)
(***************************************************************************)
EXTENDS Naturals, Sequences, FiniteSets
LOCAL INSTANCE SequencesExt

CONSTANTS
    Nodes,          \* the set's nodes in the order of fleet.yaml, the first
                    \* is its first primary
    Spare,          \* scfg.spare
    Nobody,
    MaxDeaths,      \* bound: servers that die
    MaxTroubles     \* bound: failovers of a primary that is alive, and
                    \* calls and waits of a replacement that fail

ASSUME ReplacementAssumption ==
    /\ Len(Nodes) > 1 /\ Spare \notin ToSet(Nodes)
    /\ Nobody \notin ToSet(Nodes) \cup {Spare}
    /\ MaxDeaths \in Nat /\ MaxTroubles \in Nat

Hosts == ToSet(Nodes) \cup {Spare}
Configured == Len(Nodes) - 1

VARIABLES
    alive,      \* the hosts whose mysqld and agent answer
    source,     \* host |-> whom it is configured to replicate from
    primary,    \* ctl.primary
    winner,     \* the node that a failover promotes, or Nobody
    members,    \* ctl.members
    state,      \* ctl.st.state
    cooling,    \* in_cooldown()
    unhealthy,  \* unhealthy_since: none, new, or old, rebuild_after_s ago
    seen,       \* host |-> its view in the poll the tick has not decided on
                \* yet, or Undecided
    step,       \* the replacement's next await, or none
    donor,      \* the donor it was started with
    target,     \* the primary it repoints the spare to
    agent,      \* the spare's /rebuild: idle, copying, restarted, done,
                \* failed
    origin,     \* the donor that it copies from
    deaths, troubles

servers == <<alive, source>>
setState == <<primary, winner, members, state, cooling, unhealthy>>
task == <<step, donor, target, agent, origin>>
bounds == <<deaths, troubles>>
replacementVars == <<servers, setState, seen, task, bounds>>

Undecided == <<>>
View(n) ==
    [usable |-> n \in alive,
     source |-> IF n \in alive THEN source[n] ELSE Nobody,
     running |-> n \in alive /\ source[n] \in alive]

ReplicatingFrom(v, p) == v.running /\ v.source = p

(* SetState.to: HALTED is left by an operator only. *)
To(s) == state' = IF state = "HALTED" THEN state ELSE s

ReplacementInit ==
    /\ alive = ToSet(Nodes)
    /\ source = [n \in Hosts |->
                   IF n \in {Nodes[1], Spare} THEN Nobody ELSE Nodes[1]]
    /\ primary = Nodes[1] /\ winner = Nobody
    /\ members = Nodes
    /\ state = "HEALTHY" /\ cooling = FALSE /\ unhealthy = "none"
    /\ seen = Undecided
    /\ step = "none" /\ donor = Nobody /\ target = Nobody
    /\ agent = "idle" /\ origin = Nobody
    /\ deaths = 0 /\ troubles = 0

-----------------------------------------------------------------------------
Trouble == troubles < MaxTroubles /\ troubles' = troubles + 1

(* The poll: every node is asked at once, and the tick decides later.     *)
Poll ==
    /\ seen = Undecided /\ state # "HALTED"
    /\ seen' = [n \in Hosts |-> View(n)]
    /\ UNCHANGED <<servers, setState, task, bounds>>

(* tick(): the lock is free when no failover runs. *)
MayDecide == seen # Undecided /\ winner = Nobody /\ state # "HALTED"
Decided == seen' = Undecided

(* A spare that replicates from a member is one itself. *)
AdoptSpare ==
    IF /\ Spare \notin ToSet(members)
       /\ seen[Spare].usable /\ seen[Spare].source \in ToSet(members)
      THEN Append(members, Spare) ELSE members

Healthy(ms) ==
    SelectSeq(ms, LAMBDA n : n # primary /\ ReplicatingFrom(seen[n], primary))

(* Mutant: the time in which the set was healthy counts as well. *)
WellKeeps == UNCHANGED unhealthy

Well ==
    /\ unhealthy' = "none"
    /\ IF step = "none" THEN To("HEALTHY") ELSE UNCHANGED state
    /\ UNCHANGED <<step, donor>>

(* maybe_replace. *)
MaybeReplace(healthy) ==
    IF /\ state' = "DEGRADED" /\ unhealthy' = "old" /\ ~cooling
       /\ Spare \notin ToSet(members') /\ healthy # <<>>
      THEN step' = "begin" /\ donor' = Head(healthy)
      ELSE UNCHANGED <<step, donor>>

Ill(healthy) ==
    /\ unhealthy' = IF unhealthy = "none" THEN "new" ELSE unhealthy
    /\ IF step # "none" THEN To("REBUILDING")
       ELSE \/ To("DEGRADED")
            \/ unhealthy' = "new" /\ UNCHANGED state
    /\ MaybeReplace(healthy)

Reconcile ==
    /\ MayDecide /\ seen[primary].usable
    /\ Decided
    /\ members' = AdoptSpare
    /\ LET healthy == Healthy(members') IN
         IF Len(healthy) >= Configured THEN Well ELSE Ill(healthy)
    /\ UNCHANGED <<servers, primary, winner, cooling, target, agent, origin,
                   bounds>>

(* A primary that looks dead within the cooldown is left alone. *)
TooSoon ==
    /\ MayDecide /\ ~seen[primary].usable /\ cooling
    /\ Decided
    /\ To("SUSPECT")
    /\ UNCHANGED <<servers, primary, winner, members, cooling, unhealthy,
                   task, bounds>>

(* A primary is failed over because it does not answer the manager: it is  *)
(* down, or cut off.                                                       *)
FailoverBegins ==
    /\ MayDecide /\ ~cooling
    /\ \/ ~seen[primary].usable /\ UNCHANGED troubles
       \/ seen[primary].usable /\ Trouble
    /\ Decided
    /\ LET candidates == {n \in ToSet(members) \ {primary} :
                            n \in alive /\ source[n] # Nobody} IN
         \/ candidates = {} /\ To("HALTED") /\ UNCHANGED winner
         \/ winner' \in candidates /\ To("FAILING_OVER")
    /\ UNCHANGED <<servers, primary, members, cooling, unhealthy, task,
                   deaths>>

(* The others that answer are repointed in front of the promotion. *)
FailoverEnds ==
    /\ winner # Nobody /\ winner \in alive
    /\ source' = [n \in Hosts |->
                    IF n = winner \/ n = primary THEN Nobody
                    ELSE IF n \in alive \cap ToSet(members) THEN winner
                    ELSE source[n]]
    /\ primary' = winner /\ winner' = Nobody
    /\ cooling' = TRUE /\ unhealthy' = "new"
    /\ To("DEGRADED")
    /\ UNCHANGED <<alive, members, seen, task, bounds>>

FailoverHalts ==
    /\ winner # Nobody /\ winner \notin alive
    /\ winner' = Nobody
    /\ To("HALTED")
    /\ UNCHANGED <<servers, primary, members, cooling, unhealthy, seen, task,
                   bounds>>

(* rejoin_actions: a member that answers and is not busy is repointed. *)
Rejoins(n) ==
    /\ n \in ToSet(members) \ {primary} /\ n \in alive /\ winner = Nobody
    /\ ~(n = Spare /\ (step # "none" \/ agent # "idle"))
    /\ source[n] # primary /\ primary \in alive /\ state # "HALTED"
    /\ source' = [source EXCEPT ![n] = primary]
    /\ UNCHANGED <<alive, setState, seen, task, bounds>>

StaysIll ==
    /\ unhealthy = "new" /\ unhealthy' = "old"
    /\ UNCHANGED <<servers, primary, winner, members, state, cooling, seen,
                   task, bounds>>

CoolsDown ==
    /\ cooling
    /\ cooling' = FALSE
    /\ UNCHANGED <<servers, primary, winner, members, state, unhealthy, seen,
                   task, bounds>>

-----------------------------------------------------------------------------
(* replace(), one step for each await. *)
At(s) == step = s
NotSet == UNCHANGED <<primary, winner, members, state, cooling>>

(* Ends without a new member; another try waits rebuild_after_s again. *)
Over == step' = "none" /\ donor' = Nobody
GivesUp == Over /\ unhealthy' = "new"

Begin ==
    /\ At("begin")
    /\ To("REBUILDING")
    /\ step' = "provision"
    /\ UNCHANGED <<servers, primary, winner, members, cooling, unhealthy,
                   seen, donor, target, agent, origin, bounds>>

(* Mutant: a failed replacement keeps the maintenance slot. *)
ProvisionStuck ==
    /\ At("provision")
    /\ \/ /\ alive' = alive \cup {Spare} /\ step' = "wait"
          /\ UNCHANGED <<unhealthy, troubles>>
       \/ /\ Trouble /\ unhealthy' = "new"
          /\ step' = "stuck" /\ UNCHANGED alive
    /\ UNCHANGED <<source, seen, donor, target, agent, origin, deaths>>
    /\ NotSet

(* docker compose up: the spare runs.  If it raises, because it fails or   *)
(* lasts too long, the spare may run all the same.                         *)
Provisioned == alive' = alive \cup {Spare}
ProvisionRaises == Trouble /\ (Provisioned \/ UNCHANGED alive)

Provision ==
    /\ At("provision")
    /\ \/ Provisioned /\ step' = "wait"
          /\ UNCHANGED <<unhealthy, troubles, donor>>
       \/ ProvisionRaises /\ GivesUp
    /\ UNCHANGED <<source, seen, target, agent, origin, deaths>> /\ NotSet

(* The spare's agent answers in time, or the replacement gives up. *)
WaitForAgent ==
    /\ At("wait")
    /\ \/ /\ Spare \in alive
          /\ step' = IF donor = primary THEN "unstick" ELSE "rebuild"
          /\ UNCHANGED <<unhealthy, troubles, donor>>
       \/ Trouble /\ GivesUp
       \/ Spare \notin alive /\ GivesUp /\ UNCHANGED troubles
    /\ UNCHANGED <<servers, seen, target, agent, origin, deaths>> /\ NotSet

(* The donor is the primary by now: its stalled sessions are killed, or    *)
(* the set halts.                                                          *)
Unstick ==
    /\ At("unstick")
    /\ \/ /\ donor \in alive /\ step' = "rebuild"
          /\ UNCHANGED <<state, troubles, donor>>
       \/ Trouble /\ To("HALTED") /\ Over
       \/ donor \notin alive /\ To("HALTED") /\ Over /\ UNCHANGED troubles
    /\ UNCHANGED <<servers, primary, winner, members, cooling, unhealthy,
                   seen, target, agent, origin, deaths>>

(* A /rebuild whose answer was lost still holds the agent's role lock.     *)
(* The agent stops replication first: the spare's source is none.          *)
PostRebuild ==
    /\ At("rebuild") /\ agent = "idle"
    /\ step' = "answer"
    /\ LET starts == {Spare, donor} \subseteq alive IN
         /\ agent' = IF starts THEN "copying" ELSE "failed"
         /\ source' = IF starts THEN [source EXCEPT ![Spare] = Nobody]
                      ELSE source
         /\ origin' = IF starts THEN donor ELSE Nobody
    /\ UNCHANGED <<alive, unhealthy, seen, donor, target, bounds>>
    /\ NotSet

RebuildAnswered ==
    /\ At("answer")
    /\ \/ agent = "done" /\ step' = "restart" /\ agent' = "idle"
          /\ UNCHANGED <<donor, troubles>>
       \/ agent = "failed" /\ Over /\ agent' = "idle" /\ UNCHANGED troubles
       \/ Trouble /\ Over
          /\ agent' = IF agent \in {"done", "failed"} THEN "idle" ELSE agent
    /\ UNCHANGED <<servers, unhealthy, seen, target, origin, deaths>>
    /\ NotSet

(* It repoints to the primary the manager names now, whatever happens. *)
CapturePrimary ==
    /\ At("restart")
    /\ target' = primary /\ step' = "repoint"
    /\ UNCHANGED <<servers, unhealthy, seen, donor, agent, origin, bounds>>
    /\ NotSet

PostRepoint ==
    /\ At("repoint")
    /\ step' = "join"
    /\ \/ /\ Spare \in alive
          /\ source' = [source EXCEPT ![Spare] = target] /\ UNCHANGED troubles
       \/ Spare \notin alive /\ UNCHANGED <<source, troubles>>
       \/ Trouble /\ UNCHANGED source
    /\ UNCHANGED <<alive, unhealthy, seen, donor, target, agent, origin,
                   deaths>>
    /\ NotSet

BecomesMember ==
    /\ At("join")
    /\ members' = Append(members, Spare)
    /\ Over /\ target' = Nobody
    /\ UNCHANGED <<servers, primary, winner, state, cooling, unhealthy, seen,
                   agent, origin, bounds>>

(* The agent of the spare: the clone brings the donor's replication        *)
(* settings along and mysqld starts with them, until they are reset.       *)
Answer(how) == agent' = IF At("answer") THEN how ELSE "idle"

CloneEnds ==
    /\ agent = "copying"
    /\ \/ /\ {Spare, origin} \subseteq alive
          /\ agent' = "restarted"
          /\ source' = [source EXCEPT ![Spare] = source[origin]]
          /\ UNCHANGED troubles
       \/ Trouble /\ Answer("failed") /\ UNCHANGED source
       \/ ~({Spare, origin} \subseteq alive) /\ Answer("failed")
          /\ UNCHANGED <<source, troubles>>
    /\ origin' = Nobody
    /\ UNCHANGED <<alive, setState, seen, step, donor, target, deaths>>

RebuildFinish ==
    /\ agent = "restarted"
    /\ \/ /\ Spare \in alive
          /\ Answer("done")
          /\ source' = [source EXCEPT ![Spare] = Nobody]
          /\ UNCHANGED troubles
       \/ Trouble /\ Answer("failed") /\ UNCHANGED source
       \/ Spare \notin alive /\ Answer("failed")
          /\ UNCHANGED <<source, troubles>>
    /\ UNCHANGED <<alive, setState, seen, step, donor, target, origin,
                   deaths>>

-----------------------------------------------------------------------------
(* A primary that restarts before it is deposed is a cold start's.  A      *)
(* deposed one returns as a replica of nobody.                             *)
Dies(n) ==
    /\ n \in alive /\ deaths < MaxDeaths
    /\ alive' = alive \ {n} /\ deaths' = deaths + 1
    /\ UNCHANGED <<source, setState, seen, task, troubles>>

Returns(n) ==
    /\ n \in Hosts \ alive /\ n # primary /\ n # Spare
    /\ alive' = alive \cup {n}
    /\ UNCHANGED <<source, setState, seen, task, bounds>>

Tick ==
    \/ Poll \/ Reconcile \/ TooSoon
    \/ MayDecide /\ ~seen[primary].usable /\ FailoverBegins
    \/ FailoverEnds \/ FailoverHalts
Replace ==
    \/ Begin \/ Provision \/ WaitForAgent \/ Unstick \/ PostRebuild
    \/ RebuildAnswered \/ CapturePrimary \/ PostRepoint \/ BecomesMember
Agents == CloneEnds \/ RebuildFinish
Repair == \E n \in Hosts : Rejoins(n)

ReplacementNext ==
    \/ Tick \/ Replace \/ Agents \/ Repair
    \/ FailoverBegins \/ StaysIll \/ CoolsDown
    \/ \E n \in Hosts : Dies(n) \/ Returns(n)

-----------------------------------------------------------------------------
Replicas == {n \in Hosts : n \in alive /\ source[n] = primary}

(* A set that loses a server has its full number of replicas again in the  *)
(* end, whatever fails on the way and whoever is promoted meanwhile,       *)
(* unless it halts.                                                        *)
Replaced ==
    <>[](state = "HALTED" \/ Cardinality(Replicas) >= Configured)

(* The last poll saw every configured replica streaming whenever a tick    *)
(* calls the set HEALTHY (controller.py:256, INTERFACES.md:339).           *)
HealthyMeansAll ==
    [][state' = "HEALTHY" /\ state # "HEALTHY" =>
         Cardinality({n \in Hosts : ReplicatingFrom(seen[n], primary)})
           >= Configured]_replacementVars
=============================================================================
