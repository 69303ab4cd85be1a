----------------------------- MODULE Controller -----------------------------
(***************************************************************************)
(* One set's controller (dbguard/manager/controller.py, state.py, api.py): *)
(* the poll and its one decision per tick, the set's state, its lock, and  *)
(* the operator's calls, which take the lock (switchover) or do not (halt, *)
(* resume, and the agents' question who is primary).  Failover and         *)
(* switchover are reduced to the steps in which they change what the       *)
(* controller knows; the agents' own guards are module Guards.  No mysqld  *)
(* restarts here, so no tick finds a cold start (module Switchover).       *)
(*                                                                         *)
(* The evidence of detector.py is reduced to a streak: the polls in a row, *)
(* newest last, that were about one node, whose probe failed and in which  *)
(* the replicas' majority had lost it.                                     *)
(***************************************************************************)
EXTENDS Guards

CONSTANTS
    NoNode,         \* no primary is known
    InitPrimary,    \* the primary of the healthy set behaviours start in
    Enough,         \* polls of a streak that make a primary dead
    Cooldown,       \* cooldown_s
    MaxFailovers, MaxSwitchovers,   \* bounds: in one behaviour
    MaxHalts        \* bound: halts by the operator in one behaviour

ASSUME ControllerAssumption ==
    /\ NoNode \notin Node /\ InitPrimary \in Node
    /\ Enough \in Nat /\ Enough > 1
    /\ {Cooldown, MaxFailovers, MaxSwitchovers, MaxHalts} \subseteq Nat

VARIABLES
    state,      \* SetState.state
    primary,    \* SetState.primary
    op,         \* what holds the lock, and its step
    target,     \* the node being promoted, NoNode for none
    poll,       \* what the tick's poll in flight probes
    probed,     \* ... and whether the probe succeeded
    about,      \* the node the newest polls were about, all of them bad,
    streak,     \* ... and how many in a row
    cache,      \* nodes whose newest valid /status says writable
    cooldown,   \* what is left of the cooldown
    fencing,    \* nodes a /fence is on its way to that no operation awaits
    failovers, switchovers, halts,
    meddled     \* history: the operator halted the set during this operation

lockVars == <<op, target, meddled>>
pollVars == <<poll, probed>>
runs == <<failovers, switchovers>>
streakVars == <<about, streak>>
vars == <<guardVars, state, primary, lockVars, pollVars, streakVars, cache,
          cooldown, fencing, runs, halts>>

(* SERVING is HEALTHY, SUSPECT, DEGRADED or REBUILDING: what an agent is   *)
(* told, and what the controller does, is the same in all of them.         *)
States == {"DISCOVERING", "SERVING", "FAILING_OVER", "HALTED"}
FailoverSteps == {"fo_fence", "fo_promote"}
SwitchoverSteps == {"sw_views", "sw_fence", "sw_promote"}

Init ==
    /\ GuardsInit({InitPrimary})
    /\ \/ primary = InitPrimary /\ state = "SERVING"
       \/ primary = NoNode /\ state = "DISCOVERING"
    /\ op = "free" /\ target = NoNode /\ meddled = FALSE
    /\ poll = "none" /\ probed = FALSE
    /\ about = NoNode /\ streak = 0
    /\ cache = {} /\ cooldown = 0 /\ fencing = {}
    /\ failovers = 0 /\ switchovers = 0 /\ halts = 0

-----------------------------------------------------------------------------
(* SetState, and what the controller clears.                               *)

(* SetState.to: HALTED is left only by resume. *)
To(new) == IF state = "HALTED" THEN state ELSE new

(* Mutant: the history of the old primary is kept. *)
AdoptKeepsHistory(n) ==
    /\ primary' = n
    /\ cache' = {}
    /\ UNCHANGED streakVars

(* set_primary: the history was about the old one, and is dropped. *)
Adopt(n) ==
    /\ primary' = n
    /\ cache' = {}
    /\ about' = NoNode /\ streak' = 0

(* What an agent is answered: null while the primary is changing. *)
Answer ==
    IF primary = NoNode THEN "unknown"
    ELSE IF state = "FAILING_OVER" THEN "null" ELSE primary

(* Mutants: one of the two conditions is forgotten. *)
IdleWhenHalted == op = "free"
IdleIgnoresLock == state # "HALTED"

(* The set is not halted and its lock is free, as the end of a poll and    *)
(* the start of a switchover find it.                                      *)
Idle == state # "HALTED" /\ op = "free"

Acquire(step, n) == op' = step /\ target' = n /\ meddled' = FALSE

Release == Acquire("free", NoNode)

Proceed(step) == op' = step /\ UNCHANGED <<target, meddled>>

Alive(n) == n \in writable \ fenced /\ n \notin frozen
Promoted(n) == writable' = writable \cup {n} /\ fenced' = fenced \ {n}
agentVars == <<frozen, gap, guard, hb, wakes, doubt>>

-----------------------------------------------------------------------------
(* The tick.                                                               *)

(* The poll probes the primary of this moment: a write that succeeds needs *)
(* a node that takes writes, and may time out on any.                      *)
PollStarts(ok) ==
    /\ poll = "none"
    /\ poll' = IF primary = NoNode THEN "nobody" ELSE primary
    /\ ok => primary # NoNode /\ Alive(primary)
    /\ probed' = ok
    /\ UNCHANGED <<guardVars, state, primary, lockVars, streakVars, cache,
                   cooldown, fencing, runs, halts>>

(* Each node's poller keeps the newest answer. *)
StatusArrives(n) ==
    /\ cache' = IF Alive(n) THEN cache \cup {n} ELSE cache \ {n}
    /\ cache' # cache
    /\ UNCHANGED <<guardVars, state, primary, lockVars, pollVars, streakVars,
                   cooldown, fencing, runs, halts>>

(* The history with the observation of the poll that ends appended. *)
Observed(bad) ==
    /\ about' = IF bad THEN poll ELSE NoNode
    /\ streak' = IF ~bad THEN 0
                 ELSE IF about # poll THEN 1
                 ELSE IF streak < Enough THEN streak + 1 ELSE streak

(* No primary yet: one writable node is adopted, several halt the set, and *)
(* with none the source the replicas agree on is believed.                 *)
Discover ==
    /\ \/ cache = {} /\ Adopt(InitPrimary) /\ UNCHANGED state
       \/ \E n \in cache : cache = {n} /\ Adopt(n) /\ UNCHANGED state
       \/ /\ Cardinality(cache) # 1
          /\ state' = IF cache = {} THEN state ELSE To("HALTED")
          /\ Observed(FALSE)
          /\ UNCHANGED <<primary, cache>>
    /\ UNCHANGED <<lockVars, fencing, runs>>

(* A dead primary is failed over to a replica, but not within the cooldown *)
(* of the last failover.                                                   *)
Dead ==
    /\ IF cooldown > 0
         THEN state' = To("SERVING") /\ UNCHANGED <<lockVars, runs>>
         ELSE /\ failovers < MaxFailovers
              /\ failovers' = failovers + 1
              /\ UNCHANGED switchovers
              /\ state' = To("FAILING_OVER")
              /\ \E n \in Node \ (writable \cup {primary}) :
                    Acquire("fo_fence", n)
    /\ UNCHANGED fencing

Suspect == state' = To("SERVING") /\ UNCHANGED <<lockVars, fencing, runs>>

(* Mutant: a second writable node is left alone. *)
ReconcileSpares ==
    /\ state' = To("SERVING")
    /\ UNCHANGED <<lockVars, fencing, runs>>

(* A live primary: whoever else is seen writable is fenced in the          *)
(* background.                                                             *)
Reconcile ==
    /\ state' = To("SERVING")
    /\ fencing' = fencing \cup (cache \ {primary})
    /\ UNCHANGED <<lockVars, runs>>

(* The poll ends with the replicas' votes, and the tick decides. *)
PollEnds == \E lost \in BOOLEAN :
    /\ poll # "none"
    /\ poll' = "none" /\ probed' = FALSE
    /\ IF Idle /\ primary = NoNode
         THEN Discover
         ELSE /\ Observed(~probed /\ lost /\ poll # "nobody")
              /\ UNCHANGED <<primary, cache>>
              /\ IF ~Idle THEN UNCHANGED <<state, lockVars, fencing, runs>>
                 ELSE IF streak' = Enough THEN Dead
                 ELSE IF probed THEN Reconcile ELSE Suspect
    /\ UNCHANGED <<guardVars, cooldown, halts>>

TimePasses ==
    /\ cooldown > 0
    /\ cooldown' = cooldown - 1
    /\ UNCHANGED <<guardVars, state, primary, lockVars, pollVars, streakVars,
                   cache, fencing, runs, halts>>

(* A background fence lands, answered or not, or is given up; its event    *)
(* empties the cache.                                                      *)
FenceLands(n) ==
    /\ n \in fencing \ frozen
    /\ fencing' = fencing \ {n}
    /\ Fence(n)
    /\ cache' = {}
    /\ UNCHANGED <<agentVars, state, primary, lockVars, pollVars, streakVars,
                   cooldown, runs, halts>>

FenceGivenUp(n) ==
    /\ n \in fencing
    /\ fencing' = fencing \ {n}
    /\ cache' = {}
    /\ UNCHANGED <<guardVars, state, primary, lockVars, pollVars, streakVars,
                   cooldown, runs, halts>>

-----------------------------------------------------------------------------
(* A failover, from its fence on.                                          *)

(* It goes on when the old primary could not be fenced. *)
FailoverFences ==
    /\ op = "fo_fence"
    /\ Proceed("fo_promote")
    /\ \/ primary \notin frozen /\ Fence(primary)
       \/ UNCHANGED <<writable, fenced>>
    /\ UNCHANGED <<agentVars, state, primary, pollVars, streakVars, cache,
                   cooldown, fencing, runs, halts>>

(* The winner is named, the cooldown starts, the event is recorded. *)
FailoverPromotes ==
    /\ op = "fo_promote"
    /\ target \notin frozen
    /\ Promoted(target)
    /\ Adopt(target)
    /\ cooldown' = Cooldown
    /\ state' = To("SERVING")
    /\ Release
    /\ UNCHANGED <<agentVars, pollVars, fencing, runs, halts>>

(* Any step failed, or the promote landed and its answer did not. *)
FailoverHalts ==
    /\ op = "fo_promote"
    /\ \/ UNCHANGED <<writable, fenced>>
       \/ target \notin frozen /\ Promoted(target)
    /\ cache' = {}
    /\ state' = To("HALTED")
    /\ Release
    /\ UNCHANGED <<agentVars, primary, pollVars, streakVars, cooldown,
                   fencing, runs, halts>>

-----------------------------------------------------------------------------
(* A planned switchover, from the operator's call on.                      *)

SwitchoverCall(n) ==
    /\ Idle
    /\ switchovers < MaxSwitchovers
    /\ switchovers' = switchovers + 1
    /\ primary # NoNode
    /\ n \in Node \ {primary}
    /\ Acquire("sw_views", n)
    /\ UNCHANGED <<guardVars, state, primary, pollVars, streakVars, cache,
                   cooldown, fencing, failovers, halts>>

(* Fresh answers: a writable primary and a promotable replica, or refused. *)
SwitchoverBegins ==
    /\ op = "sw_views"
    /\ Alive(primary) /\ target \notin writable \cup frozen
    /\ state' = To("FAILING_OVER")
    /\ Proceed("sw_fence")
    /\ UNCHANGED <<guardVars, primary, pollVars, streakVars, cache, cooldown,
                   fencing, runs, halts>>

SwitchoverRefused ==
    /\ op = "sw_views"
    /\ Release
    /\ UNCHANGED <<guardVars, state, primary, pollVars, streakVars, cache,
                   cooldown, fencing, runs, halts>>

SwitchoverQuiesces ==
    /\ op = "sw_fence"
    /\ primary \notin frozen
    /\ Fence(primary)
    /\ Proceed("sw_promote")
    /\ UNCHANGED <<agentVars, state, primary, pollVars, streakVars, cache,
                   cooldown, fencing, runs, halts>>

(* No answer: "nothing changed", and the fence may land all the same. *)
SwitchoverUnanswered ==
    /\ op = "sw_fence"
    /\ state' = To("SERVING")
    /\ Release
    /\ fencing' \in {fencing, fencing \cup {primary}}
    /\ UNCHANGED <<guardVars, primary, pollVars, streakVars, cache, cooldown,
                   runs, halts>>

SwitchoverPromotes ==
    /\ op = "sw_promote"
    /\ target \notin frozen
    /\ Promoted(target)
    /\ Adopt(target)
    /\ state' = To("SERVING")
    /\ Release
    /\ UNCHANGED <<agentVars, cooldown, pollVars, fencing, runs, halts>>

(* The candidate did not catch up: the old primary is promoted back. *)
SwitchoverGoesBack ==
    /\ op = "sw_promote"
    /\ primary \notin frozen
    /\ Promoted(primary)
    /\ cache' = {}
    /\ state' = To("SERVING")
    /\ Release
    /\ UNCHANGED <<agentVars, primary, pollVars, streakVars, cooldown,
                   fencing, runs, halts>>

(* Either promote failed, or landed without an answer. *)
SwitchoverHalts ==
    /\ op = "sw_promote"
    /\ \/ UNCHANGED <<writable, fenced>>
       \/ \E n \in {primary, target} \ frozen : Promoted(n)
    /\ state' = To("HALTED")
    /\ Release
    /\ UNCHANGED <<agentVars, primary, pollVars, streakVars, cache, cooldown,
                   fencing, runs, halts>>

-----------------------------------------------------------------------------
(* The operator's calls that take no lock.                                 *)

Halt ==
    /\ halts < MaxHalts
    /\ halts' = halts + 1
    /\ state' = To("HALTED")
    /\ meddled' = (op # "free")
    /\ UNCHANGED <<guardVars, primary, op, target, pollVars, streakVars,
                   cache, cooldown, fencing, runs>>

(* Also during an operation; detection history starts over. *)
Resume ==
    /\ state = "HALTED"
    /\ state' = IF primary = NoNode THEN "DISCOVERING" ELSE "SERVING"
    /\ about' = NoNode /\ streak' = 0
    /\ UNCHANGED <<guardVars, primary, lockVars, pollVars, cache, cooldown,
                   fencing, runs, halts>>

-----------------------------------------------------------------------------
FailoverStep == FailoverFences \/ FailoverPromotes \/ FailoverHalts

SwitchoverStep ==
    \/ SwitchoverBegins \/ SwitchoverRefused
    \/ SwitchoverQuiesces \/ SwitchoverUnanswered
    \/ SwitchoverPromotes \/ SwitchoverGoesBack \/ SwitchoverHalts

ctlVars == <<state, primary, lockVars, pollVars, streakVars, cache, cooldown,
             fencing, runs, halts>>

Agents == /\ \E n \in Node : AgentStep(n, Answer) \/ Wake(n)
          /\ UNCHANGED ctlVars

Next ==
    \/ \E ok \in BOOLEAN : PollStarts(ok)
    \/ PollEnds \/ TimePasses
    \/ \E n \in Node : StatusArrives(n) \/ FenceLands(n) \/ FenceGivenUp(n)
    \/ FailoverStep \/ SwitchoverStep
    \/ \E n \in Node : SwitchoverCall(n)
    \/ Halt \/ Resume
    \/ Agents

(* The manager keeps ticking, and its operations, its pollers and the      *)
(* answers' deadlines end; the probe of a live primary succeeds again and  *)
(* again, and so does the fence of an agent that keeps answering.          *)
Fairness ==
    /\ SF_vars(PollStarts(TRUE)) /\ WF_vars(PollStarts(FALSE))
    /\ WF_vars(PollEnds) /\ WF_vars(TimePasses)
    /\ WF_vars(FailoverStep) /\ WF_vars(SwitchoverStep)
    /\ \A n \in Node : WF_vars(StatusArrives(n)) /\ SF_vars(FenceLands(n))

Spec == Init /\ [][Next]_vars /\ Fairness

-----------------------------------------------------------------------------
(* What the tick, the lock and the guards promise.                         *)

TypeOK ==
    /\ GuardsTypeOK
    /\ state \in States
    /\ primary \in Node \cup {NoNode}
    /\ op \in {"free"} \cup FailoverSteps \cup SwitchoverSteps
    /\ target \in IF op = "free" THEN {NoNode} ELSE Node
    /\ poll \in Node \cup {"none", "nobody"}
    /\ probed \in BOOLEAN /\ meddled \in BOOLEAN
    /\ about \in Node \cup {NoNode}
    /\ streak \in 0 .. Enough
    /\ cache \subseteq Node /\ fencing \subseteq Node
    /\ cooldown \in 0 .. Cooldown
    /\ failovers \in 0 .. MaxFailovers
    /\ switchovers \in 0 .. MaxSwitchovers /\ halts \in 0 .. MaxHalts

(* While a failover or a switchover has not promoted its winner, the       *)
(* agents are never told that the old primary is the primary, whatever     *)
(* tick ends in the meantime (api.py: a woken node asking now must not be  *)
(* told).  Only an operator's halt of the running operation breaks it.     *)
OldNotNamed ==
    op \notin {"free", "sw_views"} /\ ~meddled => Answer = "null"

(* A failover is only ever of the node its evidence is about: not of a     *)
(* primary that a switchover has named while the last poll of the old one  *)
(* was in flight (set_primary drops the history).                          *)
FailsOverItsPrimary ==
    [][op = "free" /\ op' = "fo_fence" => about' = primary]_vars

(* A halted set whose operation has ended names no other primary, starts   *)
(* no operation and fences nobody, until resume: also when the poll had    *)
(* begun before the halt.                                                  *)
HaltedDoesNothing ==
    [][state = "HALTED" /\ op = "free" =>
         primary' = primary /\ op' = "free" /\ fencing' \subseteq fencing]_vars

(* A node that was frozen with no guard running does not write its         *)
(* heartbeat before it has asked the manager who is primary, wherever in   *)
(* the writer's loop the freeze caught it.                                 *)
WokenWaits ==
    [][\A n \in doubt : hb[n] = "read" => hb'[n] # "write"]_vars

(* Two live writers do not last: the manager fences the one that is not    *)
(* the primary, or the set has halted for a human.                         *)
TwoWritersEnd ==
    []<>(Cardinality({n \in Node : Alive(n)}) < 2 \/ state = "HALTED")
=============================================================================
