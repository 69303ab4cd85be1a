------------------------------- MODULE Guards -------------------------------
(***************************************************************************)
(* What the agents do on their own (dbguard/agent/core.py): the wake guard *)
(* that asks the manager who is primary after a freeze or a start, and the *)
(* heartbeat writer that has to wait for it.  The manager's side, with the *)
(* answer it gives, is module Controller.                                  *)
(*                                                                         *)
(* A node is frozen and thawed with its agent and its mysqld; what runs    *)
(* before and after the freeze notices it only by the gap in the clock.    *)
(***************************************************************************)
EXTENDS FiniteSets, Integers

CONSTANTS
    Node,       \* the members of the replica set
    Beating,    \* bound: the members whose heartbeat writer is followed
    MaxWakes    \* bound: freezes and agent starts in one behaviour

ASSUME GuardsAssumption == Beating \subseteq Node /\ MaxWakes \in Nat

VARIABLES
    writable,   \* nodes with super_read_only off
    fenced,     \* nodes whose fence flag is set
    frozen,     \* nodes whose container is frozen
    gap,        \* thawed nodes whose agent has not noticed it
    guard,      \* guard[n]: the wake guard's step, or the answer it holds
    hb,         \* hb[n]: the heartbeat writer's step
    wakes,
    doubt       \* history: thawed nodes that have not asked the manager since

guardVars == <<writable, fenced, frozen, gap, guard, hb, wakes, doubt>>

(* What a guard makes of /primary: n itself or "unknown", another name or  *)
(* null, no answer at all.                                                 *)
Heard(n, answer) ==
    IF answer \in {n, "unknown"} THEN "mine"
    ELSE IF answer = "unreachable" THEN "nothing" ELSE "other"

GuardSteps == {"idle", "ask", "fence", "mine", "other", "nothing"}

GuardsInit(p) ==
    /\ writable = p
    /\ fenced = {}
    /\ frozen = {}
    /\ gap = {}
    /\ guard = [n \in Node |-> "idle"]
    /\ hb = [n \in Node |-> "idle"]
    /\ wakes = 0
    /\ doubt = {}

Fence(n) == writable' = writable \ {n} /\ fenced' = fenced \cup {n}

(* A guard that is running already is not started again. *)
Triggered(n) == [guard EXCEPT ![n] = IF @ = "idle" THEN "ask" ELSE @]

Step(n, s) == guard' = [guard EXCEPT ![n] = s]

Freeze(n) ==
    /\ wakes < MaxWakes
    /\ wakes' = wakes + 1
    /\ n \notin frozen
    /\ frozen' = frozen \cup {n}
    /\ UNCHANGED <<writable, fenced, gap, guard, hb, doubt>>

(* A guard that the freeze has caught swallows the next one, so a node is  *)
(* in doubt only when none was running.                                    *)
Thaw(n) ==
    /\ n \in frozen
    /\ frozen' = frozen \ {n}
    /\ gap' = gap \cup {n}
    /\ doubt' = IF guard[n] = "idle" THEN doubt \cup {n} ELSE doubt
    /\ UNCHANGED <<writable, fenced, guard, hb, wakes>>

(* The agent is started again beside a running mysqld: its writer and its  *)
(* guard begin anew.                                                       *)
AgentStarts(n) ==
    /\ wakes < MaxWakes
    /\ wakes' = wakes + 1
    /\ n \notin frozen
    /\ gap' = gap \ {n}
    /\ Step(n, "ask")
    /\ hb' = [hb EXCEPT ![n] = "idle"]
    /\ UNCHANGED <<writable, fenced, frozen, doubt>>

(* The ticker, or the heartbeat writer before it, notices the gap. *)
NoticeGap(n) ==
    /\ n \in gap \ frozen
    /\ gap' = gap \ {n}
    /\ guard' = Triggered(n)
    /\ UNCHANGED <<writable, fenced, frozen, hb, wakes, doubt>>

(* The manager's answer, or none. *)
GuardAsks(n, answer) ==
    /\ guard[n] = "ask"
    /\ n \notin frozen
    /\ Step(n, Heard(n, answer))
    /\ doubt' = doubt \ {n}
    /\ UNCHANGED <<writable, fenced, frozen, gap, hb, wakes>>

(* Only then super_read_only is read, and the guard decides: without an    *)
(* answer, by the fence flag that is still there after a restart.          *)
MustFence(n) ==
    \/ guard[n] = "other" /\ n \in writable
    \/ guard[n] = "nothing" /\ n \in fenced

GuardDecides(n) ==
    /\ guard[n] \in {"mine", "other", "nothing"}
    /\ n \notin frozen
    /\ Step(n, IF MustFence(n) THEN "fence" ELSE "idle")
    /\ UNCHANGED <<writable, fenced, frozen, gap, hb, wakes, doubt>>

GuardFences(n) ==
    /\ guard[n] = "fence"
    /\ n \notin frozen
    /\ Fence(n)
    /\ Step(n, "idle")
    /\ UNCHANGED <<frozen, gap, hb, wakes, doubt>>

GuardPending(n) == n \in gap \/ guard[n] # "idle"

(* The writer lets the guard run first, then reads super_read_only ... *)
HeartbeatReads(n) ==
    /\ n \in Beating /\ hb[n] = "idle"
    /\ n \in writable \ (frozen \cup fenced)
    /\ ~GuardPending(n)
    /\ hb' = [hb EXCEPT ![n] = "read"]
    /\ UNCHANGED <<writable, fenced, frozen, gap, guard, wakes, doubt>>

(* Mutant: the guard is asked for only once. *)
HeartbeatWritesUnchecked(n) ==
    /\ hb[n] = "read"
    /\ n \notin frozen
    /\ hb' = [hb EXCEPT ![n] = IF n \in fenced THEN "idle" ELSE "write"]
    /\ UNCHANGED <<writable, fenced, frozen, gap, guard, wakes, doubt>>

(* ... and looks again before it writes: the read may have been frozen. *)
HeartbeatWrites(n) ==
    /\ hb[n] = "read"
    /\ n \notin frozen
    /\ hb' = [hb EXCEPT ![n] = IF n \in fenced \/ GuardPending(n)
                                 THEN "idle" ELSE "write"]
    /\ UNCHANGED <<writable, fenced, frozen, gap, guard, wakes, doubt>>

(* The statement returns, also when a fence kills it. *)
HeartbeatReturns(n) ==
    /\ hb[n] = "write"
    /\ n \notin frozen
    /\ hb' = [hb EXCEPT ![n] = "idle"]
    /\ UNCHANGED <<writable, fenced, frozen, gap, guard, wakes, doubt>>

(* What an agent does without anybody's call, given the manager's answer. *)
AgentStep(n, answer) ==
    \/ NoticeGap(n)
    \/ \E a \in {answer, "unreachable"} : GuardAsks(n, a)
    \/ GuardDecides(n) \/ GuardFences(n)
    \/ HeartbeatReads(n) \/ HeartbeatWrites(n) \/ HeartbeatReturns(n)

Wake(n) == Freeze(n) \/ Thaw(n) \/ AgentStarts(n)

GuardsTypeOK ==
    /\ writable \subseteq Node
    /\ fenced \subseteq Node
    /\ frozen \subseteq Node
    /\ gap \subseteq Node
    /\ guard \in [Node -> GuardSteps]
    /\ hb \in [Node -> {"idle", "read", "write"}]
    /\ wakes \in 0 .. MaxWakes
    /\ doubt \subseteq Node
=============================================================================
