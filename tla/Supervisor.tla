----------------------------- MODULE Supervisor -----------------------------
(***************************************************************************)
(* The agent's supervision of mysqld (dbguard/agent/supervisor.py) and the *)
(* handlers that act through it (dbguard/agent/core.py): the kill fence    *)
(* with its restart hold, role changes that end the hold, the agent's stop.*)
(*                                                                         *)
(* Everything runs in one event loop, so a handler is atomic between two   *)
(* awaits.  Times are abstract: a hold elapses at some moment, a backoff   *)
(* sleeps for a while, a deadline passes when nothing else is going to     *)
(* happen soon.                                                            *)
(***************************************************************************)
EXTENDS Naturals

CONSTANTS
    Faults,     \* which of PossibleFaults happen
    MaxGen      \* bound: mysqld processes started in one behaviour

PossibleFaults ==
    {"fence_while_down",    \* a kill fence comes when no mysqld is running
     "crash",               \* mysqld exits by itself
     "spawn_fails"}         \* the program cannot be started

ASSUME SupervisorAssumption ==
    /\ Faults \subseteq PossibleFaults
    /\ MaxGen \in Nat

VARIABLES
    loop,       \* where _run is
    proc,       \* self.proc: none, up, dying (signalled) or down
    generation, \* mysqld processes started so far
    immediate,  \* _immediate: the next restart skips the backoff
    hold,       \* _hold_until is set
    due,        \* the time of the latest hold has not passed, and no role
                \* change has released it
    rearmed,    \* a hold was set while _wait_hold slept on an earlier one
    stopping,   \* no, waiting for mysqld to exit, or stopped
    ending,     \* a role change in _end_restart_hold
    roleGen,    \* ... and the generation it wants to see exceeded
    cause       \* history: what ended the last mysqld

vars == <<loop, proc, generation, immediate, hold, due, rearmed, stopping,
          ending, roleGen, cause>>

holdVars == <<hold, due, rearmed>>
roleVars == <<ending, roleGen>>

Alive == proc \in {"up", "dying"}
Stopping == stopping # "no"

Init ==
    /\ loop = "spawn" /\ proc = "none" /\ generation = 0 /\ immediate = FALSE
    /\ hold = FALSE /\ due = FALSE /\ rearmed = FALSE
    /\ stopping = "no"
    /\ ending = "idle" /\ roleGen = 0
    /\ cause = "none"

-----------------------------------------------------------------------------
(* The supervisor's loop. *)

Spawn ==
    /\ loop = "spawn"
    /\ proc' = "up"
    /\ generation' = generation + 1
    /\ loop' = "wait"
    /\ UNCHANGED <<immediate, holdVars, stopping, roleVars, cause>>

(* Mutant: a program that cannot be started ends the loop. *)
SpawnFailsDies ==
    /\ "spawn_fails" \in Faults
    /\ loop = "spawn"
    /\ loop' = "done"
    /\ UNCHANGED <<proc, generation, immediate, holdVars, stopping, roleVars,
                   cause>>

SpawnFails ==
    /\ "spawn_fails" \in Faults
    /\ loop = "spawn"
    /\ loop' = "backoff"
    /\ UNCHANGED <<proc, generation, immediate, holdVars, stopping, roleVars,
                   cause>>

(* The backoff ends in a spawn whatever the hold says. *)
BackoffEnds ==
    /\ loop = "backoff"
    /\ loop' = IF Stopping THEN "done" ELSE "spawn"
    /\ UNCHANGED <<proc, generation, immediate, holdVars, stopping, roleVars,
                   cause>>

(* Where _run goes behind an exit. *)
GoesTo(where) == loop' = where /\ UNCHANGED <<hold, due>>

(* Mutant: a restart asked for or killed for comes in front of the hold. *)
AfterExitImmediate ==
    \/ /\ Stopping
       /\ GoesTo("done") /\ UNCHANGED <<immediate, rearmed>>
    \/ /\ ~Stopping /\ (immediate \/ cause = "restart")
       /\ GoesTo("spawn") /\ immediate' = FALSE /\ UNCHANGED rearmed
    \/ /\ ~Stopping /\ ~(immediate \/ cause = "restart") /\ hold
       /\ GoesTo("hold") /\ rearmed' = FALSE /\ UNCHANGED immediate
    \/ /\ ~Stopping /\ ~(immediate \/ cause = "restart") /\ ~hold
       /\ GoesTo("backoff") /\ UNCHANGED <<immediate, rearmed>>

(* Mutant: the loop does not look whether the agent stops. *)
AfterExitRestarts ==
    \/ /\ hold
       /\ GoesTo("hold") /\ rearmed' = FALSE /\ UNCHANGED immediate
    \/ /\ ~hold /\ (immediate \/ cause = "restart")
       /\ GoesTo("spawn") /\ immediate' = FALSE /\ UNCHANGED rearmed
    \/ /\ ~hold /\ ~(immediate \/ cause = "restart")
       /\ GoesTo("backoff") /\ UNCHANGED <<immediate, rearmed>>

(* The hold comes first, then a restart that was asked for or killed for,  *)
(* then the backoff.                                                       *)
AfterExit ==
    \/ /\ Stopping
       /\ GoesTo("done") /\ UNCHANGED <<immediate, rearmed>>
    \/ /\ ~Stopping /\ hold
       /\ GoesTo("hold") /\ rearmed' = FALSE /\ UNCHANGED immediate
    \/ /\ ~Stopping /\ ~hold /\ (immediate \/ cause = "restart")
       /\ GoesTo("spawn") /\ immediate' = FALSE /\ UNCHANGED rearmed
    \/ /\ ~Stopping /\ ~hold /\ ~(immediate \/ cause = "restart")
       /\ GoesTo("backoff") /\ UNCHANGED <<immediate, rearmed>>

Reap ==
    /\ loop = "wait"
    /\ proc = "down"
    /\ AfterExit
    /\ UNCHANGED <<proc, generation, stopping, roleVars, cause>>

(* Mutant: the kill's immediate restart survives the hold. *)
HoldEndsImmediate ==
    /\ loop = "hold"
    /\ ~due \/ rearmed
    /\ hold' = FALSE /\ rearmed' = FALSE
    /\ loop' = IF Stopping THEN "done" ELSE "spawn"
    /\ UNCHANGED <<proc, generation, immediate, due, stopping, roleVars,
                   cause>>

(* Mutant: the end of a hold does not clear it. *)
HoldEndsStillSet ==
    /\ loop = "hold"
    /\ ~due \/ rearmed
    /\ rearmed' = FALSE
    /\ immediate' = FALSE
    /\ loop' = IF Stopping THEN "done" ELSE "spawn"
    /\ UNCHANGED <<proc, generation, hold, due, stopping, roleVars, cause>>

(* _wait_hold returns: released, or the time it went to sleep for is over, *)
(* which a hold set since does not extend.                                 *)
HoldEnds ==
    /\ loop = "hold"
    /\ ~due \/ rearmed
    /\ hold' = FALSE /\ rearmed' = FALSE
    /\ immediate' = FALSE
    /\ loop' = IF Stopping THEN "done" ELSE "spawn"
    /\ UNCHANGED <<proc, generation, due, stopping, roleVars, cause>>

Elapse ==
    /\ due
    /\ due' = FALSE
    /\ UNCHANGED <<loop, proc, generation, immediate, hold, rearmed, stopping,
                   roleVars, cause>>

-----------------------------------------------------------------------------
(* mysqld. *)

(* It crashes, or exits with code 16 for RESTART or a finished clone. *)
Exit ==
    /\ proc = "up" /\ generation < MaxGen
    /\ proc' = "down"
    /\ \/ cause' = "restart"
       \/ "crash" \in Faults /\ cause' = "crash"
    /\ UNCHANGED <<loop, generation, immediate, holdVars, stopping, roleVars>>

(* The signal takes effect. *)
Die ==
    /\ proc = "dying"
    /\ proc' = "down"
    /\ cause' = "kill"
    /\ UNCHANGED <<loop, generation, immediate, holdVars, stopping, roleVars>>

-----------------------------------------------------------------------------
(* The agent. *)

Kill ==
    IF Alive THEN proc' = "dying" /\ immediate' = TRUE
             ELSE UNCHANGED <<proc, immediate>>

(* Fence step 4: hold the restart, then SIGKILL.  With no mysqld to kill   *)
(* the fence is reported as done, and the hold stays set.                  *)
FenceKill ==
    /\ loop # "done"
    /\ IF Alive THEN generation < MaxGen ELSE "fence_while_down" \in Faults
    /\ hold' = TRUE /\ due' = TRUE
    /\ rearmed' = (loop = "hold")
    /\ Kill
    /\ UNCHANGED <<loop, generation, stopping, roleVars, cause>>

(* The /kill-mysqld hook. *)
KillMysqld ==
    /\ Alive /\ generation < MaxGen
    /\ Kill
    /\ UNCHANGED <<loop, generation, holdVars, stopping, roleVars, cause>>

(* A /promote, /repoint or /rebuild that finds a hold set releases it and  *)
(* waits for a newer mysqld.  With no hold set it goes on at once.         *)
RoleChange ==
    /\ ending # "waiting"
    /\ hold
    /\ due' = FALSE
    /\ ending' = "waiting"
    /\ roleGen' = generation
    /\ UNCHANGED <<loop, proc, generation, immediate, hold, rearmed, stopping,
                   cause>>

NewMysqld == generation > roleGen /\ Alive

RoleGoesOn ==
    /\ ending = "waiting"
    /\ NewMysqld
    /\ ending' = "idle"
    /\ UNCHANGED <<loop, proc, generation, immediate, holdVars, stopping,
                   roleGen, cause>>

(* The deadline, tens of seconds, is never shorter than a signal takes. *)
RoleTimesOut ==
    /\ ending = "waiting"
    /\ ~NewMysqld
    /\ proc # "dying"
    /\ ending' = "failed"
    /\ UNCHANGED <<loop, proc, generation, immediate, holdVars, stopping,
                   roleGen, cause>>

(* stop() signals a running mysqld and waits for it, then cancels _run. *)
Stop ==
    /\ stopping = "no"
    /\ due' = FALSE
    /\ IF Alive THEN proc' = "dying" /\ stopping' = "waiting" /\ UNCHANGED loop
                ELSE stopping' = "stopped" /\ loop' = "done" /\ UNCHANGED proc
    /\ UNCHANGED <<generation, immediate, hold, rearmed, roleVars, cause>>

StopEnds ==
    /\ stopping = "waiting"
    /\ proc # "dying"
    /\ stopping' = "stopped"
    /\ loop' = "done"
    /\ UNCHANGED <<proc, generation, immediate, holdVars, roleVars, cause>>

-----------------------------------------------------------------------------
Loop == Spawn \/ BackoffEnds \/ Reap \/ HoldEnds

Next ==
    \/ Loop \/ SpawnFails \/ Elapse \/ Exit \/ Die
    \/ FenceKill \/ KillMysqld \/ RoleChange \/ RoleGoesOn \/ RoleTimesOut
    \/ Stop \/ StopEnds

(* The loop runs, time passes, a signalled process dies, and a program     *)
(* that is started again and again starts in the end.                      *)
Fairness ==
    /\ WF_vars(Loop)
    /\ SF_vars(Spawn)
    /\ WF_vars(Elapse)
    /\ WF_vars(Die)

Spec == Init /\ [][Next]_vars /\ Fairness

-----------------------------------------------------------------------------
(* Properties. *)

(* TypeOK: types, and an immediate restart is pending only for a mysqld    *)
(* that was signalled and whose exit has not been dealt with.              *)
TypeOK ==
    /\ loop \in {"spawn", "wait", "hold", "backoff", "done"}
    /\ proc \in {"none", "up", "dying", "down"}
    /\ generation \in Nat
    /\ immediate \in BOOLEAN
    /\ hold \in BOOLEAN /\ due \in BOOLEAN /\ rearmed \in BOOLEAN
    /\ stopping \in {"no", "waiting", "stopped"}
    /\ ending \in {"idle", "waiting", "failed"}
    /\ roleGen \in Nat
    /\ cause \in {"none", "crash", "restart", "kill"}
    /\ Alive => loop \in {"wait", "done"}
    /\ immediate /\ loop # "done" =>
         \/ loop = "wait" /\ proc # "up"
         \/ loop = "hold"

(* HoldKept: a mysqld that a kill fence holds down is not started before   *)
(* the hold is over or a role change ends it (MysqldSupervisor.hold).      *)
HoldKept == [][generation' # generation => ~due]_vars

(* RoleChangeServed: a role change that ends a hold fails only when no     *)
(* mysqld is running (_end_restart_hold).                                  *)
RoleChangeServed == [][ending = "waiting" /\ ending' = "failed" => ~Alive]_vars

(* NoFreeRestart: a mysqld that crashed by itself comes back only after a  *)
(* backoff or a hold, whatever was killed before (_run).                   *)
NoFreeRestart ==
    [][loop = "wait" /\ loop' = "spawn" => cause # "crash"]_vars

(* StopLeavesNothing: the agent never leaves a mysqld behind (stop).       *)
StopLeavesNothing == stopping = "stopped" => ~Alive

(* ComesBack: a mysqld that is down comes back unless the agent stops.     *)
ComesBack == proc = "down" ~> Alive \/ Stopping
=============================================================================
