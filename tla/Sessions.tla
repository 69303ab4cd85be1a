------------------------------ MODULE Sessions ------------------------------
(***************************************************************************)
(* The sessions in which the agent's tasks and the manager's probe send    *)
(* their statements to one mysqld (agent/db.py, Agent._sql, MysqlProber).  *)
(* A session answers its statements in the order they were sent.  The      *)
(* agent lends sessions from a small pool, the prober keeps one.  An       *)
(* answer that comes too late stays in the session.                        *)
(***************************************************************************)
EXTENDS Integers, Sequences

CONSTANTS
    Task,           \* the agent's tasks
    MaxIdle,        \* max_idle, the size of the pool
    MaxRequests,    \* bound: bodies that are run, and probes
    MaxStatements,  \* bound: statements of one body
    MaxSessions     \* bound: sessions opened

ASSUME SessionsAssumption == {MaxIdle, MaxSessions} \subseteq Nat \ {0}

VARIABLES
    idle,       \* _idle: a stack
    opened,     \* the number of sessions opened so far
    closed,     \* those that the client has closed
    lost,       \* those whose link mysqld has dropped
    wire,       \* session |-> requests it was sent and has not answered
    executing,  \* <<session, request>>: what mysqld works on
    work,       \* task |-> what it does, see Work
    kept,       \* _conns: the probe's session, or None
    probe,      \* the probe: none, select or write
    probed,     \* its request
    requests,
    mixed       \* history: a statement got the answer of another

pool == <<idle, opened, closed>>
mysqld == <<lost, wire, executing>>
prober == <<kept, probe, probed>>
sessionsVars == <<pool, mysqld, work, prober, requests, mixed>>

None == 0
Session == 1 .. MaxSessions
Work == [at : {"rest", "lend", "body", "asked", "done", "raised", "stale"},
         session : Session \cup {None}, request : Nat,
         attempt : {0, 1}, statements : Nat]
Rest == [at |-> "rest", session |-> None, request |-> 0, attempt |-> 0,
         statements |-> 0]

SessionsInit ==
    /\ idle = <<>> /\ opened = 0 /\ closed = {}
    /\ lost = {} /\ executing = {}
    /\ wire = [s \in Session |-> <<>>]
    /\ work = [t \in Task |-> Rest]
    /\ kept = None /\ probe = "none" /\ probed = 0
    /\ requests = 0 /\ mixed = FALSE

Now(t, w) == work' = [work EXCEPT ![t] = w]
Doing(t, where) == work[t].at = where
Usable(s) == s # None /\ s \notin closed

Sends(s, r) ==
    /\ wire' = [wire EXCEPT ![s] = Append(@, r)]
    /\ executing' = IF s \in lost THEN executing
                    ELSE executing \cup {<<s, r>>}
    /\ UNCHANGED lost

(* The first answer that the session has not given yet is taken for r's.   *)
Receives(s, r) ==
    /\ s \notin lost /\ wire[s] # <<>>
    /\ <<s, Head(wire[s])>> \notin executing
    /\ mixed' = (mixed \/ Head(wire[s]) # r)
    /\ wire' = [wire EXCEPT ![s] = Tail(@)]
    /\ UNCHANGED <<lost, executing>>

Pooled == {idle[i] : i \in DOMAIN idle}
Closes(S) == closed' = closed \cup (S \ {None})

(* connect(): the accounts are tried until one of them is let in. *)
Opens(s) == opened < MaxSessions /\ opened' = opened + 1 /\ s = opened'

-----------------------------------------------------------------------------
(* _sql and session(): a body runs in a session of its own. *)
BodyStarts(t) ==
    /\ Doing(t, "rest") /\ requests < MaxRequests
    /\ requests' = requests + 1
    /\ Now(t, [Rest EXCEPT !.at = "lend", !.request = requests'])
    /\ UNCHANGED <<pool, mysqld, prober, mixed>>

(* The youngest idle session that is open, those above it having been      *)
(* popped, or a new one.                                                   *)
Lend(t) ==
    LET open == {i \in DOMAIN idle : Usable(idle[i])} IN
    /\ Doing(t, "lend")
    /\ \/ \E i \in open :
            /\ \A j \in open : j <= i
            /\ idle' = SubSeq(idle, 1, i - 1)
            /\ Now(t, [work[t] EXCEPT !.at = "body", !.session = idle[i]])
            /\ UNCHANGED opened
       \/ /\ open = {} /\ idle' = <<>>
          /\ \/ \E s \in Session :
                  /\ Opens(s)
                  /\ Now(t, [work[t] EXCEPT !.at = "body", !.session = s])
             \/ Now(t, Rest) /\ UNCHANGED opened
    /\ UNCHANGED <<closed, mysqld, prober, requests, mixed>>

Ask(t) ==
    LET w == work[t] IN
    /\ Doing(t, "body") /\ w.statements < MaxStatements
    /\ IF Usable(w.session)
         THEN /\ Sends(w.session, w.request)
              /\ Now(t, [w EXCEPT !.at = "asked", !.statements = @ + 1])
         ELSE Now(t, [w EXCEPT !.at = "raised"]) /\ UNCHANGED mysqld
    /\ UNCHANGED <<pool, prober, requests, mixed>>

(* A row, or an error of mysqld's, with which the body goes on or ends.    *)
AnswerComes(t) ==
    LET w == work[t] IN
    /\ Doing(t, "asked") /\ Receives(w.session, w.request)
    /\ \E next \in {"body", "done", "raised"} :
         Now(t, [w EXCEPT !.at = next])
    /\ UNCHANGED <<pool, prober, requests>>

(* Mutant: a session whose statement timed out stays open. *)
TimesOutOpen(t) ==
    /\ Doing(t, "asked")
    /\ \E next \in {"body", "done", "raised"} :
         Now(t, [work[t] EXCEPT !.at = next])
    /\ UNCHANGED <<pool, mysqld, prober, requests, mixed>>

(* The error that is raised may be suppressed by the body. *)
TimesOut(t) ==
    /\ Doing(t, "asked")
    /\ Closes({work[t].session})
    /\ \E next \in {"body", "done", "raised"} :
         Now(t, [work[t] EXCEPT !.at = next])
    /\ UNCHANGED <<idle, opened, mysqld, prober, requests, mixed>>

LinkLost(t) ==
    /\ Doing(t, "asked") /\ work[t].session \in lost
    /\ Closes({work[t].session})
    /\ \E next \in {"body", "done", "stale"} :
         Now(t, [work[t] EXCEPT !.at = next])
    /\ UNCHANGED <<idle, opened, mysqld, prober, requests, mixed>>

(* A deadline cancels the task in the middle of its body. *)
Cancelled(t) ==
    /\ work[t].at \in {"body", "asked"}
    /\ Now(t, [work[t] EXCEPT !.at = "raised"])
    /\ UNCHANGED <<pool, mysqld, prober, requests, mixed>>

BodyEnds(t) ==
    /\ Doing(t, "body") /\ work[t].statements > 0
    /\ Now(t, [work[t] EXCEPT !.at = "done"])
    /\ UNCHANGED <<pool, mysqld, prober, requests, mixed>>

(* Back into the pool goes what nothing was raised in. *)
GivesBack(t) ==
    LET w == work[t] IN
    /\ w.at \in {"done", "raised", "stale"}
    /\ IF w.at = "done" /\ Usable(w.session) /\ Len(idle) < MaxIdle
         THEN idle' = Append(idle, w.session) /\ UNCHANGED closed
         ELSE Closes({w.session}) /\ UNCHANGED idle
    /\ IF w.at = "stale" /\ w.attempt = 0
         THEN Now(t, [Rest EXCEPT !.at = "lend", !.request = w.request,
                                   !.attempt = 1])
         ELSE Now(t, Rest)
    /\ UNCHANGED <<opened, mysqld, prober, requests, mixed>>

(* A fence, a kill, a rebuild or a restart of mysqld. *)
DropIdle ==
    /\ idle # <<>>
    /\ Closes(Pooled) /\ idle' = <<>>
    /\ UNCHANGED <<opened, mysqld, work, prober, requests, mixed>>

-----------------------------------------------------------------------------
(* MysqlProber.probe: SELECT 1, then a write, both within one timeout.     *)
ProbeStarts ==
    /\ probe = "none" /\ requests < MaxRequests
    /\ requests' = requests + 1 /\ probed' = requests'
    /\ probe' = "select"
    /\ \E s \in Session :
         /\ IF Usable(kept) THEN s = kept /\ UNCHANGED opened ELSE Opens(s)
         /\ kept' = s
         /\ Sends(s, probed')
    /\ UNCHANGED <<idle, closed, work, mixed>>

SelectAnswered ==
    /\ probe = "select" /\ probe' = "write"
    /\ kept \notin lost /\ wire[kept] # <<>>
    /\ <<kept, Head(wire[kept])>> \notin executing
    /\ mixed' = (mixed \/ Head(wire[kept]) # probed)
    /\ wire' = [wire EXCEPT ![kept] = Append(Tail(@), probed)]
    /\ executing' = executing \cup {<<kept, probed>>}
    /\ UNCHANGED <<pool, lost, work, kept, probed, requests>>

WriteAnswered ==
    /\ probe = "write" /\ probe' = "none"
    /\ Receives(kept, probed)
    /\ UNCHANGED <<pool, work, kept, probed, requests>>

(* _drop: a timeout or an error ends the session. *)
ProbeFails ==
    /\ probe # "none" /\ probe' = "none"
    /\ Closes({kept}) /\ kept' = None
    /\ UNCHANGED <<idle, opened, mysqld, work, probed, requests, mixed>>

-----------------------------------------------------------------------------
Executes ==
    /\ \E e \in executing : executing' = executing \ {e}
    /\ UNCHANGED <<pool, lost, wire, work, prober, requests, mixed>>

(* KILL, by a fence or by unstick: the link is gone at once, and what the  *)
(* session was executing goes on until it looks.                           *)
Kills ==
    /\ \E s \in (1 .. opened) \ lost : lost' = lost \cup {s}
    /\ UNCHANGED <<pool, wire, executing, work, prober, requests, mixed>>

(* mysqld goes down and up again, and nothing is left of its sessions.     *)
Restarts ==
    /\ lost # 1 .. opened
    /\ lost' = 1 .. opened /\ executing' = {}
    /\ UNCHANGED <<pool, wire, work, prober, requests, mixed>>

SessionsNext ==
    \/ \E t \in Task :
         \/ BodyStarts(t) \/ Lend(t) \/ Ask(t) \/ AnswerComes(t) \/ TimesOut(t)
         \/ LinkLost(t) \/ Cancelled(t) \/ BodyEnds(t) \/ GivesBack(t)
    \/ DropIdle
    \/ ProbeStarts \/ SelectAnswered \/ WriteAnswered \/ ProbeFails
    \/ Executes \/ Kills \/ Restarts

SessionsSpec == SessionsInit /\ [][SessionsNext]_sessionsVars

-----------------------------------------------------------------------------
InHand == {work[t].session : t \in Task} \cup {kept} \cup Pooled

(* Whatever times out, is cancelled or loses its link meanwhile: every     *)
(* statement gets its own answer, no session is in two hands or in none,   *)
(* and of two sessions in which mysqld executes the same request, one has  *)
(* lost its link: what timed out or was cancelled is never sent again.     *)
OwnAnswers ==
    /\ ~mixed
    /\ (1 .. opened) \ closed \subseteq InHand
    /\ \A t \in Task : LET s == work[t].session IN
         s # None => /\ s \notin Pooled \cup {kept}
                     /\ \A u \in Task \ {t} : work[u].session # s
    /\ kept \notin Pooled
    /\ \A e, f \in executing :
         e[2] = f[2] => e = f \/ {e[1], f[1]} \cap lost # {}
=============================================================================
