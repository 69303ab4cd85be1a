----------------------------- MODULE PartProofs -----------------------------
(***************************************************************************)
(* What the runs check of the smaller parts on small instances - of the    *)
(* agent's supervisor, the measured workload, the self-fence lease, the    *)
(* database sessions, the event log and the failure detector - proved for  *)
(* any number of mysqld processes, clients, rows, tasks, requests,         *)
(* sessions, events, crashes, polls and nodes, and for every length of the *)
(* lease, of its sleep and of its timeout, of the pool, of the ring and of *)
(* the detection window.                                                   *)
(***************************************************************************)
EXTENDS Supervisor, Workload, Lease, Sessions, EventLog, Detector,
    FiniteSetTheorems, TLAPS

-----------------------------------------------------------------------------
(* The supervisor.                                                         *)

USE SupervisorAssumption

(* StopInv: a stop only ever waits for a signalled mysqld, and once the    *)
(* loop is done no mysqld runs and none is started.                        *)
StopInv ==
    /\ loop = "wait" => proc # "none"
    /\ loop = "done" => Stopping /\ ~Alive
    /\ stopping = "waiting" => loop \in {"wait", "done"} /\ proc # "up"
    /\ stopping = "stopped" => loop = "done"

(* THEOREM StopCorrect: types, and the agent leaves no mysqld behind. *)
THEOREM StopCorrect == Spec => [](TypeOK /\ StopInv)
<1>1. Init => TypeOK /\ StopInv
  <2> SUFFICES ASSUME Init PROVE TypeOK /\ StopInv
    OBVIOUS
  <2> USE DEF Init, Alive, Stopping
  <2>1. TypeOK
    BY DEF TypeOK
  <2>2. StopInv
    BY DEF StopInv
  <2> QED BY <2>1, <2>2
<1>2. TypeOK /\ StopInv /\ [Next]_vars => (TypeOK /\ StopInv)'
  <2> SUFFICES ASSUME TypeOK, StopInv, [Next]_vars
               PROVE  (TypeOK /\ StopInv)'
    OBVIOUS
  <2> USE DEF TypeOK, StopInv, Alive, Stopping, holdVars, roleVars
  <2>1. CASE Spawn
    BY <2>1 DEF Spawn
  <2>2. CASE SpawnFails
    BY <2>2 DEF SpawnFails
  <2>3. CASE BackoffEnds
    BY <2>3 DEF BackoffEnds
  <2>4. CASE Reap
    <3>1. TypeOK'
      <4> USE <2>4 DEF Reap, GoesTo
      <4>1. UNCHANGED <<proc, generation, hold, due, stopping, ending, roleGen,
                        cause>>
        BY DEF AfterExit
      <4>2. loop' \in {"done", "hold", "spawn", "backoff"}
        BY DEF AfterExit
      <4>3. immediate' \in BOOLEAN /\ rearmed' \in BOOLEAN
        BY DEF AfterExit
      <4>4. immediate' /\ loop' # "done" => loop' = "hold"
        BY DEF AfterExit
      <4> QED BY <4>1, <4>2, <4>3, <4>4
    <3>2. StopInv'
      BY <2>4 DEF Reap, AfterExit, GoesTo
    <3> QED BY <3>1, <3>2
  <2>5. CASE HoldEnds
    BY <2>5 DEF HoldEnds
  <2>6. CASE Elapse
    BY <2>6 DEF Elapse
  <2>7. CASE Exit \/ Die
    BY <2>7 DEF Exit, Die
  <2>8. CASE FenceKill
    BY <2>8 DEF FenceKill, Kill
  <2>9. CASE KillMysqld
    BY <2>9 DEF KillMysqld, Kill
  <2>10. CASE RoleChange
    BY <2>10 DEF RoleChange
  <2>11. CASE RoleGoesOn \/ RoleTimesOut
    BY <2>11 DEF RoleGoesOn, RoleTimesOut
  <2>12. CASE Stop
    BY <2>12 DEF Stop
  <2>13. CASE StopEnds
    BY <2>13 DEF StopEnds
  <2>14. CASE UNCHANGED vars
    BY <2>14 DEF vars
  <2> QED
    BY <2>1, <2>2, <2>3, <2>4, <2>5, <2>6, <2>7, <2>8, <2>9, <2>10, <2>11,
       <2>12, <2>13, <2>14 DEF Next, Loop
<1> QED BY <1>1, <1>2, PTL DEF Spec

(* THEOREM NothingLeft: StopLeavesNothing, from the invariant above. *)
THEOREM NothingLeft == Spec => []StopLeavesNothing
<1>1. StopInv => StopLeavesNothing
  BY DEF StopInv, StopLeavesNothing
<1> QED BY <1>1, StopCorrect, PTL

(* Fences that find a mysqld to kill.                                      *)

(* HoldInv: a hold is set only while the mysqld it was set for is on its   *)
(* way down or held down, and a role change waits for a newer one only     *)
(* where the one it found is not running.                                  *)
HoldInv ==
    /\ due => hold
    /\ rearmed => loop = "done"
    /\ hold => loop = "done" \/ (loop \in {"wait", "hold"} /\ proc # "up")
    /\ ending = "waiting" => roleGen <= generation
    /\ ending = "waiting" /\ roleGen = generation => proc # "up"
    /\ loop = "hold" => proc = "down"

(* Without fences that come while no mysqld runs. *)
FencesFindMysqld == "fence_while_down" \notin Faults

(* HoldStep: one step keeps the invariant and starts no held mysqld. *)
LEMMA HoldStep ==
  ASSUME FencesFindMysqld, TypeOK, StopInv, HoldInv, [Next]_vars
  PROVE  /\ HoldInv'
         /\ generation' # generation => ~due
         /\ ending = "waiting" /\ ending' = "failed" => ~Alive
<1> USE DEF TypeOK, StopInv, HoldInv, FencesFindMysqld, Alive, Stopping,
            holdVars, roleVars
<1>1. CASE Spawn
  BY <1>1 DEF Spawn
<1>2. CASE SpawnFails
  BY <1>2 DEF SpawnFails
<1>3. CASE BackoffEnds
  BY <1>3 DEF BackoffEnds
<1>4. CASE Reap
  BY <1>4 DEF Reap, AfterExit, GoesTo
<1>5. CASE HoldEnds
  BY <1>5 DEF HoldEnds
<1>6. CASE Elapse
  BY <1>6 DEF Elapse
<1>7. CASE Exit \/ Die
  BY <1>7 DEF Exit, Die
<1>8. CASE FenceKill
  BY <1>8 DEF FenceKill, Kill
<1>9. CASE KillMysqld
  BY <1>9 DEF KillMysqld, Kill
<1>10. CASE RoleChange
  BY <1>10 DEF RoleChange
<1>11. CASE RoleGoesOn
  BY <1>11 DEF RoleGoesOn
<1>12. CASE RoleTimesOut
  BY <1>12 DEF RoleTimesOut, NewMysqld
<1>13. CASE Stop
  BY <1>13 DEF Stop
<1>14. CASE StopEnds
  BY <1>14 DEF StopEnds
<1>15. CASE UNCHANGED vars
  BY <1>15 DEF vars
<1> QED
  BY <1>1, <1>2, <1>3, <1>4, <1>5, <1>6, <1>7, <1>8, <1>9, <1>10, <1>11,
     <1>12, <1>13, <1>14, <1>15 DEF Next, Loop

(* HoldAlways: the invariant holds all the time. *)
LEMMA HoldAlways ==
  ASSUME FencesFindMysqld
  PROVE  Spec => [](TypeOK /\ StopInv /\ HoldInv)
<1>1. Init => HoldInv
  BY DEF Init, HoldInv, Alive
<1>2. TypeOK /\ StopInv /\ HoldInv /\ [Next]_vars => HoldInv'
  BY HoldStep
<1> QED
  BY <1>1, <1>2, StopCorrect, PTL DEF Spec

(* THEOREM HoldCorrect: HoldKept, no mysqld is started while a kill        *)
(* fence's hold is set and not yet due to end, as long as every fence      *)
(* finds a mysqld to kill.                                                 *)
THEOREM HoldCorrect ==
  ASSUME FencesFindMysqld
  PROVE  Spec => HoldKept
<1>1. TypeOK /\ StopInv /\ HoldInv /\ [Next]_vars
        => [generation' # generation => ~due]_vars
  BY HoldStep
<1> QED
  BY <1>1, HoldAlways, PTL DEF Spec, HoldKept

(* THEOREM RoleChangeCorrect: RoleChangeServed, a role change that ends a  *)
(* hold fails only when mysqld does not come back, under the same          *)
(* assumption.                                                             *)
THEOREM RoleChangeCorrect ==
  ASSUME FencesFindMysqld
  PROVE  Spec => RoleChangeServed
<1>1. TypeOK /\ StopInv /\ HoldInv /\ [Next]_vars
        => [ending = "waiting" /\ ending' = "failed" => ~Alive]_vars
  BY HoldStep
<1> QED
  BY <1>1, HoldAlways, PTL DEF Spec, RoleChangeServed

(* KillInv: the restart that a kill asks for is spent on the mysqld that   *)
(* was killed.                                                             *)
KillInv == loop = "wait" /\ proc = "down" /\ immediate => cause = "kill"

(* THEOREM RestartCorrect: NoFreeRestart, whatever was fenced and killed   *)
(* before, a mysqld that crashed waits out a backoff or a hold.            *)
THEOREM RestartCorrect == Spec => NoFreeRestart
<1>1. Init => KillInv
  BY DEF Init, KillInv
<1>2. TypeOK /\ KillInv /\ [Next]_vars
        => /\ KillInv'
           /\ [loop = "wait" /\ loop' = "spawn" => cause # "crash"]_vars
  <2> SUFFICES ASSUME TypeOK, KillInv, [Next]_vars
               PROVE  /\ KillInv'
                      /\ loop = "wait" /\ loop' = "spawn" => cause # "crash"
    OBVIOUS
  <2> USE DEF KillInv, Alive, Stopping, holdVars, roleVars
  <2>1. CASE Spawn \/ SpawnFails
    BY <2>1 DEF Spawn, SpawnFails
  <2>2. CASE BackoffEnds \/ HoldEnds
    BY <2>2 DEF BackoffEnds, HoldEnds
  <2>3. CASE Reap
    BY <2>3 DEF Reap, AfterExit, GoesTo
  <2>4. CASE Elapse
    BY <2>4 DEF Elapse
  <2>5. CASE Exit
    BY <2>5 DEF Exit, TypeOK
  <2>6. CASE Die
    BY <2>6 DEF Die
  <2>7. CASE FenceKill \/ KillMysqld
    BY <2>7 DEF FenceKill, KillMysqld, Kill
  <2>8. CASE RoleChange \/ RoleGoesOn \/ RoleTimesOut
    BY <2>8 DEF RoleChange, RoleGoesOn, RoleTimesOut
  <2>9. CASE Stop \/ StopEnds
    BY <2>9 DEF Stop, StopEnds
  <2>10. CASE UNCHANGED vars
    BY <2>10 DEF vars
  <2> QED
    BY <2>1, <2>2, <2>3, <2>4, <2>5, <2>6, <2>7, <2>8, <2>9, <2>10
    DEF Next, Loop
<1> QED
  BY <1>1, <1>2, StopCorrect, PTL DEF Spec, NoFreeRestart

-----------------------------------------------------------------------------
(* The workload.  A row is open from the moment it is sent until its       *)
(* client has logged what became of it.                                    *)
Open(c) == pc[c] \in {"insert", "ok", "error"}

WorkloadType ==
    /\ pc \in [Client -> {"loop", "connect", "send", "insert", "ok",
                          "error", "logged", "done"}]
    /\ conn \in [Client -> BOOLEAN]
    /\ seq \in [Client -> Nat] /\ inFlight \in [Client -> Nat]
    /\ stop \in BOOLEAN
    /\ main \in {"running", "joining", "closing", "closed"}
    /\ left \subseteq Client

(* An open row is in flight; it has landed when its client was told so.    *)
FlightInv ==
    \A c \in Client :
      /\ Open(c) => seq[c] # NoSeq /\ inFlight[c] = seq[c]
      /\ pc[c] = "ok" => Row(c) \in rows

(* What is acknowledged has landed, what has landed was sent, and what was *)
(* sent is in the log or still open.                                       *)
LogInv ==
    /\ acked \subseteq rows
    /\ rows \subseteq sent
    /\ \A r \in sent : \/ r \in acked \cup errored
                       \/ \E c \in Client : Open(c) /\ r = Row(c)

(* A client that was joined, or whose join timed out, sends nothing more.  *)
JoinInv ==
    /\ IF main = "running" THEN left = Client ELSE stop
    /\ \A c \in Client :
         \/ main \in {"closing", "closed"}
         \/ main = "joining" /\ c \notin left
         => pc[c] \notin {"connect", "send"}

(* A row that is open when its client has been examined is in the log.     *)
ExamineInv ==
    \A c \in Client :
      (main = "closed" \/ (main = "closing" /\ c \notin left)) /\ Open(c)
      => Row(c) \in errored

WorkloadInv ==
    WorkloadType /\ FlightInv /\ LogInv /\ JoinInv /\ ExamineInv

(* At the start nothing has been sent. *)
LEMMA WorkloadStart == WorkloadInit => WorkloadInv
  <1> SUFFICES ASSUME WorkloadInit PROVE WorkloadInv
    OBVIOUS
  <1>1. WorkloadType
    BY DEF WorkloadInit, WorkloadType, NoSeq
  <1>2. \A c \in Client : pc[c] = "loop"
    BY DEF WorkloadInit
  <1>3. FlightInv /\ LogInv
    BY <1>2 DEF WorkloadInit, FlightInv, LogInv, Open
  <1>4. JoinInv /\ ExamineInv
    BY <1>2 DEF WorkloadInit, JoinInv, ExamineInv, Open
  <1> QED BY <1>1, <1>3, <1>4 DEF WorkloadInv

(* Every step keeps the invariant, if no connect() outlasts the join: what *)
(* the assumption rules out is a client that is still to send its row when *)
(* the log is closed.                                                      *)
LEMMA WorkloadStep ==
    ASSUME WorkloadInv, ~LateConnect, [WorkloadNext]_workloadVars
    PROVE  WorkloadInv'
  <1> USE DEF WorkloadInv, Goto, server, log, control, NoSeq
  <1>1. ASSUME NEW c \in Client, LoopTop(c) PROVE WorkloadInv'
    <2> USE <1>1 DEF LoopTop
    <2>1. WorkloadType'
      BY DEF WorkloadType
    <2>2. FlightInv' /\ ExamineInv' /\ LogInv'
      BY DEF WorkloadType, FlightInv, ExamineInv, LogInv, Open, Row
    <2>3. JoinInv'
      BY DEF WorkloadType, JoinInv
    <2> QED BY <2>1, <2>2, <2>3
  <1>2. ASSUME NEW c \in Client, Connect(c) PROVE WorkloadInv'
    <2> USE <1>2 DEF Connect
    <2>1. WorkloadType'
      BY DEF WorkloadType
    <2>2. FlightInv' /\ ExamineInv' /\ LogInv'
      BY DEF WorkloadType, FlightInv, ExamineInv, LogInv, Open, Row
    <2>3. JoinInv'
      BY DEF WorkloadType, JoinInv
    <2> QED BY <2>1, <2>2, <2>3
  <1>3. ASSUME NEW c \in Client, Send(c) PROVE WorkloadInv'
    <2> USE <1>3 DEF Send
    <2>1. WorkloadType'
      BY DEF WorkloadType
    <2>2. FlightInv'
      BY DEF WorkloadType, FlightInv, Open, Row
    <2>3. \A d \in Client : Open(d) => Open(d)' /\ Row(d)' = Row(d)
      BY DEF WorkloadType, Open, Row
    <2>4. Open(c)' /\ sent' = sent \cup {Row(c)'}
      BY DEF WorkloadType, Open, Row
    <2>5. LogInv'
      BY <2>3, <2>4 DEF LogInv
    <2>6. JoinInv'
      BY DEF WorkloadType, JoinInv
    <2>7. ~(main \in {"closing", "closed"})
      BY DEF JoinInv
    <2>8. ExamineInv'
      BY <2>7 DEF ExamineInv, WorkloadType
    <2> QED BY <2>1, <2>2, <2>5, <2>6, <2>8
  <1>4. ASSUME NEW c \in Client, Answered(c) PROVE WorkloadInv'
    <2> USE <1>4 DEF Answered
    <2>1. WorkloadType'
      BY DEF WorkloadType
    <2>2. \A d \in Client : (Open(d) <=> Open(d)') /\ Row(d)' = Row(d)
      BY DEF WorkloadType, Open, Row
    <2>3. FlightInv'
      BY <2>2 DEF WorkloadType, FlightInv, Open, Row
    <2>4. LogInv' /\ ExamineInv'
      BY <2>2 DEF LogInv, ExamineInv
    <2>5. JoinInv'
      BY DEF WorkloadType, JoinInv
    <2> QED BY <2>1, <2>3, <2>4, <2>5
  <1>5. ASSUME NEW c \in Client, LogRow(c) PROVE WorkloadInv'
    <2> USE <1>5 DEF LogRow
    <2>1. WorkloadType'
      BY DEF WorkloadType
    <2>2. /\ Open(c) /\ ~Open(c)' /\ UNCHANGED <<sent, rows, main, left>>
          /\ \A d \in Client : Row(d)' = Row(d)
          /\ \A d \in Client \ {c} : Open(d) <=> Open(d)'
      BY DEF WorkloadType, Open, Row
    <2>3. FlightInv'
      BY <2>2 DEF WorkloadType, FlightInv, Open, Row
    <2>4. Row(c) \in acked' \cup errored'
      BY <2>2 DEF Note, ExamineInv
    <2>5. /\ acked \subseteq acked' /\ errored \subseteq errored'
          /\ acked' \subseteq rows
      BY DEF Note, LogInv, FlightInv
    <2>6. LogInv'
      BY <2>2, <2>4, <2>5 DEF LogInv
    <2>7. ExamineInv'
      BY <2>2, <2>5 DEF ExamineInv
    <2>8. JoinInv'
      BY DEF WorkloadType, JoinInv
    <2> QED BY <2>1, <2>3, <2>6, <2>7, <2>8
  <1>6. ASSUME NEW c \in Client, Clear(c) PROVE WorkloadInv'
    <2> USE <1>6 DEF Clear
    <2>1. WorkloadType'
      BY DEF WorkloadType
    <2>2. FlightInv' /\ ExamineInv' /\ LogInv'
      BY DEF WorkloadType, FlightInv, ExamineInv, LogInv, Open, Row
    <2>3. JoinInv'
      BY DEF WorkloadType, JoinInv
    <2> QED BY <2>1, <2>2, <2>3
  <1>7. ASSUME NEW c \in Client, Join(c) PROVE WorkloadInv'
    <2> USE <1>7 DEF Join
    <2>1. WorkloadType' /\ FlightInv' /\ LogInv' /\ ExamineInv'
      BY DEF WorkloadType, FlightInv, ExamineInv, LogInv, Open, Row
    <2>2. JoinInv'
      BY DEF JoinInv, Waits
    <2> QED BY <2>1, <2>2
  <1>8. ASSUME NEW c \in Client, Examine(c) PROVE WorkloadInv'
    <2> USE <1>8 DEF Examine
    <2>1. errored \subseteq errored'
      BY DEF Note
    <2>2. Open(c) => Row(c) \in errored'
      BY DEF Note, FlightInv, Row
    <2>3. WorkloadType' /\ FlightInv' /\ JoinInv'
      BY DEF WorkloadType, FlightInv, JoinInv, Open, Row
    <2>4. \A d \in Client : (Open(d) <=> Open(d)') /\ Row(d)' = Row(d)
      BY DEF Open, Row
    <2>5. LogInv' /\ ExamineInv'
      BY <2>1, <2>2, <2>4 DEF LogInv, ExamineInv
    <2> QED BY <2>3, <2>5
  <1>9. ASSUME NEW r \in sent, Land(r) PROVE WorkloadInv'
    BY <1>9 DEF Land, WorkloadType, FlightInv, ExamineInv, LogInv, JoinInv,
                Open, Row
  <1>10. CASE StopClients
    BY <1>10 DEF StopClients, WorkloadType, FlightInv, ExamineInv, LogInv,
                 JoinInv, Open, Row
  <1>11. CASE Joined
    BY <1>11 DEF Joined, WorkloadType, FlightInv, ExamineInv, LogInv,
                 JoinInv, Open, Row
  <1>12. CASE Close
    BY <1>12 DEF Close, WorkloadType, FlightInv, ExamineInv, LogInv, JoinInv,
                 Open, Row
  <1>13. CASE UNCHANGED workloadVars
    BY <1>13 DEF workloadVars, WorkloadType, FlightInv, ExamineInv, LogInv,
                 JoinInv, Open, Row
  <1> QED
    BY <1>1, <1>2, <1>3, <1>4, <1>5, <1>6, <1>7, <1>8, <1>9, <1>10, <1>11,
       <1>12, <1>13 DEF WorkloadNext

(* When no connect() outlasts the join, the verdict of the checker on the  *)
(* ack log of any number of clients is true.                               *)
THEOREM VerdictCorrect ==
    ASSUME ~LateConnect PROVE WorkloadSpec => []VerdictTrue
  <1>1. WorkloadInv => VerdictTrue
    BY DEF WorkloadInv, LogInv, ExamineInv, VerdictTrue, Lost, Phantom
  <1>2. WorkloadInv /\ [WorkloadNext]_workloadVars => WorkloadInv'
    BY WorkloadStep
  <1> QED
    BY <1>1, <1>2, WorkloadStart, PTL DEF WorkloadSpec

-----------------------------------------------------------------------------
(* The lease.  Sleep and check take turns; Isolated is when alone runs.    *)
Isolated == cut /\ ~replicas /\ role = "primary" /\ enabled
Checks == facts # "sleep"

LeaseType ==
    /\ {cut, replicas, hung, enabled} \subseteq BOOLEAN
    /\ role \in {"primary", "replica", "fenced"}
    /\ facts \in {"sleep", "none", "some", "unknown"}
    /\ waited \in Nat /\ waited <= IF Checks THEN Timeout ELSE Interval
    /\ count \in Nat \cup {NoCount} /\ count <= After
    /\ {alone, answered, heard, followed, contact} \subseteq Nat

(* An age is 0 while there is nothing that it is the age of. *)
AgeInv ==
    /\ ~Isolated => alone = 0
    /\ hung => answered = 0
    /\ cut => heard = 0
    /\ ~(replicas /\ ~hung) => followed = 0

(* While it counts, the last check missed the manager when it ended and    *)
(* the replicas when it began, so no contact has lasted a whole cycle.     *)
(* With a client count of some, the count is about to be dropped.          *)
ContactInv ==
    /\ facts \in {"none", "unknown"} => followed <= waited
    /\ count # NoCount =>
         /\ heard <= IF Checks THEN Interval + waited ELSE waited
         /\ ~Checks => followed <= Timeout + waited
         /\ facts # "some" => contact >= count

(* How long the primary can have been alone in each phase of the count:    *)
(* before it starts, while it runs, and, when mysqld failed to tell the    *)
(* number of clients, how long mysqld can have answered since.             *)
AloneInv ==
    /\ facts = "some" => alone <= waited
    /\ count = NoCount =>
         alone <= IF Checks THEN Cycle + waited ELSE Timeout + waited
    /\ count # NoCount /\ count < After => alone <= count + Timeout + Cycle
    /\ count = After =>
         \/ alone <= After + Timeout + Cycle
                     + (IF Checks THEN Interval + waited ELSE waited)
         \/ answered <= IF Checks THEN Cycle + waited ELSE Timeout + waited
    /\ facts = "unknown" => answered <= waited

LeaseInv == LeaseType /\ AgeInv /\ ContactInv /\ AloneInv /\ ~hasty

(* The lengths of the lease are numbers of at least one. *)
LEMMA LeaseLengths ==
    /\ After \in Nat /\ Interval \in Nat /\ Timeout \in Nat
    /\ After > 0 /\ Interval > 0 /\ Timeout > 0
  BY LeaseAssumption

(* At the start nothing is counted and every age is 0. *)
LEMMA LeaseStart == LeaseInit => LeaseInv
  <1> SUFFICES ASSUME LeaseInit PROVE LeaseInv
    OBVIOUS
  <1> USE LeaseLengths DEF LeaseInit, NoCount, Cycle, Checks
  <1>1. {cut, replicas, hung, enabled} \subseteq BOOLEAN /\ ~hasty
    OBVIOUS
  <1>2. LeaseType /\ AgeInv
    BY <1>1 DEF LeaseType, AgeInv
  <1>3. ContactInv /\ AloneInv
    BY DEF ContactInv, AloneInv
  <1> QED BY <1>1, <1>2, <1>3 DEF LeaseInv

(* When a condition changes, every age stays or starts over, and so does   *)
(* the count.                                                              *)
LEMMA LeaseChange ==
    ASSUME LeaseInv, Change PROVE LeaseInv'
  <1>1. /\ UNCHANGED <<facts, waited, contact, hasty>>
        /\ count' = count \/ (count' = NoCount /\ alone' = 0)
    BY DEF Change, Ages, LeaseInv, LeaseType, AgeInv, Isolated
  <1>2. /\ alone' = IF Isolated' THEN alone ELSE 0
        /\ answered' = IF hung' THEN 0 ELSE answered
        /\ heard' = IF cut' THEN 0 ELSE heard
        /\ followed' = IF replicas' /\ ~hung' THEN followed ELSE 0
    BY DEF Change, Ages, Isolated
  <1>3. /\ {cut, replicas, hung, enabled}' \subseteq BOOLEAN
        /\ role' \in {"primary", "replica", "fenced"}
    BY DEF Change, LeaseInv, LeaseType
  <1>4. LeaseType' /\ AgeInv'
    <2>1. count' \in Nat \cup {NoCount} /\ count' <= After
      BY <1>1, LeaseLengths DEF LeaseInv, LeaseType, NoCount
    <2> QED
      BY <1>1, <1>2, <1>3, <2>1 DEF LeaseInv, LeaseType, AgeInv, Checks
  <1>5. /\ alone' \in Nat /\ alone' <= alone
        /\ answered' \in Nat /\ answered' <= answered
        /\ heard' \in Nat /\ heard' <= heard
        /\ followed' \in Nat /\ followed' <= followed
    BY <1>2 DEF LeaseInv, LeaseType
  <1> USE LeaseLengths DEF LeaseInv, LeaseType, Checks, NoCount, Cycle
  <1>6. ContactInv'
    BY <1>1, <1>5 DEF ContactInv
  <1>7. AloneInv'
    BY <1>1, <1>5 DEF AloneInv
  <1> QED BY <1>1, <1>4, <1>6, <1>7

(* Time passes: no age grows faster than the sleep or the check does.      *)
LEMMA LeaseTime ==
    ASSUME LeaseInv, TimePasses PROVE LeaseInv'
  <1> USE LeaseLengths DEF LeaseInv, TimePasses, world
  <1>1. /\ UNCHANGED <<cut, replicas, hung, role, enabled, facts, hasty>>
        /\ waited' = waited + 1
        /\ waited' <= IF Checks THEN Timeout ELSE Interval
    BY DEF LeaseType, Checks
  <1>2. /\ alone' \in Nat /\ alone' <= alone + 1
        /\ answered' \in Nat /\ answered' <= answered + 1
        /\ heard' \in Nat /\ heard' <= heard + 1
        /\ followed' \in Nat /\ followed' <= followed + 1
    BY DEF LeaseType, Older, Cycle, Late
  <1>3. contact' \in Nat
    BY DEF LeaseType, Older
  <1>4. count' \in Nat \cup {NoCount} /\ count' <= After
    BY DEF LeaseType, Older, NoCount
  <1>5. LeaseType'
    BY <1>1, <1>2, <1>3, <1>4 DEF LeaseType, Checks
  <1>6. AgeInv'
    BY <1>1, <1>2 DEF AgeInv, Isolated
  <1>7. ASSUME count' # NoCount
        PROVE  /\ count # NoCount
               /\ count' = IF count < After THEN count + 1 ELSE count
    BY <1>7 DEF Older, NoCount, LeaseType
  <1>8. /\ facts' \in {"none", "unknown"} => followed' <= waited'
        /\ count' # NoCount =>
             /\ heard' <= IF Checks' THEN Interval + waited' ELSE waited'
             /\ ~Checks' => followed' <= Timeout + waited'
    BY <1>1, <1>2, <1>7 DEF ContactInv, LeaseType, Checks
  <1>9. ASSUME count' # NoCount, facts' # "some" PROVE contact' >= count'
    <2>1. heard' <= Cycle /\ followed' <= Cycle
      BY <1>1, <1>2, <1>5, <1>8, <1>9 DEF Cycle, LeaseType, Checks
    <2>2. contact >= count
      BY <1>1, <1>7, <1>9 DEF ContactInv
    <2>3. contact' = Older(contact, After)
      BY <2>1 DEF Missed
    <2> QED
      BY <2>2, <2>3, <1>7, <1>9 DEF Older, LeaseType, NoCount
  <1>10. ContactInv'
    BY <1>8, <1>9 DEF ContactInv
  <1>11. /\ facts' = "some" => alone' <= waited'
         /\ facts' = "unknown" => answered' <= waited'
    BY <1>1, <1>2 DEF AloneInv, LeaseType
  <1>12. count' = NoCount =>
           alone' <= IF Checks' THEN Cycle + waited' ELSE Timeout + waited'
    <2>1. count' = NoCount => count = NoCount
      BY DEF Older, NoCount, LeaseType
    <2> QED
      BY <1>1, <1>2, <2>1 DEF AloneInv, LeaseType, Checks, Cycle
  <1>13. count' # NoCount /\ count' < After =>
           alone' <= count' + Timeout + Cycle
    BY <1>2, <1>7 DEF AloneInv, LeaseType, Cycle, NoCount
  <1>14. ASSUME count' = After
         PROVE  \/ alone' <= After + Timeout + Cycle
                     + (IF Checks' THEN Interval + waited' ELSE waited')
                \/ answered' <= IF Checks' THEN Cycle + waited'
                                ELSE Timeout + waited'
    <2>1. count # NoCount /\ (count = After \/ count + 1 = After)
      BY <1>7, <1>14 DEF LeaseType, NoCount
    <2>2. CASE count = After
      BY <1>1, <1>2, <2>2 DEF AloneInv, LeaseType, Checks, Cycle
    <2>3. CASE count + 1 = After
      <3>1. alone <= count + Timeout + Cycle
        BY <2>1, <2>3 DEF AloneInv, LeaseType, NoCount
      <3> QED BY <1>1, <1>2, <2>3, <3>1 DEF LeaseType, Checks, Cycle, NoCount
    <2> QED BY <2>1, <2>2, <2>3
  <1>15. AloneInv'
    BY <1>11, <1>12, <1>13, <1>14 DEF AloneInv
  <1> QED BY <1>1, <1>5, <1>6, <1>10, <1>15

(* A check begins, ends or fences the node.  A check that fences it has    *)
(* missed the manager for as long as it counts and saw no replica.         *)
LEMMA LeaseCheck ==
    ASSUME LeaseInv,
           CheckStarts \/ ManagerAnswers \/ CountsOn \/ SelfFences
    PROVE  LeaseInv'
  <1> USE LeaseLengths DEF LeaseInv, Asleep, Cycle, NoCount
  <1>1. CASE CheckStarts
    <2> USE <1>1 DEF CheckStarts
    <2>1. UNCHANGED <<world, ages, hasty>>
      OBVIOUS
    <2>2. /\ UNCHANGED <<cut, replicas, hung, role, enabled, hasty>>
          /\ UNCHANGED <<alone, answered, heard, followed, contact>>
      BY <2>1 DEF world, ages
    <2>3. CASE Asleep(NoCount) /\ (~enabled \/ role # "primary")
      <3>1. alone = 0
        BY <2>3 DEF AgeInv, Isolated
      <3>2. facts' = "sleep" /\ waited' = 0 /\ count' = NoCount
        BY <2>3
      <3> QED
        BY <2>2, <3>1, <3>2
        DEF LeaseType, AgeInv, ContactInv, AloneInv, Isolated, Checks
    <2>4. CASE /\ facts' = IF hung THEN "unknown"
                           ELSE IF replicas THEN "some" ELSE "none"
               /\ waited' = 0 /\ count' = count
      <3>1. LeaseType' /\ AgeInv'
        BY <2>2, <2>4 DEF LeaseType, AgeInv, Isolated, Checks
      <3>2. ContactInv'
        BY <2>2, <2>4 DEF LeaseType, AgeInv, ContactInv, Checks
      <3>3. AloneInv'
        BY <2>2, <2>4 DEF LeaseType, AgeInv, AloneInv, Isolated, Checks
      <3> QED BY <2>2, <3>1, <3>2, <3>3
    <2> QED BY <2>3, <2>4
  <1>2. CASE ManagerAnswers
    <2> USE <1>2 DEF ManagerAnswers
    <2>1. /\ UNCHANGED <<cut, replicas, hung, role, enabled, hasty>>
          /\ UNCHANGED <<alone, answered, heard, followed, contact>>
      BY DEF world, ages
    <2>2. alone = 0
      BY DEF AgeInv, Isolated
    <2> QED
      BY <2>1, <2>2
      DEF LeaseType, AgeInv, ContactInv, AloneInv, Isolated, Checks
  <1>3. CASE CountsOn
    <2> USE <1>3 DEF CountsOn
    <2>1. /\ UNCHANGED <<cut, replicas, hung, role, enabled, hasty>>
          /\ UNCHANGED <<alone, answered, heard, followed, contact>>
          /\ facts' = "sleep" /\ waited' = 0
      BY DEF world, ages
    <2>2. cut /\ heard = 0 /\ waited <= Timeout
      BY DEF AgeInv, LeaseType, Checks
    <2>3. CASE facts = "some" /\ count' = NoCount
      BY <2>1, <2>2, <2>3
      DEF LeaseType, AgeInv, ContactInv, AloneInv, Isolated, Checks
    <2>4. CASE /\ facts \in {"unknown", "none"} /\ count' = Counted
               /\ facts = "none" => Counted < After
      <3>1. LeaseType' /\ AgeInv'
        BY <2>1, <2>4 DEF LeaseType, AgeInv, Isolated, Checks, Counted
      <3>2. ContactInv'
        BY <2>1, <2>2, <2>4 DEF LeaseType, ContactInv, Checks, Counted
      <3>3. AloneInv'
        BY <2>1, <2>2, <2>4 DEF LeaseType, AloneInv, Checks, Counted
      <3> QED BY <2>1, <3>1, <3>2, <3>3
    <2> QED BY <2>3, <2>4
  <1>4. CASE SelfFences
    <2> USE <1>4 DEF SelfFences
    <2>1. count = After
      BY DEF LeaseType, Counted
    <2>2. contact >= After /\ followed <= Timeout
      BY <2>1 DEF ContactInv, LeaseType, Checks
    <2>3. ~hasty'
      <3>1. ~TooEarly
        BY <2>2 DEF TooEarly, LeaseType
      <3> QED BY <3>1, Zenon
    <2>4. /\ UNCHANGED <<cut, replicas, hung, enabled, contact>>
          /\ facts' = "sleep" /\ waited' = 0 /\ count' = NoCount
          /\ role' = "fenced"
      BY DEF Ages
    <2>5. /\ alone' = 0
          /\ answered' = IF hung THEN 0 ELSE answered
          /\ heard' = IF cut THEN 0 ELSE heard
          /\ followed' = IF replicas /\ ~hung THEN followed ELSE 0
      BY DEF Ages
    <2> QED
      BY <2>3, <2>4, <2>5
      DEF LeaseType, AgeInv, ContactInv, AloneInv, Isolated, Checks
  <1> QED BY <1>1, <1>2, <1>3, <1>4

(* The lease of a primary: it never fences one that was in contact, and a  *)
(* primary that is alone is fenced in time, whatever the lengths are.      *)
THEOREM LeaseCorrect == LeaseSpec => []LeaseHolds
  <1>1. LeaseInv => LeaseHolds
    BY LeaseLengths
    DEF LeaseInv, LeaseType, AloneInv, LeaseHolds, Late, Cycle, Checks, NoCount
  <1>2. LeaseInv /\ [LeaseNext]_leaseVars => LeaseInv'
    <2>1. LeaseInv /\ UNCHANGED leaseVars => LeaseInv'
      BY DEF leaseVars, world, ages, LeaseInv, LeaseType, AgeInv, ContactInv,
             AloneInv, Isolated, Checks
    <2> QED
      BY <2>1, LeaseCheck, LeaseChange, LeaseTime DEF LeaseNext
  <1> QED
    BY <1>1, <1>2, LeaseStart, PTL DEF LeaseSpec

-----------------------------------------------------------------------------
(* The sessions.  Their numbers are given out in turn; 0 is none. *)
SessionsType ==
    /\ opened \in 0 .. MaxSessions
    /\ idle \in Seq(1 .. opened)
    /\ closed \subseteq 1 .. opened /\ lost \subseteq 1 .. opened
    /\ requests \in Nat
    /\ wire \in [Session -> Seq(Nat)]
    /\ executing \subseteq (1 .. opened) \X (1 .. requests)
    /\ work \in [Task -> Work]
    /\ \A t \in Task : /\ work[t].session \in 0 .. opened
                       /\ work[t].request \in 0 .. requests
    /\ kept \in 0 .. opened
    /\ probe \in {"none", "select", "write"}
    /\ probed \in 0 .. requests

(* The pool holds a session once, and not the one of the probe, which is   *)
(* open as long as the probe runs.                                         *)
PoolInv ==
    /\ \A i, j \in DOMAIN idle : idle[i] = idle[j] => i = j
    /\ \A i \in DOMAIN idle : idle[i] # kept
    /\ probe # "none" => Usable(kept) /\ probed # 0

(* A task has a session from the time it is lent, which nobody else has,   *)
(* and which has not been closed while it waits for an answer.             *)
TaskInv ==
    \A t \in Task :
      /\ work[t].session = None <=> work[t].at \in {"rest", "lend"}
      /\ work[t].at # "rest" => work[t].request # 0
      /\ work[t].at = "asked" => work[t].session \notin closed
      /\ work[t].at = "stale" => work[t].session \in lost
      /\ work[t].session # None =>
           /\ work[t].session # kept
           /\ \A i \in DOMAIN idle : idle[i] # work[t].session
           /\ \A u \in Task \ {t} : work[u].session # work[t].session

(* No session that is open is forgotten. *)
OwnedInv ==
    \A s \in (1 .. opened) \ closed :
      \/ s = kept
      \/ \E i \in DOMAIN idle : idle[i] = s
      \/ \E t \in Task : work[t].session = s

(* A session that can be used again owes no answer but the one that is     *)
(* waited for.                                                             *)
OwesNothing(s) == Len(wire[s]) = 0
Owes(s, r) == Len(wire[s]) = 1 /\ wire[s][1] = r

WireInv ==
    /\ \A i \in DOMAIN idle : Usable(idle[i]) => OwesNothing(idle[i])
    /\ \A s \in Session : s > opened => OwesNothing(s)
    /\ Usable(kept) => IF probe = "none" THEN OwesNothing(kept)
                       ELSE Owes(kept, probed)
    /\ \A t \in Task : Usable(work[t].session) =>
         /\ work[t].at \in {"body", "done"} => OwesNothing(work[t].session)
         /\ work[t].at = "asked" => Owes(work[t].session, work[t].request)

(* What a request has mysqld do is done in the session that sent it last,  *)
(* or in one that has lost its link since.                                 *)
InOnly(r, s) == \A e \in executing : e[2] = r => e[1] = s \/ e[1] \in lost

ExecInv ==
    /\ \A e, f \in executing :
         e[2] = f[2] => e[1] = f[1] \/ e[1] \in lost \/ f[1] \in lost
    /\ \A t \in Task :
         /\ InOnly(work[t].request, work[t].session)
         /\ work[t].request # 0 =>
              /\ work[t].request # probed
              /\ \A u \in Task \ {t} : work[u].request # work[t].request
    /\ probe # "none" => InOnly(probed, kept)

SessionsInv ==
    /\ SessionsType /\ PoolInv /\ TaskInv /\ OwnedInv
    /\ WireInv /\ ExecInv /\ ~mixed

(* A session that owes nothing and is sent a request owes one answer. *)
LEMMA OneAnswer ==
    ASSUME NEW q \in Seq(Nat), NEW r \in Nat
    PROVE  /\ Len(q) = 0 => Len(Append(q, r)) = 1 /\ Append(q, r)[1] = r
           /\ Len(q) = 1 /\ q[1] = r => Head(q) = r /\ Len(Tail(q)) = 0
           /\ Append(q, r) \in Seq(Nat)
           /\ Len(q) = 1 => Tail(q) \in Seq(Nat)
  OBVIOUS

(* A session that owes nothing is sent r and owes it an answer. *)
LEMMA SendStep ==
    ASSUME SessionsType, NEW s \in Session, NEW r \in Nat, Sends(s, r),
           OwesNothing(s)
    PROVE  /\ wire' \in [Session -> Seq(Nat)] /\ Owes(s, r)'
           /\ \A x \in Session \ {s} : wire'[x] = wire[x]
           /\ executing \subseteq executing'
           /\ executing' \subseteq executing \cup {<<s, r>>}
           /\ s \in lost => executing' = executing
           /\ lost' = lost
  <1>1. wire[s] \in Seq(Nat) /\ Len(wire[s]) = 0
    BY DEF SessionsType, OwesNothing
  <1>2. /\ Append(wire[s], r) \in Seq(Nat)
        /\ Len(Append(wire[s], r)) = 1 /\ Append(wire[s], r)[1] = r
    BY <1>1, OneAnswer
  <1>3. /\ wire' \in [Session -> Seq(Nat)] /\ wire'[s] = Append(wire[s], r)
        /\ \A x \in Session \ {s} : wire'[x] = wire[x]
    BY <1>2 DEF SessionsType, Sends
  <1> QED BY <1>2, <1>3 DEF Sends, Owes

(* The answer that the session s owes r is taken by r. *)
LEMMA ReceiveStep ==
    ASSUME SessionsType, NEW s \in Session, NEW r \in Nat, Owes(s, r),
           ~mixed, Receives(s, r)
    PROVE  /\ wire' \in [Session -> Seq(Nat)] /\ OwesNothing(s)'
           /\ \A x \in Session \ {s} : wire'[x] = wire[x]
           /\ executing' = executing /\ lost' = lost /\ ~mixed'
  <1>1. wire[s] \in Seq(Nat) /\ Len(wire[s]) = 1 /\ wire[s][1] = r
    BY DEF SessionsType, Owes
  <1>2. /\ Tail(wire[s]) \in Seq(Nat) /\ Len(Tail(wire[s])) = 0
        /\ Head(wire[s]) = r
    BY <1>1, OneAnswer
  <1>3. /\ wire' \in [Session -> Seq(Nat)] /\ wire'[s] = Tail(wire[s])
        /\ \A x \in Session \ {s} : wire'[x] = wire[x]
    BY <1>2 DEF SessionsType, Receives
  <1>4. ~mixed'
    BY <1>2, Zenon DEF Receives
  <1> QED BY <1>2, <1>3, <1>4 DEF Receives, OwesNothing

(* What a task does next is all that changes in work. *)
LEMMA WorkStep ==
    ASSUME SessionsType, NEW t \in Task, NEW w \in Work, Now(t, w)
    PROVE  /\ work' \in [Task -> Work]
           /\ work'[t] = w
           /\ \A u \in Task \ {t} : work'[u] = work[u]
  BY DEF SessionsType, Now

(* A task goes on, or its body ends, in the session it has: that one may   *)
(* be closed, and is if it still owes an answer and nothing was raised.    *)
LEMMA TaskMoves ==
    ASSUME SessionsInv, NEW t \in Task,
           NEW n \in {"body", "done", "raised", "stale"},
           Now(t, [work[t] EXCEPT !.at = n]),
           work[t].at \notin {"rest", "lend"},
           n = "stale" => work[t].session \in lost,
           n \in {"body", "done"} => \/ work[t].session \in closed'
                                    \/ work[t].at = "body",
           closed' = closed \/ Closes({work[t].session}),
           UNCHANGED <<idle, opened, mysqld, prober, requests, mixed>>
    PROVE  SessionsInv'
  <1>1. work[t] \in Work
    BY DEF SessionsInv, SessionsType
  <1>2. /\ work' \in [Task -> Work]
        /\ \A u \in Task \ {t} : work'[u] = work[u]
        /\ work'[t].at = n /\ work'[t].session = work[t].session
        /\ work'[t].request = work[t].request
    <2> DEFINE w == [work[t] EXCEPT !.at = n]
    <2>1. /\ w \in Work /\ w.at = n /\ w.session = work[t].session
          /\ w.request = work[t].request
      BY <1>1 DEF Work
    <2>2. Now(t, w)
      OBVIOUS
    <2> HIDE DEF w
    <2> QED BY <2>1, <2>2, WorkStep DEF SessionsInv
  <1>3. /\ UNCHANGED <<idle, opened, lost, wire, executing, kept, probe>>
        /\ UNCHANGED <<probed, requests, mixed>>
    BY DEF mysqld, prober
  <1>4. work[t].session \in 1 .. opened
    BY DEF SessionsInv, SessionsType, TaskInv, None
  <1>5. closed' = closed \/ closed' = closed \cup {work[t].session}
    BY <1>4 DEF Closes, None
  <1>6. \A u \in Task : /\ work'[u].session = work[u].session
                        /\ work'[u].request = work[u].request
    BY <1>2
  <1>7. SessionsType'
    BY <1>2, <1>3, <1>4, <1>5, <1>6 DEF SessionsInv, SessionsType
  <1>8. PoolInv' /\ TaskInv'
    <2>1. PoolInv'
      BY <1>3, <1>4, <1>5 DEF SessionsInv, PoolInv, TaskInv, Usable, None
    <2>2. TaskInv'
      BY <1>2, <1>3, <1>4, <1>5, <1>6 DEF SessionsInv, TaskInv, None
    <2> QED BY <2>1, <2>2
  <1>9. OwnedInv'
    BY <1>3, <1>5, <1>6 DEF SessionsInv, OwnedInv
  <1>10. WireInv'
    <2>3. ASSUME NEW u \in Task, Usable(work[u].session)'
          PROVE  /\ work[u].at' \in {"body", "done"} =>
                      OwesNothing(work[u].session)'
                 /\ work[u].at' = "asked" =>
                      Owes(work[u].session, work[u].request)'
      <3>1. Usable(work[u].session)
        BY <1>5, <1>6, <2>3 DEF Usable
      <3>2. CASE u = t
        <4>1. work[t].session \notin closed'
          BY <1>6, <2>3, <3>2 DEF Usable
        <4>2. n \in {"body", "done"} => work[t].at = "body"
          BY <4>1
        <4> QED
          BY <1>2, <1>3, <3>1, <3>2, <4>2
          DEF SessionsInv, WireInv, OwesNothing
      <3>3. CASE u # t
        BY <1>2, <1>3, <3>1, <3>3
        DEF SessionsInv, WireInv, OwesNothing, Owes
      <3> QED BY <3>2, <3>3
    <2>4. /\ \A i \in DOMAIN idle' : Usable(idle[i])' => OwesNothing(idle[i])'
          /\ \A s \in Session : s > opened' => OwesNothing(s)'
          /\ Usable(kept)' => IF probe' = "none" THEN OwesNothing(kept)'
                              ELSE Owes(kept, probed)'
      BY <1>3, <1>5 DEF SessionsInv, WireInv, OwesNothing, Owes, Usable
    <2> QED BY <2>3, <2>4 DEF WireInv
  <1>11. ExecInv'
    BY <1>2, <1>3, <1>6 DEF SessionsInv, ExecInv, InOnly
  <1> QED BY <1>3, <1>7, <1>8, <1>10, <1>11, <1>9 DEF SessionsInv

(* The sessions that exist are among those that can be opened. *)
LEMMA Numbers ==
    ASSUME SessionsType
    PROVE  /\ 1 .. opened \subseteq Session
           /\ \A i \in DOMAIN idle : idle[i] \in 1 .. opened
           /\ Usable(kept) => kept \in 1 .. opened
           /\ \A t \in Task : work[t].session # None =>
                             work[t].session \in 1 .. opened
  <1>1. MaxSessions \in Nat /\ opened \in 0 .. MaxSessions
    BY SessionsAssumption DEF SessionsType
  <1>2. 1 .. opened \subseteq Session
    BY <1>1 DEF Session
  <1>3. \A i \in DOMAIN idle : idle[i] \in 1 .. opened
    BY DEF SessionsType
  <1>4. /\ Usable(kept) => kept \in 1 .. opened
        /\ \A t \in Task : work[t].session # None =>
                          work[t].session \in 1 .. opened
    BY <1>1 DEF SessionsType, Usable, None
  <1> QED BY <1>2, <1>3, <1>4

(* Only the session of the task t is sent something or answers.            *)
LEMMA TaskWire ==
    ASSUME SessionsInv, NEW t \in Task, NEW s \in 1 .. opened,
           s = work[t].session,
           UNCHANGED <<idle, opened, closed, kept, probe, probed>>,
           \A x \in Session \ {s} : wire'[x] = wire[x],
           \A u \in Task : /\ work'[u].session = work[u].session
                           /\ work'[u].request = work[u].request,
           \A u \in Task \ {t} : work'[u] = work[u],
           work'[t].at \in {"body", "done"} => OwesNothing(s)',
           work'[t].at = "asked" => Owes(s, work[t].request)'
    PROVE  WireInv'
  <1>1. /\ 1 .. opened \subseteq Session
        /\ \A i \in DOMAIN idle : idle[i] \in 1 .. opened
        /\ Usable(kept) => kept \in 1 .. opened
        /\ \A u \in Task : work[u].session # None =>
                          work[u].session \in 1 .. opened
        /\ s # None
    BY Numbers DEF SessionsInv, None
  <1>2. kept # s /\ \A i \in DOMAIN idle : idle[i] # s
    BY <1>1 DEF SessionsInv, TaskInv
  <1>3. \A i \in DOMAIN idle' : Usable(idle[i])' => OwesNothing(idle[i])'
    BY <1>1, <1>2 DEF SessionsInv, WireInv, Usable, OwesNothing
  <1>4. \A x \in Session : x > opened' => OwesNothing(x)'
    <2>1. opened \in Nat
      BY SessionsAssumption DEF SessionsInv, SessionsType
    <2>2. \A x \in Session : x > opened => x # s
      BY <2>1 DEF Session
    <2> QED BY <2>2 DEF SessionsInv, WireInv, OwesNothing
  <1>5. Usable(kept)' => IF probe' = "none" THEN OwesNothing(kept)'
                         ELSE Owes(kept, probed)'
    BY <1>1, <1>2 DEF SessionsInv, WireInv, Usable, OwesNothing, Owes
  <1>6. ASSUME NEW u \in Task, Usable(work[u].session)'
        PROVE  /\ work[u].at' \in {"body", "done"} =>
                    OwesNothing(work[u].session)'
               /\ work[u].at' = "asked" =>
                    Owes(work[u].session, work[u].request)'
    <2>1. CASE u = t
      BY <2>1
    <2>2. CASE u # t
      <3>1. work[u].session # s
        BY <1>1, <2>2 DEF SessionsInv, TaskInv
      <3>2. work'[u] = work[u] /\ Usable(work[u].session)
        BY <1>6, <2>2 DEF Usable
      <3>3. wire'[work[u].session] = wire[work[u].session]
        BY <1>1, <3>1, <3>2 DEF Usable
      <3> QED
        BY <3>2, <3>3 DEF SessionsInv, WireInv, OwesNothing, Owes
    <2> QED BY <2>1, <2>2
  <1> QED BY <1>3, <1>4, <1>5, <1>6 DEF WireInv

(* A body is to be run: the task asks for a session, under a new number.   *)
LEMMA BodyStartsStep ==
    ASSUME SessionsInv, NEW t \in Task, BodyStarts(t) PROVE SessionsInv'
  <1> DEFINE w == [Rest EXCEPT !.at = "lend", !.request = requests']
  <1>1. requests \in Nat /\ requests' = requests + 1
    BY DEF BodyStarts, SessionsInv, SessionsType
  <1>2. /\ w \in Work /\ w.at = "lend" /\ w.session = 0
        /\ w.request = requests + 1
    <2>1. requests + 1 \in Nat
      BY <1>1
    <2> QED BY <1>1, <2>1 DEF Rest, Work, None
  <1>3. Now(t, w)
    BY DEF BodyStarts
  <1> HIDE DEF w
  <1>4. /\ work' \in [Task -> Work] /\ work'[t] = w
        /\ \A u \in Task \ {t} : work'[u] = work[u]
    BY <1>2, <1>3, WorkStep DEF SessionsInv
  <1>5. /\ UNCHANGED <<idle, opened, closed, lost, wire, executing, kept>>
        /\ UNCHANGED <<probe, probed, mixed>>
    BY DEF BodyStarts, mysqld, prober, pool
  <1>6. work[t].session = 0
    BY DEF BodyStarts, Doing, SessionsInv, TaskInv, None
  <1>7. \A u \in Task : work'[u].session = work[u].session
    BY <1>2, <1>4, <1>6
  <1>8. SessionsType'
    BY <1>1, <1>2, <1>4, <1>5, <1>7 DEF SessionsInv, SessionsType
  <1>9. PoolInv' /\ OwnedInv'
    BY <1>5, <1>7 DEF SessionsInv, PoolInv, OwnedInv, Usable
  <1>10. TaskInv'
    BY <1>1, <1>2, <1>4, <1>5, <1>7 DEF SessionsInv, TaskInv, None
  <1>11. WireInv'
    BY <1>2, <1>4, <1>5
    DEF SessionsInv, WireInv, OwesNothing, Owes, Usable
  <1>12. ExecInv'
    <2>1. \A e \in executing : e[2] # requests + 1
      BY <1>1 DEF SessionsInv, SessionsType
    <2>2. requests + 1 # probed
      BY <1>1 DEF SessionsInv, SessionsType
    <2>3. \A u \in Task : work[u].request # requests + 1
      BY <1>1 DEF SessionsInv, SessionsType
    <2> QED
      BY <1>2, <1>4, <1>5, <2>1, <2>2, <2>3 DEF SessionsInv, ExecInv, InOnly
  <1> QED
    BY <1>5, <1>8, <1>9, <1>10, <1>11, <1>12 DEF SessionsInv

(* A statement is sent in the task's own session, which owed nothing. *)
LEMMA AskStep ==
    ASSUME SessionsInv, NEW t \in Task, Ask(t) PROVE SessionsInv'
  <1>1. CASE ~Usable(work[t].session)
    <2>1. /\ Now(t, [work[t] EXCEPT !.at = "raised"])
          /\ UNCHANGED <<idle, opened, closed, mysqld, prober, requests,
                         mixed>>
      BY <1>1 DEF Ask, pool
    <2>2. work[t].at \notin {"rest", "lend"}
      BY DEF Ask, Doing
    <2> QED BY <2>1, <2>2, TaskMoves
  <1>2. CASE Usable(work[t].session)
    <2> DEFINE w == [work[t] EXCEPT !.at = "asked", !.statements = @ + 1]
    <2>1. PICK s, r : s = work[t].session /\ r = work[t].request
      OBVIOUS
    <2> USE <2>1
    <2>2. /\ w \in Work /\ w.at = "asked" /\ w.session = s
          /\ w.request = r
      <3>1. work[t] \in Work
        BY DEF SessionsInv, SessionsType
      <3>2. work[t].statements + 1 \in Nat
        BY <3>1 DEF Work
      <3> QED BY <3>1, <3>2 DEF Work
    <2>3. Now(t, w) /\ Sends(s, r)
      BY <1>2 DEF Ask
    <2>4. /\ UNCHANGED <<idle, opened, closed, kept, probe, probed>>
          /\ UNCHANGED <<requests, mixed, lost>>
      BY <1>2 DEF Ask, pool, prober, Sends
    <2> HIDE DEF w
    <2>5. /\ work' \in [Task -> Work] /\ work'[t] = w
          /\ \A u \in Task \ {t} : work'[u] = work[u]
      BY <2>2, <2>3, WorkStep DEF SessionsInv
    <2>6. /\ work[t].at = "body" /\ s \in 1 .. opened /\ s \notin closed
          /\ r \in Nat /\ r \in 0 .. requests /\ s \in Session
      <3>1. opened \in 0 .. MaxSessions /\ s \in 0 .. opened /\ s # 0
        BY <1>2 DEF Usable, SessionsInv, SessionsType, None
      <3>2. r \in 0 .. requests /\ requests \in Nat
        BY DEF SessionsInv, SessionsType
      <3>3. MaxSessions \in Nat
        BY SessionsAssumption
      <3> QED
        BY <1>2, <3>1, <3>2, <3>3 DEF Ask, Doing, Usable, Session
    <2>7. \A u \in Task : /\ work'[u].session = work[u].session
                          /\ work'[u].request = work[u].request
      BY <2>2, <2>5
    <2>8. OwesNothing(s) /\ Usable(s)
      BY <1>2, <2>6 DEF SessionsInv, WireInv
    <2>9. /\ wire' \in [Session -> Seq(Nat)] /\ Owes(s, r)'
          /\ \A x \in Session \ {s} : wire'[x] = wire[x]
          /\ executing \subseteq executing'
          /\ executing' \subseteq executing \cup {<<s, r>>}
          /\ s \in lost => executing' = executing
      BY <2>3, <2>6, <2>8, SendStep DEF SessionsInv
    <2>10. r \in 1 .. requests
      BY <2>6 DEF SessionsInv, TaskInv
    <2>11. SessionsType'
      <3>1. <<s, r>> \in (1 .. opened) \X (1 .. requests)
        BY <2>6, <2>10
      <3>2. executing' \subseteq (1 .. opened) \X (1 .. requests)
        BY <2>9, <3>1 DEF SessionsInv, SessionsType
      <3> QED BY <2>4, <2>5, <2>7, <2>9, <3>2 DEF SessionsInv, SessionsType
    <2>12. PoolInv' /\ OwnedInv'
      BY <2>4, <2>7 DEF SessionsInv, PoolInv, OwnedInv, Usable
    <2>13. TaskInv'
      BY <2>2, <2>4, <2>5, <2>6, <2>7 DEF SessionsInv, TaskInv
    <2>14. WireInv'
      BY <2>2, <2>4, <2>5, <2>6, <2>7, <2>9, TaskWire
    <2>15. ExecInv'
      <3>1. \A e \in executing : e[2] = r => e[1] = s \/ e[1] \in lost
        BY DEF SessionsInv, ExecInv, InOnly
      <3>2. \A e \in executing' : e \in executing \/ (e[1] = s /\ e[2] = r)
        BY <2>9
      <3>4. \A e, f \in executing' :
              e[2] = f[2] => e[1] = f[1] \/ e[1] \in lost \/ f[1] \in lost
        BY <3>1, <3>2 DEF SessionsInv, ExecInv, InOnly
      <3>5. \A u \in Task \ {t} : work[u].request # r
        BY <2>10 DEF SessionsInv, ExecInv, InOnly
      <3>6. r # probed
        BY <2>10 DEF SessionsInv, ExecInv, InOnly
      <3>7. \A u \in Task : \A e \in executing' :
              e[2] = work[u].request => e[1] = work[u].session \/ e[1] \in lost
        BY <3>1, <3>2, <3>5 DEF SessionsInv, ExecInv, InOnly
      <3>8. probe # "none" => \A e \in executing' :
              e[2] = probed => e[1] = kept \/ e[1] \in lost
        BY <3>2, <3>6 DEF SessionsInv, ExecInv, InOnly
      <3> QED
        BY <2>4, <2>7, <3>4, <3>7, <3>8 DEF SessionsInv, ExecInv, InOnly
    <2> QED
      BY <2>4, <2>11, <2>12, <2>13, <2>14, <2>15 DEF SessionsInv
  <1> QED BY <1>1, <1>2

(* The answer comes that the task waits for. *)
LEMMA AnswerStep ==
    ASSUME SessionsInv, NEW t \in Task, AnswerComes(t) PROVE SessionsInv'
  <1>1. PICK n \in {"body", "done", "raised"} :
          Now(t, [work[t] EXCEPT !.at = n])
    BY DEF AnswerComes
  <1>2. PICK s, r : s = work[t].session /\ r = work[t].request
    OBVIOUS
  <1> DEFINE w == [work[t] EXCEPT !.at = n]
  <1>3. w \in Work /\ w.at = n /\ w.session = s /\ w.request = r
    BY <1>2 DEF SessionsInv, SessionsType, Work
  <1> HIDE DEF w
  <1>4. /\ work' \in [Task -> Work] /\ work'[t] = w
        /\ \A u \in Task \ {t} : work'[u] = work[u]
    BY <1>1, <1>3, WorkStep DEF SessionsInv, w
  <1>5. work[t].at = "asked" /\ Receives(s, r)
    BY <1>2 DEF AnswerComes, Doing
  <1>6. s \in 1 .. opened /\ s \in Session /\ s \notin closed /\ Usable(s)
    BY <1>2, <1>5, Numbers DEF SessionsInv, TaskInv, Usable
  <1>7. r \in Nat /\ Owes(s, r)
    BY <1>2, <1>5, <1>6 DEF SessionsInv, SessionsType, Work, WireInv
  <1>8. /\ wire' \in [Session -> Seq(Nat)] /\ OwesNothing(s)'
        /\ \A x \in Session \ {s} : wire'[x] = wire[x]
        /\ executing' = executing /\ lost' = lost /\ ~mixed'
    BY <1>5, <1>6, <1>7, ReceiveStep DEF SessionsInv
  <1>9. UNCHANGED <<idle, opened, closed, kept, probe, probed, requests>>
    BY DEF AnswerComes, pool, prober
  <1>10. \A u \in Task : /\ work'[u].session = work[u].session
                         /\ work'[u].request = work[u].request
    BY <1>2, <1>3, <1>4
  <1>11. SessionsType'
    BY <1>4, <1>8, <1>9, <1>10 DEF SessionsInv, SessionsType
  <1>12. PoolInv' /\ OwnedInv'
    BY <1>9, <1>10 DEF SessionsInv, PoolInv, OwnedInv, Usable
  <1>13. TaskInv'
    BY <1>3, <1>4, <1>5, <1>8, <1>9, <1>10 DEF SessionsInv, TaskInv
  <1>14. WireInv'
    BY <1>2, <1>3, <1>4, <1>6, <1>8, <1>9, <1>10, TaskWire
  <1>15. ExecInv'
    BY <1>8, <1>9, <1>10 DEF SessionsInv, ExecInv, InOnly
  <1> QED
    BY <1>8, <1>11, <1>12, <1>13, <1>14, <1>15 DEF SessionsInv

(* The pool is emptied, and with it the sessions are closed. *)
LEMMA DropIdleStep ==
    ASSUME SessionsInv, DropIdle PROVE SessionsInv'
  <1>1. /\ UNCHANGED <<opened, lost, wire, executing, work, kept, probe>>
        /\ UNCHANGED <<probed, requests, mixed>>
        /\ idle' = <<>>
    BY DEF DropIdle, mysqld, prober
  <1>2. /\ closed \subseteq closed'
        /\ \A i \in DOMAIN idle : idle[i] \in closed'
        /\ \A x \in closed' : \/ x \in closed
                             \/ \E i \in DOMAIN idle : idle[i] = x
    <2>1. \A i \in DOMAIN idle : idle[i] # None
      BY Numbers DEF SessionsInv, None
    <2> QED BY <2>1 DEF DropIdle, Closes, Pooled
  <1>3. closed' \subseteq 1 .. opened
    BY <1>2, Numbers DEF SessionsInv, SessionsType
  <1>4. DOMAIN idle' = {} /\ idle' \in Seq(1 .. opened)
    BY <1>1
  <1>5. SessionsType'
    BY <1>1, <1>3, <1>4 DEF SessionsInv, SessionsType
  <1>6. PoolInv'
    BY <1>1, <1>2, <1>4 DEF SessionsInv, PoolInv, Usable
  <1>7. TaskInv'
    BY <1>1, <1>2, <1>4 DEF SessionsInv, TaskInv
  <1>8. OwnedInv'
    BY <1>1, <1>2, <1>4 DEF SessionsInv, OwnedInv
  <1>9. WireInv'
    BY <1>1, <1>2, <1>4
    DEF SessionsInv, WireInv, OwesNothing, Owes, Usable
  <1>10. ExecInv'
    BY <1>1 DEF SessionsInv, ExecInv, InOnly
  <1> QED
    BY <1>1, <1>5, <1>6, <1>7, <1>8, <1>9, <1>10 DEF SessionsInv

(* mysqld has done with a statement, a session is killed, or mysqld goes   *)
(* down and up again: nothing more is executed, no link comes back.        *)
LEMMA ServerStep ==
    ASSUME SessionsInv, Executes \/ Kills \/ Restarts PROVE SessionsInv'
  <1>1. /\ UNCHANGED <<idle, opened, closed, wire, work, kept, probe>>
        /\ UNCHANGED <<probed, requests, mixed>>
    BY DEF Executes, Kills, Restarts, pool, prober
  <1>2. /\ executing' \subseteq executing
        /\ lost \subseteq lost' /\ lost' \subseteq 1 .. opened
    BY DEF Executes, Kills, Restarts, SessionsInv, SessionsType
  <1>3. SessionsType'
    BY <1>1, <1>2 DEF SessionsInv, SessionsType
  <1>4. PoolInv' /\ OwnedInv'
    BY <1>1 DEF SessionsInv, PoolInv, OwnedInv, Usable
  <1>5. TaskInv'
    BY <1>1, <1>2 DEF SessionsInv, TaskInv
  <1>6. WireInv'
    BY <1>1 DEF SessionsInv, WireInv, OwesNothing, Owes, Usable
  <1>7. ExecInv'
    BY <1>1, <1>2 DEF SessionsInv, ExecInv, InOnly
  <1> QED
    BY <1>1, <1>3, <1>4, <1>5, <1>6, <1>7 DEF SessionsInv

(* A stack after a push. *)
LEMMA Push ==
    ASSUME NEW S, NEW q \in Seq(S), NEW s \in S
    PROVE  /\ Append(q, s) \in Seq(S)
           /\ DOMAIN Append(q, s) = DOMAIN q \cup {Len(q) + 1}
           /\ Len(q) + 1 \notin DOMAIN q /\ Append(q, s)[Len(q) + 1] = s
           /\ \A i \in DOMAIN q : Append(q, s)[i] = q[i]
  OBVIOUS

(* A stack after everything from k on has been popped. *)
LEMMA Pop ==
    ASSUME NEW S, NEW q \in Seq(S), NEW k \in DOMAIN q
    PROVE  /\ SubSeq(q, 1, k - 1) \in Seq(S)
           /\ DOMAIN SubSeq(q, 1, k - 1) = {j \in DOMAIN q : j < k}
           /\ \A j \in DOMAIN q : j < k => SubSeq(q, 1, k - 1)[j] = q[j]
  OBVIOUS

(* The body has ended: its session goes back to the pool, if it is open    *)
(* and nothing was raised in it, and is closed otherwise.  A body whose    *)
(* link was lost is run again: what may still be executed of it, is in     *)
(* that session.                                                           *)
LEMMA GivesBackStep ==
    ASSUME SessionsInv, NEW t \in Task, GivesBack(t) PROVE SessionsInv'
  <1>1. PICK s, r : s = work[t].session /\ r = work[t].request
    OBVIOUS
  <1>2. work[t].at \in {"done", "raised", "stale"}
    BY DEF GivesBack
  <1>3. s \in 1 .. opened /\ s # None /\ r \in 0 .. requests /\ r # 0
    BY <1>1, <1>2, Numbers DEF SessionsInv, SessionsType, TaskInv
  <1>4. /\ UNCHANGED <<opened, lost, wire, executing, kept, probe, probed>>
        /\ UNCHANGED <<requests, mixed>>
    BY DEF GivesBack, mysqld, prober
  <1>5. PICK w \in Work :
          /\ Now(t, w) /\ w.session = None
          /\ \/ w.at = "rest" /\ w.request = 0
             \/ w.at = "lend" /\ w.request = r /\ work[t].at = "stale"
    <2>1. r \in Nat
      BY <1>3 DEF SessionsInv, SessionsType
    <2>2. Rest \in Work /\ Rest.session = None /\ Rest.request = 0
          /\ Rest.at = "rest"
      BY DEF Rest, Work
    <2>3. LET v == [Rest EXCEPT !.at = "lend", !.request = r, !.attempt = 1]
          IN  v \in Work /\ v.session = None /\ v.request = r /\ v.at = "lend"
      BY <2>1 DEF Rest, Work
    <2> QED BY <1>1, <2>2, <2>3 DEF GivesBack
  <1>6. /\ work' \in [Task -> Work] /\ work'[t] = w
        /\ \A u \in Task \ {t} : work'[u] = work[u]
    BY <1>5, WorkStep DEF SessionsInv
  <1>7. ASSUME NEW u \in Task, work'[u].session # None
        PROVE  u # t /\ work'[u] = work[u] /\ work[u].session # s
    BY <1>1, <1>3, <1>5, <1>6, <1>7 DEF SessionsInv, TaskInv
  <1>8. \/ /\ idle' = Append(idle, s) /\ closed' = closed
           /\ Usable(s) /\ work[t].at = "done"
        \/ idle' = idle /\ closed' = closed \cup {s}
    BY <1>1, <1>3 DEF GivesBack, Closes
  <1>9. /\ Append(idle, s) \in Seq(1 .. opened)
        /\ DOMAIN Append(idle, s) = DOMAIN idle \cup {Len(idle) + 1}
        /\ Len(idle) + 1 \notin DOMAIN idle
        /\ Append(idle, s)[Len(idle) + 1] = s
        /\ \A i \in DOMAIN idle : Append(idle, s)[i] = idle[i]
    <2>1. idle \in Seq(1 .. opened)
      BY DEF SessionsInv, SessionsType
    <2> QED BY <1>3, <2>1, Push
  <1>10. SessionsType'
    <2>1. idle' \in Seq(1 .. opened) /\ closed' \subseteq 1 .. opened
      BY <1>3, <1>8, <1>9 DEF SessionsInv, SessionsType
    <2>2. \A u \in Task : /\ work'[u].session \in 0 .. opened
                          /\ work'[u].request \in 0 .. requests
      BY <1>3, <1>5, <1>6 DEF SessionsInv, SessionsType, None
    <2> QED BY <1>4, <1>6, <2>1, <2>2 DEF SessionsInv, SessionsType
  <1>11. /\ \A i \in DOMAIN idle' : \/ idle'[i] = s
                                    \/ i \in DOMAIN idle /\ idle'[i] = idle[i]
         /\ \A i \in DOMAIN idle : i \in DOMAIN idle' /\ idle'[i] = idle[i]
         /\ s \in closed' \/ \E i \in DOMAIN idle' : idle'[i] = s
         /\ closed' \subseteq closed \cup {s} /\ closed \subseteq closed'
    <2>1. CASE idle' = Append(idle, s) /\ closed' = closed
      <3>1. \A i \in DOMAIN idle' : \/ idle'[i] = s
                                    \/ i \in DOMAIN idle /\ idle'[i] = idle[i]
        BY <1>9, <2>1
      <3>2. \A i \in DOMAIN idle : i \in DOMAIN idle' /\ idle'[i] = idle[i]
        BY <1>9, <2>1
      <3>3. Len(idle) + 1 \in DOMAIN idle' /\ idle'[Len(idle) + 1] = s
        BY <1>9, <2>1
      <3> QED BY <2>1, <3>1, <3>2, <3>3
    <2>2. CASE idle' = idle /\ closed' = closed \cup {s}
      BY <2>2
    <2> QED BY <1>8, <2>1, <2>2
  <1>12. s # kept /\ \A i \in DOMAIN idle : idle[i] # s
    BY <1>1, <1>3 DEF SessionsInv, TaskInv
  <1>13. PoolInv'
    <2>1. \A i, j \in DOMAIN idle' : idle'[i] = idle'[j] => i = j
      BY <1>8, <1>12, <1>9 DEF SessionsInv, PoolInv
    <2> QED
      BY <1>4, <1>11, <1>12, <2>1 DEF SessionsInv, PoolInv, Usable
  <1>14. TaskInv'
    BY <1>4, <1>5, <1>6, <1>7, <1>11, <1>3, <1>2 DEF SessionsInv, TaskInv
  <1>15. OwnedInv'
    BY <1>1, <1>4, <1>6, <1>11 DEF SessionsInv, OwnedInv
  <1>16. WireInv'
    <2>1. \A i \in DOMAIN idle' : Usable(idle[i])' => OwesNothing(idle[i])'
      <3>1. Usable(s)' /\ s \notin closed' => Usable(s) /\ OwesNothing(s)
        BY <1>1, <1>8 DEF SessionsInv, WireInv, Usable
      <3> QED
        BY <1>4, <1>11, <3>1 DEF SessionsInv, WireInv, Usable, OwesNothing
    <2>2. /\ \A x \in Session : x > opened' => OwesNothing(x)'
          /\ Usable(kept)' => IF probe' = "none" THEN OwesNothing(kept)'
                              ELSE Owes(kept, probed)'
      BY <1>4, <1>11 DEF SessionsInv, WireInv, Usable, OwesNothing, Owes
    <2>3. ASSUME NEW u \in Task, Usable(work[u].session)'
          PROVE  /\ work[u].at' \in {"body", "done"} =>
                      OwesNothing(work[u].session)'
                 /\ work[u].at' = "asked" =>
                      Owes(work[u].session, work[u].request)'
      <3>1. work'[u] = work[u] /\ Usable(work[u].session)
        BY <1>7, <1>11, <2>3 DEF Usable
      <3> QED
        BY <1>4, <3>1 DEF SessionsInv, WireInv, OwesNothing, Owes
    <2> QED BY <2>1, <2>2, <2>3 DEF WireInv
  <1>17. ExecInv'
    <2>1. \A e \in executing : e[2] = w.request => e[1] \in lost
      <3>1. CASE w.request = 0
        BY <3>1 DEF SessionsInv, SessionsType
      <3>2. CASE w.request = r /\ work[t].at = "stale"
        BY <1>1, <3>2 DEF SessionsInv, ExecInv, InOnly, TaskInv
      <3> QED BY <1>5, <3>1, <3>2
    <2> QED
      BY <1>3, <1>4, <1>5, <1>6, <2>1, <1>1 DEF SessionsInv, ExecInv, InOnly
  <1> QED
    BY <1>4, <1>10, <1>13, <1>14, <1>15, <1>16, <1>17 DEF SessionsInv

(* An open session is taken from the pool; those above it are closed. *)
LEMMA LendPooled ==
    ASSUME SessionsInv, NEW t \in Task, work[t].at = "lend",
           NEW k \in DOMAIN idle, Usable(idle[k]),
           \A j \in DOMAIN idle : Usable(idle[j]) => j <= k,
           idle' = SubSeq(idle, 1, k - 1),
           Now(t, [work[t] EXCEPT !.at = "body", !.session = idle[k]]),
           UNCHANGED <<opened, closed, mysqld, prober, requests, mixed>>
    PROVE  SessionsInv'
  <1>1. PICK s, r : s = idle[k] /\ r = work[t].request
    OBVIOUS
  <1>2. s \in 1 .. opened /\ s # None /\ s \in Session /\ Usable(s)
    BY <1>1, Numbers DEF SessionsInv, None
  <1> DEFINE w == [work[t] EXCEPT !.at = "body", !.session = idle[k]]
  <1>3. w \in Work /\ w.at = "body" /\ w.session = s /\ w.request = r
    BY <1>1, <1>2 DEF SessionsInv, SessionsType, Work
  <1> HIDE DEF w
  <1>4. /\ work' \in [Task -> Work] /\ work'[t] = w
        /\ \A u \in Task \ {t} : work'[u] = work[u]
    BY <1>3, WorkStep DEF SessionsInv, w
  <1>5. /\ UNCHANGED <<opened, closed, lost, wire, executing, kept, probe>>
        /\ UNCHANGED <<probed, requests, mixed>>
    BY DEF mysqld, prober
  <1>6. /\ idle' \in Seq(1 .. opened)
        /\ DOMAIN idle' = {j \in DOMAIN idle : j < k}
        /\ \A j \in DOMAIN idle' : idle'[j] = idle[j]
    <2>1. idle \in Seq(1 .. opened)
      BY DEF SessionsInv, SessionsType
    <2> QED BY <2>1, Pop
  <1>7. /\ k \notin DOMAIN idle'
        /\ \A j \in DOMAIN idle :
             j \in DOMAIN idle' \/ j = k \/ ~Usable(idle[j])
    <2>1. \A j \in DOMAIN idle : j \in Nat
      BY DEF SessionsInv, SessionsType
    <2> QED BY <1>6, <2>1
  <1>8. s # kept /\ \A u \in Task : work[u].session # s
    BY <1>1, <1>2 DEF SessionsInv, PoolInv, TaskInv
  <1>9. \A j \in DOMAIN idle' : idle'[j] # s
    BY <1>1, <1>6, <1>7 DEF SessionsInv, PoolInv
  <1>10. work[t].session = None
    BY DEF SessionsInv, TaskInv
  <1>11. SessionsType'
    <2>1. \A u \in Task : /\ work'[u].session \in 0 .. opened
                          /\ work'[u].request \in 0 .. requests
      <3>1. w.session \in 0 .. opened
        BY <1>2, <1>3
      <3>2. w.request \in 0 .. requests
        BY <1>1, <1>3 DEF SessionsInv, SessionsType
      <3> QED BY <1>4, <3>1, <3>2 DEF SessionsInv, SessionsType
    <2> QED BY <1>4, <1>5, <1>6, <2>1 DEF SessionsInv, SessionsType
  <1>12. PoolInv'
    BY <1>5, <1>6 DEF SessionsInv, PoolInv, Usable
  <1>13. TaskInv'
    <2>1. ASSUME NEW u \in Task \ {t}, work[u].session # None
          PROVE  \A v \in Task \ {u} : work'[v].session # work[u].session
      BY <1>3, <1>4, <1>8, <2>1 DEF SessionsInv, TaskInv
    <2> QED
      BY <1>1, <1>2, <1>3, <1>4, <1>5, <1>6, <1>8, <1>9, <2>1
      DEF SessionsInv, TaskInv
  <1>14. OwnedInv'
    <2> SUFFICES ASSUME NEW x \in (1 .. opened) \ closed
                 PROVE  \/ x = kept
                        \/ \E j \in DOMAIN idle' : idle'[j] = x
                        \/ \E u \in Task : work'[u].session = x
      BY <1>5 DEF OwnedInv
    <2>1. CASE x = kept
      BY <2>1
    <2>2. CASE \E j \in DOMAIN idle : idle[j] = x
      <3>1. PICK j \in DOMAIN idle : idle[j] = x
        BY <2>2
      <3>2. Usable(x)
        BY DEF Usable, None
      <3>3. j = k \/ j \in DOMAIN idle'
        BY <1>7, <3>1, <3>2
      <3> QED BY <1>1, <1>3, <1>4, <1>6, <3>1, <3>3
    <2>3. CASE \E u \in Task : work[u].session = x
      <3>1. PICK u \in Task : work[u].session = x
        BY <2>3
      <3>2. u # t
        BY <1>10, <3>1 DEF None
      <3> QED BY <1>4, <3>1, <3>2
    <2> QED BY <2>1, <2>2, <2>3 DEF SessionsInv, OwnedInv
  <1>15. WireInv'
    <2>1. \A j \in DOMAIN idle' : Usable(idle[j])' => OwesNothing(idle[j])'
      BY <1>5, <1>6 DEF SessionsInv, WireInv, Usable, OwesNothing
    <2>2. /\ \A x \in Session : x > opened' => OwesNothing(x)'
          /\ Usable(kept)' => IF probe' = "none" THEN OwesNothing(kept)'
                              ELSE Owes(kept, probed)'
      BY <1>5 DEF SessionsInv, WireInv, Usable, OwesNothing, Owes
    <2>3. ASSUME NEW u \in Task, Usable(work[u].session)'
          PROVE  /\ work[u].at' \in {"body", "done"} =>
                      OwesNothing(work[u].session)'
                 /\ work[u].at' = "asked" =>
                      Owes(work[u].session, work[u].request)'
      <3>1. CASE u = t
        BY <1>1, <1>2, <1>3, <1>4, <1>5, <3>1
        DEF SessionsInv, WireInv, OwesNothing
      <3>2. CASE u # t
        BY <1>4, <1>5, <2>3, <3>2
        DEF SessionsInv, WireInv, OwesNothing, Owes, Usable
      <3> QED BY <3>1, <3>2
    <2> QED BY <2>1, <2>2, <2>3 DEF WireInv
  <1>16. ExecInv'
    <2>1. \A e \in executing : e[2] = r => e[1] \in lost
      <3>1. \A e \in executing : e[1] # None
        BY DEF SessionsInv, SessionsType, None
      <3> QED BY <1>1, <1>10, <3>1 DEF SessionsInv, ExecInv, InOnly
    <2> QED
      BY <1>1, <1>3, <1>4, <1>5, <2>1 DEF SessionsInv, ExecInv, InOnly
  <1> QED
    BY <1>5, <1>11, <1>12, <1>13, <1>14, <1>15, <1>16 DEF SessionsInv

(* No session of the pool is open: a new one is opened for the task, or    *)
(* mysqld lets nobody in and the task ends.                                *)
LEMMA LendOpened ==
    ASSUME SessionsInv, NEW t \in Task, work[t].at = "lend",
           \A j \in DOMAIN idle : ~Usable(idle[j]),
           idle' = <<>>,
           NEW w \in Work, Now(t, w),
           \/ /\ opened < MaxSessions /\ opened' = opened + 1
              /\ w.at = "body" /\ w.session = opened + 1
              /\ w.request = work[t].request
           \/ opened' = opened /\ w = Rest,
           UNCHANGED <<closed, mysqld, prober, requests, mixed>>
    PROVE  SessionsInv'
  <1>1. /\ UNCHANGED <<closed, lost, wire, executing, kept, probe, probed>>
        /\ UNCHANGED <<requests, mixed>>
    BY DEF mysqld, prober
  <1>2. /\ work' \in [Task -> Work] /\ work'[t] = w
        /\ \A u \in Task \ {t} : work'[u] = work[u]
    BY WorkStep DEF SessionsInv
  <1>3. opened \in Nat /\ opened <= MaxSessions /\ MaxSessions \in Nat
    BY SessionsAssumption DEF SessionsInv, SessionsType
  <1>4. PICK o : o = opened'
    OBVIOUS
  <1>5. /\ o \in Nat /\ o <= MaxSessions /\ opened <= o
        /\ 1 .. opened \subseteq 1 .. o /\ 0 .. opened \subseteq 0 .. o
        /\ \A x \in 1 .. o : x \in 1 .. opened \/ x = w.session
    BY <1>3, <1>4
  <1>6. DOMAIN idle' = {} /\ idle' \in Seq(1 .. o)
    OBVIOUS
  <1>7. \/ /\ w.at = "body" /\ w.session = opened + 1 /\ w.session = o
           /\ w.request = work[t].request
        \/ /\ w.at = "rest" /\ w.session = 0 /\ w.request = 0
    BY <1>4 DEF Rest, None
  <1>8. w.session \in 0 .. o /\ w.request \in 0 .. requests
    <2>1. work[t].request \in 0 .. requests /\ requests \in Nat
      BY DEF SessionsInv, SessionsType
    <2> QED BY <1>3, <1>5, <1>7, <2>1
  <1>9. \A u \in Task : /\ work[u].session \in 0 .. opened
                        /\ work[u].request \in 0 .. requests
    BY DEF SessionsInv, SessionsType
  <1>10. SessionsType'
    <2>1. closed' \subseteq 1 .. o /\ lost' \subseteq 1 .. o
      BY <1>1, <1>5 DEF SessionsInv, SessionsType
    <2>2. executing' \subseteq (1 .. o) \X (1 .. requests)
      BY <1>1, <1>5 DEF SessionsInv, SessionsType
    <2>3. \A u \in Task : /\ work'[u].session \in 0 .. o
                          /\ work'[u].request \in 0 .. requests
      BY <1>2, <1>5, <1>8, <1>9
    <2>4. kept' \in 0 .. o /\ opened' \in 0 .. MaxSessions
      BY <1>1, <1>3, <1>4, <1>5 DEF SessionsInv, SessionsType
    <2> QED
      BY <1>1, <1>2, <1>4, <1>6, <2>1, <2>2, <2>3, <2>4
      DEF SessionsInv, SessionsType
  <1>11. \A x \in 0 .. opened : w.session # 0 => x # w.session
    BY <1>3, <1>7
  <1>12. w.session # 0 => /\ w.session # kept
                          /\ \A u \in Task : work[u].session # w.session
    BY <1>9, <1>11 DEF SessionsInv, SessionsType
  <1>13. work[t].session = 0
    BY DEF SessionsInv, TaskInv, None
  <1>14. PoolInv'
    BY <1>1, <1>6 DEF SessionsInv, PoolInv, Usable
  <1>15. TaskInv'
    <2>1. ASSUME NEW u \in Task \ {t}, work[u].session # None
          PROVE  \A v \in Task \ {u} : work'[v].session # work[u].session
      BY <1>2, <1>7, <1>12, <2>1 DEF SessionsInv, TaskInv, None
    <2>2. w.session # 0 <=> w.at \notin {"rest", "lend"}
      BY <1>3, <1>7
    <2>3. work[t].request # 0
      BY DEF SessionsInv, TaskInv
    <2> QED
      BY <1>1, <1>2, <1>6, <1>7, <1>12, <2>1, <2>2, <2>3
      DEF SessionsInv, TaskInv, None
  <1>16. OwnedInv'
    <2> SUFFICES ASSUME NEW x \in (1 .. o) \ closed, x # kept
                 PROVE  \E u \in Task : work'[u].session = x
      BY <1>1, <1>4 DEF OwnedInv
    <2>1. CASE x = w.session
      BY <1>2, <2>1
    <2>2. CASE x \in 1 .. opened
      <3>1. Usable(x)
        BY <2>2 DEF Usable, None
      <3>2. PICK u \in Task : work[u].session = x
        BY <2>2, <3>1 DEF SessionsInv, OwnedInv
      <3>3. u # t
        BY <1>13, <2>2, <3>2
      <3> QED BY <1>2, <3>2, <3>3
    <2> QED BY <1>5, <2>1, <2>2
  <1>17. WireInv'
    <2>1. /\ \A x \in Session : x > o => OwesNothing(x)'
          /\ Usable(kept)' => IF probe' = "none" THEN OwesNothing(kept)'
                              ELSE Owes(kept, probed)'
      <3>1. \A x \in Session : x > o => x > opened
        BY <1>3, <1>5 DEF Session
      <3> QED
        BY <1>1, <3>1 DEF SessionsInv, WireInv, Usable, OwesNothing, Owes
    <2>2. ASSUME NEW u \in Task, Usable(work[u].session)'
          PROVE  /\ work[u].at' \in {"body", "done"} =>
                      OwesNothing(work[u].session)'
                 /\ work[u].at' = "asked" =>
                      Owes(work[u].session, work[u].request)'
      <3>1. CASE u = t
        <4>1. /\ w.at = "body" /\ w.session = opened + 1
              /\ w.session <= MaxSessions
          BY <1>2, <1>5, <1>7, <2>2, <3>1 DEF Usable, None
        <4>2. w.session \in Session /\ w.session > opened
          BY <1>3, <4>1 DEF Session
        <4> QED
          BY <1>1, <1>2, <3>1, <4>1, <4>2 DEF SessionsInv, WireInv, OwesNothing
      <3>2. CASE u # t
        BY <1>1, <1>2, <2>2, <3>2
        DEF SessionsInv, WireInv, OwesNothing, Owes, Usable
      <3> QED BY <3>1, <3>2
    <2> QED BY <1>4, <1>6, <2>1, <2>2 DEF WireInv
  <1>18. ExecInv'
    <2>1. \A e \in executing : e[2] = w.request => e[1] \in lost
      <3>1. \A e \in executing : e[1] # 0 /\ e[2] # 0
        BY DEF SessionsInv, SessionsType
      <3> QED BY <1>7, <1>13, <3>1 DEF SessionsInv, ExecInv, InOnly
    <2> QED
      BY <1>1, <1>2, <1>7, <2>1 DEF SessionsInv, ExecInv, InOnly
  <1> QED
    BY <1>1, <1>10, <1>14, <1>15, <1>16, <1>17, <1>18 DEF SessionsInv

(* A session is lent, or none is to be had. *)
LEMMA LendStep ==
    ASSUME SessionsInv, NEW t \in Task, Lend(t) PROVE SessionsInv'
  <1> DEFINE usable == {i \in DOMAIN idle : Usable(idle[i])}
  <1>1. work[t].at = "lend"
    BY DEF Lend, Doing
  <1>2. ASSUME NEW k \in usable, \A j \in usable : j <= k,
               idle' = SubSeq(idle, 1, k - 1),
               Now(t, [work[t] EXCEPT !.at = "body", !.session = idle[k]]),
               UNCHANGED opened
        PROVE  SessionsInv'
    BY <1>1, <1>2, LendPooled DEF Lend
  <1>3. ASSUME usable = {}, idle' = <<>>, NEW s \in Session, Opens(s),
               Now(t, [work[t] EXCEPT !.at = "body", !.session = s])
        PROVE  SessionsInv'
    <2> DEFINE w == [work[t] EXCEPT !.at = "body", !.session = s]
    <2>1. /\ w \in Work /\ w.at = "body" /\ w.session = s
          /\ w.request = work[t].request
      BY DEF SessionsInv, SessionsType, Work
    <2>2. Now(t, w)
      BY <1>3
    <2> HIDE DEF w
    <2> QED BY <1>1, <1>3, <2>1, <2>2, LendOpened DEF Lend, Opens
  <1>4. ASSUME usable = {}, idle' = <<>>, Now(t, Rest), UNCHANGED opened
        PROVE  SessionsInv'
    <2>1. Rest \in Work
      BY DEF Rest, Work
    <2> QED BY <1>1, <1>4, <2>1, LendOpened DEF Lend
  <1> QED BY <1>2, <1>3, <1>4 DEF Lend

(* What the probe does in its session leaves the sessions of the others    *)
(* as they are.                                                            *)
LEMMA ProbeWire ==
    ASSUME SessionsInv, NEW s \in Session, NEW r, kept' = s,
           s = kept \/ s > opened, opened' >= opened, opened' \in Nat,
           s \in 1 .. opened',
           UNCHANGED <<idle, closed, work>>,
           \A x \in Session \ {s} : wire'[x] = wire[x],
           \/ probe' = "none" /\ OwesNothing(s)'
           \/ probe' # "none" /\ probed' = r /\ Owes(s, r)'
    PROVE  WireInv'
  <1>1. /\ 1 .. opened \subseteq Session
        /\ \A i \in DOMAIN idle : idle[i] \in 1 .. opened
        /\ \A t \in Task : Usable(work[t].session) =>
                          work[t].session \in 1 .. opened
        /\ opened \in Nat
    <2>1. opened \in Nat
      BY SessionsAssumption DEF SessionsInv, SessionsType
    <2> QED BY <2>1, Numbers DEF SessionsInv, Usable
  <1>2. \A i \in DOMAIN idle : idle[i] # s
    BY <1>1 DEF SessionsInv, PoolInv
  <1>3. \A t \in Task : Usable(work[t].session) => work[t].session # s
    BY <1>1 DEF SessionsInv, TaskInv, Usable
  <1>4. \A x \in Session : x > opened' => x # s /\ x > opened
    BY <1>1 DEF Session
  <1>5. \A i \in DOMAIN idle' : Usable(idle[i])' => OwesNothing(idle[i])'
    BY <1>1, <1>2 DEF SessionsInv, WireInv, Usable, OwesNothing
  <1>6. \A x \in Session : x > opened' => OwesNothing(x)'
    BY <1>4 DEF SessionsInv, WireInv, OwesNothing
  <1>7. \A t \in Task : Usable(work[t].session)' =>
          /\ work[t].at' \in {"body", "done"} =>
               OwesNothing(work[t].session)'
          /\ work[t].at' = "asked" =>
               Owes(work[t].session, work[t].request)'
    BY <1>1, <1>3 DEF SessionsInv, WireInv, Usable, OwesNothing, Owes
  <1>8. IF probe' = "none" THEN OwesNothing(kept)' ELSE Owes(kept, probed)'
    BY DEF OwesNothing, Owes
  <1> QED BY <1>5, <1>6, <1>7, <1>8 DEF WireInv

(* A probe takes its session, or a new one when that was dropped, and      *)
(* sends under a new number.                                               *)
LEMMA ProbeStartsStep ==
    ASSUME SessionsInv, ProbeStarts PROVE SessionsInv'
  <1>1. PICK r : r = requests + 1
    OBVIOUS
  <1>2. /\ requests' = r /\ probed' = r /\ probe' = "select"
        /\ requests \in Nat /\ r \in Nat /\ r > requests /\ r # 0
    BY <1>1 DEF ProbeStarts, SessionsInv, SessionsType
  <1>3. PICK s \in Session :
          /\ IF Usable(kept) THEN s = kept /\ UNCHANGED opened ELSE Opens(s)
          /\ kept' = s
          /\ Sends(s, r)
    BY <1>1, <1>2 DEF ProbeStarts
  <1>4. UNCHANGED <<idle, closed, work, mixed>> /\ probe = "none"
    BY DEF ProbeStarts
  <1>5. opened \in Nat /\ opened <= MaxSessions /\ MaxSessions \in Nat
    BY SessionsAssumption DEF SessionsInv, SessionsType
  <1>6. PICK o : o = opened'
    OBVIOUS
  <1>7. \/ Usable(kept) /\ s = kept /\ o = opened
        \/ ~Usable(kept) /\ s = opened + 1 /\ o = s /\ opened < MaxSessions
    BY <1>3, <1>6 DEF Opens
  <1>8. /\ o \in Nat /\ o <= MaxSessions /\ opened <= o
        /\ 1 .. opened \subseteq 1 .. o /\ 0 .. opened \subseteq 0 .. o
        /\ \A x \in 1 .. o : x \in 1 .. opened \/ x = s
        /\ s = kept \/ s > opened
    BY <1>5, <1>7
  <1>9. s \in 1 .. o
    BY <1>5, <1>7, Numbers DEF SessionsInv
  <1>10. OwesNothing(s)
    BY <1>4, <1>5, <1>7, <1>8 DEF SessionsInv, WireInv
  <1>11. /\ wire' \in [Session -> Seq(Nat)] /\ Owes(s, r)'
         /\ \A x \in Session \ {s} : wire'[x] = wire[x]
         /\ executing \subseteq executing'
         /\ executing' \subseteq executing \cup {<<s, r>>}
         /\ s \in lost => executing' = executing
         /\ lost' = lost
    BY <1>2, <1>3, <1>10, SendStep DEF SessionsInv
  <1>12. SessionsType'
    <2>1. /\ closed' \subseteq 1 .. o /\ lost' \subseteq 1 .. o
          /\ idle' \in Seq(1 .. o)
      BY <1>4, <1>8, <1>11 DEF SessionsInv, SessionsType
    <2>2. 1 .. requests \subseteq 1 .. r /\ 0 .. requests \subseteq 0 .. r
          /\ r \in 1 .. r
      BY <1>2
    <2>3. executing' \subseteq (1 .. o) \X (1 .. r)
      <3>1. executing \subseteq (1 .. o) \X (1 .. r)
        BY <1>8, <2>2 DEF SessionsInv, SessionsType
      <3>2. <<s, r>> \in (1 .. o) \X (1 .. r)
        BY <1>9, <2>2
      <3> QED BY <1>11, <3>1, <3>2
    <2>4. \A u \in Task : /\ work'[u].session \in 0 .. o
                          /\ work'[u].request \in 0 .. r
      BY <1>4, <1>8, <2>2 DEF SessionsInv, SessionsType
    <2>5. /\ kept' \in 0 .. o /\ opened' \in 0 .. MaxSessions
          /\ probed' \in 0 .. r
      BY <1>2, <1>3, <1>5, <1>6, <1>8, <1>9
    <2> QED
      BY <1>2, <1>4, <1>6, <1>11, <2>1, <2>3, <2>4, <2>5
      DEF SessionsInv, SessionsType
  <1>13. \A i \in DOMAIN idle : idle[i] # s
    <2>1. \A i \in DOMAIN idle : idle[i] \in 1 .. opened
      BY Numbers DEF SessionsInv
    <2> QED BY <1>5, <1>8, <2>1 DEF SessionsInv, PoolInv
  <1>14. \A t \in Task : work[t].session # s
    <2>1. \A t \in Task : work[t].session # None =>
                           work[t].session \in 1 .. opened
      BY Numbers DEF SessionsInv
    <2>2. \A t \in Task : work[t].session # None => work[t].session # kept
      BY DEF SessionsInv, TaskInv
    <2>3. s # None /\ \A x \in 1 .. opened : ~(x > opened)
      BY <1>5, <1>8, <1>9 DEF None
    <2> QED BY <1>8, <2>1, <2>2, <2>3
  <1>15. PoolInv'
    <2>1. s # None /\ s \notin closed
      BY <1>5, <1>7, <1>9 DEF SessionsInv, SessionsType, Usable, None
    <2> QED
      BY <1>2, <1>3, <1>4, <1>13, <2>1 DEF SessionsInv, PoolInv, Usable
  <1>16. TaskInv'
    BY <1>3, <1>4, <1>11, <1>14 DEF SessionsInv, TaskInv
  <1>17. OwnedInv'
    <2> SUFFICES ASSUME NEW x \in (1 .. o) \ closed, x # s
                 PROVE  \/ \E i \in DOMAIN idle : idle[i] = x
                        \/ \E t \in Task : work[t].session = x
      BY <1>3, <1>4, <1>6 DEF OwnedInv
    <2>1. x \in (1 .. opened) \ closed
      BY <1>8
    <2>2. x # kept
      BY <1>7, <2>1 DEF Usable, None
    <2> QED BY <2>1, <2>2 DEF SessionsInv, OwnedInv
  <1>18. WireInv'
    BY <1>2, <1>3, <1>4, <1>6, <1>8, <1>9, <1>11, ProbeWire
  <1>19. ExecInv'
    <2>1. \A e \in executing : e[2] # r
      BY <1>2 DEF SessionsInv, SessionsType
    <2>2. \A t \in Task : work[t].request # r
      BY <1>2 DEF SessionsInv, SessionsType
    <2>3. \A e \in executing' : \/ e \in executing
                                \/ e[1] = s /\ e[2] = r /\ s \notin lost
      BY <1>11
    <2>4. \A e, f \in executing' :
            e[2] = f[2] => e[1] = f[1] \/ e[1] \in lost \/ f[1] \in lost
      BY <2>1, <2>3 DEF SessionsInv, ExecInv, InOnly
    <2>5. \A t \in Task : \A e \in executing' :
            e[2] = work[t].request => e[1] = work[t].session \/ e[1] \in lost
      BY <2>2, <2>3 DEF SessionsInv, ExecInv, InOnly
    <2>6. \A e \in executing' : e[2] = r => e[1] = s
      BY <2>1, <2>3
    <2> QED
      BY <1>2, <1>3, <1>4, <1>11, <2>2, <2>4, <2>5, <2>6
      DEF SessionsInv, ExecInv, InOnly
  <1> QED
    BY <1>4, <1>12, <1>15, <1>16, <1>17, <1>18, <1>19 DEF SessionsInv

(* The probe's SELECT is answered, and its write is sent. *)
LEMMA SelectStep ==
    ASSUME SessionsInv, SelectAnswered PROVE SessionsInv'
  <1>1. PICK s, r : s = kept /\ r = probed
    OBVIOUS
  <1>2. /\ UNCHANGED <<idle, opened, closed, lost, work, kept, probed>>
        /\ requests' = requests /\ probe = "select" /\ probe' = "write"
    BY DEF SelectAnswered, pool
  <1>3. Usable(s) /\ r # 0 /\ s \notin lost
    BY <1>1, <1>2 DEF SelectAnswered, SessionsInv, PoolInv
  <1>4. s \in 1 .. opened /\ s \in Session
    BY <1>1, <1>3, Numbers DEF SessionsInv
  <1>5. r \in 1 .. requests /\ r \in Nat
    BY <1>1, <1>3 DEF SessionsInv, SessionsType
  <1>6. Owes(s, r) /\ wire[s] \in Seq(Nat)
    BY <1>1, <1>2, <1>3, <1>4 DEF SessionsInv, SessionsType, WireInv
  <1>7. /\ Head(wire[s]) = r /\ Append(Tail(wire[s]), r) \in Seq(Nat)
        /\ Len(Append(Tail(wire[s]), r)) = 1
        /\ Append(Tail(wire[s]), r)[1] = r
    <2>1. Head(wire[s]) = r /\ Len(Tail(wire[s])) = 0
          /\ Tail(wire[s]) \in Seq(Nat)
      BY <1>5, <1>6, OneAnswer DEF Owes
    <2> QED BY <1>5, <2>1, OneAnswer
  <1>8. /\ wire' \in [Session -> Seq(Nat)] /\ Owes(s, r)'
        /\ \A x \in Session \ {s} : wire'[x] = wire[x]
    <2>1. wire' = [wire EXCEPT ![s] = Append(Tail(wire[s]), r)]
      BY <1>1 DEF SelectAnswered
    <2>2. /\ wire' \in [Session -> Seq(Nat)]
          /\ wire'[s] = Append(Tail(wire[s]), r)
          /\ \A x \in Session \ {s} : wire'[x] = wire[x]
      BY <1>4, <1>7, <2>1 DEF SessionsInv, SessionsType
    <2> QED BY <1>7, <2>2 DEF Owes
  <1>9. ~mixed'
    <2>1. mixed' = (mixed \/ Head(wire[s]) # r)
      BY <1>1 DEF SelectAnswered
    <2> QED BY <1>7, <2>1, Zenon DEF SessionsInv
  <1>10. executing' = executing \cup {<<s, r>>}
    BY <1>1 DEF SelectAnswered
  <1>11. SessionsType'
    <2>1. executing' \subseteq (1 .. opened) \X (1 .. requests)
      BY <1>4, <1>5, <1>10 DEF SessionsInv, SessionsType
    <2> QED BY <1>2, <1>8, <2>1 DEF SessionsInv, SessionsType
  <1>12. PoolInv' /\ TaskInv' /\ OwnedInv'
    <2>1. PoolInv'
      BY <1>1, <1>2, <1>3 DEF SessionsInv, PoolInv, Usable
    <2>2. TaskInv'
      BY <1>2 DEF SessionsInv, TaskInv
    <2>3. OwnedInv'
      BY <1>2 DEF SessionsInv, OwnedInv
    <2> QED BY <2>1, <2>2, <2>3
  <1>13. WireInv'
    <2>1. opened \in Nat
      BY SessionsAssumption DEF SessionsInv, SessionsType
    <2> QED BY <1>1, <1>2, <1>4, <1>8, <2>1, ProbeWire
  <1>14. ExecInv'
    <2>1. \A e \in executing : e[2] = r => e[1] = s \/ e[1] \in lost
      BY <1>1, <1>2 DEF SessionsInv, ExecInv, InOnly
    <2>2. \A t \in Task : work[t].request # r
      BY <1>1, <1>3 DEF SessionsInv, ExecInv, InOnly
    <2>3. \A e \in executing' : e \in executing \/ (e[1] = s /\ e[2] = r)
      BY <1>10
    <2>4. \A e, f \in executing' :
            e[2] = f[2] => e[1] = f[1] \/ e[1] \in lost \/ f[1] \in lost
      BY <2>1, <2>3 DEF SessionsInv, ExecInv, InOnly
    <2>5. \A t \in Task : \A e \in executing' :
            e[2] = work[t].request => e[1] = work[t].session \/ e[1] \in lost
      BY <2>2, <2>3 DEF SessionsInv, ExecInv, InOnly
    <2>6. \A e \in executing' : e[2] = r => e[1] = s \/ e[1] \in lost
      BY <2>1, <2>3
    <2> QED
      BY <1>1, <1>2, <2>2, <2>4, <2>5, <2>6 DEF SessionsInv, ExecInv, InOnly
  <1> QED
    BY <1>9, <1>11, <1>12, <1>13, <1>14 DEF SessionsInv

(* The probe's write is answered: its session is kept for the next one. *)
LEMMA WriteStep ==
    ASSUME SessionsInv, WriteAnswered PROVE SessionsInv'
  <1>1. PICK s, r : s = kept /\ r = probed
    OBVIOUS
  <1>2. /\ UNCHANGED <<idle, opened, closed, work, kept, probed, requests>>
        /\ probe = "write" /\ probe' = "none" /\ Receives(s, r)
    BY <1>1 DEF WriteAnswered, pool
  <1>3. Usable(s)
    BY <1>1, <1>2 DEF SessionsInv, PoolInv
  <1>4. s \in 1 .. opened /\ s \in Session
    BY <1>1, <1>3, Numbers DEF SessionsInv
  <1>5. r \in Nat /\ Owes(s, r)
    <2>1. r \in Nat
      BY <1>1 DEF SessionsInv, SessionsType
    <2> QED BY <1>1, <1>2, <1>3, <2>1 DEF SessionsInv, WireInv
  <1>6. /\ wire' \in [Session -> Seq(Nat)] /\ OwesNothing(s)'
        /\ \A x \in Session \ {s} : wire'[x] = wire[x]
        /\ executing' = executing /\ lost' = lost /\ ~mixed'
    BY <1>2, <1>4, <1>5, ReceiveStep DEF SessionsInv
  <1>7. SessionsType'
    BY <1>2, <1>6 DEF SessionsInv, SessionsType
  <1>8. PoolInv' /\ OwnedInv'
    BY <1>2 DEF SessionsInv, PoolInv, OwnedInv
  <1>9. TaskInv'
    BY <1>2, <1>6 DEF SessionsInv, TaskInv
  <1>10. WireInv'
    <2>1. opened \in Nat
      BY SessionsAssumption DEF SessionsInv, SessionsType
    <2> QED BY <1>1, <1>2, <1>4, <1>6, <2>1, ProbeWire
  <1>11. ExecInv'
    BY <1>2, <1>6 DEF SessionsInv, ExecInv, InOnly
  <1> QED
    BY <1>6, <1>7, <1>8, <1>9, <1>10, <1>11 DEF SessionsInv

(* A probe that fails closes its session and forgets it. *)
LEMMA ProbeFailsStep ==
    ASSUME SessionsInv, ProbeFails PROVE SessionsInv'
  <1>1. /\ UNCHANGED <<idle, opened, lost, wire, executing, work, probed>>
        /\ UNCHANGED <<requests, mixed>>
        /\ probe # "none" /\ probe' = "none" /\ kept' = 0
    BY DEF ProbeFails, mysqld, None
  <1>2. kept \in 1 .. opened
    BY <1>1, Numbers DEF SessionsInv, PoolInv
  <1>3. closed' = closed \cup {kept}
    BY <1>2 DEF ProbeFails, Closes, None
  <1>4. \A i \in DOMAIN idle : idle[i] # 0
    BY Numbers DEF SessionsInv
  <1>5. SessionsType'
    <2>1. 0 \in 0 .. opened
      BY SessionsAssumption DEF SessionsInv, SessionsType
    <2> QED BY <1>1, <1>2, <1>3, <2>1 DEF SessionsInv, SessionsType
  <1>6. PoolInv'
    BY <1>1, <1>4 DEF SessionsInv, PoolInv
  <1>7. TaskInv'
    BY <1>1, <1>2, <1>3 DEF SessionsInv, TaskInv, None
  <1>8. OwnedInv'
    BY <1>1, <1>3 DEF SessionsInv, OwnedInv
  <1>9. WireInv'
    BY <1>1, <1>3 DEF SessionsInv, WireInv, OwesNothing, Owes, Usable, None
  <1>10. ExecInv'
    BY <1>1 DEF SessionsInv, ExecInv, InOnly
  <1> QED
    BY <1>1, <1>5, <1>6, <1>7, <1>8, <1>9, <1>10 DEF SessionsInv

(* At the start no session has been opened. *)
LEMMA SessionsStart == SessionsInit => SessionsInv
  <1> SUFFICES ASSUME SessionsInit PROVE SessionsInv
    OBVIOUS
  <1>1. Rest \in Work /\ Rest.at = "rest" /\ Rest.session = 0
        /\ Rest.request = 0
    BY DEF Rest, Work, None
  <1>2. work \in [Task -> Work] /\ \A t \in Task : work[t] = Rest
    BY <1>1 DEF SessionsInit
  <1>3. idle = <<>> /\ DOMAIN idle = {} /\ opened = 0 /\ kept = 0
    BY DEF SessionsInit, None
  <1>4. SessionsType
    <2>1. wire \in [Session -> Seq(Nat)]
      BY DEF SessionsInit
    <2>2. opened \in 0 .. MaxSessions
      BY <1>3, SessionsAssumption
    <2> QED
      BY <1>1, <1>2, <1>3, <2>1, <2>2 DEF SessionsInit, SessionsType
  <1>5. PoolInv /\ TaskInv /\ OwnedInv
    BY <1>1, <1>2, <1>3 DEF SessionsInit, PoolInv, TaskInv, OwnedInv, None
  <1>6. WireInv
    BY <1>1, <1>2, <1>3
    DEF SessionsInit, WireInv, OwesNothing, Usable, None
  <1>7. ExecInv /\ ~mixed
    BY <1>1, <1>2 DEF SessionsInit, ExecInv, InOnly
  <1> QED BY <1>4, <1>5, <1>6, <1>7 DEF SessionsInv

(* Every step keeps the invariant. *)
LEMMA SessionsStep ==
    SessionsInv /\ [SessionsNext]_sessionsVars => SessionsInv'
  <1> SUFFICES ASSUME SessionsInv, [SessionsNext]_sessionsVars
               PROVE  SessionsInv'
    OBVIOUS
  <1>1. ASSUME NEW t \in Task, TimesOut(t) \/ LinkLost(t)
        PROVE  SessionsInv'
    <2>1. PICK n \in {"body", "done", "raised", "stale"} :
            /\ Now(t, [work[t] EXCEPT !.at = n])
            /\ n = "stale" => work[t].session \in lost
      BY <1>1 DEF TimesOut, LinkLost
    <2>2. /\ Closes({work[t].session}) /\ work[t].at = "asked"
          /\ UNCHANGED <<idle, opened, mysqld, prober, requests, mixed>>
      BY <1>1 DEF TimesOut, LinkLost, Doing
    <2>3. work[t].session \in closed'
      BY <2>2 DEF Closes, SessionsInv, TaskInv
    <2> QED BY <2>1, <2>2, <2>3, TaskMoves
  <1>2. ASSUME NEW t \in Task, Cancelled(t) PROVE SessionsInv'
    BY <1>2, TaskMoves DEF Cancelled, pool
  <1>3. ASSUME NEW t \in Task, BodyEnds(t) PROVE SessionsInv'
    BY <1>3, TaskMoves DEF BodyEnds, Doing, pool
  <1>4. CASE UNCHANGED sessionsVars
    <2>1. /\ UNCHANGED <<idle, opened, closed, lost, wire, executing, work>>
          /\ UNCHANGED <<kept, probe, probed, requests, mixed>>
      BY <1>4 DEF sessionsVars, pool, mysqld, prober
    <2> QED
      BY <2>1 DEF SessionsInv, SessionsType, PoolInv, TaskInv, OwnedInv,
                  WireInv, ExecInv, InOnly, OwesNothing, Owes, Usable
  <1> QED
    BY <1>1, <1>2, <1>3, <1>4, BodyStartsStep, LendStep, AskStep, AnswerStep,
       GivesBackStep, DropIdleStep, ProbeStartsStep, SelectStep, WriteStep,
       ProbeFailsStep, ServerStep
    DEF SessionsNext

(* Whatever times out, is cancelled or loses its link, in any number of    *)
(* tasks and sessions every statement gets its own answer, every open      *)
(* session is in one hand, and of two sessions in which a request is       *)
(* executed one has lost its link.                                         *)
THEOREM AnswersCorrect == SessionsSpec => []OwnAnswers
  <1>1. SessionsInv => OwnAnswers
    <2> SUFFICES ASSUME SessionsInv PROVE OwnAnswers
      OBVIOUS
    <2>1. \A x : x \in Pooled <=> \E i \in DOMAIN idle : idle[i] = x
      BY DEF Pooled
    <2>2. (1 .. opened) \ closed \subseteq InHand
      BY <2>1 DEF SessionsInv, OwnedInv, InHand
    <2>3. \A t \in Task : LET s == work[t].session IN
            s # None => /\ s \notin Pooled \cup {kept}
                        /\ \A u \in Task \ {t} : work[u].session # s
      BY <2>1 DEF SessionsInv, TaskInv
    <2>4. kept \notin Pooled
      BY <2>1 DEF SessionsInv, PoolInv
    <2>5. ASSUME NEW e \in executing, NEW f \in executing, e[2] = f[2]
          PROVE  e = f \/ {e[1], f[1]} \cap lost # {}
      <3>1. e = <<e[1], e[2]>> /\ f = <<f[1], f[2]>>
        BY DEF SessionsInv, SessionsType
      <3>2. e[1] = f[1] \/ e[1] \in lost \/ f[1] \in lost
        BY <2>5 DEF SessionsInv, ExecInv
      <3> QED BY <2>5, <3>1, <3>2
    <2> QED
      BY <2>2, <2>3, <2>4, <2>5 DEF SessionsInv, OwnAnswers
  <1> QED
    BY <1>1, SessionsStart, SessionsStep, PTL DEF SessionsSpec

-----------------------------------------------------------------------------
(* The event log.                                                          *)

LogType ==
    /\ file \in Seq(Nat) /\ ring \in Seq(Nat)
    /\ open \in {"no", "torn", "event"}
    /\ up \in BOOLEAN /\ failed \in BOOLEAN
    /\ events \in Nat /\ writing \in Nat
    /\ done \subseteq Nat /\ spoiled \subseteq Nat

(* The numbers of the events rise along the file, and only the newest is   *)
(* being written.                                                          *)
FileInv ==
    /\ \A i \in DOMAIN file :
           file[i] # NoEvent /\ file[i] <= events /\ file[i] # writing
    /\ \A i, j \in DOMAIN file : i < j => file[i] < file[j]
    /\ writing # NoEvent => up /\ writing = events

(* What was acknowledged is in the file and stays there: the last line can *)
(* only be lost to the next write when its append() has not returned.      *)
DoneInv ==
    /\ \A e \in done : e # NoEvent /\ e <= events /\ e # writing
    /\ \A e \in done \ spoiled : \E i \in DOMAIN file : file[i] = e
    /\ open = "event" => Len(file) > 0 /\ file[Len(file)] \notin done

(* A manager whose writes succeed has no open line, and its ring is ahead  *)
(* of the file by the event being written.                                 *)
RingInv ==
    /\ up /\ open # "no" => failed
    /\ failed => up
    /\ up /\ ~failed => ring = Newest(IF writing = NoEvent
                                      THEN file ELSE Append(file, writing))

EventsInv == LogType /\ FileInv /\ DoneInv /\ RingInv

(* The newest of a sequence are a sequence. *)
LEMMA NewestType ==
    ASSUME NEW s \in Seq(Nat) PROVE Newest(s) \in Seq(Nat)
  BY EventLogAssumption DEF Newest

(* The ring forgets only what a ring filled from the file would not hold.  *)
LEMMA NewestAppend ==
    ASSUME NEW s \in Seq(Nat), NEW e \in Nat
    PROVE  Newest(Append(Newest(s), e)) = Newest(Append(s, e))
  <1> USE EventLogAssumption
  <1>1. CASE Len(s) <= Ring
    BY <1>1 DEF Newest
  <1>2. CASE Len(s) > Ring
    <2> DEFINE n == Len(s)
               r == SubSeq(s, n - Ring + 1, n)
               a == Append(r, e)
               b == Append(s, e)
    <2>1. /\ n \in Nat /\ Ring \in Nat /\ Ring > 0 /\ n > Ring
          /\ Newest(s) = r
      BY <1>2 DEF Newest
    <2>2. /\ r \in Seq(Nat) /\ Len(r) = Ring
          /\ \A i \in 1 .. Ring : r[i] = s[n - Ring + i]
      BY <2>1
    <2>3. /\ a \in Seq(Nat) /\ Len(a) = Ring + 1
          /\ b \in Seq(Nat) /\ Len(b) = n + 1
      BY <2>1, <2>2
    <2>4. /\ \A i \in 1 .. Ring : a[i] = s[n - Ring + i]
          /\ a[Ring + 1] = e
          /\ \A i \in 1 .. n : b[i] = s[i]
          /\ b[n + 1] = e
      BY <2>1, <2>2
    <2> HIDE DEF a, b, n, r
    <2>5. /\ Newest(a) = SubSeq(a, 2, Ring + 1)
          /\ Newest(b) = SubSeq(b, n - Ring + 2, n + 1)
      <3>1. /\ ~(Len(a) <= Ring) /\ Len(a) - Ring + 1 = 2
            /\ ~(Len(b) <= Ring) /\ Len(b) - Ring + 1 = n - Ring + 2
        BY <2>1, <2>3
      <3> QED BY <3>1, <2>3 DEF Newest
    <2>6. \A i \in 1 .. Ring : a[i + 1] = b[n - Ring + 1 + i]
      <3> SUFFICES ASSUME NEW i \in 1 .. Ring
                   PROVE  a[i + 1] = b[n - Ring + 1 + i]
        OBVIOUS
      <3>1. CASE i = Ring
        <4>1. n - Ring + 1 + i = n + 1 /\ i + 1 = Ring + 1
          BY <3>1, <2>1
        <4> QED BY <4>1, <2>4
      <3>2. CASE i < Ring
        <4>1. /\ i + 1 \in 1 .. Ring
              /\ n - Ring + 1 + i \in 1 .. n
              /\ n - Ring + (i + 1) = n - Ring + 1 + i
          BY <3>2, <2>1
        <4> QED BY <4>1, <2>4
      <3> QED BY <3>1, <3>2, <2>1
    <2>7. SubSeq(a, 2, Ring + 1) = [i \in 1 .. Ring |-> a[i + 1]]
      <3>1. /\ (Ring + 1) - 2 + 1 = Ring
            /\ \A i \in 1 .. Ring : i + 2 - 1 = i + 1
        BY <2>1
      <3> QED BY <3>1, <2>1, <2>3
    <2>8. SubSeq(b, n - Ring + 2, n + 1)
            = [i \in 1 .. Ring |-> b[n - Ring + 1 + i]]
      <3>1. /\ (n + 1) - (n - Ring + 2) + 1 = Ring
            /\ \A i \in 1 .. Ring :
                 i + (n - Ring + 2) - 1 = n - Ring + 1 + i
        BY <2>1
      <3> QED BY <3>1, <2>1, <2>3
    <2>9. n = Len(s) /\ a = Append(Newest(s), e) /\ b = Append(s, e)
      BY <2>1 DEF n, a, b
    <2>10. Newest(a) = Newest(b)
      BY <2>5, <2>6, <2>7, <2>8
    <2> QED BY <2>9, <2>10
  <1> QED BY <1>1, <1>2

(* A file that holds what this one must. *)
Fits(f) ==
    /\ f \in Seq(Nat)
    /\ \A i \in DOMAIN f : f[i] # NoEvent /\ f[i] <= events
    /\ \A i, j \in DOMAIN f : i < j => f[i] < f[j]
    /\ \A e \in done \ spoiled : \E i \in DOMAIN f : f[i] = e

LEMMA FileFits == EventsInv => Fits(file)
  BY DEF EventsInv, LogType, FileInv, DoneInv, Fits

(* A last line that is lost with the next write was not acknowledged. *)
LEMMA GluedFits ==
    ASSUME EventsInv
    PROVE  /\ Fits(Glued)
           /\ \A i \in DOMAIN Glued : Glued[i] # writing
           /\ open = "no" => Glued = file
  <1>1. Fits(file) /\ \A i \in DOMAIN file : file[i] # writing
    BY FileFits DEF EventsInv, FileInv
  <1>2. CASE open # "event"
    BY <1>1, <1>2 DEF Glued
  <1>3. CASE open = "event"
    <2> DEFINE n == Len(file)
               g == SubSeq(file, 1, n - 1)
    <2>1. /\ file \in Seq(Nat) /\ n \in Nat /\ n > 0
          /\ file[n] \notin done
      BY <1>3 DEF EventsInv, LogType, DoneInv
    <2>2. /\ g \in Seq(Nat) /\ Len(g) = n - 1
          /\ \A i \in 1 .. n - 1 : g[i] = file[i]
      <3> HIDE DEF n
      <3>1. /\ n - 1 \in Nat /\ 1 .. n - 1 \subseteq 1 .. n
            /\ n - 1 - 1 + 1 = n - 1
            /\ \A i \in 1 .. n - 1 : i + 1 - 1 = i
        BY <2>1
      <3>2. g = [i \in 1 .. n - 1 |-> file[i]]
        BY <2>1, <3>1
      <3>3. \A i \in 1 .. n - 1 : file[i] \in Nat
        BY <2>1, <3>1 DEF n
      <3> HIDE DEF g
      <3> QED BY <3>1, <3>2, <3>3
    <2>3. /\ DOMAIN file = 1 .. n /\ DOMAIN g = 1 .. n - 1
          /\ \A i \in 1 .. n - 1 : i \in 1 .. n
          /\ \A i \in 1 .. n : i # n => i \in 1 .. n - 1
      BY <2>1, <2>2
    <2> HIDE DEF g, n
    <2>4. ASSUME NEW e \in done \ spoiled
          PROVE  \E i \in DOMAIN g : g[i] = e
      <3>1. PICK i \in DOMAIN file : file[i] = e
        BY <1>1 DEF Fits
      <3>2. i # n
        BY <2>1, <3>1
      <3> QED BY <2>2, <2>3, <3>1, <3>2
    <2>5. \A i \in DOMAIN g : g[i] # writing /\ g[i] # NoEvent
                              /\ g[i] <= events
      BY <1>1, <2>2, <2>3 DEF Fits
    <2>6. \A i, j \in DOMAIN g : i < j => g[i] < g[j]
      BY <1>1, <2>2, <2>3 DEF Fits
    <2>7. Fits(g)
      BY <2>2, <2>4, <2>5, <2>6 DEF Fits
    <2>8. Glued = g
      BY <1>3 DEF Glued, g, n
    <2> QED BY <1>3, <2>5, <2>7, <2>8
  <1> QED BY <1>2, <1>3

(* An event that is written has a line of its own, or was glued to one     *)
(* that this leaves behind.                                                *)
LEMMA WrittenFits ==
    ASSUME EventsInv, writing # NoEvent
    PROVE  LET f == Written(writing) IN
           /\ Fits(f)
           /\ open = "no" => /\ f = Append(file, writing)
                             /\ Len(f) > 0 /\ f[Len(f)] = writing
  <1> DEFINE n == Len(file)
             f == Append(file, writing)
  <1>1. /\ file \in Seq(Nat) /\ n \in Nat
        /\ writing \in Nat /\ events \in Nat /\ writing = events
        /\ DOMAIN file = 1 .. n
    BY DEF EventsInv, LogType, FileInv
  <1>2. /\ f \in Seq(Nat) /\ Len(f) = n + 1 /\ DOMAIN f = 1 .. n + 1
        /\ \A i \in 1 .. n : f[i] = file[i]
        /\ f[n + 1] = writing
    BY <1>1
  <1>3. \A i \in 1 .. n + 1 : i # n + 1 => i \in 1 .. n
    BY <1>1
  <1>4. \A i \in 1 .. n :
          /\ i \in 1 .. n + 1
          /\ file[i] \in Nat /\ file[i] # NoEvent /\ file[i] < writing
    BY <1>1 DEF EventsInv, FileInv
  <1> HIDE DEF f, n
  <1>5. \A i \in DOMAIN f : f[i] # NoEvent /\ f[i] <= events
    BY <1>1, <1>2, <1>3, <1>4
  <1>6. ASSUME NEW i \in DOMAIN f, NEW j \in DOMAIN f, i < j
        PROVE  f[i] < f[j]
    <2>1. i \in 1 .. n
      BY <1>1, <1>2, <1>6
    <2>2. CASE j = n + 1
      BY <1>2, <1>4, <2>1, <2>2
    <2>3. CASE j # n + 1
      <3>1. j \in 1 .. n
        BY <1>2, <1>3, <2>3
      <3>2. file[i] < file[j]
        BY <1>1, <1>6, <2>1, <3>1 DEF EventsInv, FileInv
      <3> QED BY <1>2, <2>1, <3>1, <3>2
    <2> QED BY <2>2, <2>3
  <1>7. ASSUME NEW e \in done \ spoiled
        PROVE  \E i \in DOMAIN f : f[i] = e
    <2>1. PICK i \in 1 .. n : file[i] = e
      BY <1>1 DEF EventsInv, DoneInv
    <2> QED BY <1>2, <1>4, <2>1
  <1>8. Fits(f)
    BY <1>2, <1>5, <1>6, <1>7 DEF Fits
  <1>9. CASE open = "no"
    <2>1. Written(writing) = f
      BY <1>9 DEF Written, f
    <2>2. Len(f) > 0 /\ f[Len(f)] = writing
      BY <1>1, <1>2
    <2> QED BY <1>8, <2>1, <2>2 DEF f
  <1>10. CASE open # "no"
    BY <1>10, GluedFits DEF Written
  <1> QED BY <1>9, <1>10

LEMMA BreaksOffFits ==
    ASSUME EventsInv, writing # NoEvent, BreaksOff
    PROVE  /\ Fits(file')
           /\ open' \in {"no", "torn", "event"}
           /\ open' = "event" => /\ Len(file') > 0
                                 /\ file'[Len(file')] \notin done
  <1>1. writing \notin done
    BY DEF EventsInv, DoneInv
  <1>2. CASE UNCHANGED <<file, open>>
    BY <1>2, FileFits DEF EventsInv, LogType, DoneInv
  <1>3. CASE file' = Glued /\ open' = "torn"
    BY <1>3, GluedFits
  <1>4. CASE /\ file' = Written(writing)
             /\ open' \in {"no", IF open = "no" THEN "event" ELSE "torn"}
    <2>1. Fits(file')
      BY <1>4, WrittenFits
    <2>2. open' = "event" => open = "no"
      BY <1>4
    <2>3. open = "no" => Len(file') > 0 /\ file'[Len(file')] = writing
      BY <1>4, WrittenFits
    <2>4. open' \in {"no", "torn", "event"}
      BY <1>4
    <2> QED BY <1>1, <2>1, <2>2, <2>3, <2>4
  <1> QED BY <1>2, <1>3, <1>4 DEF BreaksOff

LEMMA AppendStartsStep ==
    ASSUME EventsInv, AppendStarts PROVE EventsInv'
  <1>1. /\ writing = NoEvent /\ up /\ events \in Nat
        /\ events' = events + 1 /\ writing' = events + 1
        /\ writing' # NoEvent /\ writing' \in Nat /\ events' \in Nat
        /\ ring' = Newest(Append(ring, writing'))
        /\ UNCHANGED <<file, open, up, done, failed, spoiled>>
    BY DEF AppendStarts, EventsInv, LogType, NoEvent
  <1>2. \A e \in Nat : e <= events => e <= events' /\ e # writing'
    BY <1>1
  <1>3. LogType'
    <2>1. Append(ring, writing') \in Seq(Nat)
      BY <1>1 DEF EventsInv, LogType
    <2> QED BY <1>1, <2>1, NewestType DEF EventsInv, LogType
  <1>4. FileInv'
    <2>1. \A i \in DOMAIN file : file[i] \in Nat
      BY DEF EventsInv, LogType
    <2> QED BY <1>1, <1>2, <2>1 DEF EventsInv, FileInv
  <1>5. DoneInv'
    <2>1. \A e \in done : e \in Nat
      BY DEF EventsInv, LogType
    <2> QED BY <1>1, <1>2, <2>1 DEF EventsInv, DoneInv
  <1>6. RingInv'
    <2>1. ASSUME up, ~failed
          PROVE  ring' = Newest(Append(file, writing'))
      <3>1. ring = Newest(file)
        BY <1>1, <2>1 DEF EventsInv, RingInv
      <3>2. file \in Seq(Nat)
        BY DEF EventsInv, LogType
      <3> QED BY <1>1, <3>1, <3>2, NewestAppend
    <2> QED BY <1>1, <2>1 DEF EventsInv, RingInv
  <1> QED BY <1>3, <1>4, <1>5, <1>6 DEF EventsInv

LEMMA AppendEndsStep ==
    ASSUME EventsInv, AppendEnds PROVE EventsInv'
  <1>1. /\ writing # NoEvent /\ up /\ writing = events
        /\ file' = Written(writing) /\ open' = "no" /\ writing' = NoEvent
        /\ done' = done \cup {writing}
        /\ spoiled' = IF failed /\ open # "no" THEN spoiled \cup {writing}
                                               ELSE spoiled
        /\ UNCHANGED <<ring, up, events, failed>>
    BY DEF AppendEnds, EventsInv, FileInv
  <1>2. /\ Fits(file')
        /\ open = "no" => /\ file' = Append(file, writing)
                          /\ Len(file') > 0 /\ file'[Len(file')] = writing
    BY <1>1, WrittenFits
  <1>3. /\ events \in Nat /\ writing \in Nat
        /\ done \subseteq Nat /\ spoiled \subseteq Nat
    BY DEF EventsInv, LogType
  <1>4. LogType'
    BY <1>1, <1>2, <1>3 DEF EventsInv, LogType, Fits, NoEvent
  <1>5. FileInv'
    BY <1>1, <1>2 DEF FileInv, Fits
  <1>6. DoneInv'
    <2>1. \A e \in done' : e # NoEvent /\ e <= events' /\ e # writing'
      BY <1>1, <1>3 DEF EventsInv, DoneInv
    <2>2. ASSUME NEW e \in done' \ spoiled'
          PROVE  \E i \in DOMAIN file' : file'[i] = e
      <3>1. CASE e = writing
        <4>1. open = "no"
          BY <1>1, <2>2, <3>1 DEF EventsInv, RingInv
        <4>2. Len(file') \in DOMAIN file'
          BY <1>2, <4>1 DEF Fits
        <4> QED BY <1>2, <3>1, <4>1, <4>2
      <3>2. CASE e # writing
        BY <1>1, <1>2, <2>2, <3>2 DEF Fits
      <3> QED BY <3>1, <3>2
    <2> QED BY <1>1, <2>1, <2>2 DEF DoneInv
  <1>7. RingInv'
    <2>1. ASSUME ~failed
          PROVE  ring' = Newest(file')
      <3>1. open = "no"
        BY <1>1, <2>1 DEF EventsInv, RingInv
      <3> QED BY <1>1, <1>2, <2>1, <3>1 DEF EventsInv, RingInv
    <2> QED BY <1>1, <2>1 DEF EventsInv, RingInv
  <1> QED BY <1>4, <1>5, <1>6, <1>7 DEF EventsInv

(* The write ends early, and with it the append or the manager. *)
LEMMA BrokenOff ==
    ASSUME EventsInv, writing' = NoEvent, Fits(file'),
           open' \in {"no", "torn", "event"},
           open' = "event" => /\ Len(file') > 0
                              /\ file'[Len(file')] \notin done,
           UNCHANGED <<events, done, spoiled>>
    PROVE  FileInv' /\ DoneInv'
  <1>1. FileInv'
    BY DEF FileInv, Fits
  <1>2. DoneInv'
    BY DEF EventsInv, DoneInv, Fits
  <1> QED BY <1>1, <1>2

LEMMA AppendFailsStep ==
    ASSUME EventsInv, AppendFails PROVE EventsInv'
  <1>1. /\ writing # NoEvent /\ up /\ BreaksOff
        /\ writing' = NoEvent /\ failed' = TRUE
        /\ UNCHANGED <<ring, up, events, done, spoiled>>
    BY DEF AppendFails
  <1>2. /\ Fits(file') /\ open' \in {"no", "torn", "event"}
        /\ open' = "event" => /\ Len(file') > 0
                              /\ file'[Len(file')] \notin done
    BY <1>1, BreaksOffFits
  <1>3. FileInv' /\ DoneInv'
    BY <1>1, <1>2, BrokenOff
  <1>4. LogType'
    BY <1>1, <1>2 DEF EventsInv, LogType, Fits, NoEvent
  <1>5. RingInv'
    BY <1>1 DEF RingInv
  <1> QED BY <1>3, <1>4, <1>5 DEF EventsInv

LEMMA LogCrashStep ==
    ASSUME EventsInv, Crash PROVE EventsInv'
  <1>1. /\ up' = FALSE /\ ring' = <<>>
        /\ writing' = NoEvent /\ failed' = FALSE
        /\ IF writing = NoEvent THEN UNCHANGED <<file, open>> ELSE BreaksOff
        /\ UNCHANGED <<events, done, spoiled>>
    BY DEF Crash
  <1>2. /\ Fits(file') /\ open' \in {"no", "torn", "event"}
        /\ open' = "event" => /\ Len(file') > 0
                              /\ file'[Len(file')] \notin done
    <2>1. CASE writing = NoEvent
      BY <1>1, <2>1, FileFits DEF EventsInv, LogType, DoneInv
    <2>2. CASE writing # NoEvent
      BY <1>1, <2>2, BreaksOffFits
    <2> QED BY <2>1, <2>2
  <1>3. FileInv' /\ DoneInv'
    BY <1>1, <1>2, BrokenOff
  <1>4. LogType'
    <2>1. ring' \in Seq(Nat)
      BY <1>1
    <2> QED
      BY <1>1, <1>2, <2>1 DEF EventsInv, LogType, Fits, NoEvent
  <1>5. RingInv'
    BY <1>1 DEF RingInv
  <1> QED BY <1>3, <1>4, <1>5 DEF EventsInv

LEMMA LogStartStep ==
    ASSUME EventsInv, Start PROVE EventsInv'
  <1>1. /\ ~up /\ up' = TRUE /\ ring' = Newest(file) /\ open' = "no"
        /\ UNCHANGED <<file, writing, events, done, failed, spoiled>>
    BY DEF Start
  <1>2. writing = NoEvent
    BY <1>1 DEF EventsInv, FileInv
  <1>3. LogType'
    BY <1>1, NewestType DEF EventsInv, LogType
  <1>4. FileInv'
    BY <1>1, <1>2 DEF EventsInv, FileInv
  <1>5. DoneInv'
    BY <1>1 DEF EventsInv, DoneInv
  <1>6. RingInv'
    BY <1>1, <1>2 DEF EventsInv, RingInv
  <1> QED BY <1>3, <1>4, <1>5, <1>6 DEF EventsInv

(* However the manager crashes and its writes fail, an event whose append  *)
(* returned is in the file, once and in order, and the ring holds the      *)
(* newest of them; only the event after a failed write may be lost.        *)
THEOREM LogCorrect == EventLogSpec => []NoEventLost
  <1>1. EventLogInit => EventsInv
    <2> SUFFICES ASSUME EventLogInit PROVE EventsInv
      OBVIOUS
    <2>1. Newest(<<>>) = <<>>
      BY EventLogAssumption DEF Newest
    <2>2. <<>> \in Seq(Nat) /\ DOMAIN <<>> = {}
      OBVIOUS
    <2>3. LogType
      BY <2>2 DEF EventLogInit, LogType, NoEvent
    <2>4. FileInv
      BY <2>2 DEF EventLogInit, FileInv
    <2>5. DoneInv
      BY DEF EventLogInit, DoneInv
    <2>6. RingInv
      BY <2>1 DEF EventLogInit, RingInv
    <2> QED BY <2>3, <2>4, <2>5, <2>6 DEF EventsInv
  <1>2. EventsInv /\ [EventLogNext]_eventLogVars => EventsInv'
    <2> SUFFICES ASSUME EventsInv, [EventLogNext]_eventLogVars PROVE EventsInv'
      OBVIOUS
    <2>1. CASE UNCHANGED eventLogVars
      BY <2>1 DEF eventLogVars, EventsInv, LogType, FileInv, DoneInv, RingInv,
                  Newest
    <2> QED
      BY <2>1, AppendStartsStep, AppendEndsStep, AppendFailsStep,
         LogCrashStep, LogStartStep DEF EventLogNext
  <1>3. EventsInv => NoEventLost
    BY DEF EventsInv, LogType, FileInv, DoneInv, RingInv, NoEventLost
  <1> QED
    BY <1>1, <1>2, <1>3, PTL DEF EventLogSpec

-----------------------------------------------------------------------------
(* The failure detector. *)

Observation == [ts : Nat, primary : Member, ok : BOOLEAN, nodes : Answers]
Streaks == [n : Nat, since : Nat]

DetectorType ==
    /\ current \in Member
    /\ now \in Nat
    /\ history \in Seq(Observation)
    /\ poll = NoPoll \/ poll \in [ts : Nat, primary : Member]
    /\ failing \in Streaks /\ doubted \in Streaks

(* Polls follow one another, no two further apart than gap. *)
OrderInv(gap) ==
    LET n == Len(history)
    IN  /\ \A i, j \in 1 .. n : i <= j => history[i].ts <= history[j].ts
        /\ \A i \in 1 .. n : i < n => history[i + 1].ts - history[i].ts <= gap
        /\ \A i \in 1 .. n : history[n].ts - history[i].ts <= (n - i) * gap
        /\ n > 0 => /\ history[n].ts <= now
                    /\ now - history[n].ts <= gap
                    /\ poll = NoPoll => history[n].ts = now
        /\ poll # NoPoll => poll.ts = now

(* Only the poll that was under way when the primary was adopted is about  *)
(* another one.                                                            *)
NameInv ==
    /\ \A i \in 1 .. Len(history) : history[i].primary # current => i = 1
    /\ poll # NoPoll /\ poll.primary # current => history = <<>>

(* Of n polls at the times t the last r were bad, which is what the streak *)
(* says, unless polls of it were dropped: then all n were bad, and they    *)
(* reach back far enough.                                                  *)
Follows(streak, bad, n, t, gap) ==
    \E r \in 0 .. n :
        /\ \A i \in 1 .. n : i > n - r => i \in bad
        /\ \/ /\ r < n => n - r \notin bad
              /\ streak.n = r
              /\ r > 0 => streak.since = t[n - r + 1]
           \/ /\ r = n /\ n > 0
              /\ streak.n > n
              /\ streak.since <= t[1]
              /\ t[n] - t[1] + gap > Keep

Times == [i \in 1 .. Len(history) |-> history[i].ts]

FollowInv(gap) ==
    /\ Follows(failing, FailedIn(current), Len(history), Times, gap)
    /\ Follows(doubted, DoubtedIn(current), Len(history), Times, gap)

DetectorInv(gap) ==
    DetectorType /\ OrderInv(gap) /\ NameInv /\ FollowInv(gap)

LEMMA StillFar ==
    ASSUME NEW a \in Nat, NEW b \in Nat, NEW c \in Nat, NEW gap \in Nat,
           b - c <= gap, a - c > Keep
    PROVE  a - b + gap > Keep
  BY DetectorAssumption

LEMMA Earlier ==
    ASSUME NEW a \in Nat, NEW b \in Nat, NEW c \in Nat, a <= b, b <= c
    PROVE  a <= c
  OBVIOUS

(* The times t of n + 1 polls, and u of the m that are left of them when   *)
(* those in front of j, which are too old, are dropped.                    *)
Dropped(n, t, j, m, u, gap) ==
    /\ t \in [1 .. n + 1 -> Nat]
    /\ \A i, k \in 1 .. n + 1 : i <= k => t[i] <= t[k]
    /\ \A i \in 1 .. n : t[i + 1] - t[i] <= gap
    /\ j \in 1 .. n + 1 /\ m = n + 2 - j
    /\ j > 1 => t[n + 1] - t[j - 1] > Keep
    /\ \A i \in 1 .. m : u[i] = t[i + j - 1]

(* The streak of the bad polls goes on as long as the last is bad. *)
LEMMA FollowsStep ==
    ASSUME NEW n \in Nat, NEW gap \in Nat, NEW t, NEW j, NEW m, NEW u,
           Dropped(n, t, j, m, u, gap),
           NEW streak \in Streaks, NEW bad, Follows(streak, bad, n, t, gap),
           NEW bad1,
           \A i \in 1 .. m : i < m => (i \in bad1 <=> i + j - 1 \in bad),
           NEW streak1,
           streak1 = IF m \notin bad1 THEN NoStreak
                     ELSE [n |-> streak.n + 1,
                           since |-> IF streak.n = 0 THEN t[n + 1]
                                                     ELSE streak.since]
    PROVE  Follows(streak1, bad1, m, u, gap)
  <1> USE DetectorAssumption DEF Dropped
  <1>0. /\ m \in 1 .. n + 1 /\ m >= 1
        /\ streak.n \in Nat /\ streak.since \in Nat /\ Keep \in Nat
        /\ \A i \in 1 .. n + 1 : t[i] \in Nat
        /\ u[m] = t[n + 1] /\ u[1] = t[j]
    <2>1. m \in 1 .. n + 1 /\ m >= 1 /\ m + j - 1 = n + 1 /\ 1 + j - 1 = j
      OBVIOUS
    <2>2. u[m] = t[n + 1] /\ u[1] = t[j]
      BY <2>1
    <2> QED BY <2>1, <2>2 DEF Streaks
  <1>1. CASE m \notin bad1
    <2>1. streak1.n = 0
      BY <1>1 DEF NoStreak
    <2>2. m - 0 \notin bad1 /\ 0 \in 0 .. m
      BY <1>0, <1>1
    <2>3. \A i \in 1 .. m : ~(i > m - 0)
      OBVIOUS
    <2> QED BY <2>1, <2>2, <2>3 DEF Follows
  <1>2. CASE m \in bad1
    <2>1. /\ streak1.n = streak.n + 1
          /\ streak1.since = IF streak.n = 0 THEN t[n + 1] ELSE streak.since
      BY <1>2
    <2>2. PICK r \in 0 .. n :
            /\ \A i \in 1 .. n : i > n - r => i \in bad
            /\ \/ /\ r < n => n - r \notin bad
                  /\ streak.n = r
                  /\ r > 0 => streak.since = t[n - r + 1]
               \/ /\ r = n /\ n > 0
                  /\ streak.n > n
                  /\ streak.since <= t[1]
                  /\ t[n] - t[1] + gap > Keep
      BY DEF Follows
    <2>3. CASE j <= n - r + 1 /\ streak.n = r
      <3> DEFINE q == r + 1
      <3>1. q \in 0 .. m /\ streak1.n = q
        BY <2>1, <2>3
      <3>2. ASSUME NEW i \in 1 .. m, i > m - q PROVE i \in bad1
        <4>1. CASE i = m
          BY <1>2, <4>1
        <4>2. CASE i < m
          <5>1. i + j - 1 \in 1 .. n /\ i + j - 1 > n - r
            BY <3>2, <4>2
          <5> QED BY <2>2, <4>2, <5>1
        <4> QED BY <4>1, <4>2, <1>0
      <3>3. q < m => m - q \notin bad1
        <4> SUFFICES ASSUME q < m PROVE m - q \notin bad1
          OBVIOUS
        <4>1. /\ m - q \in 1 .. m /\ m - q < m /\ (m - q) + j - 1 = n - r
              /\ r < n
          OBVIOUS
        <4>2. n - r \notin bad
          BY <2>2, <2>3, <4>1
        <4> QED BY <4>1, <4>2
      <3>4. q > 0 => streak1.since = u[m - q + 1]
        <4>1. /\ m - q + 1 \in 1 .. m
              /\ (m - q + 1) + j - 1 = n - r + 1
          BY <2>3
        <4>2. u[m - q + 1] = t[n - r + 1]
          BY <4>1
        <4>3. CASE r = 0
          BY <2>1, <2>3, <4>2, <4>3
        <4>4. CASE r > 0
          BY <2>1, <2>2, <2>3, <4>2, <4>4
        <4> QED BY <4>3, <4>4
      <3> HIDE DEF q
      <3> QED BY <3>1, <3>2, <3>3, <3>4 DEF Follows
    <2>4. CASE ~(j <= n - r + 1 /\ streak.n = r)
      <3>1. m \in 0 .. m /\ m > 0
        BY <1>0
      <3>2. ASSUME NEW i \in 1 .. m PROVE i \in bad1
        <4>1. CASE i = m
          BY <1>2, <4>1
        <4>2. CASE i < m
          <5>1. i + j - 1 \in 1 .. n /\ i + j - 1 > n - r
            BY <2>2, <2>4, <4>2
          <5> QED BY <2>2, <4>2, <5>1
        <4> QED BY <4>1, <4>2, <1>0
      <3>3. \/ streak.n = r /\ j > n - r + 1 /\ r > 0
            \/ r = n /\ streak.n > n /\ streak.since <= t[1]
        BY <2>2, <2>4
      <3>4. streak1.n > m /\ streak1.since <= u[1]
        <4>1. CASE streak.n = r /\ j > n - r + 1 /\ r > 0
          <5>1. streak.since = t[n - r + 1]
            BY <2>2, <4>1
          <5>2. /\ n - r + 1 \in 1 .. n + 1 /\ n - r + 1 <= j
                /\ r + 1 > m /\ r # 0
            BY <4>1
          <5>3. t[n - r + 1] <= t[j]
            BY <5>2
          <5>4. streak1.since = streak.since
            BY <2>1, <4>1, <5>2
          <5>5. streak1.n > m
            BY <2>1, <4>1, <5>2
          <5> QED BY <1>0, <5>1, <5>3, <5>4, <5>5
        <4>2. CASE r = n /\ streak.n > n /\ streak.since <= t[1]
          <5>1. 1 \in 1 .. n + 1 /\ 1 <= j /\ streak.n # 0
                /\ streak.n + 1 > m
            BY <4>2, <1>0
          <5>2. t[1] <= t[j] /\ t[1] \in Nat /\ t[j] \in Nat
            BY <5>1, <1>0
          <5>3. streak1.since = streak.since /\ streak1.n > m
            BY <2>1, <5>1
          <5>4. streak.since <= t[j]
            BY <1>0, <4>2, <5>2, Earlier
          <5> QED BY <1>0, <5>3, <5>4
        <4> QED BY <3>3, <4>1, <4>2
      <3>5. u[m] - u[1] + gap > Keep
        <4>1. CASE j > 1
          <5>1. /\ j - 1 \in 1 .. n /\ (j - 1) + 1 = j
                /\ j - 1 \in 1 .. n + 1
            BY <4>1
          <5>2. t[j] - t[j - 1] <= gap
            BY <5>1
          <5>3. t[n + 1] - t[j - 1] > Keep
            BY <4>1
          <5>4. t[j] \in Nat /\ t[j - 1] \in Nat /\ t[n + 1] \in Nat
            BY <1>0, <5>1
          <5>5. t[n + 1] - t[j] + gap > Keep
            BY <5>2, <5>3, <5>4, StillFar
          <5> QED BY <1>0, <5>5
        <4>2. CASE j = 1
          <5>1. t[n] - t[1] + gap > Keep /\ n > 0
            BY <2>2, <2>4, <4>2
          <5>2. n \in 1 .. n + 1 /\ 1 \in 1 .. n + 1 /\ n + 1 \in 1 .. n + 1
            BY <5>1
          <5>3. t[n] <= t[n + 1]
            BY <5>2
          <5>4. t[n] \in Nat /\ t[1] \in Nat /\ t[n + 1] \in Nat
            BY <1>0, <5>2
          <5> QED BY <1>0, <4>2, <5>1, <5>3, <5>4
        <4> QED BY <4>1, <4>2
      <3> QED BY <3>1, <3>2, <3>4, <3>5 DEF Follows
    <2> QED BY <2>3, <2>4
  <1> QED BY <1>1, <1>2

LEMMA FollowsSame ==
    ASSUME NEW n \in Nat, NEW t, NEW u, \A i \in 1 .. n : t[i] = u[i],
           NEW gap, NEW bad, NEW streak, Follows(streak, bad, n, t, gap)
    PROVE  Follows(streak, bad, n, u, gap)
  <1>1. PICK r \in 0 .. n :
          /\ \A i \in 1 .. n : i > n - r => i \in bad
          /\ \/ /\ r < n => n - r \notin bad
                /\ streak.n = r
                /\ r > 0 => streak.since = t[n - r + 1]
             \/ /\ r = n /\ n > 0
                /\ streak.n > n
                /\ streak.since <= t[1]
                /\ t[n] - t[1] + gap > Keep
    BY DEF Follows
  <1>2. /\ r > 0 => t[n - r + 1] = u[n - r + 1]
        /\ n > 0 => t[1] = u[1] /\ t[n] = u[n]
    OBVIOUS
  <1> QED BY <1>1, <1>2 DEF Follows

(* A majority of the witnesses votes when more of the replicas take their  *)
(* source for gone than for there.                                         *)
LEMMA QuorumTold ==
    ASSUME WitnessesTell, NEW ob, ob.nodes \in Answers, NEW p \in Member
    PROVE  Quorum(ob, p) <=> Telling(ob.nodes, p, "gone")
                             > Telling(ob.nodes, p, "there")
  <1> DEFINE Says(word) == {m \in Member \ {p} : /\ ob.nodes[m].source = p
                                                 /\ ob.nodes[m].tells = word}
             gone == Says("gone")
             there == Says("there")
  <1>1. /\ Voters(ob, p) = gone
        /\ Witnesses(ob, p) = gone \cup there
        /\ gone \cap there = {}
    <2>1. ASSUME NEW m \in Member \ {p}
          PROVE  LET v == ob.nodes[m]
                 IN  /\ ReplicaVote(v, p) <=> v.source = p /\ v.tells = "gone"
                     /\ IsWitness(v, p) <=> /\ v.source = p
                                            /\ v.tells \in {"gone", "there"}
      BY DEF WitnessesTell, ReplicaVote, IsWitness
    <2> QED BY <2>1 DEF Voters, Witnesses
  <1>2. /\ IsFiniteSet(gone) /\ IsFiniteSet(there)
    <2>1. gone \in SUBSET Member /\ there \in SUBSET Member
      OBVIOUS
    <2> QED BY <2>1, FS_Subset, DetectorAssumption
  <1> HIDE DEF gone, there
  <1>3. Cardinality(gone \cap there) = 0
    BY <1>1, FS_EmptySet
  <1>4. /\ Cardinality(gone) \in Nat /\ Cardinality(there) \in Nat
        /\ Cardinality(gone \cup there)
             = Cardinality(gone) + Cardinality(there)
    <2>1. Cardinality(gone) \in Nat /\ Cardinality(there) \in Nat
      BY <1>2, FS_CardinalityType
    <2>2. Cardinality(gone \cup there)
            = Cardinality(gone) + Cardinality(there)
              - Cardinality(gone \cap there)
      BY <1>2, FS_Union
    <2> QED BY <1>3, <2>1, <2>2
  <1>5. 2 * Cardinality(gone) > Cardinality(gone) + Cardinality(there)
          <=> Cardinality(gone) > Cardinality(there)
    BY <1>4
  <1>6. Quorum(ob, p) <=> 2 * Cardinality(gone)
                          > Cardinality(gone) + Cardinality(there)
    BY <1>1, <1>4 DEF Quorum
  <1>7. /\ Telling(ob.nodes, p, "gone") = Cardinality(gone)
        /\ Telling(ob.nodes, p, "there") = Cardinality(there)
    BY DEF Telling, gone, there
  <1> QED BY <1>5, <1>6, <1>7

LEMMA SuffixIs ==
    ASSUME NEW S, NEW s \in Seq(S), NEW j \in 1 .. Len(s)
    PROVE  SubSeq(s, j, Len(s))
             = [i \in 1 .. Len(s) - j + 1 |-> s[i + j - 1]]
  OBVIOUS

(* A poll is recorded and those that are too old for it are dropped. *)
LEMMA PollEndsStep ==
    ASSUME WitnessesTell, NEW gap \in Nat, DetectorInv(gap),
           NEW ok \in BOOLEAN, NEW nodes \in Answers, PollEnds(ok, nodes)
    PROVE  DetectorInv(gap)'
  <1> DEFINE n == Len(history)
             ob == [ts |-> poll.ts, primary |-> poll.primary,
                    ok |-> ok, nodes |-> nodes]
             h == Append(history, ob)
  <1>1. /\ poll \in [ts : Nat, primary : Member] /\ poll # NoPoll
        /\ poll' = NoPoll /\ UNCHANGED <<current, now>>
        /\ current \in Member /\ now \in Nat
        /\ history \in Seq(Observation) /\ n \in Nat
        /\ failing \in Streaks /\ doubted \in Streaks
        /\ failing' = Longer(failing, ProbeFailed(ob, current))
        /\ doubted' = Longer(doubted,
              /\ ob.primary = current
              /\ Telling(nodes, current, "gone")
                 > Telling(nodes, current, "there"))
    BY DEF PollEnds, DetectorInv, DetectorType
  <1>2. PICK j \in DOMAIN h :
          Recent(h, j) /\ history' = SubSeq(h, j, Len(h))
    BY DEF PollEnds
  <1>3. /\ ob \in Observation /\ ob.ts = now /\ ob.ts = poll.ts
        /\ ob.primary = poll.primary /\ ob.nodes = nodes
    BY <1>1 DEF Observation, DetectorInv, OrderInv
  <1> HIDE DEF ob
  <1>4. /\ h \in Seq(Observation) /\ Len(h) = n + 1 /\ DOMAIN h = 1 .. n + 1
        /\ \A i \in 1 .. n : h[i] = history[i]
        /\ h[n + 1] = ob
    BY <1>1, <1>3
  <1> DEFINE t == [i \in 1 .. n + 1 |-> h[i].ts]
             m == n + 2 - j
  <1>5. /\ j \in 1 .. n + 1 /\ m \in Nat /\ m \in 1 .. n + 1
        /\ m = n + 2 - j
    BY <1>1, <1>2, <1>4
  <1> HIDE DEF m
  <1>6. /\ history' \in Seq(Observation) /\ Len(history') = m
        /\ \A i \in 1 .. m : /\ i + j - 1 \in 1 .. n + 1
                             /\ history'[i] = h[i + j - 1]
    <2> HIDE DEF h, n
    <2>1. /\ n + 1 - j + 1 = m /\ \A i \in 1 .. m : i + j - 1 \in 1 .. n + 1
      BY <1>1, <1>5
    <2>2. history' = [i \in 1 .. m |-> h[i + j - 1]]
      <3>1. history' = [i \in 1 .. Len(h) - j + 1 |-> h[i + j - 1]]
        <4>1. j \in 1 .. Len(h)
          BY <1>4, <1>5
        <4> QED BY <1>2, <1>4, <4>1, SuffixIs
      <3>2. Len(h) - j + 1 = m
        <4>1. Len(h) = n + 1 /\ m = n + 2 - j
          BY <1>4, <1>5
        <4> QED BY <1>1, <1>5, <4>1
      <3> QED BY <3>1, <3>2
    <2>3. \A i \in 1 .. n + 1 : h[i] \in Observation
      BY <1>4
    <2>4. \A i \in 1 .. m : i + j - 1 \in 1 .. n + 1
                            /\ h[i + j - 1] \in Observation
      BY <2>1, <2>3
    <2>5. history' \in [1 .. m -> Observation]
      BY <2>2, <2>4
    <2>6. history' \in Seq(Observation) /\ Len(history') = m
      BY <1>5, <2>5
    <2> QED BY <2>2, <2>4, <2>6
  <1> HIDE DEF h, n
  <1>7. t \in [1 .. n + 1 -> Nat] /\ \A i \in 1 .. n + 1 : t[i] = h[i].ts
    <2>1. \A i \in 1 .. n + 1 : h[i] \in Observation
      BY <1>4
    <2> QED BY <2>1 DEF Observation
  <1>8. \A i \in 1 .. n : t[i] = history[i].ts /\ history[i].ts \in Nat
    <2>1. \A i \in 1 .. n : i \in 1 .. n + 1
      BY <1>1
    <2> QED BY <1>4, <1>7, <2>1
  <1>9. t[n + 1] = now
    BY <1>1, <1>3, <1>4, <1>7
  <1>10. \A i \in 1 .. m : history'[i].ts = t[i + j - 1]
    BY <1>6, <1>7
  <1> HIDE DEF t
  <1>11. /\ \A i, k \in 1 .. n : i <= k => t[i] <= t[k]
         /\ \A i \in 1 .. n : i < n => t[i + 1] - t[i] <= gap
         /\ \A i \in 1 .. n : t[n] - t[i] <= (n - i) * gap
         /\ n > 0 => t[n] <= now /\ now - t[n] <= gap
    <2>1. \A i \in 1 .. n : i < n => i + 1 \in 1 .. n
      BY <1>1
    <2>2. n > 0 => n \in 1 .. n
      BY <1>1
    <2>3. /\ \A i, k \in 1 .. n : i <= k => history[i].ts <= history[k].ts
          /\ \A i \in 1 .. n :
               i < n => history[i + 1].ts - history[i].ts <= gap
          /\ \A i \in 1 .. n : history[n].ts - history[i].ts <= (n - i) * gap
          /\ n > 0 => history[n].ts <= now /\ now - history[n].ts <= gap
      BY DEF DetectorInv, OrderInv, n
    <2>4. \A i \in 1 .. n : t[i] = history[i].ts
      BY <1>8
    <2>5. \A i, k \in 1 .. n : i <= k => t[i] <= t[k]
      BY <2>3, <2>4
    <2>6. \A i \in 1 .. n : i < n => t[i + 1] - t[i] <= gap
      BY <2>1, <2>3, <2>4
    <2>7. \A i \in 1 .. n : t[n] - t[i] <= (n - i) * gap
      <3> SUFFICES ASSUME NEW i \in 1 .. n
                   PROVE  t[n] - t[i] <= (n - i) * gap
        OBVIOUS
      <3>1. n \in 1 .. n
        BY <1>1
      <3>2. t[n] = history[n].ts /\ t[i] = history[i].ts
        BY <2>4, <3>1
      <3>3. history[n].ts - history[i].ts <= (n - i) * gap
        BY <2>3
      <3> QED BY <3>2, <3>3
    <2>8. n > 0 => t[n] <= now /\ now - t[n] <= gap
      BY <2>2, <2>3, <2>4
    <2> QED BY <2>5, <2>6, <2>7, <2>8
  <1>12. ASSUME NEW i \in 1 .. n + 1, NEW k \in 1 .. n + 1, i <= k
         PROVE  t[i] <= t[k]
    <2>1. CASE k <= n
      BY <1>1, <1>11, <1>12, <2>1
    <2>2. CASE k = n + 1
      <3>1. CASE i = n + 1
        BY <1>7, <2>2, <3>1
      <3>2. CASE i # n + 1
        <4>1. i \in 1 .. n /\ n \in 1 .. n /\ n > 0 /\ i <= n
          BY <1>1, <3>2
        <4>2. t[i] \in Nat /\ t[n] \in Nat
          BY <1>8, <4>1
        <4>3. t[i] <= t[n] /\ t[n] <= now
          BY <1>11, <4>1
        <4> QED BY <1>1, <1>9, <2>2, <4>2, <4>3, Earlier
      <3> QED BY <3>1, <3>2
    <2> QED BY <1>1, <2>1, <2>2
  <1>13. ASSUME NEW i \in 1 .. n PROVE t[i + 1] - t[i] <= gap
    <2>1. CASE i < n
      BY <1>11, <2>1
    <2>2. CASE i = n
      BY <1>1, <1>9, <1>11, <2>2
    <2> QED BY <1>1, <2>1, <2>2
  <1>14. ASSUME NEW i \in 1 .. n + 1
         PROVE  t[n + 1] - t[i] <= (n + 1 - i) * gap
    <2>1. CASE i = n + 1
      BY <1>1, <1>7, <2>1
    <2>2. CASE i # n + 1
      <3>1. i \in 1 .. n /\ n > 0 /\ n \in 1 .. n /\ n - i \in Nat
        BY <1>1, <2>2
      <3>2. t[n] - t[i] <= (n - i) * gap /\ t[n + 1] - t[n] <= gap
        BY <1>9, <1>11, <3>1
      <3>3. t[i] \in Nat /\ t[n] \in Nat /\ t[n + 1] \in Nat
        BY <1>1, <1>8, <1>9, <3>1
      <3>4. (n + 1 - i) * gap = (n - i) * gap + gap
        <4>1. n + 1 - i = (n - i) + 1
          BY <1>1
        <4>2. \A x \in Nat : (x + 1) * gap = x * gap + gap
          OBVIOUS
        <4> QED BY <3>1, <4>1, <4>2
      <3>5. (n - i) * gap \in Nat
        BY <3>1
      <3> QED BY <3>2, <3>3, <3>4, <3>5
    <2> QED BY <2>1, <2>2
  <1>15. j > 1 => t[n + 1] - t[j - 1] > Keep
    <2>1. j > 1 => j - 1 \in 1 .. j - 1 /\ j - 1 \in 1 .. n + 1
      BY <1>1, <1>5
    <2>2. j > 1 => h[n + 1].ts - h[j - 1].ts > Keep
      BY <1>2, <1>4, <2>1 DEF Recent
    <2>3. n + 1 \in 1 .. n + 1
      BY <1>1
    <2> QED BY <1>7, <2>1, <2>2, <2>3
  <1>16. DetectorType'
    <2>1. failing' \in Streaks /\ doubted' \in Streaks
      BY <1>1 DEF Longer, Streaks, NoStreak
    <2> QED BY <1>1, <1>6, <2>1 DEF DetectorType
  <1>17. OrderInv(gap)'
    <2>1. ASSUME NEW i \in 1 .. m, NEW k \in 1 .. m, i <= k
          PROVE  history'[i].ts <= history'[k].ts
      <3>1. /\ i + j - 1 \in 1 .. n + 1 /\ k + j - 1 \in 1 .. n + 1
            /\ i + j - 1 <= k + j - 1
        BY <1>5, <1>6, <2>1
      <3> QED BY <1>10, <1>12, <3>1
    <2>2. ASSUME NEW i \in 1 .. m, i < m
          PROVE  history'[i + 1].ts - history'[i].ts <= gap
      <3>1. /\ i + 1 \in 1 .. m /\ (i + 1) + j - 1 = (i + j - 1) + 1
            /\ i + j - 1 \in 1 .. n
        BY <1>1, <1>5, <2>2
      <3> QED BY <1>10, <1>13, <3>1
    <2>3. /\ m \in 1 .. m /\ m + j - 1 = n + 1
          /\ history'[m].ts = now
      <3>1. m \in 1 .. m /\ m + j - 1 = n + 1
        BY <1>1, <1>5
      <3> QED BY <1>9, <1>10, <3>1
    <2>4. ASSUME NEW i \in 1 .. m
          PROVE  history'[m].ts - history'[i].ts <= (m - i) * gap
      <3>1. /\ i + j - 1 \in 1 .. n + 1
            /\ n + 1 - (i + j - 1) = m - i
        <4>1. n \in Nat /\ j \in 1 .. n + 1 /\ m = n + 2 - j
          BY <1>1, <1>5
        <4> QED BY <4>1
      <3>2. t[n + 1] - t[i + j - 1] <= (n + 1 - (i + j - 1)) * gap
        BY <1>14, <3>1
      <3> QED BY <1>9, <1>10, <2>3, <3>1, <3>2
    <2>5. now - history'[m].ts <= gap /\ history'[m].ts <= now
      BY <1>1, <2>3
    <2> QED BY <1>1, <1>6, <2>1, <2>2, <2>3, <2>4, <2>5 DEF OrderInv
  <1>18. NameInv'
    <2>1. ASSUME NEW i \in 1 .. m, history'[i].primary # current
          PROVE  i = 1
      <3>1. CASE i + j - 1 = n + 1
        <4>1. poll.primary # current
          BY <1>3, <1>4, <1>6, <2>1, <3>1
        <4>2. n = 0
          BY <1>1, <4>1 DEF DetectorInv, NameInv, n
        <4> QED BY <1>5, <3>1, <4>2
      <3>2. CASE i + j - 1 # n + 1
        <4>1. i + j - 1 \in 1 .. n
          BY <1>1, <1>6, <3>2
        <4>2. history[i + j - 1].primary # current
          BY <1>4, <1>6, <2>1, <4>1
        <4>3. i + j - 1 = 1
          BY <4>1, <4>2 DEF DetectorInv, NameInv, n
        <4> QED BY <1>5, <4>3
      <3> QED BY <3>1, <3>2
    <2> QED BY <1>1, <1>6, <2>1 DEF NameInv
  <1>19. \A i \in 1 .. m : i < m =>
           /\ i + j - 1 \in 1 .. n /\ history'[i] = history[i + j - 1]
    <2> SUFFICES ASSUME NEW i \in 1 .. m, i < m
                 PROVE  /\ i + j - 1 \in 1 .. n
                        /\ history'[i] = history[i + j - 1]
      OBVIOUS
    <2>1. i + j - 1 \in 1 .. n
      BY <1>1, <1>5
    <2> QED BY <1>4, <1>6, <2>1
  <1>20. history'[m] = ob /\ m \in 1 .. m
    <2>1. m \in 1 .. m /\ m + j - 1 = n + 1
      BY <1>1, <1>5
    <2> QED BY <1>4, <1>6, <2>1
  <1>21. DOMAIN history = 1 .. n /\ DOMAIN history' = 1 .. m
    BY <1>1, <1>6 DEF n
  <1>22. /\ \A i \in 1 .. m : Times'[i] = t[i + j - 1]
         /\ \A i \in 1 .. n : Times[i] = t[i]
    <2>1. \A i \in 1 .. m : Times'[i] = history'[i].ts
      BY <1>6 DEF Times
    <2>2. \A i \in 1 .. n : Times[i] = history[i].ts
      BY DEF Times, n
    <2> QED BY <1>8, <1>10, <2>1, <2>2
  <1>23. Dropped(n, t, j, m, Times', gap)
    BY <1>5, <1>7, <1>12, <1>13, <1>15, <1>22 DEF Dropped
  <1>24. FollowInv(gap)'
    <2>1. Follows(failing', FailedIn(current)', m, Times', gap)
      <3> DEFINE bad == FailedIn(current)
                 bad1 == FailedIn(current)'
                 isBad == ProbeFailed(ob, current)
      <3>1. Follows(failing, bad, n, t, gap)
        <4>1. Follows(failing, bad, n, Times, gap)
          BY DEF DetectorInv, FollowInv, n
        <4> HIDE DEF bad
        <4> QED BY <1>1, <1>22, <4>1, FollowsSame
      <3>2. \A i \in 1 .. m : i < m => (i \in bad1 <=> i + j - 1 \in bad)
        BY <1>1, <1>19, <1>21 DEF FailedIn
      <3>3. m \in bad1 <=> isBad
        BY <1>1, <1>20, <1>21 DEF FailedIn
      <3>4. failing' = IF m \notin bad1 THEN NoStreak
                       ELSE [n |-> failing.n + 1,
                             since |-> IF failing.n = 0 THEN t[n + 1]
                                                        ELSE failing.since]
        BY <1>1, <1>3, <1>9, <3>3 DEF Longer
      <3> HIDE DEF bad, bad1, isBad
      <3>5. Follows(failing', bad1, m, Times', gap)
        BY <1>1, <1>23, <3>1, <3>2, <3>4, FollowsStep
      <3> QED BY <3>5 DEF bad1
    <2>2. Follows(doubted', DoubtedIn(current)', m, Times', gap)
      <3> DEFINE bad == DoubtedIn(current)
                 bad1 == DoubtedIn(current)'
                 isBad == ob.primary = current /\ Quorum(ob, current)
      <3>1. Follows(doubted, bad, n, t, gap)
        <4>1. Follows(doubted, bad, n, Times, gap)
          BY DEF DetectorInv, FollowInv, n
        <4> HIDE DEF bad
        <4> QED BY <1>1, <1>22, <4>1, FollowsSame
      <3>2. \A i \in 1 .. m : i < m => (i \in bad1 <=> i + j - 1 \in bad)
        BY <1>1, <1>19, <1>21 DEF DoubtedIn
      <3>3. m \in bad1 <=> isBad
        BY <1>1, <1>20, <1>21 DEF DoubtedIn
      <3>4. Quorum(ob, current) <=> Telling(nodes, current, "gone")
                                    > Telling(nodes, current, "there")
        BY <1>1, <1>3, QuorumTold
      <3>5. doubted' = IF m \notin bad1 THEN NoStreak
                       ELSE [n |-> doubted.n + 1,
                             since |-> IF doubted.n = 0 THEN t[n + 1]
                                                        ELSE doubted.since]
        BY <1>1, <1>3, <1>9, <3>3, <3>4 DEF Longer
      <3> HIDE DEF bad, bad1, isBad
      <3>6. Follows(doubted', bad1, m, Times', gap)
        BY <1>1, <1>23, <3>1, <3>2, <3>5, FollowsStep
      <3> QED BY <3>6 DEF bad1
    <2> QED BY <1>1, <1>6, <2>1, <2>2 DEF FollowInv
  <1> QED BY <1>16, <1>17, <1>18, <1>24 DEF DetectorInv

LEMMA HistoryType ==
    ASSUME DetectorType
    PROVE  /\ Len(history) \in Nat
           /\ \A i \in 1 .. Len(history) : history[i].ts \in Nat
           /\ history # <<>> => /\ Len(history) > 0
                                /\ Len(history) \in 1 .. Len(history)
                                /\ 1 \in 1 .. Len(history)
  <1>1. history \in Seq(Observation)
    BY DEF DetectorType
  <1>2. \A i \in 1 .. Len(history) : history[i] \in Observation
    BY <1>1
  <1>3. \A i \in 1 .. Len(history) : history[i].ts \in Nat
    BY <1>2 DEF Observation
  <1> QED BY <1>1, <1>3

(* A poll starts a while after the last. *)
LEMMA PollStartsStep ==
    ASSUME NEW gap \in Nat, DetectorInv(gap), NEW g \in Nat, g <= gap,
           PollStarts(g)
    PROVE  DetectorInv(gap)'
  <1>1. /\ poll = NoPoll /\ now' = now + g /\ now \in Nat
        /\ poll' = [ts |-> now', primary |-> current]
        /\ UNCHANGED <<current, history, failing, doubted>>
    BY DEF PollStarts, DetectorInv, DetectorType
  <1>2. DetectorType'
    BY <1>1 DEF DetectorInv, DetectorType
  <1>3. OrderInv(gap)'
    <2> DEFINE n == Len(history)
    <2>1. /\ n \in Nat /\ Len(history') = n
          /\ \A i \in 1 .. n : history[i].ts \in Nat
      BY <1>1, HistoryType DEF DetectorInv
    <2>2. n > 0 => n \in 1 .. n /\ history[n].ts = now
      BY <1>1, <2>1 DEF DetectorInv, OrderInv
    <2>3. n > 0 => history[n].ts <= now' /\ now' - history[n].ts <= gap
      BY <1>1, <2>2
    <2>4. /\ \A i, k \in 1 .. n : i <= k => history[i].ts <= history[k].ts
          /\ \A i \in 1 .. n :
               i < n => history[i + 1].ts - history[i].ts <= gap
          /\ \A i \in 1 .. n : history[n].ts - history[i].ts <= (n - i) * gap
      BY DEF DetectorInv, OrderInv
    <2>5. poll' = NoPoll => now' = 0
      BY <1>1 DEF NoPoll
    <2>6. poll' = NoPoll /\ n > 0 => history[n].ts = now'
      BY <1>1, <2>1, <2>2, <2>3, <2>5
    <2>7. poll'.ts = now'
      BY <1>1
    <2> HIDE DEF n
    <2> QED BY <1>1, <2>1, <2>3, <2>4, <2>6, <2>7 DEF OrderInv, n
  <1>4. NameInv'
    BY <1>1 DEF DetectorInv, NameInv
  <1>5. FollowInv(gap)'
    BY <1>1 DEF DetectorInv, FollowInv, FailedIn, DoubtedIn, Times,
                ProbeFailed, Quorum, Voters, Witnesses
  <1> QED BY <1>2, <1>3, <1>4, <1>5 DEF DetectorInv

(* Without polls nothing was bad. *)
LEMMA NothingFollows ==
    ASSUME NEW gap, NEW bad, NEW t
    PROVE  Follows(NoStreak, bad, 0, t, gap)
  <1>1. 0 \in 0 .. 0 /\ NoStreak.n = 0
    BY DEF NoStreak
  <1> QED BY <1>1 DEF Follows

LEMMA AdoptStep ==
    ASSUME NEW gap \in Nat, DetectorInv(gap), NEW p \in Member, Adopt(p)
    PROVE  DetectorInv(gap)'
  <1>1. /\ current' = p /\ history' = <<>> /\ Len(history') = 0
        /\ failing' = NoStreak /\ doubted' = NoStreak
        /\ UNCHANGED <<poll, now>>
    BY DEF Adopt
  <1>2. DetectorType'
    <2>1. history' \in Seq(Observation) /\ NoStreak \in Streaks
      BY <1>1 DEF NoStreak, Streaks
    <2> QED BY <1>1, <2>1 DEF DetectorInv, DetectorType
  <1>3. OrderInv(gap)'
    BY <1>1 DEF DetectorInv, OrderInv
  <1>4. NameInv'
    BY <1>1 DEF NameInv
  <1>5. FollowInv(gap)'
    BY <1>1, NothingFollows DEF FollowInv
  <1> QED BY <1>2, <1>3, <1>4, <1>5 DEF DetectorInv

LEMMA RunIs ==
    ASSUME NEW n \in Nat, n = Len(history), NEW bad, NEW r \in 0 .. n,
           \A i \in 1 .. n : i > n - r => i \in bad,
           r < n => n - r \notin bad
    PROVE  Run(bad) = r
  <1> DEFINE Is(q) == /\ n - q + 1 .. n \subseteq bad
                      /\ q < n => n - q \notin bad
  <1>1. Is(r)
    <2>1. \A i \in n - r + 1 .. n : i \in 1 .. n /\ i > n - r
      OBVIOUS
    <2> QED BY <2>1
  <1>2. ASSUME NEW q \in 0 .. n, Is(q) PROVE q = r
    <2>1. CASE q < r
      <3>1. n - q \in 1 .. n /\ n - q > n - r /\ q < n
        BY <2>1
      <3> QED BY <1>2, <3>1
    <2>2. CASE q > r
      <3>1. n - r \in n - q + 1 .. n /\ r < n
        BY <2>2
      <3> QED BY <1>2, <3>1
    <2> QED BY <2>1, <2>2
  <1> QED BY <1>1, <1>2 DEF Run

(* The streak that is kept forwards and the one that is counted back agree *)
(* on whether enough polls were bad for a window.                          *)
LEMMA ConfirmedIs ==
    ASSUME NEW gap \in Nat, Often(gap), DetectorInv(gap), history # <<>>,
           NEW streak \in Streaks, NEW bad,
           Follows(streak, bad, Len(history), Times, gap),
           NEW least \in Nat \ {0}, gap * (least - 1) <= Keep
    PROVE  /\ Streak(bad).n \in Nat
           /\ Confirmed(streak, least)
                <=> Streak(bad).n >= least /\ Streak(bad).for >= Window
  <1> USE DetectorAssumption
  <1> DEFINE n == Len(history)
  <1>1. /\ n \in Nat /\ n > 0 /\ n \in 1 .. n /\ 1 \in 1 .. n
        /\ history \in Seq(Observation)
        /\ \A i \in 1 .. n : history[i].ts \in Nat
        /\ streak.n \in Nat /\ streak.since \in Nat
        /\ Keep \in Nat /\ Window \in Nat
    BY HistoryType DEF DetectorInv, DetectorType, Streaks
  <1>2. \A i \in 1 .. n : Times[i] = history[i].ts
    BY DEF Times
  <1>3. PICK r \in 0 .. n :
          /\ \A i \in 1 .. n : i > n - r => i \in bad
          /\ \/ /\ r < n => n - r \notin bad
                /\ streak.n = r
                /\ r > 0 => streak.since = Times[n - r + 1]
             \/ /\ r = n /\ n > 0
                /\ streak.n > n
                /\ streak.since <= Times[1]
                /\ Times[n] - Times[1] + gap > Keep
    BY DEF Follows
  <1>4. r < n => n - r \notin bad
    BY <1>3
  <1>5. Run(bad) = r
    BY <1>1, <1>3, <1>4, RunIs
  <1>6. /\ Streak(bad).n = r
        /\ Streak(bad).for = IF r = 0 THEN 0
                             ELSE history[n].ts - history[n - r + 1].ts
    BY <1>5 DEF Streak, Latest
  <1>7. Confirmed(streak, least) <=> /\ streak.n >= least
                                     /\ history[n].ts - streak.since >= Window
    BY DEF Confirmed, Latest
  <1> HIDE DEF n
  <1> DEFINE Agree ==
               Confirmed(streak, least)
                 <=> Streak(bad).n >= least /\ Streak(bad).for >= Window
  <1>8. ASSUME streak.n = r PROVE Agree
    <2>1. CASE r = 0
      BY <1>6, <1>7, <1>8, <2>1
    <2>2. CASE r > 0
      <3>1. n - r + 1 \in 1 .. n /\ r # 0
        BY <1>1, <2>2
      <3>2. CASE r < n
        <4>1. streak.since = Times[n - r + 1]
          BY <1>3, <1>8, <2>2, <3>2
        <4> QED BY <1>2, <1>6, <1>7, <1>8, <3>1, <4>1
      <3>3. CASE r = n
        <4>1. streak.since = Times[n - r + 1]
          BY <1>1, <1>3, <1>8, <2>2, <3>3
        <4> QED BY <1>2, <1>6, <1>7, <1>8, <3>1, <4>1
      <3> QED BY <1>1, <3>2, <3>3
    <2> QED BY <2>1, <2>2
  <1>9. ASSUME streak.n # r PROVE Agree
    <2>1. /\ r = n /\ streak.n > n /\ n - r + 1 = 1 /\ r # 0
          /\ streak.since <= history[1].ts
          /\ history[n].ts - history[1].ts + gap > Keep
      BY <1>1, <1>2, <1>3, <1>9
    <2> DEFINE a == history[n].ts
               b == history[1].ts
    <2>2. a \in Nat /\ b \in Nat /\ a - b + gap > Keep
      BY <1>1, <2>1
    <2>3. a - b <= (n - 1) * gap
      <3>1. \A i \in 1 .. Len(history) :
              history[Len(history)].ts - history[i].ts
                <= (Len(history) - i) * gap
        BY DEF DetectorInv, OrderInv
      <3> QED BY <1>1, <3>1 DEF n
    <2>4. /\ Streak(bad).n = n /\ Streak(bad).for = a - b
      BY <1>6, <2>1
    <2> HIDE DEF a, b
    <2>5. a - b >= Window
      <3>1. gap + Window <= Keep + 1
        BY DEF Often
      <3> QED BY <1>1, <2>2, <3>1
    <2>6. a - streak.since >= Window
      BY <1>1, <2>1, <2>2, <2>5 DEF b
    <2>7. n >= least
      <3> SUFFICES ASSUME n < least PROVE FALSE
        BY <1>1
      <3>1. \A x, y \in Nat : (x + y) * gap = x * gap + y * gap
                              /\ y * gap \in Nat
        OBVIOUS
      <3>2. n - 1 \in Nat /\ least - 1 - n \in Nat
            /\ (n - 1) + 1 = n /\ n + (least - 1 - n) = least - 1
        BY <1>1
      <3>3. n * gap = (n - 1) * gap + gap
        BY <3>1, <3>2
      <3>4. (least - 1) * gap >= n * gap
        BY <1>1, <3>1, <3>2
      <3>5. (least - 1) * gap <= Keep
        BY <1>1
      <3>6. /\ n * gap \in Nat /\ (n - 1) * gap \in Nat
            /\ (least - 1) * gap \in Nat
        BY <1>1, <3>2
      <3> QED BY <1>1, <2>2, <2>3, <3>3, <3>4, <3>5, <3>6
    <2>8. Confirmed(streak, least)
      BY <1>1, <1>7, <2>1, <2>6, <2>7 DEF a
    <2> QED BY <1>1, <2>4, <2>5, <2>7, <2>8
  <1> QED BY <1>6, <1>8, <1>9

(* A history that begins with another primary's poll has no other, and a   *)
(* single poll does not last a window.                                     *)
LEMMA SinglePoll ==
    ASSUME NEW gap \in Nat, DetectorInv(gap), history # <<>>,
           Latest.primary # current
    PROVE  /\ \A bad : Streak(bad).for = 0
           /\ failing.n = 0
  <1> USE DetectorAssumption
  <1>1. Len(history) = 1 /\ history[1].ts \in Nat
    <2>1. Len(history) \in 1 .. Len(history)
          /\ \A i \in 1 .. Len(history) : history[i].ts \in Nat
      BY HistoryType DEF DetectorInv
    <2> QED BY <2>1 DEF DetectorInv, NameInv, Latest
  <1>2. ASSUME NEW bad PROVE Streak(bad).for = 0
    <2>1. CASE 1 \in bad
      <3>1. Run(bad) = 1
        <4>1. /\ 1 \in Nat /\ 1 = Len(history) /\ 1 \in 0 .. 1
              /\ \A i \in 1 .. 1 : i > 1 - 1 => i \in bad
              /\ 1 < 1 => 1 - 1 \notin bad
          BY <1>1, <2>1
        <4> QED BY <4>1, RunIs
      <3>2. Streak(bad).for = history[1].ts - history[1].ts
        BY <1>1, <3>1 DEF Streak, Latest
      <3> QED BY <1>1, <3>2
    <2>2. CASE 1 \notin bad
      <3>1. Run(bad) = 0
        <4>1. /\ 1 \in Nat /\ 1 = Len(history) /\ 0 \in 0 .. 1
              /\ \A i \in 1 .. 1 : i > 1 - 0 => i \in bad
              /\ 0 < 1 => 1 - 0 \notin bad
          BY <1>1, <2>2
        <4> QED BY <4>1, RunIs
      <3>2. Streak(bad).for = 0
        BY <1>1, <3>1 DEF Streak
      <3> QED BY <3>2
    <2> QED BY <2>1, <2>2
  <1>3. failing.n = 0
    <2>1. 1 \notin FailedIn(current)
      BY <1>1 DEF FailedIn, ProbeFailed, Latest
    <2>2. PICK r \in 0 .. 1 :
            /\ \A i \in 1 .. 1 : i > 1 - r => i \in FailedIn(current)
            /\ \/ failing.n = r
               \/ r = 1
      BY <1>1 DEF DetectorInv, FollowInv, Follows
    <2>3. r = 0
      BY <2>1, <2>2
    <2> QED BY <2>2, <2>3
  <1> QED BY <1>2, <1>3

LEMMA VerdictConfirmed ==
    ASSUME NEW gap \in Nat, Often(gap), DetectorInv(gap)
    PROVE  DeadIsConfirmed
  <1> USE DetectorAssumption
  <1>1. CASE history = <<>>
    BY <1>1 DEF DeadIsConfirmed, Dead, Confirmed
  <1>2. CASE history # <<>> /\ Latest.primary # current
    <2>1. ~Dead
      BY <1>2, SinglePoll DEF Dead
    <2>2. ~Confirmed(failing, Failures)
      BY <1>2, SinglePoll DEF Confirmed
    <2> QED BY <2>1, <2>2 DEF DeadIsConfirmed
  <1>3. CASE history # <<>> /\ Latest.primary = current
    <2>1. /\ failing \in Streaks /\ doubted \in Streaks
          /\ Follows(failing, FailedIn(current), Len(history), Times, gap)
          /\ Follows(doubted, DoubtedIn(current), Len(history), Times, gap)
      BY DEF DetectorInv, DetectorType, FollowInv
    <2>2. /\ gap * (Failures - 1) <= Keep /\ gap * (1 - 1) <= Keep
          /\ 1 \in Nat \ {0}
      BY DEF Often
    <2>3. Confirmed(failing, Failures)
            <=> /\ Streak(FailedIn(current)).n >= Failures
                /\ Streak(FailedIn(current)).for >= Window
      BY <1>3, <2>1, <2>2, ConfirmedIs
    <2>4. Confirmed(doubted, 1)
            <=> /\ Streak(DoubtedIn(current)).n >= 1
                /\ Streak(DoubtedIn(current)).for >= Window
      BY <1>3, <2>1, <2>2, ConfirmedIs
    <2>5. Streak(DoubtedIn(current)).n >= 1
            <=> Streak(DoubtedIn(current)).n > 0
      <3>1. Streak(DoubtedIn(current)).n \in Nat
        BY <1>3, <2>1, <2>2, ConfirmedIs
      <3> QED BY <3>1
    <2> QED BY <1>3, <2>3, <2>4, <2>5 DEF DeadIsConfirmed, Dead
  <1> QED BY <1>1, <1>2, <1>3

(* Whenever polls come often enough for the history and replicas that vote *)
(* know what they say, the detector declares a primary dead exactly when   *)
(* the probe has failed and a majority has doubted it in a row, for long   *)
(* enough, whatever was dropped and whichever primaries were adopted.      *)
THEOREM DetectorCorrect ==
    ASSUME WitnessesTell, PollsOften
    PROVE  DetectorSpec => []DeadIsConfirmed
  <1>1. PICK gap \in 0 .. Keep : Often(gap)
    BY DEF PollsOften
  <1>2. gap \in Nat
    BY DetectorAssumption
  <1>3. DetectorInit => DetectorInv(gap)
    <2> SUFFICES ASSUME DetectorInit PROVE DetectorInv(gap)
      OBVIOUS
    <2>1. Len(history) = 0 /\ history \in Seq(Observation)
      BY DEF DetectorInit
    <2>2. DetectorType
      BY <2>1, DetectorAssumption
      DEF DetectorInit, DetectorType, NoStreak, Streaks
    <2>3. OrderInv(gap) /\ NameInv
      BY <2>1 DEF DetectorInit, OrderInv, NameInv
    <2>4. FollowInv(gap)
      BY <2>1, NothingFollows DEF DetectorInit, FollowInv
    <2> QED BY <2>2, <2>3, <2>4 DEF DetectorInv
  <1>4. DetectorInv(gap) /\ [DetectorNext]_detectorVars => DetectorInv(gap)'
    <2> SUFFICES ASSUME DetectorInv(gap), [DetectorNext]_detectorVars
                 PROVE  DetectorInv(gap)'
      OBVIOUS
    <2>1. ASSUME NEW g \in Gaps, PollStarts(g) PROVE DetectorInv(gap)'
      <3>1. g \in Nat /\ g <= gap
        BY <1>1, DetectorAssumption DEF Often
      <3> QED BY <1>2, <2>1, <3>1, PollStartsStep
    <2>2. ASSUME NEW ok \in BOOLEAN, NEW nodes \in Answers,
                 PollEnds(ok, nodes)
          PROVE  DetectorInv(gap)'
      BY <1>2, <2>2, PollEndsStep
    <2>3. ASSUME NEW p \in Member \ {current}, Adopt(p)
          PROVE  DetectorInv(gap)'
      BY <1>2, <2>3, AdoptStep
    <2>4. CASE UNCHANGED detectorVars
      BY <2>4
      DEF detectorVars, DetectorInv, DetectorType, OrderInv, NameInv,
          FollowInv, FailedIn, DoubtedIn, Times, ProbeFailed, Quorum, Voters,
          Witnesses
    <2> QED BY <2>1, <2>2, <2>3, <2>4 DEF DetectorNext
  <1>5. DetectorInv(gap) => DeadIsConfirmed
    BY <1>1, <1>2, VerdictConfirmed
  <1> QED
    BY <1>3, <1>4, <1>5, PTL DEF DetectorSpec

=============================================================================
