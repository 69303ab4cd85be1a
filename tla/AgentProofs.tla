---------------------------- MODULE AgentProofs ----------------------------
(***************************************************************************)
(* Theorems about module Agent: its safety properties for every set of     *)
(* faults that only hang mysqld and cut role changes short.                *)
(***************************************************************************)
EXTENDS Agent, TLAPS

USE DEF SetFenced

(* Fences and role changes come as the manager sends them, and a rebuild   *)
(* is never given up on.                                                   *)
Calm == Faults \subseteq {"hang", "cut_short"}

(* Writable is only a node whose semi-sync source side is on, and commits  *)
(* wait only there.                                                        *)
WritableInv ==
    /\ db.mode = "writable" => db.source
    /\ waiting => db.mode = "writable"

(* Statements left behind are worked off before the next role change, and  *)
(* do no more harm then than when they were sent.                          *)
LateInv ==
    /\ role = NoRole \/ late \subseteq {"read_only"}
    /\ "super_off" \notin late
    /\ "writable" \in late => db.source /\ "source_off" \notin late
    /\ "source_off" \in late => db.mode = "super"

(* What the earlier steps of a role change have seen to. *)
RoleInv ==
    /\ role.op = "promote" /\ role.step = 5 /\ link => db.source
    /\ role.op = "repoint" /\ role.step > 2 /\ link => db.mode = "super"
    /\ role.op = "configure" /\ role.step > 1 /\ ~want.source
           => db.mode = "super"

(* A fence under way or answered meets no promote. *)
FenceInv ==
    /\ fence # "none" => flag /\ role.op # "promote"
    /\ fence = "kill_clients" \/ held
           => /\ flag /\ role.op # "promote"
              /\ db.mode # "writable" /\ "writable" \notin late

(* A node opened for a clone has a rebuild and no clients. *)
RebuildInv ==
    /\ db.mode = "read_only" => Rebuilding /\ role.step = 3
    /\ Rebuilding => ~clients

AgentInv ==
    /\ TypeOK /\ NoLoneAck
    /\ WritableInv /\ LateInv /\ RoleInv /\ FenceInv /\ RebuildInv

-----------------------------------------------------------------------------
(* Lemmas about the steps of the role changes. *)

RoleType ==
    \/ role = NoRole
    \/ /\ role \in [op : DOMAIN Program, step : Nat]
       /\ role.step \in DOMAIN Program[role.op]

(* Which role change a step belongs to. *)
StepFacts ==
    /\ role.op \in {"promote", "repoint", "configure", "rebuild"}
    /\ Step \in Statements
            \cup {"clear_flag", "sample", "read", "check", "clone"}
    /\ Step = "writable" => role.op = "promote" /\ role.step = 5
    /\ Step = "clear_flag" => role.op = "promote" /\ role.step = 6
    /\ Step = "source_on" => role.op \in {"promote", "configure"}
    /\ Step = "super_off" => role.op = "rebuild" /\ role.step = 2
    /\ Step = "clone" => role.op = "rebuild" /\ role.step = 3
    /\ Step = "read" => role.op = "configure" /\ role.step = 1
    /\ Step = "check" => role.op = "configure" /\ role.step = 2
    /\ Step = "source_off" =>
          \/ role.op = "repoint" /\ role.step = 4
          \/ role.op = "configure" /\ role.step = 3 /\ ~want.source
    /\ role.op = "promote" /\ role.step = 4 => Step = "source_on"
    /\ role.op = "configure" /\ role.step = 1 => Step = "read"
    /\ role.op = "rebuild" /\ role.step = 3 => Step = "clone"
    /\ role.op = "repoint" /\ role.step = 2 => Step = "read_only"

LEMMA StepOf == ASSUME RoleType, Busy PROVE StepFacts
<1> USE DEF StepFacts
<1>1. CASE role.op = "promote"
  <2>1. Program[role.op] = Promote
    BY <1>1 DEF Program
  <2>2. role.step \in 1..7
    BY <2>1 DEF RoleType, Busy, Promote
  <2> QED
    BY <1>1, <2>1, <2>2 DEF Step, Promote, Statements
<1>2. CASE role.op = "repoint"
  <2>1. Program[role.op] = Repoint
    BY <1>2 DEF Program
  <2>2. role.step \in 1..7
    BY <2>1 DEF RoleType, Busy, Repoint
  <2> QED
    BY <1>2, <2>1, <2>2 DEF Step, Repoint, Statements
<1>3. CASE role.op = "configure"
  <2>1. Program[role.op] = Configure
    BY <1>3 DEF Program
  <2>2. role.step \in 1..4
    BY <2>1 DEF RoleType, Busy, Configure
  <2> QED
    BY <1>3, <2>1, <2>2 DEF Step, Configure, Statements
<1>4. CASE role.op = "rebuild"
  <2>1. Program[role.op] = Rebuild
    BY <1>4 DEF Program
  <2>2. role.step \in 1..6
    BY <2>1 DEF RoleType, Busy, Rebuild
  <2> QED
    BY <1>4, <2>1, <2>2 DEF Step, Rebuild, Statements
<1> QED
  BY <1>1, <1>2, <1>3, <1>4 DEF RoleType, Busy, Program

(* A role change that goes on is at its next step, or over. *)
LEMMA AdvancedType ==
    ASSUME RoleType, Busy, role' = Advanced
    PROVE  /\ RoleType'
           /\ \/ role' = NoRole
              \/ role'.op = role.op /\ role'.step = role.step + 1
           /\ role.op = "rebuild" /\ role.step = 2
                  => role'.op = "rebuild" /\ role'.step = 3
<1>1. role \in [op : DOMAIN Program, step : Nat]
      /\ role.step \in DOMAIN Program[role.op]
  BY DEF RoleType, Busy
<1>2. CASE role.step = Len(Program[role.op])
  <2>1. role' = NoRole
    BY <1>2 DEF Advanced
  <2>2. RoleType'
    BY <2>1 DEF RoleType, NoRole
  <2>3. ~(role.op = "rebuild" /\ role.step = 2)
    <3> SUFFICES ASSUME role.op = "rebuild" PROVE role.step = 6
      OBVIOUS
    <3>1. Program[role.op] = Rebuild
      BY DEF Program
    <3> QED
      BY <1>2, <3>1 DEF Rebuild
  <2> QED
    BY <2>1, <2>2, <2>3
<1>3. CASE role.step # Len(Program[role.op])
  <2>1. role' = [role EXCEPT !.step = role.step + 1]
    BY <1>3 DEF Advanced
  <2>2. /\ role' \in [op : DOMAIN Program, step : Nat]
        /\ role'.op = role.op /\ role'.step = role.step + 1
    BY <1>1, <2>1
  <2>3. role.step + 1 \in DOMAIN Program[role.op]
    <3>1. CASE role.op = "promote"
      BY <1>1, <1>3, <3>1 DEF Program, Promote
    <3>2. CASE role.op = "repoint"
      BY <1>1, <1>3, <3>2 DEF Program, Repoint
    <3>3. CASE role.op = "configure"
      BY <1>1, <1>3, <3>3 DEF Program, Configure
    <3>4. CASE role.op = "rebuild"
      BY <1>1, <1>3, <3>4 DEF Program, Rebuild
    <3> QED
      BY <1>1, <3>1, <3>2, <3>3, <3>4 DEF Program
  <2> QED
    BY <2>2, <2>3 DEF RoleType
<1> QED
  BY <1>2, <1>3

(* What a statement does to mysqld and to a waiting commit. *)
Effect(s) ==
    /\ db' \in Switches
    /\ waiting' \in BOOLEAN /\ alone' \in BOOLEAN
    /\ up = "up" /\ up' = up
    /\ s \notin {"writable", "read_only", "super_off"}
           => db'.mode = db.mode
    /\ s = "writable" => db'.mode = "writable"
    /\ s = "read_only" => db'.mode = "super" /\ ~waiting
    /\ s = "super_off" => \/ db'.mode = db.mode
                          \/ db.mode = "super" /\ db'.mode = "read_only"
    /\ s \notin {"source_off", "source_on"}
           => (db'.source <=> db.source)
    /\ s = "source_on" => db'.source
    /\ ~(s = "source_off" /\ waiting)
           => (waiting' <=> waiting) /\ (alone' <=> alone)

LEMMA Executed ==
    ASSUME db \in Switches, waiting \in BOOLEAN, alone \in BOOLEAN,
           NEW s \in Statements, Executes(s)
    PROVE  Effect(s)
<1> USE DEF Effect
<1>1. db' = After(s, db) /\ up = "up" /\ up' = up
  BY DEF Executes
<1>2. /\ waiting' \in BOOLEAN /\ alone' \in BOOLEAN
      /\ s = "read_only" => ~waiting
      /\ ~(s = "source_off" /\ waiting)
             => (waiting' <=> waiting) /\ (alone' <=> alone)
  BY DEF Executes
<1>3. CASE s \in {"stop", "reset", "change", "start"}
  BY <1>1, <1>2, <1>3 DEF After, Switches, Modes
<1>4. CASE s \in {"replica_off", "replica_on"}
  BY <1>1, <1>2, <1>4 DEF After, Switches, Modes
<1>5. CASE s \in {"source_off", "source_on"}
  BY <1>1, <1>2, <1>5 DEF After, Switches, Modes
<1>6. CASE s \in {"writable", "read_only", "super_off"}
  BY <1>1, <1>2, <1>6 DEF After, Switches, Modes
<1> QED
  BY <1>3, <1>4, <1>5, <1>6 DEF Statements

(* What remains of a mysqld that dies. *)
LEMMA Downed ==
    ASSUME TypeOK, Down
    PROVE  /\ db' \in Switches /\ db'.mode = "super" /\ up' = "down"
           /\ ~waiting' /\ late' = {} /\ ~link' /\ ~clients'
           /\ waiting' \in BOOLEAN /\ link' \in BOOLEAN
           /\ clients' \in BOOLEAN
BY DEF TypeOK, Down, Boot, Switches, Modes

-----------------------------------------------------------------------------
(* Types. *)

(* The part of TypeOK about mysqld and what it runs. *)
ServerType ==
    /\ db \in Switches
    /\ up \in {"up", "hung", "down"}
    /\ waiting \in BOOLEAN
    /\ late \subseteq Statements
    /\ clients \in BOOLEAN
    /\ up = "down" => ~waiting /\ ~clients /\ late = {}

AgentType ==
    /\ flag \in BOOLEAN
    /\ RoleType
    /\ link \in BOOLEAN
    /\ want \in [source : BOOLEAN, replica : BOOLEAN]
    /\ fence \in {"none", "set", "kill_clients"}
    /\ sample \in Modes \cup {"none"}
    /\ held \in BOOLEAN
    /\ alone \in BOOLEAN

LEMMA TypeParts == TypeOK <=> ServerType /\ AgentType
BY DEF TypeOK, ServerType, AgentType, RoleType

LEMMA TypeStep ==
    ASSUME TypeOK, [Next]_vars
    PROVE  TypeOK'
<1> USE DEF NoRole
<1>0. ServerType /\ AgentType
  BY TypeParts
<1> SUFFICES ServerType' /\ AgentType'
  BY TypeParts DEF TypeOK, ServerType, AgentType, RoleType
<1>1. ASSUME NEW s \in Statements, Executes(s),
             clients' = clients \/ clients' = FALSE, late' \subseteq late
      PROVE  ServerType' /\ alone' \in BOOLEAN
  BY <1>0, <1>1, Executed DEF ServerType, AgentType, Effect
<1>2. ASSUME Down
      PROVE  ServerType' /\ link' \in BOOLEAN
  BY <1>2, Downed DEF ServerType
<1>3. ASSUME Busy, role' = Advanced
      PROVE  RoleType'
  BY <1>0, <1>3, AdvancedType DEF AgentType
<1>4. ASSUME NEW s \in Statements, ExecutesLate(s)
      PROVE  ServerType' /\ AgentType'
  BY <1>0, <1>1, <1>4
     DEF ExecutesLate, AgentType, roleVars, routeVars, RoleType
<1>5. ASSUME Crash \/ ContainerRestart
      PROVE  ServerType' /\ AgentType'
  BY <1>0, <1>2, <1>5 DEF Crash, ContainerRestart, AgentType, RoleType
<1>6. ASSUME Hang \/ Restart \/ Commit \/ WaitEnds \/ Sample \/ Route
      PROVE  ServerType' /\ AgentType'
  <2>1. CASE Hang \/ Restart
    BY <1>0, <1>6, <2>1
       DEF Hang, Restart, ServerType, AgentType, RoleType, dbVars, roleVars,
           routeVars
  <2>2. CASE Commit \/ WaitEnds
    BY <1>0, <1>6, <2>2
       DEF Commit, WaitEnds, ServerType, AgentType, RoleType, roleVars,
           routeVars
  <2>3. CASE Sample
    BY <1>0, <1>6, <2>3
       DEF Sample, ServerType, AgentType, RoleType, Switches, dbVars,
           roleVars
  <2>4. CASE Route
    <3>1. clients' \in BOOLEAN
      BY <2>4 DEF Route, Primary
    <3> QED
      BY <1>0, <2>4, <3>1
         DEF Route, ServerType, AgentType, RoleType, dbVars, roleVars
  <2> QED
    BY <1>6, <2>1, <2>2, <2>3, <2>4
<1>7. ASSUME RoleStep
      PROVE  ServerType' /\ AgentType'
  <2> USE DEF RoleType
  <2>1. ASSUME NEW op \in DOMAIN Program, Start(op)
        PROVE  ServerType' /\ AgentType'
    <3>1. 1 \in DOMAIN Program[op]
      BY DEF Program, Promote, Repoint, Configure, Rebuild
    <3>2. RoleType'
      BY <2>1, <3>1 DEF Start
    <3>3. held' \in BOOLEAN
      BY <2>1 DEF Start
    <3> QED
      BY <1>0, <2>1, <3>2, <3>3
         DEF Start, ServerType, AgentType, dbVars, routeVars
  <2>2. CASE RunsStatement
    <3>1. ServerType' /\ alone' \in BOOLEAN
      BY <1>1, <2>2 DEF RunsStatement, routeVars
    <3> QED
      BY <1>0, <1>3, <2>2, <3>1 DEF RunsStatement, AgentType, routeVars
  <2>3. CASE ClearsFlag
    BY <1>0, <1>3, <2>3
       DEF ClearsFlag, ServerType, AgentType, dbVars, routeVars
  <2>9. CASE RefreshesSample
    BY <1>0, <1>3, <2>9
       DEF RefreshesSample, ServerType, AgentType, Switches, dbVars
  <2>4. CASE Decides
    <3>1. want' \in [source : BOOLEAN, replica : BOOLEAN]
      <4> DEFINE w == db.mode # "super" /\ ~flag
      <4>1. w \in BOOLEAN /\ (~w) \in BOOLEAN
        OBVIOUS
      <4>2. want' = [source |-> w, replica |-> ~w]
        BY <2>4 DEF Decides
      <4> QED
        BY <4>1, <4>2
    <3> QED
      BY <1>0, <1>3, <2>4, <3>1
         DEF Decides, ServerType, AgentType, dbVars, routeVars
  <2>10. CASE Checks
    <3>1. want' \in [source : BOOLEAN, replica : BOOLEAN]
      <4> DEFINE w == want.source \/ (db.source /\ waiting)
      <4>1. w \in BOOLEAN
        OBVIOUS
      <4>2. want' = [want EXCEPT !.source = w]
        BY <2>10 DEF Checks
      <4> QED
        BY <1>0, <4>1, <4>2 DEF AgentType
    <3> QED
      BY <1>0, <1>3, <2>10, <3>1
         DEF Checks, ServerType, AgentType, dbVars, routeVars
  <2>5. CASE CloneEnds
    BY <1>0, <1>2, <1>3, <2>5 DEF CloneEnds, AgentType
  <2>6. CASE Reconnects
    BY <1>0, <2>6
       DEF Reconnects, ServerType, AgentType, dbVars, routeVars
  <2>11. CASE Fails
    BY <1>0, <2>11 DEF Fails, ServerType, AgentType, dbVars, routeVars
  <2>7. CASE CloneFails
    <3>1. ServerType' /\ alone' \in BOOLEAN
      BY <1>1, <2>7 DEF CloneFails, routeVars, Statements
    <3> QED
      BY <1>0, <2>7, <3>1 DEF CloneFails, AgentType, routeVars
  <2>8. CASE GivenUp
    <3>1. late' \subseteq Statements
      BY <1>0, <2>8 DEF GivenUp, ServerType
    <3>2. up = "down" => late' = {}
      BY <1>0, <2>8 DEF GivenUp, ServerType
    <3> QED
      BY <1>0, <2>8, <3>1, <3>2
         DEF GivenUp, ServerType, AgentType, routeVars
  <2> QED
    BY <1>7, <2>1, <2>2, <2>3, <2>4, <2>5, <2>6, <2>7, <2>8, <2>9, <2>10,
       <2>11
       DEF RoleStep
<1>8. ASSUME FenceStep
      PROVE  ServerType' /\ AgentType'
  <2> USE DEF RoleType
  <2>1. CASE Fence
    BY <1>0, <2>1
       DEF Fence, ServerType, AgentType, dbVars, roleVars, routeVars
  <2>5. CASE Unfence
    BY <1>0, <2>5
       DEF Unfence, ServerType, AgentType, dbVars, roleVars, routeVars
  <2>2. CASE FenceSet
    <3>1. ServerType' /\ alone' \in BOOLEAN
      BY <1>1, <2>2 DEF FenceSet, Statements
    <3> QED
      BY <1>0, <2>2, <3>1 DEF FenceSet, AgentType, roleVars, Modes
  <2>3. CASE FenceKillClients
    <3>1. link' \in BOOLEAN /\ clients' \in BOOLEAN
      BY <1>0, <2>3 DEF FenceKillClients, ServerType, AgentType
    <3>2. clients' => clients
      BY <2>3 DEF FenceKillClients
    <3> QED
      BY <1>0, <2>3, <3>1, <3>2
         DEF FenceKillClients, ServerType, AgentType, dbVars
  <2>4. CASE FenceKill
    BY <1>0, <1>2, <2>4 DEF FenceKill, AgentType
  <2> QED
    BY <1>8, <2>1, <2>2, <2>3, <2>4, <2>5 DEF FenceStep
<1>9. CASE UNCHANGED vars
  BY <1>0, <1>9
     DEF vars, dbVars, roleVars, routeVars, ServerType, AgentType, RoleType
<1> QED
  BY <1>4, <1>5, <1>6, <1>7, <1>8, <1>9 DEF Next

-----------------------------------------------------------------------------
(* The invariant. *)

(* Every part of it but the types. *)
Parts ==
    NoLoneAck /\ WritableInv /\ LateInv /\ RoleInv /\ FenceInv /\ RebuildInv

(* The parts hold when mysqld dies, whatever becomes of the fence. *)
LEMMA DownParts ==
    ASSUME TypeOK, Parts, Down, alone' = alone
    PROVE  NoLoneAck' /\ WritableInv' /\ LateInv' /\ RoleInv' /\ RebuildInv'
<1>1. /\ db'.mode = "super" /\ ~waiting' /\ late' = {} /\ ~link' /\ ~clients'
  BY Downed
<1> QED
  BY <1>1
     DEF Parts, NoLoneAck, WritableInv, LateInv, RoleInv, RebuildInv

(* A statement left behind. *)
LEMMA LateParts ==
    ASSUME TypeOK, Parts, NEW s \in Statements, ExecutesLate(s)
    PROVE  Parts'
<1>0. /\ db \in Switches /\ waiting \in BOOLEAN /\ alone \in BOOLEAN
      /\ Executes(s) /\ s \in late /\ late' = late \ {s}
      /\ UNCHANGED <<flag, role, link, want, fence, clients, held>>
  BY DEF TypeOK, ExecutesLate, roleVars, routeVars
<1>e. Effect(s)
  BY <1>0, Executed
<1> USE DEF Effect
<1>1. s # "super_off" /\ (s = "source_off" => ~waiting)
  BY <1>0 DEF Parts, LateInv, WritableInv
<1>2. NoLoneAck' /\ WritableInv'
  BY <1>0, <1>1, <1>e DEF Parts, NoLoneAck, WritableInv, LateInv
<1>3. LateInv'
  BY <1>0, <1>1, <1>e DEF Parts, LateInv
<1>4. RoleInv'
  BY <1>0, <1>1, <1>e DEF Parts, RoleInv, LateInv, NoRole
<1>5. FenceInv'
  BY <1>0, <1>1, <1>e DEF Parts, FenceInv
<1>6. RebuildInv'
  BY <1>0, <1>1, <1>e DEF Parts, RebuildInv, Rebuilding
<1> QED
  BY <1>2, <1>3, <1>4, <1>5, <1>6 DEF Parts

(* A statement of the role change under way. *)
LEMMA StatementParts ==
    ASSUME TypeOK, Parts, RunsStatement
    PROVE  Parts'
<1>0. /\ db \in Switches /\ waiting \in BOOLEAN /\ alone \in BOOLEAN
      /\ RoleType /\ Busy /\ link /\ Step \in Statements /\ Executes(Step)
      /\ late \subseteq {"read_only"} /\ role' = Advanced
      /\ UNCHANGED <<late, flag, link, want, fence, clients, held>>
  BY DEF TypeOK, RoleType, RunsStatement, Responsive, routeVars
<1>e. Effect(Step) /\ StepFacts
  BY <1>0, Executed, StepOf
<1> USE DEF Effect, StepFacts
<1>1. role.step \in Nat
  BY <1>0 DEF RoleType, NoRole
<1>2. Step = "source_off" => db.mode = "super"
  BY <1>0, <1>1, <1>e DEF Parts, RoleInv
<1>3. Step = "source_off" => ~waiting
  BY <1>2 DEF Parts, WritableInv
<1>4. Step = "writable" => db.source
  BY <1>0, <1>e DEF Parts, RoleInv
<1>s. Step \notin {"read", "clone"}
  BY <1>0 DEF Statements
<1>5. NoLoneAck' /\ WritableInv'
  <2>1. NoLoneAck'
    BY <1>3, <1>e DEF Parts, NoLoneAck
  <2>2. db'.mode = "writable" => db'.source
    BY <1>2, <1>4, <1>e DEF Parts, WritableInv
  <2>3. waiting' => db'.mode = "writable"
    BY <1>3, <1>e DEF Parts, WritableInv
  <2> QED
    BY <2>1, <2>2, <2>3 DEF WritableInv
<1>6. LateInv'
  BY <1>0 DEF LateInv
<1>7. /\ RoleType'
      /\ role'.op # "none" => role'.op = role.op /\ role'.step = role.step + 1
      /\ role'.op \in {"none", role.op}
  BY <1>0, AdvancedType DEF NoRole
<1>8. RoleInv'
  <2>1. ASSUME role'.op = "promote", role'.step = 5
        PROVE  db'.source
    BY <1>0, <1>1, <1>7, <2>1, <1>e
  <2>2. ASSUME role'.op = "repoint", role'.step > 2
        PROVE  db'.mode = "super"
    BY <1>0, <1>1, <1>7, <2>2, <1>e DEF Parts, RoleInv
  <2>3. ASSUME role'.op = "configure", role'.step > 1, ~want.source
        PROVE  db'.mode = "super"
    BY <1>0, <1>1, <1>7, <1>s, <2>3, <1>e DEF Parts, RoleInv
  <2> QED
    BY <1>0, <2>1, <2>2, <2>3 DEF RoleInv
<1>9. FenceInv'
  BY <1>0, <1>7, <1>e DEF Parts, FenceInv
<1>10. RebuildInv'
  BY <1>0, <1>7, <1>s, AdvancedType, <1>e
     DEF Parts, RebuildInv, Rebuilding
<1> QED
  BY <1>5, <1>6, <1>8, <1>9, <1>10 DEF Parts

(* The other steps of the role changes. *)
LEMMA RoleParts ==
    ASSUME TypeOK, Calm, Parts, RoleStep
    PROVE  Parts'
<1> USE DEF Parts
<1>0. RoleType /\ role \in {NoRole} \cup [op : DOMAIN Program, step : Nat]
  BY DEF TypeOK, RoleType
<1>1. role.step \in Nat
  BY <1>0 DEF NoRole
<1>2. Busy => StepFacts
  BY <1>0, StepOf
<1>3. Busy /\ role' = Advanced =>
        /\ role'.op # "none"
               => role'.op = role.op /\ role'.step = role.step + 1
        /\ role'.op \in {"none", role.op}
  BY <1>0, AdvancedType DEF NoRole
<1>4. ASSUME NEW op \in DOMAIN Program, Start(op)
      PROVE  Parts'
  <2>1. /\ role = NoRole /\ role' = [op |-> op, step |-> 1]
        /\ late \subseteq {"read_only"} /\ UNCHANGED dbVars
        /\ UNCHANGED <<flag, want, fence, clients, alone>>
        /\ held' => held /\ op # "promote"
        /\ op = "promote" => fence = "none"
        /\ op = "rebuild" => ~clients
    BY <1>4 DEF Start, Busy, Responsive, Calm, routeVars
  <2>2. NoLoneAck' /\ WritableInv' /\ LateInv'
    BY <2>1 DEF NoLoneAck, WritableInv, LateInv, dbVars
  <2>3. RoleInv' /\ FenceInv'
    BY <2>1 DEF RoleInv, FenceInv, dbVars
  <2>4. RebuildInv'
    BY <2>1 DEF RebuildInv, Rebuilding, NoRole, dbVars
  <2> QED
    BY <2>2, <2>3, <2>4
<1>5. CASE RunsStatement
  BY <1>5, StatementParts
<1>6. CASE ClearsFlag
  <2>1. /\ Busy /\ Step = "clear_flag" /\ fence = "none" /\ role' = Advanced
        /\ UNCHANGED dbVars /\ UNCHANGED <<link, want, fence, clients, alone>>
        /\ held' = held
    BY <1>6 DEF ClearsFlag, routeVars
  <2>2. role.op = "promote" /\ role.step = 6 /\ ~held
    BY <1>2, <2>1 DEF StepFacts, FenceInv
  <2>3. NoLoneAck' /\ WritableInv' /\ LateInv'
    BY <2>1 DEF NoLoneAck, WritableInv, LateInv, dbVars, Busy
  <2>4. RoleInv' /\ FenceInv'
    BY <1>3, <2>1, <2>2 DEF RoleInv, FenceInv, dbVars
  <2>5. RebuildInv'
    BY <1>3, <2>1, <2>2 DEF RebuildInv, Rebuilding, dbVars
  <2> QED
    BY <2>3, <2>4, <2>5
<1>7. CASE RefreshesSample
  <2>1. /\ Busy /\ Step = "sample" /\ role' = Advanced
        /\ UNCHANGED dbVars
        /\ UNCHANGED <<flag, link, want, fence, clients, held, alone>>
    BY <1>7 DEF RefreshesSample
  <2>2. NoLoneAck' /\ WritableInv' /\ LateInv'
    BY <2>1 DEF NoLoneAck, WritableInv, LateInv, dbVars, Busy
  <2>3. RoleInv'
    BY <1>1, <1>2, <1>3, <2>1 DEF RoleInv, StepFacts, dbVars
  <2>4. FenceInv'
    BY <1>3, <2>1 DEF FenceInv, dbVars
  <2>5. role.op # "rebuild" \/ role.step # 3
    BY <1>2, <2>1 DEF StepFacts
  <2>6. role'.op = "rebuild" => role.op = "rebuild"
    BY <1>3, <2>1
  <2>7. RebuildInv'
    BY <2>1, <2>5, <2>6 DEF RebuildInv, Rebuilding, dbVars
  <2> QED
    BY <2>2, <2>3, <2>4, <2>7
<1>8. CASE Decides \/ Checks
  <2>1. /\ Busy /\ Step \in {"read", "check"} /\ role' = Advanced
        /\ UNCHANGED dbVars
        /\ UNCHANGED <<flag, link, fence, clients, held, alone>>
    BY <1>8 DEF Decides, Checks, routeVars
  <2>2. role.op = "configure"
    BY <1>2, <2>1 DEF StepFacts
  <2>3. NoLoneAck' /\ WritableInv' /\ LateInv'
    BY <2>1 DEF NoLoneAck, WritableInv, LateInv, dbVars, Busy
  <2>4. ~want'.source => db.mode = "super"
    <3>1. CASE Decides
      BY <3>1 DEF Decides, Calm
    <3>2. CASE Checks
      <4>1. want \in [source : BOOLEAN, replica : BOOLEAN]
        BY DEF TypeOK
      <4>2. ~want'.source => ~want.source
        BY <3>2, <4>1 DEF Checks
      <4>3. role.step = 2
        BY <1>2, <3>2 DEF Checks, StepFacts
      <4> QED
        BY <2>2, <4>2, <4>3 DEF RoleInv
    <3> QED
      BY <1>8, <3>1, <3>2
  <2>5. RoleInv' /\ FenceInv'
    BY <1>3, <2>1, <2>2, <2>4 DEF RoleInv, FenceInv, dbVars
  <2>6. RebuildInv'
    BY <1>3, <2>1, <2>2 DEF RebuildInv, Rebuilding, dbVars
  <2> QED
    BY <2>3, <2>5, <2>6
<1>9. CASE CloneEnds
  <2>1. /\ Busy /\ Step = "clone" /\ role' = Advanced /\ Down
        /\ UNCHANGED <<flag, fence, held, alone>>
    BY <1>9 DEF CloneEnds
  <2>2. role'.op # "promote"
    BY <1>2, <1>3, <2>1 DEF StepFacts
  <2>3. db'.mode = "super" /\ late' = {}
    BY <2>1, Downed
  <2>4. FenceInv'
    BY <2>1, <2>2, <2>3 DEF FenceInv
  <2> QED
    BY <2>1, <2>4, DownParts
<1>10. CASE Reconnects
  <2>1. /\ Rebuilding /\ UNCHANGED dbVars
        /\ UNCHANGED <<flag, role, want, fence, clients, held, alone>>
    BY <1>10 DEF Reconnects, routeVars
  <2> QED
    BY <2>1
       DEF NoLoneAck, WritableInv, LateInv, RoleInv, FenceInv, RebuildInv,
           Rebuilding, dbVars
<1>11. CASE CloneFails
  <2>1. /\ Executes("read_only") /\ role' = NoRole
        /\ UNCHANGED <<late, flag, link, want, fence, clients, held>>
    BY <1>11 DEF CloneFails, routeVars
  <2>2. Effect("read_only")
    BY <2>1, Executed DEF TypeOK, Statements
  <2>3. NoLoneAck' /\ WritableInv' /\ LateInv'
    BY <2>1, <2>2 DEF NoLoneAck, WritableInv, LateInv, Effect
  <2>4. RoleInv' /\ FenceInv' /\ RebuildInv'
    BY <2>1, <2>2
       DEF RoleInv, FenceInv, RebuildInv, Rebuilding, Effect, NoRole
  <2> QED
    BY <2>3, <2>4
<1>12. CASE Fails
  <2>1. /\ Busy /\ Step \in Statements \cup {"read", "check"}
        /\ role' = NoRole /\ UNCHANGED dbVars
        /\ UNCHANGED <<flag, fence, clients, held, alone>>
    BY <1>12 DEF Fails, routeVars
  <2>2. ~(Rebuilding /\ role.step = 3)
    BY <1>2, <2>1 DEF StepFacts, Rebuilding, Statements
  <2>3. NoLoneAck' /\ WritableInv' /\ LateInv'
    BY <2>1 DEF NoLoneAck, WritableInv, LateInv, dbVars
  <2>4. RoleInv' /\ FenceInv' /\ RebuildInv'
    BY <2>1, <2>2
       DEF RoleInv, FenceInv, RebuildInv, Rebuilding, dbVars, NoRole
  <2> QED
    BY <2>3, <2>4
<1>13. CASE GivenUp
  <2>1. /\ Busy /\ ~Rebuilding /\ role' = NoRole /\ db' = db
        /\ late' \in {late, late \cup ({Step} \cap Statements)}
        /\ late' # late => link
        /\ UNCHANGED <<waiting, flag, fence, clients, held, alone>>
    BY <1>13 DEF GivenUp, routeVars, Calm
  <2>2. late \subseteq {"read_only"}
    BY <2>1 DEF LateInv, Busy
  <2>3. NoLoneAck' /\ WritableInv'
    BY <2>1 DEF NoLoneAck, WritableInv
  <2>4. LateInv'
    <3>1. "super_off" \notin late'
      BY <1>2, <2>1, <2>2 DEF StepFacts, Rebuilding
    <3>2. "writable" \in late' => db.source /\ "source_off" \notin late'
      BY <1>2, <2>1, <2>2 DEF StepFacts, RoleInv
    <3>3. "source_off" \in late' => db.mode = "super"
      BY <1>1, <1>2, <2>1, <2>2 DEF StepFacts, RoleInv
    <3> QED
      BY <2>1, <3>1, <3>2, <3>3 DEF LateInv, NoRole
  <2>5. RoleInv' /\ RebuildInv'
    BY <2>1 DEF RoleInv, RebuildInv, Rebuilding, NoRole
  <2>6. FenceInv'
    BY <1>2, <2>1, <2>2 DEF FenceInv, StepFacts, NoRole
  <2> QED
    BY <2>3, <2>4, <2>5, <2>6
<1> QED
  BY <1>4, <1>5, <1>6, <1>7, <1>8, <1>9, <1>10, <1>11, <1>12, <1>13
     DEF RoleStep

(* Fences. *)
LEMMA FenceParts ==
    ASSUME TypeOK, Calm, Parts, FenceStep
    PROVE  Parts'
<1> USE DEF Parts
<1>1. CASE Fence
  BY <1>1
     DEF Fence, Calm, NoLoneAck, WritableInv, LateInv, RoleInv, FenceInv,
         RebuildInv, Rebuilding, dbVars, roleVars, routeVars
<1>2. CASE Unfence
  BY <1>2
     DEF Unfence, NoLoneAck, WritableInv, LateInv, RoleInv, FenceInv,
         RebuildInv, Rebuilding, dbVars, roleVars, routeVars
<1>3. CASE FenceSet
  <2>1. /\ Executes("read_only") /\ late \subseteq {"read_only"}
        /\ fence = "set" /\ UNCHANGED <<late, flag, clients, held>>
        /\ UNCHANGED roleVars
    BY <1>3 DEF FenceSet, Responsive
  <2>2. Effect("read_only")
    BY <2>1, Executed DEF TypeOK, Statements
  <2>3. NoLoneAck' /\ WritableInv' /\ LateInv'
    BY <2>1, <2>2 DEF NoLoneAck, WritableInv, LateInv, Effect, roleVars
  <2>4. RoleInv' /\ FenceInv' /\ RebuildInv'
    BY <2>1, <2>2
       DEF RoleInv, FenceInv, RebuildInv, Rebuilding, Effect, roleVars
  <2> QED
    BY <2>3, <2>4
<1>4. CASE FenceKillClients
  <2>1. /\ fence = "kill_clients" /\ fence' = "none" /\ held' = TRUE
        /\ link' => link
        /\ clients' => clients
        /\ UNCHANGED dbVars /\ UNCHANGED <<flag, role, want, alone>>
    BY <1>4 DEF FenceKillClients
  <2>2. NoLoneAck' /\ WritableInv' /\ LateInv'
    BY <2>1 DEF NoLoneAck, WritableInv, LateInv, dbVars
  <2>3. RoleInv' /\ RebuildInv'
    BY <2>1 DEF RoleInv, RebuildInv, Rebuilding, dbVars
  <2>4. FenceInv'
    BY <2>1 DEF FenceInv, dbVars
  <2> QED
    BY <2>2, <2>3, <2>4
<1>5. CASE FenceKill
  <2>1. /\ fence = "set" /\ fence' = "none" /\ Down
        /\ UNCHANGED <<flag, role, want, alone>>
    BY <1>5 DEF FenceKill
  <2>2. db'.mode = "super" /\ late' = {}
    BY <2>1, Downed
  <2>3. FenceInv'
    BY <2>1, <2>2 DEF FenceInv
  <2> QED
    BY <2>1, <2>3, DownParts
<1> QED
  BY <1>1, <1>2, <1>3, <1>4, <1>5 DEF FenceStep

(* mysqld and the clients. *)
LEMMA ServerParts ==
    ASSUME TypeOK, Parts,
           \/ Crash \/ Hang \/ Restart \/ ContainerRestart
           \/ Commit \/ WaitEnds \/ Sample \/ Route
    PROVE  Parts'
<1> USE DEF Parts
<1>1. CASE Crash \/ ContainerRestart
  <2>1. /\ Down /\ role' \in {role, NoRole} /\ fence' \in {fence, "none"}
        /\ UNCHANGED <<flag, held, alone>>
    BY <1>1 DEF Crash, ContainerRestart
  <2>2. db'.mode = "super" /\ late' = {}
    BY <2>1, Downed
  <2>3. FenceInv'
    BY <2>1, <2>2 DEF FenceInv, NoRole
  <2> QED
    BY <2>1, <2>3, DownParts
<1>2. CASE Hang \/ Restart \/ Sample
  <2>1. /\ UNCHANGED <<db, waiting, late, flag, fence, clients, held, alone>>
        /\ UNCHANGED roleVars
    BY <1>2 DEF Hang, Restart, Sample, dbVars, routeVars
  <2> QED
    BY <2>1
       DEF NoLoneAck, WritableInv, LateInv, RoleInv, FenceInv, RebuildInv,
           Rebuilding, roleVars
<1>3. CASE Commit \/ WaitEnds
  <2>1. /\ UNCHANGED <<db, late, flag, fence, clients, held>>
        /\ UNCHANGED roleVars
        /\ waiting' => waiting \/ db.mode = "writable"
    BY <1>3 DEF Commit, WaitEnds, routeVars
  <2>2. NoLoneAck'
    BY <1>3 DEF Commit, WaitEnds, NoLoneAck, WritableInv
  <2>3. WritableInv'
    BY <2>1 DEF WritableInv
  <2> QED
    BY <2>1, <2>2, <2>3
       DEF LateInv, RoleInv, FenceInv, RebuildInv, Rebuilding, roleVars
<1>4. CASE Route
  <2>1. /\ UNCHANGED <<db, waiting, late, flag, fence, held, alone>>
        /\ UNCHANGED roleVars
        /\ clients' => ~Rebuilding
    BY <1>4 DEF Route, Primary, dbVars
  <2> QED
    BY <2>1
       DEF NoLoneAck, WritableInv, LateInv, RoleInv, FenceInv, RebuildInv,
           Rebuilding, roleVars
<1> QED
  BY <1>1, <1>2, <1>3, <1>4

LEMMA AgentInit == Init => AgentInv
<1> SUFFICES ASSUME Init PROVE AgentInv
  OBVIOUS
<1>1. TypeOK
  <2>1. db \in Switches
    <3>1. CASE db = [mode |-> "writable", source |-> TRUE,
                     replica |-> FALSE, threads |-> "none"]
      BY <3>1 DEF Switches, Modes
    <3>2. CASE db = [mode |-> "super", source |-> FALSE,
                     replica |-> TRUE, threads |-> "running"]
      BY <3>2 DEF Switches, Modes
    <3> QED
      BY <3>1, <3>2 DEF Init
  <2>2. want \in [source : BOOLEAN, replica : BOOLEAN]
    BY DEF Init
  <2> QED
    BY <2>1, <2>2 DEF Init, TypeOK
<1> QED
  BY <1>1
     DEF Init, AgentInv, NoLoneAck, WritableInv, LateInv, RoleInv, FenceInv,
         RebuildInv, Rebuilding, NoRole

LEMMA AgentStep == Calm /\ AgentInv /\ [Next]_vars => AgentInv'
<1> SUFFICES ASSUME Calm, AgentInv, [Next]_vars PROVE AgentInv'
  OBVIOUS
<1>1. TypeOK /\ Parts
  BY DEF AgentInv, Parts
<1>2. TypeOK'
  BY <1>1, TypeStep
<1>3. Parts'
  <2>1. CASE \E s \in Statements : ExecutesLate(s)
    BY <1>1, <2>1, LateParts
  <2>2. CASE \/ Crash \/ Hang \/ Restart \/ ContainerRestart
             \/ Commit \/ WaitEnds \/ Sample \/ Route
    BY <1>1, <2>2, ServerParts
  <2>3. CASE RoleStep
    BY <1>1, <2>3, RoleParts
  <2>4. CASE FenceStep
    BY <1>1, <2>4, FenceParts
  <2>5. CASE UNCHANGED vars
    BY <1>1, <2>5
       DEF vars, dbVars, roleVars, routeVars, Parts, NoLoneAck, WritableInv,
           LateInv, RoleInv, FenceInv, RebuildInv, Rebuilding
  <2> QED
    BY <2>1, <2>2, <2>3, <2>4, <2>5 DEF Next
<1> QED
  BY <1>2, <1>3 DEF AgentInv, Parts

-----------------------------------------------------------------------------
(* AgentTypes: the types of the agent's state, and nothing waits or has a  *)
(* session on a dead mysqld, whatever the faults.                          *)
THEOREM AgentTypes == Spec => []TypeOK
<1>1. Init => TypeOK
  BY AgentInit DEF AgentInv
<1>2. TypeOK /\ [Next]_vars => TypeOK'
  BY TypeStep
<1> QED
  BY <1>1, <1>2, PTL DEF Spec

LEMMA AgentInvariant == Calm => (Spec => []AgentInv)
<1> SUFFICES ASSUME Calm PROVE Spec => []AgentInv
  OBVIOUS
<1>1. AgentInv /\ [Next]_vars => AgentInv'
  BY AgentStep
<1> QED
  BY <1>1, AgentInit, PTL DEF Spec

(* AckedCorrect: whatever hangs, crashes, restarts, loses its session or   *)
(* is cut short, no write is answered that no replica has (_promote,       *)
(* _repoint), unless /configure comes in the middle of a fence.            *)
THEOREM AckedCorrect == Calm => (Spec => []NoLoneAck)
<1>1. AgentInv => NoLoneAck
  BY DEF AgentInv
<1> QED
  BY <1>1, AgentInvariant, PTL

(* FenceCorrect: an answered fence stands until a promote or an unfence,   *)
(* unless it overlaps a promote (fence, _promote).                         *)
THEOREM FenceCorrect == Calm => (Spec => []FenceStands)
<1>1. AgentInv => FenceStands
  BY DEF AgentInv, FenceInv, FenceStands
<1> QED
  BY <1>1, AgentInvariant, PTL

(* RoutedCorrect: no client is routed to a node opened for a clone, unless *)
(* the clone is given up on (_primary_answer, rebuild).                    *)
THEOREM RoutedCorrect == Calm => (Spec => []RoutedToPrimary)
<1>1. AgentInv => RoutedToPrimary
  BY DEF AgentInv, RebuildInv, RoutedToPrimary, Rebuilding
<1> QED
  BY <1>1, AgentInvariant, PTL
=============================================================================
