------------------------------- MODULE Agent -------------------------------
(***************************************************************************)
(* The role changes of one agent (dbguard/agent/core.py) statement by      *)
(* statement: /promote, /repoint, /configure and /rebuild, which exclude   *)
(* each other with the role lock, against /fence and /unfence, which have  *)
(* a lock of their own, the mysqld below, and the clients that /primary    *)
(* routes to it.                                                           *)
(*                                                                         *)
(* A handler loses its SQL session when mysqld restarts or a fence kills   *)
(* it.  A role change that runs into its deadline leaves its statement     *)
(* behind: mysqld executes it once it can, unless it dies first.           *)
(* mysqld is supervised (module Supervisor says when it comes back) and    *)
(* semi-sync is on.                                                        *)
(***************************************************************************)
EXTENDS Naturals, Sequences

CONSTANT Faults     \* which of PossibleFaults happen

PossibleFaults ==
    {"hang",                \* mysqld is stopped for a while
     "cut_short",           \* a role change runs into its deadline
     "overlap",             \* a fence and a promote of this node overlap
     "configure_flagged",   \* /configure comes to a node that is flagged but
                            \* still writable, as it is early in a fence
     "rebuild_times_out"}   \* a statement of a rebuild is given up on

ASSUME AgentAssumption == Faults \subseteq PossibleFaults

VARIABLES
    db,         \* mysqld's switches and replication threads
    up,         \* "up", "hung" or "down"
    waiting,    \* a client's commit is binlogged and waits for an ack
    late,       \* statements left behind by role changes given up on
    flag,       \* the fence flag
    role,       \* the role change that holds the role lock, and its step
    link,       \* its SQL session is usable
    want,       \* the switches /configure has decided on
    fence,      \* the /fence that holds the fence lock
    sample,     \* the read-only mode /primary answers from, if recent
    clients,    \* clients have sessions on this node
    held,       \* history: a fence was answered and neither /promote nor
                \* /unfence called since
    alone       \* history: a write was answered OK that no replica has

dbVars == <<db, up, waiting, late>>
roleVars == <<role, link, want>>
routeVars == <<sample, clients>>
vars == <<dbVars, flag, roleVars, fence, routeVars, held, alone>>

(* super_read_only, read_only alone, or neither. *)
Modes == {"super", "read_only", "writable"}

Switches ==
    [mode    : Modes,
     source  : BOOLEAN,     \* rpl_semi_sync_source_enabled
     replica : BOOLEAN,     \* rpl_semi_sync_replica_enabled
     threads : {"none", "stopped", "running"}]

-----------------------------------------------------------------------------
(* The steps of the role changes.  Most are statements. *)

(* Mutant: writable before semi-sync source is on. *)
WritableFirst ==
    <<"stop", "reset", "replica_off", "writable", "source_on", "clear_flag",
      "sample">>

Promote ==
    <<"stop", "reset", "replica_off", "source_on", "writable", "clear_flag",
      "sample">>

(* Mutant: a repoint clears the fence flag. *)
RepointClears ==
    <<"stop", "read_only", "sample", "source_off", "replica_on", "change",
      "clear_flag", "start">>

Repoint ==
    <<"stop", "read_only", "sample", "source_off", "replica_on", "change",
      "start">>

Configure == <<"read", "check", "set_source", "set_replica">>

(* CLONE refuses to run under super_read_only. *)
Rebuild == <<"stop", "super_off", "clone", "stop", "reset", "read_only">>

Program ==
    [promote |-> Promote, repoint |-> Repoint, configure |-> Configure,
     rebuild |-> Rebuild]

Statements ==
    {"stop", "reset", "replica_off", "replica_on", "source_off", "source_on",
     "writable", "read_only", "super_off", "change", "start"}

NoRole == [op |-> "none", step |-> 0]
Busy == role # NoRole
Rebuilding == role.op = "rebuild"

(* The step the role change is at. *)
Step ==
    LET s == Program[role.op][role.step]
    IN  IF s = "set_source" THEN IF want.source THEN "source_on"
                                                ELSE "source_off"
        ELSE IF s = "set_replica" THEN IF want.replica THEN "replica_on"
                                                       ELSE "replica_off"
        ELSE s

Advanced ==
    IF role.step = Len(Program[role.op]) THEN NoRole
                                         ELSE [role EXCEPT !.step = @ + 1]

(* What a statement makes of mysqld. *)
After(s, d) ==
    CASE s = "stop" ->
           [d EXCEPT !.threads = IF @ = "none" THEN @ ELSE "stopped"]
      [] s = "reset" -> [d EXCEPT !.threads = "none"]
      [] s = "change" -> [d EXCEPT !.threads = "stopped"]
      [] s = "start" -> [d EXCEPT !.threads = "running"]
      [] s \in {"replica_off", "replica_on"} ->
           [d EXCEPT !.replica = s = "replica_on"]
      [] s \in {"source_off", "source_on"} ->
           [d EXCEPT !.source = s = "source_on"]
      [] s = "writable" -> [d EXCEPT !.mode = "writable"]
      [] s = "read_only" -> [d EXCEPT !.mode = "super"]
      [] s = "super_off" ->
           [d EXCEPT !.mode = IF @ = "super" THEN "read_only" ELSE @]

(* A mysqld that starts: read-only, semi-sync off, replica threads on. *)
Boot(d) ==
    [mode |-> "super", source |-> FALSE, replica |-> FALSE,
     threads |-> IF d.threads = "none" THEN "none" ELSE "running"]

Init ==
    /\ db \in {[mode |-> "writable", source |-> TRUE, replica |-> FALSE,
                threads |-> "none"],
               [mode |-> "super", source |-> FALSE, replica |-> TRUE,
                threads |-> "running"]}
    /\ up = "up" /\ waiting = FALSE /\ late = {}
    /\ flag = FALSE /\ fence = "none"
    /\ role = NoRole /\ link = FALSE
    /\ want = [source |-> FALSE, replica |-> FALSE]
    /\ sample = "none" /\ clients = FALSE
    /\ held = FALSE /\ alone = FALSE

-----------------------------------------------------------------------------
(* mysqld and the clients. *)

(* It executes a statement.  The read-only SET waits for a commit that     *)
(* waits for an ack, and switching the source side off lets it go.         *)
Executes(s) ==
    /\ up = "up"
    /\ s = "read_only" => ~waiting
    /\ db' = After(s, db)
    /\ IF s = "source_off" /\ waiting
         THEN waiting' = FALSE /\ alone' = TRUE
         ELSE UNCHANGED <<waiting, alone>>
    /\ UNCHANGED up

(* A hung mysqld works off what was left behind before anything new.       *)
ExecutesLate(s) ==
    /\ s \in late
    /\ Executes(s)
    /\ late' = late \ {s}
    /\ UNCHANGED <<flag, roleVars, fence, routeVars, held>>

Responsive == up = "up" /\ late \subseteq {"read_only"}

(* mysqld is gone, and with it every session. *)
Down ==
    /\ up' = "down"
    /\ db' = Boot(db)
    /\ waiting' = FALSE
    /\ late' = {}
    /\ link' = FALSE
    /\ clients' = FALSE

Crash ==
    /\ up # "down"
    /\ Down
    /\ UNCHANGED <<flag, role, want, fence, sample, held, alone>>

Hang ==
    /\ "hang" \in Faults
    /\ up # "down"
    /\ up' = IF up = "up" THEN "hung" ELSE "up"
    /\ UNCHANGED <<db, waiting, late, flag, roleVars, fence, routeVars, held,
                   alone>>

(* on_mysqld_restart. *)
Restart ==
    /\ up = "down"
    /\ up' = "up"
    /\ sample' = "none"
    /\ UNCHANGED <<db, waiting, late, flag, roleVars, fence, clients, held,
                   alone>>

(* The container restarts: all that is left of the agent is the flag file. *)
ContainerRestart ==
    /\ Down
    /\ role' = NoRole
    /\ fence' = "none"
    /\ sample' = "none"
    /\ UNCHANGED <<flag, want, held, alone>>

Commit ==
    /\ clients /\ up = "up" /\ db.mode = "writable"
    /\ ~waiting
    /\ IF db.source THEN waiting' = TRUE /\ UNCHANGED alone
                    ELSE alone' = TRUE /\ UNCHANGED waiting
    /\ UNCHANGED <<db, up, late, flag, roleVars, fence, routeVars, held>>

(* A replica acknowledges the write, or /unstick kills the session. *)
WaitEnds ==
    /\ up = "up" /\ waiting
    /\ waiting' = FALSE
    /\ UNCHANGED <<db, up, late, flag, roleVars, fence, routeVars, held,
                   alone>>

-----------------------------------------------------------------------------
(* /primary. *)

(* The sampler, or a sample too old to answer from. *)
Sample ==
    /\ sample' = IF up = "up" THEN db.mode ELSE "none"
    /\ UNCHANGED <<dbVars, flag, roleVars, fence, clients, held, alone>>

(* Mutant: a rebuild is not looked at. *)
PrimaryRebuilding == ~flag /\ sample \in {"read_only", "writable"}

(* The answer 200: not super_read_only when last sampled. *)
Primary ==
    /\ ~flag
    /\ ~Rebuilding
    /\ sample \in {"read_only", "writable"}

(* HAProxy sends clients where /primary is 200 and ends their sessions     *)
(* where it is not.                                                        *)
Route ==
    /\ up = "up"
    /\ clients' = Primary
    /\ UNCHANGED <<dbVars, flag, roleVars, fence, sample, held, alone>>

-----------------------------------------------------------------------------
(* The role changes. *)

(* A role change gets the role lock and a session.  /configure comes from  *)
(* outside and behind every restart, so at any time.  The manager rebuilds *)
(* only nodes that are read-only and have no clients.                      *)
Start(op) ==
    /\ ~Busy
    /\ Responsive
    /\ op = "promote" => fence = "none" \/ "overlap" \in Faults
    /\ op = "rebuild" => db.mode = "super" /\ ~clients
    /\ role' = [op |-> op, step |-> 1]
    /\ link' = TRUE
    /\ held' = (held /\ op # "promote")
    /\ UNCHANGED <<dbVars, flag, want, fence, routeVars, alone>>

RunsStatement ==
    /\ Busy /\ link /\ Responsive
    /\ Step \in Statements
    /\ Executes(Step)
    /\ role' = Advanced
    /\ UNCHANGED <<late, flag, link, want, fence, routeVars, held>>

(* The flag is a file, on disk before anything else of a fence happens: a  *)
(* restarted agent finds it as it was.                                     *)
SetFenced(value) == flag' = value

(* The flag is cleared under the fence lock. *)
ClearsFlag ==
    /\ Busy /\ Step = "clear_flag"
    /\ fence = "none"
    /\ SetFenced(FALSE)
    /\ role' = Advanced
    /\ UNCHANGED <<dbVars, link, want, fence, routeVars, held,
                   alone>>

RefreshesSample ==
    /\ Busy /\ Step = "sample"
    /\ sample' = IF up = "up" THEN db.mode ELSE "none"
    /\ role' = Advanced
    /\ UNCHANGED <<dbVars, flag, link, want, fence, clients, held,
                   alone>>

Decides ==
    /\ Busy /\ link /\ Responsive
    /\ Step = "read"
    /\ LET writable == db.mode # "super" /\ ~flag
       IN  want' = [source |-> writable, replica |-> ~writable]
    /\ flag /\ db.mode # "super" => "configure_flagged" \in Faults
    /\ role' = Advanced
    /\ UNCHANGED <<dbVars, flag, link, fence, routeVars, held,
                   alone>>

(* Mutant: waiting sessions are not looked at. *)
ChecksNothing ==
    /\ Busy /\ link /\ Responsive
    /\ Step = "check"
    /\ role' = Advanced
    /\ UNCHANGED <<dbVars, flag, link, want, fence, routeVars, held,
                   alone>>

(* The source side stays on while sessions wait for an ack. *)
Checks ==
    /\ Busy /\ link /\ Responsive
    /\ Step = "check"
    /\ want' = [want EXCEPT !.source = @ \/ (db.source /\ waiting)]
    /\ role' = Advanced
    /\ UNCHANGED <<dbVars, flag, link, fence, routeVars, held,
                   alone>>

(* The clone is done and stops mysqld.  A session lost meanwhile counts as *)
(* that, and mysqld is stopped if it has not.                              *)
CloneEnds ==
    /\ Busy /\ Step = "clone"
    /\ ~link \/ Responsive
    /\ Down
    /\ role' = Advanced
    /\ UNCHANGED <<flag, want, fence, sample, held, alone>>

(* The steps behind the clone open a session of their own. *)
Reconnects ==
    /\ Rebuilding /\ role.step = 4
    /\ ~link /\ Responsive
    /\ link' = TRUE
    /\ UNCHANGED <<dbVars, flag, role, want, fence, routeVars, held,
                   alone>>

(* It fails: read-only again, if the session still works. *)
CloneFails ==
    /\ Busy /\ Step = "clone"
    /\ link /\ Responsive
    /\ Executes("read_only")
    /\ role' = NoRole
    /\ UNCHANGED <<late, flag, link, want, fence, routeVars, held>>

(* The session is lost: the role change ends where it is. *)
Fails ==
    /\ Busy /\ ~link
    /\ Step \in Statements \cup {"read", "check"}
    /\ ~(Rebuilding /\ role.step = 4)
    /\ role' = NoRole
    /\ UNCHANGED <<dbVars, flag, link, want, fence, routeVars, held,
                   alone>>

(* It is given up on.  A session that ran into a timeout is closed, so     *)
(* nothing makes a node read-only again.                                   *)
GivenUp ==
    /\ Busy
    /\ (IF Rebuilding THEN "rebuild_times_out" ELSE "cut_short") \in Faults
    /\ role' = NoRole
    /\ late' \in {late, late \cup ({Step} \cap Statements)}
    /\ late' # late => link /\ (up = "hung" \/ (Step = "read_only" /\ waiting))
    /\ UNCHANGED <<db, up, waiting, flag, link, want, fence,
                   routeVars, held, alone>>

-----------------------------------------------------------------------------
(* /fence and /unfence. *)

Fence ==
    /\ fence = "none"
    /\ role.op = "promote" => "overlap" \in Faults
    /\ SetFenced(TRUE)
    /\ fence' = "set"
    /\ UNCHANGED <<dbVars, roleVars, routeVars, held, alone>>

FenceSet ==
    /\ fence = "set"
    /\ Responsive
    /\ Executes("read_only")
    /\ fence' = "kill_clients"
    /\ sample' = "super"
    /\ UNCHANGED <<late, flag, roleVars, clients, held>>

(* It kills every session but replication's, unless one fails.             *)
FenceKillClients ==
    /\ fence = "kill_clients"
    /\ fence' = "none"
    /\ held' = TRUE
    /\ \/ link' = FALSE /\ clients' = FALSE
       \/ UNCHANGED <<link, clients>>
    /\ UNCHANGED <<dbVars, flag, role, want, sample, alone>>

FenceKill ==
    /\ fence = "set"
    /\ Down
    /\ fence' = "none"
    /\ held' = TRUE
    /\ sample' = "none"
    /\ UNCHANGED <<flag, role, want, alone>>

Unfence ==
    /\ fence = "none"
    /\ SetFenced(FALSE)
    /\ held' = FALSE
    /\ UNCHANGED <<dbVars, roleVars, fence, routeVars, alone>>

-----------------------------------------------------------------------------
RoleStep ==
    \/ \E op \in DOMAIN Program : Start(op)
    \/ RunsStatement \/ ClearsFlag \/ RefreshesSample \/ Decides \/ Checks
    \/ CloneEnds \/ Reconnects \/ CloneFails \/ Fails \/ GivenUp

FenceStep == Fence \/ FenceSet \/ FenceKillClients \/ FenceKill \/ Unfence

Next ==
    \/ \E s \in Statements : ExecutesLate(s)
    \/ Crash \/ Hang \/ Restart \/ ContainerRestart
    \/ Commit \/ WaitEnds \/ Sample \/ Route
    \/ RoleStep \/ FenceStep

Spec == Init /\ [][Next]_vars

-----------------------------------------------------------------------------
(* Properties. *)

(* TypeOK: types, and nothing waits or has a session on a dead mysqld. *)
TypeOK ==
    /\ db \in Switches
    /\ up \in {"up", "hung", "down"}
    /\ waiting \in BOOLEAN
    /\ late \subseteq Statements
    /\ flag \in BOOLEAN
    /\ \/ role = NoRole
       \/ /\ role \in [op : DOMAIN Program, step : Nat]
          /\ role.step \in DOMAIN Program[role.op]
    /\ link \in BOOLEAN
    /\ want \in [source : BOOLEAN, replica : BOOLEAN]
    /\ fence \in {"none", "set", "kill_clients"}
    /\ sample \in Modes \cup {"none"}
    /\ clients \in BOOLEAN
    /\ held \in BOOLEAN
    /\ alone \in BOOLEAN
    /\ up = "down" => ~waiting /\ ~clients /\ late = {}

(* NoLoneAck: no write is answered OK before a replica has it, whatever is *)
(* cut short or restarted (_promote, _configure).                          *)
NoLoneAck == ~alone

(* FenceStands: a node whose fence was answered keeps its flag and takes   *)
(* no write until it is promoted or unfenced, through restarts, repoints   *)
(* and rebuilds.                                                           *)
FenceStands == held => flag /\ db.mode # "writable"

(* RoutedToPrimary: /primary never sends clients to a node that a rebuild *)
(* has opened for its clone (_primary_answer, rebuild).                    *)
RoutedToPrimary == clients => db.mode # "read_only"
=============================================================================
