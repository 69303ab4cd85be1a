----------------------------- MODULE MCEvidence -----------------------------
(***************************************************************************)
(* Seven parts that share no state, checked side by side: in a behaviour   *)
(* only one of them, chosen at the start, moves.                           *)
(***************************************************************************)
EXTENDS Gtid, Detector, Lease, EventLog, Workload, Sessions,
    Replacement, TLC

VARIABLE part

vars == <<part, gtidVars, detectorVars, leaseVars, eventLogVars,
          workloadVars, sessionsVars, replacementVars>>

Init ==
    /\ part \in {"gtid", "detector", "lease", "events", "workload",
                "sessions", "replacement"}
    /\ GtidInit /\ DetectorInit /\ LeaseInit /\ EventLogInit /\ WorkloadInit
    /\ SessionsInit /\ ReplacementInit

Next ==
    \/ /\ part = "gtid" /\ GtidNext
       /\ UNCHANGED <<part, detectorVars, leaseVars, eventLogVars,
                      workloadVars, sessionsVars, replacementVars>>
    \/ /\ part = "detector" /\ DetectorNext
       /\ UNCHANGED <<part, gtidVars, leaseVars, eventLogVars, workloadVars,
                      sessionsVars, replacementVars>>
    \/ /\ part = "lease" /\ LeaseNext
       /\ UNCHANGED <<part, gtidVars, detectorVars, eventLogVars,
                      workloadVars, sessionsVars, replacementVars>>
    \/ /\ part = "events" /\ EventLogNext
       /\ UNCHANGED <<part, gtidVars, detectorVars, leaseVars, workloadVars,
                      sessionsVars, replacementVars>>
    \/ /\ part = "workload" /\ WorkloadNext
       /\ UNCHANGED <<part, gtidVars, detectorVars, leaseVars, eventLogVars,
                      sessionsVars, replacementVars>>
    \/ /\ part = "sessions" /\ SessionsNext
       /\ UNCHANGED <<part, gtidVars, detectorVars, leaseVars, eventLogVars,
                      workloadVars, replacementVars>>
    \/ /\ part = "replacement" /\ ReplacementNext
       /\ UNCHANGED <<part, gtidVars, detectorVars, leaseVars, eventLogVars,
                      workloadVars, sessionsVars>>

(* A step of the replacement, when it is the part that moves.              *)
Moves(A) ==
    /\ part = "replacement" /\ A
    /\ UNCHANGED <<part, gtidVars, detectorVars, leaseVars, eventLogVars,
                   workloadVars, sessionsVars>>

(* The manager polls for ever, every await of a replacement and of an      *)
(* agent has a timeout, a rejoin ends, and time passes.                    *)
Fairness ==
    /\ WF_vars(Moves(Tick))
    /\ WF_vars(Moves(Replace))
    /\ WF_vars(Moves(Agents))
    /\ WF_vars(Moves(Repair))
    /\ WF_vars(Moves(StaysIll))
    /\ WF_vars(Moves(CoolsDown))

Spec == Init /\ [][Next]_vars /\ Fairness

-----------------------------------------------------------------------------
(* A set of three nodes. *)
MCNodes == <<"n1", "n2", "n3">>

(* Numbers up to five of one source and one number of another. *)
MCMaxGno == "u1" :> 5 @@ "u2" :> 1

(* What a node can answer about n1, and one view about n2. *)
Replica(from, age, lag, tells) ==
    [usable |-> TRUE, source |-> from, io |-> TRUE, reach |-> TRUE,
     age |-> age, lag |-> lag, tells |-> tells]
Fine == Replica("n1", 1, 0, "there")
Severed == [Fine EXCEPT !.io = FALSE, !.tells = "gone"]
Blind == [Fine EXCEPT !.reach = FALSE, !.tells = "gone"]
Silent == Replica("n1", Window + 1, 0, "gone")
Behind == Replica("n1", 2 * Window, 2 * Window, "there")
Leftover == Replica("n1", MaxWindows * Window + 1, 0, "there")
Elsewhere == [Replica("n2", 1, 0, "gone") EXCEPT !.io = FALSE]
Down == [Fine EXCEPT !.usable = FALSE, !.tells = "nothing"]

Polled(v, w) == "n1" :> Down @@ "n2" :> v @@ "n3" :> w
MCAnswers ==
    {Polled(Fine, Down), Polled(Severed, Fine), Polled(Severed, Blind),
     Polled(Silent, Behind), Polled(Silent, Leftover), Polled(Blind, Down),
     Polled(Blind, Elsewhere), Polled(Down, Elsewhere)}

(* The views tell what the code makes of them, and the polls are often     *)
(* enough for the history.                                                 *)
ASSUME MCAssumption == WitnessesTell /\ PollsOften
=============================================================================
