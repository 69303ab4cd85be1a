-------------------------- MODULE ControllerProofs --------------------------
(***************************************************************************)
(* Proofs about Controller and Guards for every set of nodes and any       *)
(* number of failovers, switchovers, halts, freezes and agent starts.      *)
(***************************************************************************)
EXTENDS Controller, TLAPS

USE GuardsAssumption, ControllerAssumption

-----------------------------------------------------------------------------
(* The agents.                                                             *)

(* A thawed node has its guard still to come, or the guard is about to     *)
(* ask; an answer from before the freeze does not count.                   *)
DoubtInv ==
    \A n \in doubt : guard[n] = "ask" \/ (guard[n] = "idle" /\ n \in gap)

GuardInv == GuardsTypeOK /\ DoubtInv

(* AgentKeeps: the agents' own steps, whatever the manager answers. *)
LEMMA AgentKeeps ==
  ASSUME GuardInv, NEW n \in Node, NEW answer, AgentStep(n, answer) \/ Wake(n)
  PROVE  GuardInv'
<1>0. GuardsTypeOK /\ DoubtInv
  BY DEF GuardInv
<1> USE DEF GuardsTypeOK, DoubtInv, GuardInv, GuardSteps, Step
<1>1. CASE NoticeGap(n)
  BY <1>0, <1>1 DEF NoticeGap, Triggered
<1>2. ASSUME NEW a, GuardAsks(n, a) PROVE GuardInv'
  <2>1. Heard(n, a) \in GuardSteps
    BY DEF Heard
  <2> QED BY <1>0, <1>2, <2>1 DEF GuardAsks
<1>3. CASE GuardDecides(n)
  BY <1>0, <1>3 DEF GuardDecides
<1>4. CASE GuardFences(n)
  BY <1>0, <1>4 DEF GuardFences, Fence
<1>5. CASE HeartbeatReads(n) \/ HeartbeatWrites(n) \/ HeartbeatReturns(n)
  <2>1. /\ UNCHANGED <<writable, fenced, frozen, gap, guard, wakes, doubt>>
        /\ \E s \in {"idle", "read", "write"} : hb' = [hb EXCEPT ![n] = s]
    BY <1>5 DEF HeartbeatReads, HeartbeatWrites, HeartbeatReturns
  <2> QED BY <1>0, <2>1
<1>6. CASE Freeze(n)
  BY <1>0, <1>6 DEF Freeze
<1>7. CASE Thaw(n)
  BY <1>0, <1>7 DEF Thaw
<1>8. CASE AgentStarts(n)
  BY <1>0, <1>8 DEF AgentStarts
<1> QED BY <1>1, <1>2, <1>3, <1>4, <1>5, <1>6, <1>7, <1>8
        DEF AgentStep, Wake

-----------------------------------------------------------------------------
(* The controller.                                                         *)

(* An operation has a primary to leave, and while it runs unmeddled the    *)
(* set says so.                                                            *)
LockInv ==
    /\ op # "free" => primary # NoNode
    /\ op = "sw_views" /\ ~meddled => state # "HALTED"
    /\ op \notin {"free", "sw_views"} /\ ~meddled => state = "FAILING_OVER"

(* Bad polls of a node that is no longer the primary were the last of it.  *)
StreakInv ==
    about \in {NoNode, primary} \/ poll \in {"none", "nobody", primary}

CtlInv == TypeOK /\ DoubtInv /\ LockInv /\ StreakInv

(* CtlTypes: what the controller owns of the type invariant. *)
CtlTypes ==
    /\ state \in States
    /\ primary \in Node \cup {NoNode}
    /\ op \in {"free"} \cup FailoverSteps \cup SwitchoverSteps
    /\ target \in IF op = "free" THEN {NoNode} ELSE Node
    /\ poll \in Node \cup {"none", "nobody"}
    /\ probed \in BOOLEAN /\ meddled \in BOOLEAN
    /\ about \in Node \cup {NoNode}
    /\ streak \in 0 .. Enough
    /\ cache \subseteq Node /\ fencing \subseteq Node
    /\ cooldown \in 0 .. Cooldown
    /\ failovers \in 0 .. MaxFailovers
    /\ switchovers \in 0 .. MaxSwitchovers /\ halts \in 0 .. MaxHalts

CtlPart == CtlTypes /\ LockInv /\ StreakInv

(* BoundsHold: each count may be zero, and the cooldown start. *)
LEMMA BoundsHold ==
  /\ 0 \in 0 .. Enough /\ 0 \in 0 .. Cooldown /\ Cooldown \in 0 .. Cooldown
  /\ 0 \in 0 .. MaxFailovers /\ 0 \in 0 .. MaxSwitchovers
  /\ 0 \in 0 .. MaxHalts
<1>1. \A b \in Nat : 0 \in 0 .. b /\ b \in 0 .. b
  OBVIOUS
<1>2. /\ Enough \in Nat /\ Cooldown \in Nat /\ MaxFailovers \in Nat
      /\ MaxSwitchovers \in Nat /\ MaxHalts \in Nat
  OBVIOUS
<1> QED BY <1>1, <1>2

(* GuardsKeep: what the controller does to the nodes. *)
LEMMA GuardsKeep ==
  ASSUME GuardInv, UNCHANGED agentVars,
         \/ UNCHANGED <<writable, fenced>>
         \/ \E n \in Node : Fence(n) \/ Promoted(n)
  PROVE  GuardInv'
<1>1. writable' \subseteq Node /\ fenced' \subseteq Node
  BY DEF GuardInv, GuardsTypeOK, Fence, Promoted
<1> QED BY <1>1 DEF GuardInv, GuardsTypeOK, DoubtInv, agentVars

(* PollKeeps: the tick. *)
LEMMA PollKeeps ==
  ASSUME CtlPart, PollEnds
  PROVE  CtlPart' /\ UNCHANGED guardVars
<1>0. CtlTypes /\ LockInv /\ StreakInv
  BY DEF CtlPart
<1>1. PICK lost \in BOOLEAN :
        /\ poll # "none" /\ poll' = "none" /\ probed' = FALSE
        /\ IF Idle /\ primary = NoNode
             THEN Discover
             ELSE /\ Observed(~probed /\ lost /\ poll # "nobody")
                  /\ UNCHANGED <<primary, cache>>
                  /\ IF ~Idle THEN UNCHANGED <<state, lockVars, fencing, runs>>
                     ELSE IF streak' = Enough THEN Dead
                     ELSE IF probed THEN Reconcile ELSE Suspect
        /\ UNCHANGED <<guardVars, cooldown, halts>>
  BY DEF PollEnds
<1>2. \A bad \in BOOLEAN :
        Observed(bad) /\ (bad => poll # "nobody") =>
          about' \in Node \cup {NoNode} /\ streak' \in 0 .. Enough
  BY <1>0, <1>1 DEF Observed, CtlTypes
<1>3. StreakInv'
  BY <1>1 DEF StreakInv
<1>4. CASE Idle /\ primary = NoNode
  <2>0. Discover /\ op = "free"
    BY <1>1, <1>4 DEF Idle
  <2>1. /\ UNCHANGED <<lockVars, fencing, runs>>
        /\ primary' \in Node \cup {NoNode} /\ cache' \subseteq Node
        /\ state' \in {state, To("HALTED")}
        /\ about' \in Node \cup {NoNode} /\ streak' \in 0 .. Enough
    <3>1. UNCHANGED <<lockVars, fencing, runs>>
      BY <2>0 DEF Discover
    <3>2. CASE \E n \in Node : Adopt(n) /\ UNCHANGED state
      BY <3>1, <3>2 DEF Adopt
    <3>3. CASE /\ state' = IF cache = {} THEN state ELSE To("HALTED")
               /\ Observed(FALSE)
               /\ UNCHANGED <<primary, cache>>
      BY <1>0, <1>2, <3>1, <3>3 DEF CtlTypes
    <3> QED BY <1>0, <2>0, <3>2, <3>3 DEF Discover, CtlTypes
  <2>2. state' \in States
    BY <1>0, <2>1 DEF CtlTypes, To, States
  <2> QED BY <1>0, <1>1, <1>3, <2>0, <2>1, <2>2
          DEF CtlPart, CtlTypes, LockInv, lockVars, runs
<1>5. CASE ~(Idle /\ primary = NoNode)
  <2>0. /\ Observed(~probed /\ lost /\ poll # "nobody")
        /\ UNCHANGED <<primary, cache>>
    BY <1>1, <1>5
  <2>1. about' \in Node \cup {NoNode} /\ streak' \in 0 .. Enough
    BY <1>2, <2>0
  <2>2. CASE ~Idle
    BY <1>0, <1>1, <1>3, <1>5, <2>0, <2>1, <2>2
    DEF CtlPart, CtlTypes, LockInv, lockVars, runs
  <2>3. CASE Idle /\ Dead
    <3>0. primary # NoNode /\ op = "free" /\ state # "HALTED"
      BY <1>5, <2>3 DEF Idle
    <3>1. CASE cooldown > 0
      BY <1>0, <1>1, <1>3, <2>0, <2>1, <2>3, <3>0, <3>1
      DEF Dead, To, States, CtlPart, CtlTypes, LockInv, lockVars, runs
    <3>2. CASE ~(cooldown > 0)
      <4>1. /\ failovers' = failovers + 1 /\ failovers < MaxFailovers
            /\ UNCHANGED <<switchovers, fencing>> /\ state' = "FAILING_OVER"
            /\ op' = "fo_fence" /\ target' \in Node /\ meddled' = FALSE
        BY <2>3, <3>0, <3>2 DEF Dead, To, Acquire
      <4>2. failovers' \in 0 .. MaxFailovers
        BY <1>0, <4>1 DEF CtlTypes
      <4>3. CtlTypes'
        BY <1>0, <1>1, <2>0, <2>1, <4>1, <4>2
        DEF CtlTypes, FailoverSteps, States
      <4>4. LockInv'
        BY <2>0, <3>0, <4>1 DEF LockInv
      <4> QED BY <1>1, <1>3, <4>3, <4>4 DEF CtlPart
    <3> QED BY <3>1, <3>2
  <2>4. CASE Idle /\ (Reconcile \/ Suspect)
    <3>1. /\ state' \in States /\ fencing' \subseteq Node /\ op = "free"
          /\ UNCHANGED <<lockVars, runs>>
      BY <1>0, <2>4 DEF Reconcile, Suspect, Idle, To, States, CtlTypes
    <3> QED BY <1>0, <1>1, <1>3, <2>0, <2>1, <3>1
            DEF CtlPart, CtlTypes, LockInv, lockVars, runs
  <2> QED BY <1>1, <1>5, <2>2, <2>3, <2>4
<1> QED BY <1>1, <1>4, <1>5

(* OperationKeeps: a failover and a switchover, and the operator's calls. *)
LEMMA OperationKeeps ==
  ASSUME CtlPart, GuardInv,
         \/ FailoverStep \/ SwitchoverStep \/ Halt \/ Resume
         \/ \E n \in Node : SwitchoverCall(n)
  PROVE  CtlPart' /\ GuardInv'
<1>0. CtlTypes /\ LockInv /\ StreakInv
  BY DEF CtlPart
<1>a. \A s \in States : To(s) \in States
  BY <1>0 DEF CtlTypes, To
<1>b. op # "free" => primary \in Node /\ target \in Node
  BY <1>0 DEF CtlTypes, LockInv
<1>c. UNCHANGED guardVars => UNCHANGED <<agentVars, writable, fenced>>
  BY DEF guardVars, agentVars
<1> USE DEF Proceed, Release, Acquire, FailoverSteps, SwitchoverSteps
<1>1. CASE FailoverStep
  <2>0. op # "free" /\ op \in FailoverSteps
    BY <1>1 DEF FailoverStep, FailoverFences, FailoverPromotes, FailoverHalts
  <2>1. GuardInv'
    <3>1. \/ UNCHANGED <<writable, fenced>>
          \/ \E n \in Node : Fence(n) \/ Promoted(n)
      BY <1>1, <1>b, <2>0 DEF FailoverStep, FailoverFences, FailoverPromotes,
                              FailoverHalts
    <3>2. UNCHANGED agentVars
      BY <1>1 DEF FailoverStep, FailoverFences, FailoverPromotes,
                  FailoverHalts
    <3> QED BY <3>1, <3>2, GuardsKeep
  <2>2. CASE FailoverFences
    BY <1>0, <2>1, <2>2 DEF FailoverFences, CtlPart, CtlTypes, LockInv,
                            StreakInv, pollVars, streakVars, runs
  <2>3. CASE FailoverPromotes
    <3>1. /\ primary' \in Node /\ cache' = {} /\ about' = NoNode /\ streak' = 0
          /\ cooldown' = Cooldown /\ state' \in States /\ op' = "free"
          /\ target' = NoNode /\ meddled' = FALSE
          /\ UNCHANGED <<poll, probed, fencing, failovers, switchovers, halts>>
      BY <1>a, <1>b, <2>0, <2>3
      DEF FailoverPromotes, Adopt, pollVars, runs, States
    <3>2. CtlTypes'
      BY <1>0, <3>1, BoundsHold DEF CtlTypes
    <3> QED BY <2>1, <3>1, <3>2 DEF CtlPart, LockInv, StreakInv
  <2>4. CASE FailoverHalts
    BY <1>0, <1>a, <2>1, <2>4
    DEF FailoverHalts, CtlPart, CtlTypes, LockInv, StreakInv,
        pollVars, streakVars, runs, States
  <2> QED BY <1>1, <2>2, <2>3, <2>4 DEF FailoverStep
<1>2. CASE SwitchoverStep
  <2>0. op # "free" /\ op \in SwitchoverSteps
    BY <1>2 DEF SwitchoverStep, SwitchoverBegins, SwitchoverRefused,
                SwitchoverQuiesces, SwitchoverUnanswered, SwitchoverPromotes,
                SwitchoverGoesBack, SwitchoverHalts
  <2>1. GuardInv'
    <3>1. \/ UNCHANGED <<writable, fenced>>
          \/ \E n \in Node : Fence(n) \/ Promoted(n)
      <4>1. CASE SwitchoverBegins \/ SwitchoverRefused \/ SwitchoverUnanswered
        BY <1>c, <4>1 DEF SwitchoverBegins, SwitchoverRefused,
                          SwitchoverUnanswered
      <4>2. CASE \/ SwitchoverQuiesces \/ SwitchoverPromotes
                 \/ SwitchoverGoesBack \/ SwitchoverHalts
        BY <1>b, <2>0, <4>2 DEF SwitchoverQuiesces, SwitchoverPromotes,
                                SwitchoverGoesBack, SwitchoverHalts
      <4> QED BY <1>2, <4>1, <4>2 DEF SwitchoverStep
    <3>2. UNCHANGED agentVars
      BY <1>2, <1>c
      DEF SwitchoverStep, SwitchoverBegins, SwitchoverRefused,
          SwitchoverQuiesces, SwitchoverUnanswered, SwitchoverPromotes,
          SwitchoverGoesBack, SwitchoverHalts
    <3> QED BY <3>1, <3>2, GuardsKeep
  <2> USE DEF CtlPart, CtlTypes, LockInv, StreakInv, pollVars, streakVars,
              runs, States
  <2>2. CASE SwitchoverBegins
    BY <1>0, <1>a, <2>1, <2>2 DEF SwitchoverBegins, To
  <2>3. CASE SwitchoverRefused
    BY <1>0, <2>1, <2>3 DEF SwitchoverRefused
  <2>4. CASE SwitchoverQuiesces
    BY <1>0, <2>1, <2>4 DEF SwitchoverQuiesces
  <2>5. CASE SwitchoverUnanswered
    BY <1>0, <1>a, <1>b, <2>0, <2>1, <2>5 DEF SwitchoverUnanswered
  <2>6. CASE SwitchoverPromotes
    <3>1. /\ primary' \in Node /\ cache' = {} /\ about' = NoNode /\ streak' = 0
          /\ state' \in States /\ op' = "free"
          /\ target' = NoNode /\ meddled' = FALSE
          /\ UNCHANGED <<poll, probed, fencing, failovers, switchovers, halts,
                         cooldown>>
      BY <1>a, <1>b, <2>0, <2>6 DEF SwitchoverPromotes, Adopt
    <3>2. CtlTypes'
      BY <1>0, <3>1, BoundsHold
    <3> QED BY <2>1, <3>1, <3>2
  <2>7. CASE SwitchoverGoesBack
    BY <1>0, <1>a, <2>1, <2>7 DEF SwitchoverGoesBack
  <2>8. CASE SwitchoverHalts
    BY <1>0, <1>a, <2>1, <2>8 DEF SwitchoverHalts
  <2> QED BY <1>2, <2>2, <2>3, <2>4, <2>5, <2>6, <2>7, <2>8
          DEF SwitchoverStep
<1>3. ASSUME NEW n \in Node, SwitchoverCall(n) PROVE CtlPart' /\ GuardInv'
  <2>1. GuardInv'
    BY <1>3, <1>c, GuardsKeep DEF SwitchoverCall
  <2>2. /\ state # "HALTED" /\ primary # NoNode /\ op' = "sw_views"
        /\ target' = n /\ meddled' = FALSE
        /\ switchovers < MaxSwitchovers /\ switchovers' = switchovers + 1
        /\ UNCHANGED <<state, primary, poll, probed, about, streak, cache,
                       cooldown, fencing, failovers, halts>>
    BY <1>3 DEF SwitchoverCall, pollVars, streakVars, Idle
  <2>3. switchovers' \in 0 .. MaxSwitchovers
    BY <1>0, <2>2 DEF CtlTypes
  <2>4. CtlTypes'
    BY <1>0, <2>2, <2>3 DEF CtlTypes
  <2> QED BY <1>0, <2>1, <2>2, <2>4 DEF CtlPart, LockInv, StreakInv
<1>4. CASE Halt
  <2>1. GuardInv'
    BY <1>4, <1>c, GuardsKeep DEF Halt
  <2>2. /\ halts < MaxHalts /\ halts' = halts + 1 /\ state' \in States
        /\ meddled' = (op # "free")
        /\ UNCHANGED <<primary, op, target, poll, probed, about, streak,
                       cache, cooldown, fencing, failovers, switchovers>>
    BY <1>a, <1>4 DEF Halt, pollVars, streakVars, runs, States
  <2>3. halts' \in 0 .. MaxHalts /\ meddled' \in BOOLEAN
    BY <1>0, <2>2 DEF CtlTypes
  <2>4. CtlTypes'
    BY <1>0, <2>2, <2>3 DEF CtlTypes
  <2> QED BY <1>0, <2>1, <2>2, <2>4 DEF CtlPart, LockInv, StreakInv
<1>5. CASE Resume
  <2>1. GuardInv'
    BY <1>5, <1>c, GuardsKeep DEF Resume
  <2> QED BY <1>0, <1>5, <2>1
          DEF Resume, CtlPart, CtlTypes, LockInv, StreakInv, pollVars,
              lockVars, runs, States
<1> QED BY <1>1, <1>2, <1>3, <1>4, <1>5

(* RestKeeps: the other steps of the manager, and the agents. *)
LEMMA RestKeeps ==
  ASSUME CtlPart, GuardInv,
         \/ \E ok \in BOOLEAN : PollStarts(ok)
         \/ TimePasses \/ Agents \/ UNCHANGED vars
         \/ \E n \in Node : StatusArrives(n) \/ FenceLands(n)
                              \/ FenceGivenUp(n)
  PROVE  CtlPart' /\ GuardInv'
<1>0. CtlTypes /\ LockInv /\ StreakInv
  BY DEF CtlPart
<1>c. UNCHANGED guardVars => GuardInv'
  BY GuardsKeep DEF guardVars, agentVars
<1> USE DEF lockVars, pollVars, streakVars, runs
<1>1. ASSUME NEW ok \in BOOLEAN, PollStarts(ok) PROVE CtlPart' /\ GuardInv'
  BY <1>0, <1>1, <1>c DEF PollStarts, CtlPart, CtlTypes, LockInv, StreakInv
<1>2. CASE TimePasses
  <2>1. cooldown' \in 0 .. Cooldown
    BY <1>0, <1>2 DEF TimePasses, CtlTypes
  <2> QED BY <1>0, <1>2, <1>c, <2>1
          DEF TimePasses, CtlPart, CtlTypes, LockInv, StreakInv
<1>3. CASE Agents
  <2>1. GuardInv'
    BY <1>3, AgentKeeps DEF Agents
  <2>2. UNCHANGED <<state, primary, lockVars, pollVars, streakVars, cache,
                    cooldown, fencing, runs, halts>>
    BY <1>3 DEF Agents, ctlVars
  <2> QED BY <1>0, <2>1, <2>2 DEF CtlPart, CtlTypes, LockInv, StreakInv
<1>4. CASE UNCHANGED vars
  BY <1>0, <1>4, <1>c DEF vars, CtlPart, CtlTypes, LockInv, StreakInv
<1>5. ASSUME NEW n \in Node, StatusArrives(n) \/ FenceGivenUp(n)
      PROVE  CtlPart' /\ GuardInv'
  <2>1. /\ cache' \subseteq Node /\ fencing' \subseteq Node
        /\ UNCHANGED <<guardVars, state, primary, lockVars, pollVars,
                       streakVars, cooldown, runs, halts>>
    BY <1>0, <1>5 DEF StatusArrives, FenceGivenUp, CtlTypes
  <2> QED BY <1>0, <1>c, <2>1 DEF CtlPart, CtlTypes, LockInv, StreakInv
<1>6. ASSUME NEW n \in Node, FenceLands(n) PROVE CtlPart' /\ GuardInv'
  <2>1. /\ cache' \subseteq Node /\ fencing' \subseteq Node
        /\ Fence(n) /\ UNCHANGED agentVars
        /\ UNCHANGED <<state, primary, lockVars, pollVars, streakVars,
                       cooldown, runs, halts>>
    BY <1>0, <1>6 DEF FenceLands, CtlTypes
  <2>2. GuardInv'
    BY <2>1, GuardsKeep
  <2> QED BY <1>0, <2>1, <2>2 DEF CtlPart, CtlTypes, LockInv, StreakInv
<1> QED BY <1>1, <1>2, <1>3, <1>4, <1>5, <1>6

(* CtlParts: the invariant is the controller's part and the agents'. *)
LEMMA CtlParts == CtlInv <=> CtlPart /\ GuardInv
BY DEF CtlInv, CtlPart, GuardInv, TypeOK, CtlTypes

(* CtlInit: it holds at the start. *)
LEMMA CtlInit == Init => CtlInv
<1> SUFFICES ASSUME Init PROVE CtlPart /\ GuardInv
  BY CtlParts
<1>1. GuardInv
  BY DEF Init, GuardsInit, GuardInv, GuardsTypeOK, DoubtInv, GuardSteps
<1>2. CtlTypes
  BY BoundsHold DEF Init, CtlTypes, States
<1>3. LockInv /\ StreakInv
  BY DEF Init, LockInv, StreakInv
<1> QED BY <1>1, <1>2, <1>3 DEF CtlPart

(* CtlNext: every step keeps it. *)
LEMMA CtlNext == CtlInv /\ [Next]_vars => CtlInv'
<1> SUFFICES ASSUME CtlPart, GuardInv, [Next]_vars
             PROVE  CtlPart' /\ GuardInv'
  BY CtlParts DEF CtlInv, CtlPart, GuardInv, TypeOK, CtlTypes
<1>1. CASE PollEnds
  <2>1. CtlPart' /\ UNCHANGED guardVars
    BY <1>1, PollKeeps
  <2> QED BY <2>1, GuardsKeep DEF guardVars, agentVars
<1>2. CASE \/ FailoverStep \/ SwitchoverStep \/ Halt \/ Resume
           \/ \E n \in Node : SwitchoverCall(n)
  BY <1>2, OperationKeeps
<1>3. CASE \/ \E ok \in BOOLEAN : PollStarts(ok)
           \/ TimePasses \/ Agents \/ UNCHANGED vars
           \/ \E n \in Node : StatusArrives(n) \/ FenceLands(n)
                                \/ FenceGivenUp(n)
  BY <1>3, RestKeeps
<1> QED BY <1>1, <1>2, <1>3 DEF Next

(* TypeCorrect: every variable of the controller and the agents keeps its  *)
(* type; an operation in progress has a target.                            *)
THEOREM TypeCorrect == Spec => []TypeOK
<1>1. CtlInv => TypeOK
  BY DEF CtlInv
<1> QED BY <1>1, CtlInit, CtlNext, PTL DEF Spec

(* NamedCorrect: while a failover or a switchover has not promoted its     *)
(* winner, no agent is told that the old primary is the primary, unless    *)
(* the operator halted the set during this operation.                      *)
THEOREM NamedCorrect == Spec => []OldNotNamed
<1>1. CtlInv => OldNotNamed
  BY DEF CtlInv, LockInv, OldNotNamed, Answer
<1> QED BY <1>1, CtlInit, CtlNext, PTL DEF Spec

(* EvidenceCorrect: a failover is only of the node its evidence is about,  *)
(* however many operations a poll in flight outlives.                      *)
THEOREM EvidenceCorrect == Spec => FailsOverItsPrimary
<1>1. ASSUME CtlInv, [Next]_vars, op = "free", op' = "fo_fence"
      PROVE  about' = primary
  <2>0. CtlTypes /\ StreakInv
    BY <1>1, CtlParts DEF CtlPart
  <2>1. PollEnds
    <3>1. CASE FailoverStep \/ SwitchoverStep
      BY <1>1, <3>1
      DEF FailoverStep, FailoverFences, FailoverPromotes, FailoverHalts,
          SwitchoverStep, SwitchoverBegins, SwitchoverRefused,
          SwitchoverQuiesces, SwitchoverUnanswered, SwitchoverPromotes,
          SwitchoverGoesBack, SwitchoverHalts
    <3>2. CASE \E n \in Node : SwitchoverCall(n)
      BY <1>1, <3>2 DEF SwitchoverCall, Acquire
    <3>3. CASE Halt \/ Resume \/ TimePasses \/ Agents \/ UNCHANGED vars
      BY <1>1, <3>3 DEF Halt, Resume, TimePasses, Agents, ctlVars, vars,
                        lockVars
    <3>4. CASE \E ok \in BOOLEAN : PollStarts(ok)
      BY <1>1, <3>4 DEF PollStarts, lockVars
    <3>5. CASE \E n \in Node : StatusArrives(n) \/ FenceLands(n)
                                 \/ FenceGivenUp(n)
      BY <1>1, <3>5 DEF StatusArrives, FenceLands, FenceGivenUp, lockVars
    <3> QED BY <1>1, <3>1, <3>2, <3>3, <3>4, <3>5 DEF Next
  <2>2. PICK lost \in BOOLEAN :
          /\ poll # "none" /\ streak' = Enough
          /\ Observed(~probed /\ lost /\ poll # "nobody")
    BY <1>1, <2>1 DEF PollEnds, Discover, Reconcile, Suspect, lockVars
  <2>3. poll # "nobody" /\ about' = poll /\ about = poll
    BY <2>0, <2>2 DEF Observed
  <2> QED BY <2>0, <2>2, <2>3 DEF StreakInv, CtlTypes
<1>2. ASSUME CtlInv, [Next]_vars
      PROVE  [op = "free" /\ op' = "fo_fence" => about' = primary]_vars
  BY <1>1, <1>2
<1> QED BY <1>2, CtlInit, CtlNext, PTL DEF Spec, FailsOverItsPrimary

(* HaltCorrect: a halted set whose operation has ended names no primary,   *)
(* starts no operation and fences nobody.                                  *)
THEOREM HaltCorrect == Spec => HaltedDoesNothing
<1>1. ASSUME [Next]_vars, state = "HALTED", op = "free"
      PROVE  primary' = primary /\ op' = "free" /\ fencing' \subseteq fencing
  <2>1. CASE PollEnds
    BY <1>1, <2>1 DEF PollEnds, Idle, lockVars
  <2>2. CASE FailoverStep \/ SwitchoverStep
    BY <1>1, <2>2
    DEF FailoverStep, FailoverFences, FailoverPromotes, FailoverHalts,
        SwitchoverStep, SwitchoverBegins, SwitchoverRefused,
        SwitchoverQuiesces, SwitchoverUnanswered, SwitchoverPromotes,
        SwitchoverGoesBack, SwitchoverHalts
  <2>3. CASE \E n \in Node : SwitchoverCall(n)
    BY <1>1, <2>3 DEF SwitchoverCall, Idle
  <2>4. CASE Halt \/ Resume \/ TimePasses \/ Agents \/ UNCHANGED vars
    BY <1>1, <2>4 DEF Halt, Resume, TimePasses, Agents, ctlVars, vars,
                      lockVars
  <2>5. CASE \E ok \in BOOLEAN : PollStarts(ok)
    BY <1>1, <2>5 DEF PollStarts, lockVars
  <2>6. CASE \E n \in Node : StatusArrives(n) \/ FenceLands(n)
                               \/ FenceGivenUp(n)
    BY <1>1, <2>6 DEF StatusArrives, FenceLands, FenceGivenUp, lockVars
  <2> QED BY <1>1, <2>1, <2>2, <2>3, <2>4, <2>5, <2>6 DEF Next
<1>2. ASSUME [Next]_vars
      PROVE  [state = "HALTED" /\ op = "free" =>
                primary' = primary /\ op' = "free"
                  /\ fencing' \subseteq fencing]_vars
  BY <1>1, <1>2
<1> QED BY <1>2, PTL DEF Spec, HaltedDoesNothing

(* WakeCorrect: a node that was frozen with no guard running writes no     *)
(* heartbeat before it has asked the manager who is primary.               *)
THEOREM WakeCorrect == Spec => WokenWaits
<1>1. ASSUME CtlInv, [Next]_vars, NEW n \in doubt, hb[n] = "read"
      PROVE  hb'[n] # "write"
  <2>0. DoubtInv /\ hb \in [Node -> {"idle", "read", "write"}] /\ n \in Node
    BY <1>1 DEF CtlInv, TypeOK, GuardsTypeOK
  <2>1. GuardPending(n)
    BY <2>0 DEF DoubtInv, GuardPending
  <2>2. CASE hb' = hb
    BY <1>1, <2>2
  <2>3. ASSUME NEW m \in Node, AgentStep(m, Answer) \/ Wake(m)
        PROVE  hb'[n] # "write"
    <3>1. \/ hb' = hb \/ hb' = [hb EXCEPT ![m] = "idle"]
          \/ hb' = [hb EXCEPT ![m] = "read"]
          \/ HeartbeatWrites(m)
      BY <2>3
      DEF AgentStep, Wake, NoticeGap, GuardAsks, GuardDecides, GuardFences,
          HeartbeatReads, HeartbeatReturns, Freeze, Thaw, AgentStarts
    <3>2. CASE HeartbeatWrites(m)
      BY <1>1, <2>0, <2>1, <3>2 DEF HeartbeatWrites
    <3> QED BY <1>1, <2>0, <3>1, <3>2
  <2>4. hb' = hb \/ Agents
    <3>0. UNCHANGED guardVars \/ UNCHANGED agentVars => hb' = hb
      BY DEF guardVars, agentVars
    <3>1. CASE PollEnds
      BY <3>0, <3>1 DEF PollEnds
    <3>2. CASE FailoverStep
      BY <3>0, <3>2
      DEF FailoverStep, FailoverFences, FailoverPromotes, FailoverHalts
    <3>3. CASE SwitchoverStep
      BY <3>0, <3>3
      DEF SwitchoverStep, SwitchoverBegins, SwitchoverRefused,
          SwitchoverQuiesces, SwitchoverUnanswered, SwitchoverPromotes,
          SwitchoverGoesBack, SwitchoverHalts
    <3>4. CASE \/ Halt \/ Resume \/ TimePasses \/ UNCHANGED vars
               \/ \E m \in Node : SwitchoverCall(m)
      BY <3>0, <3>4 DEF Halt, Resume, TimePasses, SwitchoverCall, vars
    <3>5. CASE \/ \E ok \in BOOLEAN : PollStarts(ok)
               \/ \E m \in Node : StatusArrives(m) \/ FenceLands(m)
                                    \/ FenceGivenUp(m)
      BY <3>0, <3>5 DEF PollStarts, StatusArrives, FenceLands, FenceGivenUp
    <3> QED BY <1>1, <3>1, <3>2, <3>3, <3>4, <3>5 DEF Next
  <2> QED BY <2>2, <2>3, <2>4 DEF Agents
<1>2. ASSUME CtlInv, [Next]_vars
      PROVE  [\A n \in doubt : hb[n] = "read" => hb'[n] # "write"]_vars
  BY <1>1, <1>2
<1> QED BY <1>2, CtlInit, CtlNext, PTL DEF Spec, WokenWaits
=============================================================================
