------------------------------ MODULE Detector ------------------------------
(***************************************************************************)
(* The failure detector (manager/detector.py): a set's poll history as     *)
(* controller.py keeps it, and the verdict evaluate() reads from it.  A    *)
(* poll takes the primary's name when it starts and is recorded when it    *)
(* ends; in between an operation may adopt another primary.  The label     *)
(* that says how the primary died is left out.                             *)
(***************************************************************************)
EXTENDS FiniteSets, Integers, Sequences

CONSTANTS
    Member,         \* the set's nodes
    First,          \* its first primary
    Window,         \* detect_window_s
    Failures,       \* probe_failures
    MaxWindows,     \* HEARTBEAT_VOTE_MAX_WINDOWS
    Keep,           \* how long a poll stays in the history
    Naive,          \* TRUE: mode naive, which decides from the probe alone
    Answers,        \* the polls' answers: functions from Member to views
    Gaps,           \* bound: the times from one poll to the next
    MaxPolls,       \* bound: polls
    MaxAdoptions    \* bound: primaries adopted

ASSUME DetectorAssumption ==
    /\ IsFiniteSet(Member) /\ First \in Member /\ "none" \notin Member
    /\ Window \in Nat \ {0} /\ Failures \in Nat \ {0}
    /\ Keep \in Nat /\ Keep >= Window
    /\ Gaps \subseteq Nat

VARIABLES
    current,        \* ctl.primary
    history,        \* ctl.history
    poll,           \* the poll in flight, or NoPoll
    now,
    adoptions,
    polls,
    failing,        \* history: the polls in a row that found current's probe
                    \* failed, and the time of the first of them
    doubted         \* history: the same for most of those who can tell

detectorVars ==
    <<current, history, poll, now, adoptions, polls, failing, doubted>>

NoPoll == [ts |-> 0, primary |-> "none"]
NoStreak == [n |-> 0, since |-> 0]

(* A view of a node: does it answer, whom does it replicate from, do its   *)
(* IO thread and its connection check work, how old is its heartbeat row   *)
(* and how far behind is it.  Beside it stands what such a node can tell   *)
(* of its source, "gone", "there" or "nothing", which no code reads.       *)
Views == [usable : BOOLEAN, source : Member \cup {"none"}, io : BOOLEAN,
          reach : BOOLEAN, age : Nat, lag : Nat,
          tells : {"gone", "there", "nothing"}]

IsWitness(v, p) == v.usable /\ v.source = p

ReplicaVote(v, p) ==
    /\ IsWitness(v, p)
    /\ \/ ~v.io \/ ~v.reach
       \/ /\ v.age > Window
          /\ v.age - v.lag > Window
          /\ v.age - v.lag <= MaxWindows * Window

Witnesses(ob, p) == {m \in Member \ {p} : IsWitness(ob.nodes[m], p)}
Voters(ob, p) == {m \in Member \ {p} : ReplicaVote(ob.nodes[m], p)}

(* A strict majority of at least one witness. *)
Quorum(ob, p) ==
    2 * Cardinality(Voters(ob, p)) > Cardinality(Witnesses(ob, p))

ProbeFailed(ob, p) == ob.primary = p /\ ~ob.ok

Latest == history[Len(history)]

(* Back from the newest poll: how many of bad in a row, and for how long. *)
Run(bad) ==
    LET n == Len(history)
    IN  CHOOSE r \in 0 .. n : /\ n - r + 1 .. n \subseteq bad
                              /\ r < n => n - r \notin bad

Streak(bad) ==
    LET n == Len(history)
        r == Run(bad)
    IN  [n |-> r,
         for |-> IF r = 0 THEN 0 ELSE Latest.ts - history[n - r + 1].ts]

FailedIn(p) == {i \in DOMAIN history : ProbeFailed(history[i], p)}
DoubtedIn(p) ==
    {i \in DOMAIN history : history[i].primary = p /\ Quorum(history[i], p)}

(* Mutant: the quorum only has to hold in the newest poll. *)
DeadAtOnce ==
    /\ history # <<>>
    /\ LET p == Latest.primary
           probe == Streak(FailedIn(p))
       IN  /\ probe.n >= Failures
           /\ probe.for >= Window
           /\ Naive \/ Quorum(Latest, p)

Dead ==
    /\ history # <<>>
    /\ LET p == Latest.primary
           probe == Streak(FailedIn(p))
           votes == Streak(DoubtedIn(p))
       IN  /\ probe.n >= Failures
           /\ probe.for >= Window
           /\ Naive \/ (votes.n > 0 /\ votes.for >= Window)

-----------------------------------------------------------------------------
DetectorInit ==
    /\ current = First
    /\ history = <<>>
    /\ poll = NoPoll
    /\ now = 0
    /\ adoptions = 0 /\ polls = 0
    /\ failing = NoStreak /\ doubted = NoStreak

PollStarts(gap) ==
    /\ poll = NoPoll
    /\ polls < MaxPolls
    /\ polls' = polls + 1
    /\ now' = now + gap
    /\ poll' = [ts |-> now', primary |-> current]
    /\ UNCHANGED <<current, history, adoptions, failing, doubted>>

Longer(streak, bad) ==
    IF ~bad THEN NoStreak
    ELSE [n |-> streak.n + 1,
          since |-> IF streak.n = 0 THEN poll.ts ELSE streak.since]

Telling(nodes, p, word) ==
    Cardinality({m \in Member \ {p} :
                    nodes[m].source = p /\ nodes[m].tells = word})

(* The polls of h are too old for its last up to the one at first. *)
Recent(h, first) ==
    LET Old(i) == h[Len(h)].ts - h[i].ts > Keep
    IN  ~Old(first) /\ \A i \in 1 .. first - 1 : Old(i)

(* Recorded under the name it started with; then polls that are too old    *)
(* are dropped from the front.                                             *)
PollEnds(ok, nodes) ==
    /\ poll # NoPoll
    /\ LET ob == [ts |-> poll.ts, primary |-> poll.primary,
                  ok |-> ok, nodes |-> nodes]
           h == Append(history, ob)
       IN  /\ \E first \in DOMAIN h :
                 Recent(h, first) /\ history' = SubSeq(h, first, Len(h))
           /\ failing' = Longer(failing, ProbeFailed(ob, current))
           /\ doubted' = Longer(doubted,
                 /\ ob.primary = current
                 /\ Telling(nodes, current, "gone")
                    > Telling(nodes, current, "there"))
    /\ poll' = NoPoll
    /\ UNCHANGED <<current, now, adoptions, polls>>

(* A switchover or a failover is done: what was seen was about the old     *)
(* primary.                                                                *)
Adopt(p) ==
    /\ adoptions < MaxAdoptions
    /\ adoptions' = adoptions + 1
    /\ current' = p
    /\ history' = <<>>
    /\ failing' = NoStreak /\ doubted' = NoStreak
    /\ UNCHANGED <<poll, now, polls>>

DetectorNext ==
    \/ \E gap \in Gaps : PollStarts(gap)
    \/ \E ok \in BOOLEAN, nodes \in Answers : PollEnds(ok, nodes)
    \/ \E p \in Member \ {current} : Adopt(p)

Confirmed(streak, least) ==
    /\ streak.n >= least
    /\ history # <<>>
    /\ Latest.ts - streak.since >= Window

DetectorSpec == DetectorInit /\ [][DetectorNext]_detectorVars

(* The verdict is DEAD exactly when, without one poll to the contrary,     *)
(* the probe of the primary that is in charge now has failed often enough  *)
(* and for the window, and a majority of those that can testify about it   *)
(* has doubted it for the window too: no poll of an earlier primary, none  *)
(* that was dropped and none of a node that knows nothing counts.          *)
DeadIsConfirmed ==
    Dead <=> /\ Confirmed(failing, Failures)
             /\ Naive \/ Confirmed(doubted, 1)

-----------------------------------------------------------------------------
(* What it rests on. *)

(* A replica that is up takes its source for gone when it votes so, and    *)
(* for there when it does not.                                             *)
WitnessesTell ==
    \A nodes \in Answers, m \in Member :
        LET v == nodes[m]
        IN  v.source \in Member =>
              /\ v.tells = "gone" <=> ReplicaVote(v, v.source)
              /\ v.tells = "there" <=> /\ IsWitness(v, v.source)
                                       /\ ~ReplicaVote(v, v.source)

(* Polls that come often enough for the history: enough of them are in it, *)
(* and they reach back for a window.                                       *)
Often(gap) ==
    /\ \A g \in Gaps : g <= gap
    /\ gap + Window <= Keep + 1
    /\ gap * (Failures - 1) <= Keep

PollsOften == \E gap \in 0 .. Keep : Often(gap)
=============================================================================
