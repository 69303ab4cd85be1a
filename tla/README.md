# Verification of DBGuard

DBGuard (`dbguard/`) keeps small MySQL replica sets running: a manager watches
each set and fails it over to a replica when the primary dies, an agent beside
every `mysqld` changes that node's role, and GTID semi-synchronous replication
is what makes a failover lossless. This directory holds TLA+ models of that
code, the TLC configurations that check them on small replica sets, and TLAPS
proofs for every replica set.

## 1. Inventory

| Component | State it keeps | Operations | Talks to |
|---|---|---|---|
| data plane: `mysqld` under GTID semi-sync (`manager/fake.py` simulates it, `deploy/mysql/my.cnf` configures it) | executed, pending and retrieved transactions, source, IO and SQL thread, read-only and semi-sync switches | commit, receive, acknowledge, apply, crash recovery | the other servers, clients |
| winner selection (`manager/selection.py`, `model.py`) | none | `choose`, `candidate_problem` | failover, switchover |
| failover (`manager/failover.py`) | one run: fence task, fresh views, winner | fence, stop IO threads, choose, catch up, repoint, promote, record | agents, the set's state |
| switchover (`manager/switchover.py`) | one run: candidate, final set, replicas moved | quiesce, catch up to the final set, promote or promote back | agents, the set's state |
| discovery, bootstrap, cold start (`manager/bootstrap.py`) | none | find the primary, promote in place, set up a new set | agents, the set's state |
| agent (`agent/core.py`) | fence flag file, role lock and fence lock, `/primary` sample, lease and tick clocks | `/fence`, `/unfence`, `/promote`, `/repoint`, `/configure`, `/rebuild`, `/unstick`, wake guard, self-fence lease, heartbeat | its `mysqld`, the manager, HAProxy |
| supervisor (`agent/supervisor.py`) | the child, generation, restart hold, backoff | spawn, hold, release, kill, wait, stop | agent |
| database sessions (`agent/db.py`, `manager/probe.py`) | the idle pool, sessions lent, the probe's connection | lend, ask, give back, drop, retry | one `mysqld` |
| detection (`manager/detector.py`, `probe.py`) | the last observations | `evaluate` | controller |
| controller, state, status cache (`manager/controller.py`, `state.py`, `api.py`, `probe.py`) | `SetState`, lock, history, views, background tasks | tick, reconcile, halt, resume, who is primary | everything in the manager |
| rejoin, replacement (`manager/rejoin.py`, `replacement.py`) | one background task per node, one maintenance slot, the members | quiesce, errant check, clone, repoint, adopt the spare | agents, the set's state |
| GTID sets (`gtid.py`, `agent/gtidcount.py`) | none | parse, print, union, subtract, intersect, subset, count | all of the manager, agent |
| online schema change (`osc/`) | shadow table, triggers, chunk position | triggers, chunk copy, checksum, swap, clean up | the primary, application writers |
| event log (`events.py`) | a file, a ring in memory | append, reload | manager |
| workload and run checker (`harness/workload.py`, `checker.py`) | rows in flight, log of answers | insert, log, stop, join; verdicts | a set, through the proxy |

The chaos harness, the command line, `doctor`, metrics, authentication and the
deployment files hold no state of the system and are not modelled.

What makes this code hard: the fence runs concurrently with most of a failover;
every call to a node can be lost, late or cut short between two statements; a
killed primary comes back with transactions nobody acknowledged; nodes restart
at any time and start to replicate by themselves; the manager decides from
views that are a poll old, and may crash in the middle of what it does; an
operator can halt a set in the middle of an action; a frozen node wakes up as
the primary it once was; background tasks and the poll change the same set;
application writes race the chunk copy of a schema change. `PROJECT.json` lists
the hazards with their lines and the properties for each.

What makes each component correct, in a sentence: a failover loses no
acknowledged write, leaves one writer and ends; so does a switchover, wherever
the manager crashes in it; an agent that said "fenced" stays read-only until
told otherwise; a held `mysqld` stays down and a released one comes back; a
primary is declared dead exactly when probe and replicas agreed for the whole
window; the manager never names a node primary that it is failing away from; a
rejoined node holds nothing its source lacks; a lost replica is replaced; a
session gives every statement its own answer; a schema change swaps in a table
that equals the original; the event log forgets nothing; the checker accuses
nobody wrongly.

## 2. Plan

Everything below exists but the last list; sections 3 and 4 say what it shows.

1. `Selection`, `Fleet`, `Failover` with `MCFailover`; `FleetProofs` and
   `FailoverProofs`; the abstract log `LosslessLog`, which `Failover`
   implements.
2. `Supervisor` and `Agent`; `AgentProofs`, and the supervisor in `PartProofs`.
3. `Rejoin` and `Switchover` (with cold start, discovery and bootstrap) on top
   of `Fleet`, reusing its handlers; `RejoinProofs` and `SwitchoverProofs`.
4. `Controller` on top of `Guards`: the set's state machine and the agents that
   ask it who is primary; `ControllerProofs`.
5. `SchemaChange`: the triggers, the chunk copy, the checksum, the swap and the
   clean-up against application writers; `SchemaChangeProofs`.
6. `Gtid`, `Detector`, `Lease`, `EventLog`, `Workload`, `Sessions` and
   `Replacement`: parts with little or no state in common with the rest, checked
   side by side in `MCEvidence`; `PartProofs`, about the supervisor and five of
   them.

Composition: `Failover`, `Rejoin` and `Switchover` extend `Fleet`, which extends
`Selection`. `Controller` extends `Guards`. `MCEvidence` extends the seven
modules of line 6. `Supervisor`, `Agent` and `SchemaChange` stand alone: one
node, one table.

Left:

- Theorems for more than one failover with data: `Lossless` and `JoinedClean`
  do not hold there as they stand (section 3), so the question is what does.
- A refinement from the statements of `Agent` to the handlers of `Fleet`, and
  from `Controller`'s two steps of a failover to `Failover`.
- A failover inside a rejoin, which `Rejoin` has only as two steps between its
  tasks' awaits, and a manager restart inside a replacement.

## 3. What is modelled and checked

| Run | What it asks | What it shows |
|---|---|---|
| `FailoverLossless` | two writes, one failover, an agent that may not answer | `Lossless`, `NoErrantReplica`, `NoFalseHalt`, `TypeOK`; the run implements `LosslessLog`. |
| `FailoverFencing` | two failovers, all faults but a cut stream and a stuck applier | `SingleWriter`. |
| `FailoverEnds` | a lost fence, a failed STOP REPLICA, a cut stream, a stuck applier | Every run ends promoted or halted; replicas are stopped, or the old primary is fenced, when the winner is chosen. |
| `Supervisor` | crashes, failing starts, kill fences | Holds are kept and end, nothing is left behind, a dead `mysqld` comes back. |
| `Agent` | hung and restarting `mysqld`, role changes cut short | `NoLoneAck`, `FenceStands`, `RoutedToPrimary`. |
| `Rejoin` | one failover, one request, fences that fail, one failing call | Nodes join clean, the primary stays, all join in the end. |
| `Switchover` | one switchover, one crash of the manager, one restart of any servers | `Kept`, `SingleWriter`, `NoErrantReplica`. |
| `Controller` | a failover, a switchover, a halt, a freeze | Nobody is told of the old primary, a halt is a halt, two writers end. |
| `SchemaChange` | two runs that are interrupted or die at any statement, an operator's clean-up | Application writes survive unless a dead run's CREATE TRIGGER outlives it, the table keeps its rows, the run ends if the load subsides. |
| `Evidence` | the seven small modules | One property each, see below. |
| `FindSwitchoverKill`, `FindSpareTwice` | | Disagreements between the code and what it says of itself, see Findings. |

### The data plane: `Fleet` and `Selection`

`Fleet` is every node's `mysqld` with the handlers of the agent beside it.
`node[n]` has the fields of the repository's own simulation
(`manager/fake.py`): executed, pending (binlogged, waiting for its ack),
retrieved, the source, the IO and SQL threads, the read-only and semi-sync
switches, and the agent's fence flag. A write is a number in commit order.
`Commit`, `Receive`, `Apply`, `Ack` are clients and replication; `Restart` is a
crash followed by recovery, which commits what was pending and discards the
relay log. A server that is hung, down or cut off takes no step, and since no
step has to happen there is no state for it. The handlers `/fence` (by SQL or by
kill), `/promote`, `/repoint` and `/configure` are operators on a node's state,
each also cut short where a deadline can cut it.

`Selection` is `candidate_problem` and `choose` as operators on views. GTID sets
are sets; ties that the code breaks by node order may go either way.

### A failover: `Failover` and `LosslessLog`

One run of `failover.py` step by step: the background fence, the parallel STOP
REPLICA calls, the fresh views, choice, catch-up, the parallel repoints, the wait
for the fence, promotion. `pc` is the step; every call to a node is a step of its
own, so clients, replication, crashes and the fence interleave with all of it. A
run may start at any time, also when the primary is alive and reachable by its
clients, which is what a partition between it and the manager is. A call can
fail before it took effect, in the middle, or with only its answer lost. `Faults`
names what else may happen, so that a run says exactly what it assumes.

Bounds. Three nodes are the product's set size and the least with a majority of
replicas that can differ. Two writes give two replicas that hold different
prefixes and a relay log with an applied and an unapplied part; one write is
enough where the question is whether it survives; `FailoverFencing` has none
because `SingleWriter` does not depend on data, and two failovers because the
second starts from what the first left behind. Symmetry permutes the replicas
and is left out of the liveness run.

`Lossless` excuses a write in `lost`: one that no replica that answered held when
the winner was chosen, or that only a replica that did not answer acknowledged
later. This is a second failure, which one-ack semi-sync does not promise to
survive.

`LosslessLog` is what all of this promises to clients: one log with at most one
owner, which only grows while it has one, answers nothing that is not in it, and
comes back under a new owner with every answered write. `Failover` implements it
with the owner mapped to the primary in charge (`InCharge`: no run is between its
start and its promotion, and the set has not halted), the log to that node's
binary log, and the answered writes to `acked` without `lost`. Without an owner
the abstract log may become any log that keeps the answered writes: a halted set
may have a writable winner nobody names.

Fairness. `WF(ManagerStep)`: every await of a failover run has a timeout or a
deadline of its own, so a run that can take a step takes one. Nothing is assumed
of clients, replication, agents or servers.

### The supervisor: `Supervisor`

The loop of `supervisor.py` between its awaits (`spawn`, `wait`, `hold`,
`backoff`), the process, the hold and whether it is due, kill and stop, and the
calls of the agent that wait for a new `mysqld`. Everything runs in one event
loop, so a handler is atomic between two awaits. Run `Supervisor` checks that a
hold is kept, a role change that ends it is served, a crash loop is slowed down,
a stopped agent leaves nothing behind and a dead `mysqld` comes back. `MaxGen`
bounds the processes started to four: one killed and held, one crashed, one
asked to restart, and a last. Fairness: the loop runs, time passes, a signalled
process dies, and a program started again and again starts in the end. The last
is strong fairness of `Spawn`, since a start may fail any number of times.

### The role changes of one agent: `Agent`

The programs of `/promote`, `/repoint`, `/configure` and `/rebuild` as sequences
of statements, run under the role lock by `RunsStatement`, against `/fence` and
`/unfence`, which take the fence lock only, and a `mysqld` that crashes, hangs
and restarts. A handler can lose its session (`Fails`), run into its deadline
(`GivenUp`) and leave a statement behind that a hung `mysqld` executes later
(`ExecutesLate`). A restarted container keeps only the flag file. `Sample`,
`Primary` and `Route` are the sampled answer of `/primary` and what HAProxy
makes of it.

Run `Agent` checks that no write is answered before a replica has it
(`NoLoneAck`), that an answered fence stands until a promote or an unfence
(`FenceStands`), and that clients are never routed to a node a rebuild has opened
for its clone (`RoutedToPrimary`). There is nothing to bound: one node, one
waiting commit, and a sequence of role changes that never ends. What it assumes,
each a member of `Faults` that the run leaves out because TLC finds the property
violated with it:

- `overlap`: `/fence` and `/promote` of one node at the same time. They share no
  lock until `/promote` clears the flag (`core.py:637`), so a fence can be
  answered and its node left writable or its flag cleared. The manager awaits
  the fence and promotes another node.
- `configure_flagged`: `/configure` between the flag and the read-only SET of a
  fence takes the node for a replica; a session that starts to wait behind its
  check is released by the SET. Nothing in the manager sends it then.
- `rebuild_times_out`: a clone that runs into its timeout closes the session
  whose statement would make the node read-only again (`core.py:799-805`
  against `777-780`), and clients are routed to it.

### Bringing nodes back: `Rejoin`

One background task per node, as the manager has them, and one for the rejoin an
operator asks for, which holds the set's lock; `task[a].at` is the await a task
is in. `FenceSecond` is a second writer's fence; `Look` to `Repoint` are
`rejoin_node`, `Watch` and `WatchPrimary` the reads behind a repoint,
`StartRebuild` and `SlotGivesUp` the wait for the one maintenance slot and for a
donor, `Unstick`, `Clone` and `Join` the rebuild in it. Clients, replication,
restarts of a former primary and the other tasks come between any two of them; a
call can fail, be cut short, or lose its answer. The failover is two steps
(`Elect`, `Adopt`), because `Failover` has what happens inside.

Run `Rejoin` starts from a healthy set, with one write, one failover, one
request, one failing call and fences that fail. The write is what it takes:
binlogged on the old primary, on one replica or none, acknowledged or not, it is
held by nodes the winner does not agree with. `JoinedClean` says that an
unwatched streaming node holds nothing the primary lacks, `PrimaryStays` that
the primary is neither fenced nor repointed, `AllJoin` that in the end every
member replicates, also when both replicas need a clone and only the stalled
primary can give it. The watch reads twice instead of ten times: two errant
reads in a row are what it acts on. Fairness: the poll goes on, every await of a
task ends, so does a failover that has promoted, and the set's lock, which is
fair, is taken when free. It is also assumed that nodes answer the poll, and
nothing of clients or replication.

What the run leaves out, each because TLC finds a property violated with it:

- `mid_rejoin`, a failover while a rejoin runs, or one that promotes a node
  whose rejoin waits for the lock: a request to rejoin a node is checked in front
  of the set's lock (`api.py:111-113`) and fences the node although the failover
  has just promoted it; and with two failovers the same through the primary that
  `rejoin_node` captured (`rejoin.py:162`, `186`).
- `busy_node`, an operator's rejoin of a node that has a task of its own: behind
  the operator's repoint the watch is not started (`rejoin.py:199`), and a write
  committed between the quiesce and the repoint stays unseen (`JoinedClean`).
- `tail`, a replica that no failover could reach and that still applies its
  relay log: quiesce compares executed sets, so the node attaches, is watched,
  and can be picked as a donor meanwhile; its clone is never watched
  (`JoinedClean`).
- More than one failover: a node still attached to an earlier primary that
  becomes primary again counts as its replica (`needs_rejoin` looks at the
  source's name only), with what the primary lost in a rebuild or the node got
  while it missed both failovers (`JoinedClean`); and without a writable primary
  nobody can donate until a cold start (`AllJoin`).
- `fence_fails` with two failing calls: a repoint whose answer is lost is not
  watched (`rejoin.py:186-191` returns, and the next round finds a good replica),
  so a write that committed behind the quiesce of an unfenced node stays unseen
  (`JoinedClean`).
- `fence_fails` with two writes and a failing call: a repointed node that is still
  watched counts as a healthy replica and may be the donor of another
  (`rejoin.py:230-240`, `controller.py:405`), whose clone nobody watches
  (`JoinedClean`).

### Switchover and a starting manager: `Switchover`

`pc` is the step of `switchover.py`: the fresh views and the choice, the replicas
moved under the candidate while the old primary still writes, the quiesce, the
catch-up to its final set with the errant check, the promotion, and where one of
them fails the promote back. The manager may crash in front of and behind every
call; a new one discovers the primary, starts a set in which every node is
read-only (`cold_start_choice`), bootstraps a brand-new one, or halts. Servers may
restart all at once, which is what a cold start is for. A fence whose answer was
lost may land later. The promotion and the fence of one node exclude each other
as the agent's locks make them.

Run `Switchover` has one write, which is enough to tell a candidate that lacks
it, one switchover, one crash of the manager and one restart of any number of
servers. `Kept` says that whoever the manager takes for the primary has every
answered write; it excuses a candidate that was promoted without the old
primary's final set, which `FindSwitchoverKill` is about. `SingleWriter` is
stronger than that of a failover: nothing is given up on. With `MaxRestarts` = 2
(4.1 million states) and, as far as it was run, two writes, the properties hold.

### The set's controller and the agents' guards: `Controller`, `Guards`

`Controller` has the tick as the manager runs it: a poll that takes the primary's
name and ends later (`PollStarts`, `PollEnds`), the one decision under the set's
lock, views that arrive by themselves (`StatusArrives`), the cooldown, failover
and switchover as the steps in which they change what the controller knows, and
the background fence of a second writer. `Halt` and `Resume` take no lock, as in
`api.py`. Its answer to `/primary` is what `Guards` asks: a node is frozen and
thawed anywhere (`Freeze`, `Thaw`), notices the gap in its clock, and its wake
guard asks before the heartbeat may write; `guard[n]` and `hb[n]` are the awaits
of the two loops.

Run `Controller` has two nodes, of which each can be the old primary, one of
every event, two polls that make a streak, and a cooldown of one step.
`OldNotNamed`, `FailsOverItsPrimary`, `HaltedDoesNothing` and `WokenWaits` are
about the interleavings of these; `TwoWritersEnd` is liveness. Fairness: ticks,
operations, pollers and deadlines end; the probe of a live primary succeeds again
and again, and so does the fence of an agent that keeps answering (strong
fairness). Heartbeats are followed for the first primary only, which keeps the
other nodes' loops out of the product.

### The schema change: `SchemaChange`

`pc` is the statement the run sends next, `mem` what the runner remembers,
`rows` and `base` the rows of the two table objects with and without open
transactions, `held` the row locks. Triggers fire inside the writer's
transaction. A statement can wait for a lock until it times out and is retried,
be interrupted and go on executing on the server (`inflight`; `late` is who sent
it) until the clean-up's KILL or until it is through (`LateStatement`), and the
runner can die. Of two runs that both left a statement behind one is followed.
`Start` with `Preflight` refuses what an earlier run left behind, `CleanupStart`
to `CleanupStops` are the operator's clean-up of it, which looks for triggers
once (`found`). Neither asks what of an earlier run is still executing, nor does
the code. What holds them up is the server: statements wait in the queue of a
metadata lock behind those that asked before (`Locks`, `Queued`, which are an
assumption about MySQL). A KILL is asynchronous too; what a run's own KILL does
not reach in time stands in front of that run's DROPs in the same queue, so the
model lets it end at the KILL or not at all.

The throttle pauses without bound (`Pause`): while the load or the lag is above
its limit or the lag is unknown, `Throttle.wait` (`runner.py:346-358`) asks again
and again. `OSC.md:147` reports a run that paused 555 s and was stopped by hand.

The run has two keys, which make two chunks, two values, one application session
with two statements, two runs and all three faults. `ChecksumStands` is why the
swap may come after the checksum: what was equal stays equal. `MismatchHasCause`
says the checksum blames no honest copy. `OnlyCommitsChangeRows` is what the
application sees, `WritesSurvive` what it does not: a trigger into a table that
is gone. It has one exception, `outlived`, a CREATE TRIGGER that was still
executing when an operator's clean-up or another run began (see Findings).
`RunEnds` needs that the runner goes on (`WF_vars(Run)`) and that the throttle,
which asks again and again, finds the load and the lag below their limits at some
time (`SF_vars(Resume)`). It needs nothing of the application's locks, which may
be kept for ever.

### Seven small parts: `MCEvidence`

The parts share no state, so in one behaviour only one of them moves, chosen at
the start. Each property follows a history of operations, not one call. Five
parts have a specification of their own as well (`WorkloadSpec`, `LeaseSpec`,
`SessionsSpec`, `EventLogSpec`, `DetectorSpec`), which is what the theorems are
about.

- `Gtid`: two registers of interval sets, read from text or computed from one
  another, beside the plain sets. `SetsAgree`: whatever was computed from
  whatever, subset, count, membership, the agent's own count and the way through
  text have the plain set's answer. Texts of up to two intervals over five
  numbers have every way to touch, nest and overlap.
- `Detector`: polls that start, end and are pruned, and a primary adopted in
  between. `DeadIsConfirmed` compares `evaluate` with two streaks that are kept
  forwards as the polls come in. A window of two time units, a history of three
  and gaps of one or two have polls that fall out of the window while they still
  count. Two assumptions name what it rests on, and TLC evaluates both for the
  run: `WitnessesTell`, that the views are those of replicas that know what they
  say, and `PollsOften`, that the history holds enough polls. Nothing in the
  manager ties the history (`controller.py:161`) to `probe_failures`: a set that
  asks for more failures in a row than the history holds never fails over. The
  defaults hold three failures with polls up to seven seconds apart.
- `Lease`: the self-fence lease, whose check reads clients, then waits for the
  manager. `LeaseHolds`: no primary that any check must have seen in contact is
  fenced, and one that is alone is fenced within `Late`. Other proportions of
  lease, interval and timeout (6, 2, 2), (5, 1, 2), (3, 2, 2) show the same.
- `EventLog`: appends, crashes and failing writes in the middle of one, which
  leave nothing of a line, a part, all but its newline or all, and starts.
  `NoEventLost`: every event that was answered is on a line of its own and once,
  and the ring has what the file would give. Four events overflow the ring of
  two, two crashes leave two torn lines.
- `Workload`: the clients of `harness/workload.py`, whose row is in flight, in
  the cluster and in the log at different times, and the checker's two verdicts
  over the log. `VerdictTrue`: a cluster that lost nothing is not accused.
- `Sessions`: the agent's pool and the probe's connection to one `mysqld` that
  restarts (`Restarts`) or whose sessions a fence KILLs (`Kills`,
  `core.py:557-572`), with answers in the order of the statements. After a KILL
  the client loses its link at once while the statement goes on until it looks,
  and `_sql` sends the body again. `OwnAnswers`: every statement gets its own
  answer, no session is in two hands or lost, and where one request is executed
  in two sessions one of them has lost its link; what timed out or was cancelled
  is never sent again. Three sessions are one per task and one for the probe, or
  for a task that opens another.
- `Replacement`: members, HEALTHY and DEGRADED, and the task that provisions,
  clones, repoints and adopts the spare beside the poll, deaths, a failover and
  rejoins. `Replaced` is liveness: the set has its replicas again, or halts. One
  death needs the spare; the trouble is a call that fails at any step of the
  replacement, or a primary that is alive and failed over, which may promote the
  captured donor. Fairness: the poll, the task's timeouts, rejoins and time go
  on. With two troubles (0.9 million states) it still holds.

### Findings

| Run | What happens |
|---|---|
| `FindSwitchoverKill` | A quiesce that ends by killing `mysqld` returns no final set, and the candidate is promoted once it has applied its own relay log, without a write another replica acknowledged. |
| `FindSpareTwice` | The poll adopts the spare while the replacement is about to: it is a member twice, and a set with one replica left counts as HEALTHY. |

More of what TLC showed with other constants than the runs have, by module.

`Failover`:

- `{"failed_stop_answers", "fence_unreachable"}` break `Lossless`: a replica on
  which STOP REPLICA failed acknowledges a write after the winner was chosen,
  when the fence ended without an answer (`failover.py:226-230` against `50-52`).
  With `failed_stop_answers` alone `Lossless` holds in a set of three, where
  waiting for the fence is enough (section 4), and `NoErrantReplica` does not.
  With four nodes and one write `Lossless` is broken too: the replica whose stop
  failed fetches, after it was read, a write that only a replica without an
  answer has acknowledged, and another replica is promoted.
- `restart_in_run` breaks `Lossless`: the winner restarts after the choice,
  replicates and acknowledges again by itself, and promotion drops its relay log
  (the comment at `failover.py:213`).
- `MaxFailovers` = 2 breaks `NoErrantReplica`: repoint targets every node that
  answers, candidate or not (`failover.py:280-283`), so the old primary of an
  earlier failover is attached with its phantom write. It also breaks
  `Lossless`, when an acknowledged write is held only by the dead new primary
  and by the old one, which answers, is fenced and no candidate, while the third
  node was never repointed. The cooldown makes both unlikely.
- `partial_relay` or `sql_error` break `Lossless`: a partial transaction counts
  as held, and a write may be only on a replica that is no candidate because its
  applier stopped.
- `stale_view` breaks `StoppedOrFenced`: IO threads are stopped on the nodes the
  last poll found usable (`failover.py:222`), the choice is made among those
  that answer now.

`Supervisor`: `fence_while_down` breaks `HoldKept`. A kill fence that finds
`mysqld` down sets a hold that the supervisor, sleeping out a backoff
(`supervisor.py:155`), does not look at; the hold stays set beside the new
`mysqld`, and the next role change waits for a newer one until its deadline.

`Switchover`:

- "could not quiesce, nothing changed" (`switchover.py:129-131`) is said although
  the fence may land afterwards. The set is then read-only and a cold start
  brings it back.
- After a kill, the old primary recovers writes nobody acknowledged and is
  repointed under the new one without a subset check.
- Two switchovers keep one writer only because a background repoint that comes
  late waits for the agent's role lock.
- Without a second usable answer of the candidate the errant check behind the
  wait is skipped.
- With four members TLC breaks `SingleWriter`: two replicas are moved under the
  candidate, the manager crashes, and the next one, which does not reach the old
  primary, finds everybody it reaches read-only and following the candidate and
  promotes it, beside an old primary that never stopped being writable. Three
  members are safe (section 4).

`Controller` and `Guards`:

- A halt, or a halt and a resume, of a running failover makes `/primary` name the
  old primary (`api.py:62-66`); `OldNotNamed` leaves that out (`meddled`). A halt
  while a switchover reads its views does not stop it.
- The wake guard may fence a node that has just been promoted (`core.py:958`).
- A guard that is running when the node freezes does not run again for it;
  `WokenWaits` leaves that out.
- A view is stamped when its answer arrives (`client.py:150`), not when the agent
  read it, so a view from before an action may count as one from after it
  (`probe.py:266-270`). The background fence of a second writer may reach a node
  that a switchover back has promoted (`rejoin.py:99`).
- `SetController.primary` says it is None while failing over
  (`controller.py:84`); it is not.

`SchemaChange`:

- Without its exception `outlived`, `WritesSurvive` is broken. A run is killed by
  SIGKILL while its CREATE TRIGGER waits for the metadata lock. `cleanup`
  (`runner.py:780-802`) KILLs nothing, finds no trigger and drops the shadow; then
  the trigger is created, and every write of its kind fails. The docstring
  (`runner.py:782`) says "Removes what a failed or interrupted run left behind,
  triggers before the shadow", and `OSC.md:109` gives failing writes as the reason
  for that order. Another run, which preflight lets begin, cannot drop that
  trigger with its own clean-up either (`CleanupLeavesNothing`): it drops only
  those it recorded.
- `Alters` = `{"unique"}` with three statements and no fault breaks
  `OnlyCommitsChangeRows`: a duplicate inserted between the checksum and the swap
  replaces the older row in the shadow (`runner.py:199`), where `OSC.md:42` and
  `runner.py:136` have the run refuse.
- `Alters` = `{"type"}` breaks it too, as `OSC.md:95` concedes: values are not
  compared.
- An interrupt during CREATE TABLE leaves the shadow behind (`runner.py:537`),
  although `OSC.md:23` and `109` say nothing is left; `CleanupLeavesNothing`
  leaves that out (`created_shadow`).

`Replacement`: the donor is captured before provisioning (`replacement.py:101`),
which may take minutes; promoted meanwhile, it has its client sessions killed or
the set halts (`rejoin.py:351-370`), although the module says "never the
primary". The repoint of the spare goes to the primary of that moment, during a
failover still the old one (`rejoin.py:396`), and the spare may acknowledge the
old primary's writes. A spare that is listed twice counts twice in `evaluate` and
in the failover's repoints.

`EventLog`: a write that fails half way without a crash glues the next event to
it (`events.py:183`); `NoEventLost` leaves out that event. `Workload`:
`LateConnect` breaks `VerdictTrue`, a client whose connect outlasts the join
inserts a row that is in no log (`workload.py:167-178`). `Sessions`: `_sql`
retries once, so with two stale sessions in the pool a call fails although
`mysqld` is up, and a session lent over a restart returns to the pool after
`drop_idle`. Its docstring speaks of a stale pooled link, but it retries after
any 2013 (`core.py:194-205`), also when a fence KILLs the session in the middle
of a statement, and then the body may be executed twice at once: with no
exception for a lost link `OwnAnswers` is broken. The bodies sent through `_sql`
are reads and the repeatable statements behind a clone (`core.py:830-843`).

## 4. What is proved

The proofs hold for every value of the constants: every set of nodes, every
number of writes, failovers, sessions and so on, and every choice of `Faults`,
unless an assumption is named. No property below is inductive as it stands; the
text says what its inductive invariant adds.

`FailoverProofs`, on the facts about the data plane in `FleetProofs`:

- `TypeCorrect`.
- `WriterCorrect` (`SingleWriter`), for all faults and any number of failovers.
  `WriterInv` adds that nothing but the primary, nodes whose fence was given up
  on and a winner whose promote was answered too late is writable, that a fence
  that answered has taken effect, and that nothing is promoted before the fence
  has ended.
- `LosslessCorrect` (`Lossless`), for the first failover with no fault but an
  agent that does not answer or, in a set of three, no fault but replicas that
  answer although their STOP REPLICA failed (`FirstFailover`). `LosslessInv`
  follows the run: until the choice the replicas hold parts of what the primary
  holds (`IntactInv`), a confirmed stop stays (`StoppedInv`), so a view says what
  its node holds (`ViewInv`); from the choice on only replicas that did not answer
  can still receive, and the winner holds every write that counts (`ChosenInv`),
  which catch-up makes executed and promotion keeps (`PromotedInv`). Where a stop
  failed, the fence has taken effect before anybody is read (`SealInv`): whoever
  fetches afterwards acknowledges nothing, and a write is in the answer of the
  one that acknowledged it, if that one answered (`ShownInv`). The assumption is
  needed: section 3 lists the faults, the set of four and the second failover
  with which TLC breaks it.
- `LogCorrect`: under the same assumption every step of `Failover` is a step of
  `LosslessLog` or leaves its variables alone. It rests on `LosslessInv`: the
  owner is taken away before anything is chosen and comes back with the winner's
  log, which by then has every answered write.
- `ErrantCorrect` (`NoErrantReplica`), under the same assumption and with every
  stop confirmed, without which TLC breaks it. `ErrantInv`
  adds that what is about to be repointed answered before the choice, has
  stopped receiving and holds no more than the winner.
- `HaltCorrect` (`NoFalseHalt`), for the first failover under every fault.
  `PrefixInv`: writes are numbered in commit order, and up to the choice every
  replica has applied, has fetched and has shown a prefix of what the primary
  committed, so two answers of different moments are comparable.
- `StoppedCorrect` (`StoppedOrFenced`), without `stale_view` and
  `restart_in_run`, and for one failover if a fence may go unanswered
  (`StopsHold`). `StopInv`: a confirmed stop lasts as long as the run needs it,
  and no fence is on its way to a node that is not the primary. A fence left
  over from one failover is what the second would meet.

`SwitchoverProofs`:

- `TypeCorrect`, for every set.
- `WriterCorrect` (`SingleWriter`), `KeptCorrect` (`Kept`), `ErrantCorrect`
  (`NoErrantReplica`), for a primary and at most two replicas (`SmallSet`), any
  number of writes, switchovers, crashes of the manager and restarts. This is
  the set the product deploys (`deploy/fleet.yaml:19`), and the assumption is
  needed: section 3 has TLC's counterexample with four. `WriterInv`: only the
  primary may be writable until its fence has ended, and nobody is while another
  is promoted or a set is started. A new manager believes replicas that agree on
  a source; in a small set they are all the other nodes (`AgreedNamed`).
  `HeadInv` does for data what `WriterInv` does for writing: whoever is
  writable, primary, about to be promoted or followed by all others has
  everything that anybody has; `ChoreInv` says what a background repoint that
  comes late may find, and `AckedInv` that an answered write is in some binary
  log.

`ControllerProofs`, for any set and any number of events, from `CtlInv`:

- `TypeCorrect`.
- `NamedCorrect` (`OldNotNamed`): the state that makes `/primary` answer nobody
  is kept by every tick while an operation runs (`LockInv`).
- `EvidenceCorrect` (`FailsOverItsPrimary`): bad polls of a node that is no
  longer primary were the last of it, and one more is not enough (`StreakInv`;
  this is why a streak has to be longer than one).
- `HaltCorrect` (`HaltedDoesNothing`).
- `WakeCorrect` (`WokenWaits`): a thawed node has its guard before it, or the
  guard has not asked yet (`DoubtInv`).

`SchemaChangeProofs`:

- `TypeCorrect`, `SurviveCorrect` (`WritesSurvive`), `CleanupCorrect`
  (`CleanupLeavesNothing`), for every kind of ALTER, both with the exception of a
  CREATE TRIGGER that outlives its run (section 3). `ControlInv` has what each
  statement finds when it is executed, in time or late (`PhaseInv`), that what
  the run remembers covers what its clean-up must undo (`MemoryInv`), and how far
  a run gets while a statement of an earlier one is executing: the stray
  statement holds or queues for the table's lock, so the run stays in front of
  its own CREATE TABLE or fails there (`StrayInv`).
- `ChecksumCorrect` (`ChecksumStands`), `MismatchCorrect` (`MismatchHasCause`),
  `RowsCorrect` (`OnlyCommitsChangeRows`), for an ALTER that changes no type and
  adds no UNIQUE key (`PlainOnly`): the other two may lose rows (section 3).
  `DataInv` has that a row nobody locks is as committed (`LockInv`), that a row of
  the shadow is absent or right unless a write went past the triggers, and every
  open write is mirrored once all three exist (`ShadowInv`), that the copied keys
  and those above the last one are equal (`CopyInv`), and that what the checksum
  has passed is equal and the range it is in is locked (`SumInv`).

`RejoinProofs`, for any number of members, writes, requests and failing calls:

- `TypeCorrect`, for every fault.
- `StaysCorrect` (`PrimaryStays`), for any number of failovers that wait for the
  rejoins that run, that is without `mid_rejoin`. `StayInv`: no task and no
  rebuild works on the primary or on a node that is being promoted, the node in
  charge is not fenced and follows nobody, and while a winner is promoted no
  rejoin is under way.
- `CleanCorrect` (`JoinedClean`), for one failover, without `mid_rejoin`, `tail`
  and `fence_fails` (`Calm`); each is needed (section 3). `NodesInv` compares every
  node with the log of the node in charge (`Clean`), `TasksInv` says how far each
  task has come with its node: a node that was read twice is still and has
  applied only what was read, and what is repointed has nothing the log has not
  (`TaskFit`); `MaintInv` that a donor is the primary or follows it, and a clone
  has nothing that it lacks. `busy_node` may happen: what it breaks also takes a
  failing fence.

`PartProofs`, about the supervisor:

- `StopCorrect`: the types, and where the loop is relative to the process.
- `NothingLeft` (`StopLeavesNothing`).
- `HoldCorrect` (`HoldKept`) and `RoleChangeCorrect` (`RoleChangeServed`), as long
  as every kill fence finds a `mysqld` to kill, which the fault
  `fence_while_down` shows is needed. `HoldInv`: a hold is set only while the
  `mysqld` it was set for is on its way down or held down.
- `RestartCorrect` (`NoFreeRestart`), for every fault: the immediate restart that
  a kill asks for is spent on the `mysqld` that was killed (`KillInv`).

and about five parts of `MCEvidence`:

- `VerdictCorrect` (`VerdictTrue`), if no connect outlasts the join (section 3):
  what is acknowledged has landed, what has landed was sent, what was sent is in
  the log or still in flight (`LogInv`), and a row in flight whose client the
  closing workload has examined is in the log (`ExamineInv`).
- `LeaseCorrect` (`LeaseHolds`), for every length of lease, sleep and timeout:
  how long the primary can have been alone is bounded in each phase of the count
  (`AloneInv`), and while it counts no contact has lasted a whole cycle
  (`ContactInv`).
- `AnswersCorrect` (`OwnAnswers`): a session is in the pool, with one task or the
  probe's (`PoolInv`, `TaskInv`, `OwnedInv`), one that can be used again owes no
  answer but the one waited for (`WireInv`), and a request is sent again only
  after the session it was in has lost its link (`ExecInv`, `InOnly`).
- `LogCorrect` (`NoEventLost`), for any number of events, crashes and failing
  writes and every length of the ring. `EventsInv`: the events rise along the file
  and only the newest is being written (`FileInv`), what was answered is in the
  file and not on an open last line (`DoneInv`), and what the ring holds is the
  end of the file with the event being written (`RingInv`).
- `DetectorCorrect` (`DeadIsConfirmed`), for every window, number of failures,
  history and answers with `WitnessesTell` and `PollsOften` (section 3). The code
  counts backwards over a history that forgets, the streaks count forwards over
  all polls; `FollowInv` relates them: the last polls of the history are the
  streak, or all of the history is and reaches back far enough (`Follows`).
  `NameInv`: only the poll that was under way when a primary was adopted names
  another one.

`AgentProofs`:

- `AgentTypes`: the types, which therefore are in no run.
- `AckedCorrect`, `FenceCorrect`, `RoutedCorrect` (`NoLoneAck`, `FenceStands`,
  `RoutedToPrimary`) for faults that only hang `mysqld` and cut role changes
  short (`Calm`). `AgentInv` adds what each program has seen to at each of its
  steps (`RoleInv`): source side on in front of the writable SET, read-only in
  front of the switch of the source side; that statements left behind do the
  same no matter when they are executed (`LateInv`); that no promote meets a
  fence under way or answered (`FenceInv`); and that a node opened for a clone
  has a rebuild and no clients (`RebuildInv`).

Most inductive invariants were checked by TLC on a small instance before they
were proved.

Only model-checked:

- `SetsAgree` of `Gtid`: it says what recursive definitions over sequences
  compute, which needs an induction over data that the provers cannot
  instantiate. Arguments from a least or a last element, such as the order of
  chunks in `SchemaChange` and the runs of polls in `Detector`, do go through.
- What the theorems' assumptions leave out: `JoinedClean` with a fence that
  fails, which run `Rejoin` has.
- Liveness (`FailoverEnds`, `ComesBack`, `AllJoin`, `TwoWritersEnd`, `RunEnds`,
  `Replaced`), which with fairness and ENABLED is out of the prover's reach.

## 5. What is not modelled

- The naive mode of selection, failover and rejoin, kept in the code as a
  baseline, and `rejoin: manual`. (`Detector` has its flag, since `evaluate`
  branches on it.)
- In the agent, the assembly of a `/status` answer. In the controller, the stall
  check of a primary without replicas and the manager's own start and stop
  beyond what `Switchover` has of it; node tasks and the maintenance slot are in
  `Rejoin` and `Replacement`, without the length of their backoffs.
- In a replacement, the provisioning command and a manager that restarts in the
  middle: membership is in memory, and `_adopt_spare` is what finds it again.
- In a schema change, the tuning of the chunk size, the list of what preflight
  refuses (that it may refuse is modelled), the progress row and the flags.
- Of the checker, the verdicts single writer and convergence, which query the
  cluster; of the workload, latencies and rates.
- Durations, which are abstracted to what may come first except where a property
  is about them (`Detector`, `Lease`); a read-only SET that waits is a guard.
- The chaos harness (`harness/chaos.py`, 2098 lines), table filling, benchmarks
  and reports, the command line, `doctor`, HTTP, metrics, authentication and
  deployment scripts. They hold no state of the system; what chaos injects are
  the faults of the models.
- The loss of a server's disk.

Smaller simplifications inside the modules:

- `Failover`: a STOP REPLICA that fails has had no effect, or is answered as if it
  had one (`failed_stop_answers`); that it worked and only its answer was lost is
  left out.
- `Switchover`: a `/promote` in flight when the manager crashes lands before the
  crash or never; a fence in flight may land later.
- `Controller`: a call that passed the check for a halt and then waits for the
  set's lock (`controller.py:171-175`) is left out; it checks and takes the lock
  in one step.
- `Rejoin`: reads without an answer use up no time of a watch
  (`rejoin.py:250-257`), and a `/status` without an answer skips the fence only
  where `fence_fails` lets the fence fail (`rejoin.py:163-164`). A fence of a
  thawed node kills the sessions that wait for an acknowledgment; their writes
  commit some time after it has answered (`WaiterKilled`), which is why quiesce
  reads twice.
- `Lease`: turning the self-fence off and on may or may not reset the count, which
  covers a switch of `self_fence` (`core.py:695-697`) and of semi-sync; setting
  `self_fence` where it is set already also resets it and is left out.
- `Replacement`: `Well` does not ask whether the primary is writable
  (`controller.py:269-271`); that module has no read-only primary.
- `Gtid`: `IntervalCount` is the agent's count of a set as `mysqld` prints it, with
  merged intervals; the lenient parser behind it would also take text with unmerged
  ones (`gtidcount.py:12`), which a server never prints.
