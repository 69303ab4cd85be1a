---------------------------- MODULE SchemaChange ----------------------------
(***************************************************************************)
(* The online schema change (osc/runner.py, chunks.py, table.py).  One run *)
(* builds an altered shadow of the table, keeps it current with three      *)
(* triggers while it copies the rows chunk by chunk, compares the two      *)
(* tables, swaps their names in one RENAME, and drops the triggers.        *)
(* Application transactions go on during the whole run.  The run may be    *)
(* interrupted at any statement, which may then still execute on the       *)
(* server until the cleanup's KILL; it may die; an operator cleans up, and *)
(* starts another run, whatever is still executing.                        *)
(*                                                                         *)
(* Two table objects: "src", the table as the run finds it, and "sh", the  *)
(* shadow.  `table` says which object each of the three names denotes.     *)
(***************************************************************************)
EXTENDS Naturals, FiniteSets

CONSTANTS
    Keys,         \* primary keys, positive numbers
    Values,       \* values of a row
    Absent,       \* no row under this key
    Writers,      \* application sessions
    Alters,       \* kinds of ALTER: "plain", "type" (a column's type changes,
                  \* so the checksum compares counts), "unique" (a UNIQUE key)
    MaxAttempts,  \* lock waits that may time out before a statement raises
    MaxRuns,      \* bound: runs started
    MaxWrites,    \* bound: statements of the application
    Faults        \* "interrupt", "crash", "no_reconnect"

ASSUME KeysAssumption == Keys \subseteq Nat \ {0} /\ IsFiniteSet(Keys)
ASSUME AbsentAssumption == Absent \notin Values
ASSUME BoundsAssumption ==
    {MaxAttempts, MaxRuns, MaxWrites} \subseteq Nat \ {0}

VARIABLES
    alter,     \* the kind of ALTER asked for
    table,     \* name |-> object
    rows,      \* object |-> key |-> value, the open transactions' writes in it
    base,      \* the same, last committed
    held,      \* writer |-> row locks <<object, key>> of its open transaction
    triggers,  \* the triggers that exist; they belong to src
    altered,   \* the objects that have the new schema
    pc, mem,   \* the run: its next statement, and what it remembers
    tries,     \* lock waits of this statement that timed out
    inflight,  \* a statement of a connection nobody reads any more; with two
               \* such connections one of them is followed
    late,      \* the run that sent it, and its arguments
    op, found, \* the operator's `dbgctl osc cleanup`: its next step, and the
               \* triggers it has found
    outlived,  \* history: a CREATE TRIGGER was still executing when a clean-up
               \* of the operator's, or another run, began
    runs,      \* runs started
    writes,    \* statements of the application so far
    gap        \* a row the shadow held was changed with no trigger to tell it

osc == <<pc, mem, tries, inflight, late, op, found, outlived, runs>>
dict == <<table, triggers, altered>>
vars == <<alter, table, rows, base, held, triggers, altered, osc, writes, gap>>

Names == {"t", "new", "old"}
Objects == {"src", "sh"}
Order == <<"insert", "update", "delete">>
Kinds == {"insert", "update", "delete"}
Rows == [Keys -> Values \cup {Absent}]
Empty == [k \in Keys |-> Absent]

Ended == {"idle", "done", "failed", "dead"}
Cleaning == {"kill", "clean", "cleanShadow"}
Statements == {"instant", "create", "alter", "trigger", "maxpk", "boundary",
               "copy", "sumSrc", "sumShadow", "swap", "drop", "dropOld"}
Running == Statements \cup {"record", "throttle", "hot"}

Arguments == [run : 0..MaxRuns, recorded : 0..3,
              lo : Keys \cup {0}, hi : Keys \cup {0}]
NoArguments == [run |-> 0, recorded |-> 0, lo |-> 0, hi |-> 0]

\* 0 stands for "no lower bound" (None)
Memory == [created_shadow : BOOLEAN, recorded : 0..3, swapped : BOOLEAN,
           lo : Keys \cup {0}, hi : Keys \cup {0}, max_pk : Keys \cup {0},
           boundaries : SUBSET Keys, checked : Keys \cup {0},
           sum : SUBSET (Keys \X Values), last : BOOLEAN]
Fresh == [created_shadow |-> FALSE, recorded |-> 0, swapped |-> FALSE,
          lo |-> 0, hi |-> 0, max_pk |-> 0, boundaries |-> {}, checked |-> 0,
          sum |-> {}, last |-> FALSE]

Init ==
    /\ alter \in Alters
    /\ table = [t |-> "src", new |-> "none", old |-> "none"]
    /\ \E r \in Rows : rows = [src |-> r, sh |-> Empty]
    /\ base = rows
    /\ held = [w \in Writers |-> {}]
    /\ triggers = {} /\ altered = {}
    /\ pc = "idle" /\ mem = Fresh /\ tries = 0
    /\ inflight = "none" /\ late = NoArguments
    /\ op = "idle" /\ found = {} /\ outlived = FALSE
    /\ runs = 0 /\ writes = 0 /\ gap = FALSE

----------------------------------------------------------------------------
(* The application: row locks, and the triggers inside its transactions.   *)

Smallest(S) == CHOOSE k \in S : \A j \in S : k <= j
Largest(S) == CHOOSE k \in S : \A j \in S : j <= k
Present(f) == {k \in Keys : f[k] # Absent}
Between(lo, hi) == {k \in Keys : lo < k /\ k <= hi}

\* REPLACE INTO the shadow: a UNIQUE key deletes the rows that conflict
Replace(f, k, v) ==
    [j \in Keys |-> IF j = k THEN v
                    ELSE IF alter = "unique" /\ f[j] = v THEN Absent
                    ELSE f[j]]
Delete(f, k) == [f EXCEPT ![k] = Absent]

\* the range whose rows the checksum's first SELECT ... FOR SHARE has locked
NextCut == LET rest == {b \in mem.boundaries : b > mem.checked}
           IN  IF rest = {} THEN 0 ELSE Smallest(rest)
(* Mutant: the last range ends at the copy's last key. *)
SumRangeClosed ==
    {k \in Keys : k > mem.checked /\ NextCut # 0 /\ k <= NextCut}
SumRange == {k \in Keys : k > mem.checked /\ (NextCut = 0 \/ k <= NextCut)}
ShareLocked == IF pc = "sumShadow" THEN SumRange ELSE {}

InUse(o) == \E w \in Writers, k \in Keys : <<o, k>> \in held[w]
Free(o, S, w) == \A x \in Writers \ {w}, k \in S : <<o, k>> \notin held[x]
Unlocked(S) ==
    \A w \in Writers, o \in Objects, k \in S : <<o, k>> \notin held[w]

\* one statement of w: the live table becomes f, the shadow g if a trigger
\* mirrors it; a trigger with no shadow fails the statement
Apply(w, kind, f, g) ==
    LET o == table.t
        mirrored == o = "src" /\ kind \in triggers
        K == {k \in Keys : f[k] # rows[o][k]}
        L == IF mirrored THEN {k \in Keys : g[k] # rows.sh[k]} \cup K ELSE {}
    IN  /\ mirrored => table.new = "sh"
        /\ Free(o, K, w) /\ Free("sh", L, w) /\ K \cap ShareLocked = {}
        /\ rows' = IF mirrored THEN [src |-> f, sh |-> g]
                   ELSE [rows EXCEPT ![o] = f]
        /\ held' = [held EXCEPT ![w] = @ \cup ({o} \X K) \cup ({"sh"} \X L)]
        /\ gap' = (gap \/ (o = "src" /\ ~mirrored
                               /\ \E k \in K : rows.sh[k] # Absent))
        /\ writes < MaxWrites /\ writes' = writes + 1
        /\ UNCHANGED <<alter, base, dict, osc>>

\* the UNIQUE key of the live table, once swapped in
Allowed(f) == table.t = "sh" /\ alter = "unique" =>
                  \A j, k \in Present(f) : f[j] = f[k] => j = k

Write(w) == \E k \in Keys, v \in Values \cup {Absent} :
    LET o == table.t
        f == [rows[o] EXCEPT ![k] = v]
        kind == IF rows[o][k] = Absent THEN "insert"
                ELSE IF v = Absent THEN "delete" ELSE "update"
        g == IF v = Absent THEN Delete(rows.sh, k) ELSE Replace(rows.sh, k, v)
    IN  v # rows[o][k] /\ Allowed(f) /\ Apply(w, kind, f, g)

(* Mutant: the UPDATE trigger only REPLACEs. *)
MoveReplaceOnly(w) == \E j, k \in Keys :
    LET o == table.t
        v == rows[o][j]
        f == [rows[o] EXCEPT ![j] = Absent, ![k] = v]
    IN  /\ v # Absent /\ rows[o][k] = Absent
        /\ Apply(w, "update", f, Replace(rows.sh, k, v))
\* an UPDATE of the primary key: the trigger deletes the old key's row first
Move(w) == \E j, k \in Keys :
    LET o == table.t
        v == rows[o][j]
        f == [rows[o] EXCEPT ![j] = Absent, ![k] = v]
    IN  /\ v # Absent /\ rows[o][k] = Absent
        /\ Apply(w, "update", f, Replace(Delete(rows.sh, j), k, v))

End(w, commit) ==
    LET m(o, k) == <<o, k>> \in held[w] IN
    /\ held[w] # {}
    /\ held' = [held EXCEPT ![w] = {}]
    /\ base' = IF commit
               THEN [o \in Objects |-> [k \in Keys |->
                        IF m(o, k) THEN rows[o][k] ELSE base[o][k]]]
               ELSE base
    /\ rows' = IF commit THEN rows
               ELSE [o \in Objects |-> [k \in Keys |->
                        IF m(o, k) THEN base[o][k] ELSE rows[o][k]]]
    /\ UNCHANGED <<alter, dict, osc, writes, gap>>

Commit(w) == End(w, TRUE)
Rollback(w) == End(w, FALSE)

----------------------------------------------------------------------------
(* What each statement does on the server, for the run that waits for it   *)
(* and for the connection nobody reads any more.                           *)

SameDict == UNCHANGED dict
SameRows == UNCHANGED <<rows, base, gap>>

CreateShadow ==
    /\ table.new = "none" /\ table' = [table EXCEPT !.new = "sh"]
    /\ altered' = altered \ {"sh"} /\ UNCHANGED triggers
    /\ gap' = FALSE /\ UNCHANGED <<rows, base>>
AlterShadow ==
    /\ table.new = "sh" /\ altered' = altered \cup {"sh"}
    /\ UNCHANGED <<table, triggers>> /\ SameRows
CreateTrigger(kind) ==
    /\ ~InUse("src")
    /\ kind \notin triggers /\ triggers' = triggers \cup {kind}
    /\ UNCHANGED <<table, altered>> /\ SameRows

\* INSERT IGNORE INTO the shadow SELECT ... FOR SHARE, in key order
Copied(S) ==
    [k \in Keys |->
        IF /\ k \in S /\ rows.sh[k] = Absent
           /\ alter = "unique" =>
                 \A j \in Keys : /\ rows.sh[j] # rows.src[k]
                                 /\ j \in S /\ j < k /\ rows.sh[j] = Absent
                                        => rows.src[j] # rows.src[k]
        THEN rows.src[k] ELSE rows.sh[k]]
(* Mutant: no FOR SHARE: a consistent read, which no row lock delays. *)
CopyChunkUnlocked(S) ==
    LET f == [k \in Keys |-> IF k \in S /\ rows.sh[k] = Absent
                             THEN base.src[k] ELSE rows.sh[k]]
    IN  /\ table.new = "sh"
        /\ rows' = [rows EXCEPT !.sh = f]
        /\ base' = [base EXCEPT !.sh = [k \in Keys |->
                       IF k \in S THEN f[k] ELSE @[k]]]
        /\ SameDict /\ UNCHANGED gap
CopyChunk(S) ==
    /\ table.new = "sh" /\ Unlocked(S)
    /\ rows' = [rows EXCEPT !.sh = Copied(S)]
    /\ base' = [base EXCEPT !.sh = [k \in Keys |->
                   IF k \in S THEN Copied(S)[k] ELSE @[k]]]
    /\ SameDict /\ UNCHANGED gap

Rename ==
    /\ table.new = "sh" /\ table.old = "none" /\ ~InUse("src")
    /\ table' = [t |-> "sh", new |-> "none", old |-> table.t]
    /\ UNCHANGED <<triggers, altered>> /\ SameRows
DropTrigger(kind) ==
    /\ ~InUse("src") /\ triggers' = triggers \ {kind}
    /\ UNCHANGED <<table, altered>> /\ SameRows
\* DROP TABLE IF EXISTS: its rows are gone, and a src takes its triggers along
DropTable(name) ==
    LET o == table[name] IN
    IF o = "none" THEN SameDict /\ SameRows
    ELSE /\ ~InUse(o)
         /\ table' = [table EXCEPT ![name] = "none"]
         /\ triggers' = IF o = "src" THEN {} ELSE triggers
         /\ altered' = altered \ {o}
         /\ rows' = [rows EXCEPT ![o] = Empty]
         /\ base' = [base EXCEPT ![o] = Empty]
         /\ UNCHANGED gap

(* The metadata locks, asked for by name: a statement waits for those that *)
(* asked before it.                                                        *)
Locks == [s \in Statements |->
             IF s \in {"create", "copy", "swap"} THEN Objects
             ELSE IF s = "alter" THEN {"sh"} ELSE {"src"}]
Queued(o) == inflight # "none" /\ o \in Locks[inflight]

----------------------------------------------------------------------------
(* The run.                                                                *)

\* what the cleanup needs of the run's memory
Flags(m) == [Fresh EXCEPT !.created_shadow = m.created_shadow,
                          !.recorded = m.recorded, !.swapped = m.swapped]

\* a deadlock in the checksum's second SELECT repeats both, and counts on
Go(next, m) ==
    /\ pc' = next /\ mem' = m
    /\ tries' = IF next = "sumShadow" THEN tries ELSE 0
Other == UNCHANGED <<alter, held, op, found, outlived, runs, writes>>
Step == Other /\ UNCHANGED <<inflight, late>>
Quiet == Step /\ SameDict /\ SameRows

\* preflight: what an earlier run left, a read-only server, or a table or an
\* ALTER that cannot be copied
Leftover == triggers # {} \/ table.new # "none" \/ table.old # "none"
Preflight(ok) == ok => ~Leftover

\* a clean-up or a run begins without asking what is still executing
Outlives == outlived' = (outlived \/ inflight = "trigger")

\* a new run: preflight may refuse it, and only reads
Start ==
    /\ pc \in Ended /\ op = "idle" /\ Outlives
    /\ runs < MaxRuns /\ table.t = "src"   \* bounds: runs, one swap
    /\ runs' = runs + 1
    /\ \E ok \in BOOLEAN :
          /\ Preflight(ok)
          /\ IF ok THEN \E s \in {"instant", "create"} : Go(s, Fresh)
             ELSE Go("failed", Fresh)
    /\ UNCHANGED <<alter, held, op, found, inflight, late, writes>>
    /\ SameDict /\ SameRows

\* ALGORITHM=INSTANT alters the live table in place, or is refused
TryInstant ==
    /\ pc = "instant" /\ ~Queued("src")
    /\ \/ /\ ~InUse("src") /\ Go("done", mem)
          /\ altered' = altered \cup {table.t} /\ UNCHANGED <<table, triggers>>
       \/ Go("create", mem) /\ SameDict
    /\ SameRows /\ Step

\* the altered shadow may turn out one that the triggers cannot keep
ValidateShadow == Go("record", mem) \/ Go("kill", Flags(mem))
MakeShadow ==
    \/ /\ pc = "create" /\ ~Queued("src") /\ CreateShadow /\ Step
       /\ Go("alter", [mem EXCEPT !.created_shadow = TRUE])
    \/ pc = "alter" /\ AlterShadow /\ ValidateShadow /\ Step

\* recorded before it is executed: a CREATE that timed out may have happened
RecordTrigger ==
    /\ pc = "record" /\ Quiet
    /\ Go("trigger", [mem EXCEPT !.recorded = @ + 1])
AddTrigger ==
    /\ pc = "trigger" /\ CreateTrigger(Order[mem.recorded]) /\ Step
    /\ Go(IF mem.recorded < 3 THEN "record" ELSE "maxpk", mem)

\* what a late CREATE has made meanwhile is there already
Exists ==
    /\ Quiet /\ Go("kill", Flags(mem))
    /\ \/ pc = "create" /\ table.new # "none"
       \/ pc = "trigger" /\ Order[mem.recorded] \in triggers

\* the last committed key: the copy stops there; no row, no copy
MaxPk ==
    /\ pc = "maxpk" /\ Quiet
    /\ IF Present(base.src) = {} THEN Go("sumSrc", mem)
       ELSE Go("throttle", [mem EXCEPT !.max_pk = Largest(Present(base.src))])

\* Throttle.wait: load above a limit, or a lag above it or unknown, is a
\* reason to sleep and to ask again, without a bound
Resume == pc = "throttle" /\ Quiet /\ Go("boundary", mem)
Pause ==
    /\ Quiet
    /\ \/ pc = "throttle" /\ Go("hot", mem)
       \/ pc = "hot" /\ Go("throttle", mem)
Throttle == Resume \/ Pause

\* the chunk-th row after lo, capped at max_pk; none: the last chunk
Boundary ==
    LET S == Present(base.src) \cap Between(mem.lo, mem.max_pk) IN
    /\ pc = "boundary" /\ Quiet
    /\ \/ \E k \in S : Go("copy", [mem EXCEPT !.hi = k])
       \/ Go("copy", [mem EXCEPT !.hi = mem.max_pk, !.last = TRUE])
Copy ==
    /\ pc = "copy" /\ CopyChunk(Between(mem.lo, mem.hi)) /\ Step
    /\ LET m == [mem EXCEPT !.boundaries = @ \cup {mem.hi}, !.lo = mem.hi,
                            !.hi = 0] IN
       IF mem.last THEN Go("sumSrc", [m EXCEPT !.lo = 0, !.max_pk = 0,
                                               !.last = FALSE])
       ELSE Go("throttle", m)

\* rows and values; only their number where the ALTER changes the type
Digest(f) == {<<k, f[k]>> : k \in Present(f) \cap SumRange}
SameSum(a, b) ==
    IF alter = "type" THEN Cardinality(a) = Cardinality(b) ELSE a = b

\* one transaction: the source's range FOR SHARE, then the shadow's
SumSource ==
    /\ pc = "sumSrc" /\ Unlocked(SumRange) /\ Quiet
    /\ Go("sumShadow", [mem EXCEPT !.sum = Digest(rows.src)])
SumShadow ==
    /\ pc = "sumShadow" /\ Unlocked(SumRange) /\ Quiet
    /\ LET m == [mem EXCEPT !.sum = {}] IN
       IF ~SameSum(mem.sum, Digest(rows.sh)) THEN Go("mismatch", m)
       ELSE IF NextCut # 0 THEN Go("sumSrc", [m EXCEPT !.checked = NextCut])
       ELSE Go("swap", [m EXCEPT !.checked = 0, !.boundaries = {}])
Mismatch == pc = "mismatch" /\ Quiet /\ Go("kill", Flags(mem))

Swap ==
    /\ pc = "swap" /\ Rename /\ Step
    /\ Go("drop", [mem EXCEPT !.swapped = TRUE])

\* DROP TRIGGER IF EXISTS one after another; they moved along to old
First(T) == Order[Smallest({n \in 1..3 : Order[n] \in T})]
DropTriggersAfterSwap ==
    /\ pc = "drop" /\ Step
    /\ IF triggers # {}
       THEN DropTrigger(First(triggers)) /\ Go("drop", mem)
       ELSE /\ \E p \in {"dropOld", "done"} :
                   Go(p, [mem EXCEPT !.recorded = 0])
            /\ SameDict /\ SameRows
DropOld == pc = "dropOld" /\ DropTable("old") /\ Go("done", Fresh) /\ Step

\* a lock wait that times out (or a deadlock): retried, then raised
Blocked ==
    \/ pc \in {"instant", "trigger", "swap", "drop"} /\ InUse("src")
    \/ pc \in {"instant", "create"} /\ Queued("src")
    \/ pc = "copy" /\ ~Unlocked(Between(mem.lo, mem.hi))
    \/ pc \in {"sumSrc", "sumShadow"} /\ ~Unlocked(SumRange)
(* Mutant: every lock wait is retried. *)
LockTimeoutForever == Blocked /\ Quiet /\ UNCHANGED <<pc, mem, tries>>
LockTimeout ==
    /\ Blocked /\ Quiet
    /\ IF pc \in {"instant", "create"} \/ tries + 1 = MaxAttempts
       THEN Go("kill", Flags(mem))
       ELSE /\ pc' = IF pc = "sumShadow" THEN "sumSrc" ELSE pc
            /\ mem' = [mem EXCEPT !.sum = {}] /\ tries' = tries + 1

----------------------------------------------------------------------------
(* Failure: Ctrl-C or SIGTERM, a lost connection, SIGKILL.  The statement  *)
(* the run was waiting for may be left executing on the server.            *)

Arguing(s) ==
    [run |-> runs, recorded |-> IF s = "trigger" THEN mem.recorded ELSE 0,
     lo |-> IF s = "copy" THEN mem.lo ELSE 0,
     hi |-> IF s = "copy" THEN mem.hi ELSE 0]
Stops ==
    \/ UNCHANGED <<inflight, late>>
    \/ pc \in Statements /\ inflight' = pc /\ late' = Arguing(pc)
Interrupt ==
    /\ "interrupt" \in Faults /\ pc \in Running /\ Stops
    /\ Go("kill", Flags(mem))
    /\ Other /\ SameDict /\ SameRows
Crash ==
    /\ "crash" \in Faults /\ pc \in Running \cup Cleaning /\ Stops
    /\ Go("dead", Fresh)
    /\ Other /\ SameDict /\ SameRows

\* it executes until the server notices, or the cleanup KILLs it
LateStatement ==
    /\ inflight # "none" /\ inflight' = "none" /\ late' = NoArguments
    /\ \/ inflight = "instant" /\ ~InUse("src") /\ SameRows
          /\ altered' = altered \cup {table.t} /\ UNCHANGED <<table, triggers>>
       \/ inflight = "create" /\ CreateShadow
       \/ inflight = "alter" /\ AlterShadow
       \/ inflight = "trigger" /\ CreateTrigger(Order[late.recorded])
       \/ inflight = "copy" /\ CopyChunk(Between(late.lo, late.hi))
       \/ inflight = "swap" /\ Rename
       \/ inflight = "drop" /\ triggers # {} /\ DropTrigger(First(triggers))
       \/ inflight = "dropOld" /\ DropTable("old")
       \/ SameDict /\ SameRows
    /\ UNCHANGED <<alter, held, pc, mem, tries, op, found, outlived, runs,
                   writes>>

\* a fresh connection KILLs the old one's thread: what that does not reach in
\* time goes before the DROPs that follow, in the queue of their lock.  With no
\* fresh connection the cleanup tries the old one, stuck in its statement.
Kill ==
    /\ pc = "kill" /\ Other /\ SameDict /\ SameRows
    /\ \/ /\ Go("clean", Flags(mem))
          /\ IF late.run = runs
               THEN inflight' = "none" /\ late' = NoArguments
               ELSE UNCHANGED <<inflight, late>>
       \/ /\ "no_reconnect" \in Faults /\ Go("failed", Fresh)
          /\ UNCHANGED <<inflight, late>>

(* Mutant: a trigger counts as created once its CREATE has answered. *)
CreatedAnswered == {Order[n] : n \in 1..mem.recorded - 1}
Created == {Order[n] : n \in 1..mem.recorded}
(* Mutant: one trigger is dropped. *)
DropCreatedOne ==
    /\ pc = "clean" /\ Step
    /\ Go("cleanShadow", mem)
    /\ IF Created \cap triggers # {}
       THEN DropTrigger(First(Created \cap triggers))
       ELSE SameDict /\ SameRows
\* triggers first: with the shadow gone they would fail every write
DropCreated ==
    /\ pc = "clean" /\ Step
    /\ IF Created \cap triggers # {}
       THEN DropTrigger(First(Created \cap triggers)) /\ Go("clean", mem)
       ELSE Go("cleanShadow", mem) /\ SameDict /\ SameRows
\* once swapped the shadow is the live table, and is not dropped
DropShadow ==
    /\ pc = "cleanShadow" /\ Step /\ Go("failed", Fresh)
    /\ IF mem.created_shadow /\ ~mem.swapped THEN DropTable("new")
       ELSE SameDict /\ SameRows
CleanupTimeout ==
    /\ Quiet /\ Go("failed", Fresh)
    /\ \/ pc = "clean" /\ Created \cap triggers # {} /\ InUse("src")
       \/ pc = "cleanShadow" /\ table.new = "sh" /\ InUse("sh")

\* the operator's `dbgctl osc cleanup [--old]`, between runs: it drops the
\* triggers it finds as it begins, then the shadow
Op(next, T) ==
    /\ op' = next /\ found' = T
    /\ UNCHANGED <<alter, held, pc, mem, tries, inflight, late, runs, writes>>
CleanupStart ==
    /\ op = "idle" /\ pc \in Ended /\ Leftover
    /\ Op("triggers", triggers) /\ Outlives
    /\ SameDict /\ SameRows
CleanupStep ==
    /\ UNCHANGED outlived
    /\ \/ /\ op = "triggers"
          /\ \/ /\ ~Queued("src")
                /\ \E k \in found : DropTrigger(k) /\ Op(op, found \ {k})
             \/ found = {} /\ Op("shadow", {}) /\ SameDict /\ SameRows
       \/ /\ op = "shadow" /\ ~Queued("sh") /\ DropTable("new")
          /\ \E n \in {"old", "idle"} : Op(n, {})
       \/ op = "old" /\ ~Queued("src") /\ DropTable("old") /\ Op("idle", {})
CleanupStops ==
    op # "idle" /\ Op("idle", {}) /\ UNCHANGED outlived /\ SameDict /\ SameRows

App == \E w \in Writers : Write(w) \/ Move(w) \/ Commit(w) \/ Rollback(w)
Run ==
    \/ TryInstant \/ MakeShadow \/ RecordTrigger \/ AddTrigger \/ Exists
    \/ MaxPk \/ Throttle \/ Boundary \/ Copy
    \/ SumSource \/ SumShadow \/ Mismatch
    \/ Swap \/ DropTriggersAfterSwap \/ DropOld \/ LockTimeout
    \/ Kill \/ DropCreated \/ DropShadow \/ CleanupTimeout
Next ==
    \/ App \/ Start \/ Run \/ Interrupt \/ Crash \/ LateStatement
    \/ CleanupStart \/ CleanupStep \/ CleanupStops
\* the runner goes on; asked again and again, the load is once below its limits
Spec == Init /\ [][Next]_vars /\ WF_vars(Run) /\ SF_vars(Resume)

----------------------------------------------------------------------------
(* Properties.                                                             *)

\* The types of the variables.
TypeOK ==
    /\ alter \in Alters
    /\ table \in [Names -> Objects \cup {"none"}]
    /\ rows \in [Objects -> Rows] /\ base \in [Objects -> Rows]
    /\ held \in [Writers -> SUBSET (Objects \X Keys)]
    /\ triggers \subseteq Kinds /\ altered \subseteq Objects
    /\ pc \in Running \cup Cleaning \cup Ended \cup {"mismatch"}
    /\ mem \in Memory /\ tries \in 0..MaxAttempts
    /\ inflight \in Statements \cup {"none"} /\ late \in Arguments
    /\ found \subseteq Kinds /\ outlived \in BOOLEAN
    /\ op \in {"idle", "triggers", "shadow", "old"}
    /\ runs \in 0..MaxRuns /\ writes \in 0..MaxWrites /\ gap \in BOOLEAN

\* A trigger on the table the application writes has its shadow: no write of
\* the application fails for a table that is gone (_cleanup_after_failure and
\* cleanup drop triggers first; created_triggers is recorded beforehand).  The
\* one exception is a CREATE TRIGGER that outlives its run: cleanup KILLs
\* nothing, does not find the trigger, and drops the shadow.
WritesSurvive ==
    triggers # {} /\ table.t = "src" => table.new = "sh" \/ outlived

\* What the checksum found equal stays equal until the swap, whatever the
\* application writes and rolls back meanwhile (_checksum, trigger_sql).
Verified == IF pc = "swap" THEN Keys ELSE {k \in Keys : k <= mem.checked}
ChecksumStands ==
    pc \in {"sumSrc", "sumShadow", "swap"} =>
        \A k \in Verified : rows.sh[k] = rows.src[k]

\* The checksum never blames an honest copy: a mismatch means that a row the
\* shadow held was changed before its trigger existed (copy_sql FOR SHARE).
MismatchHasCause == pc = "mismatch" => gap

\* To the application nothing but its own commits changes the rows of the
\* table: not the swap, not a cleanup, not a statement that executes late.
Visible == IF table.t = "none" THEN Empty ELSE base[table.t]
OnlyCommitsChangeRows ==
    [][(\E w \in Writers : Commit(w)) \/ Visible' = Visible]_vars

\* A cleanup that got through leaves no trigger, one that a late CREATE made
\* included, and no shadow it knows of (_cleanup_after_failure); but for the
\* trigger of an earlier run that outlives it.
CleanupLeavesNothing ==
    [][DropShadow => /\ triggers' = {} \/ outlived
                     /\ table'.new = "none" \/ ~mem.created_shadow]_vars

\* A run ends: done, failed or dead, however long the application keeps its
\* locks, if the load and the lag do not stay above their limits for ever
\* (_retry, _swap, lock_wait_timeout; Throttle.wait has no bound).
RunEnds == pc \in Running \cup Cleaning ~> pc \in Ended
=============================================================================
