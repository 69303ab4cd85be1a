------------------------- MODULE SchemaChangeProofs -------------------------
(***************************************************************************)
(* Proofs about SchemaChange for every finite set of keys, any values and  *)
(* sessions, and any number of runs, writes and lock waits.                *)
(***************************************************************************)
EXTENDS SchemaChange, TLAPS, FiniteSetTheorems, WellFoundedInduction

USE KeysAssumption, AbsentAssumption, BoundsAssumption

-----------------------------------------------------------------------------
(* Smallest and largest keys.                                              *)

(* Below: the order of the natural numbers, as a relation. *)
Below == {ss \in Nat \X Nat : ss[1] < ss[2]}

(* SmallestKey: Smallest finds the least element. *)
LEMMA SmallestKey ==
  ASSUME NEW S, S \subseteq Nat, S # {}
  PROVE  Smallest(S) \in S /\ \A j \in S : Smallest(S) <= j
<1>1. IsWellFoundedOn(Below, Nat)
  BY NatLessThanWellFounded DEF OpToRel, Below
<1>2. PICK x \in S : \A y \in S : ~(<<y, x>> \in Below)
  BY <1>1, WFMin
<1>3. \A u, v \in Nat : u < v => <<u, v>> \in Below
  BY DEF Below
<1>4. \A y \in S : ~(y < x)
  BY <1>2, <1>3
<1>5. \A y \in S : x <= y
  BY <1>4
<1> QED BY <1>5 DEF Smallest

(* LargestKey: Largest finds the greatest element of a finite set, by its  *)
(* smallest subset that has none.                                          *)
LEMMA LargestKey ==
  ASSUME NEW S \in SUBSET Keys, S # {}
  PROVE  Largest(S) \in S /\ \A j \in S : j <= Largest(S)
<1> DEFINE Has(X) == \E x \in X : \A y \in X : y <= x
           Bad == {X \in SUBSET Keys : X # {} /\ ~Has(X)}
<1>1. IsWellFoundedOn(StrictSubsetOrdering(Keys), SUBSET Keys)
  BY FS_StrictSubsetOrderingWellFounded, FS_FiniteSubsetsOfFinite
<1>2. Bad = {}
  <2> SUFFICES ASSUME Bad # {} PROVE FALSE
    OBVIOUS
  <2>1. PICK X \in Bad :
          \A Y \in Bad : ~(<<Y, X>> \in StrictSubsetOrdering(Keys))
    <3> DEFINE R == StrictSubsetOrdering(Keys)
               U == SUBSET Keys
    <3>1. Bad \subseteq U /\ Bad # {} /\ IsWellFoundedOn(R, U)
      BY <1>1
    <3> HIDE DEF Bad, R, U
    <3>2. \E X \in Bad : \A Y \in Bad : ~(<<Y, X>> \in R)
      BY <3>1, WFMin
    <3> QED BY <3>2 DEF R
  <2>2. PICK x \in X : TRUE
    OBVIOUS
  <2>3. X \ {x} \notin Bad
    BY <2>1, <2>2 DEF StrictSubsetOrdering
  <2>4. X \subseteq Nat
    OBVIOUS
  <2>5. CASE X = {x}
    BY <2>4, <2>5
  <2>6. ASSUME NEW y \in X \ {x}, \A z \in X \ {x} : z <= y PROVE Has(X)
    <3>1. CASE x <= y
      BY <2>2, <2>4, <2>6, <3>1
    <3>2. CASE y <= x
      BY <2>2, <2>4, <2>6, <3>2
    <3> QED BY <2>2, <2>4, <3>1, <3>2
  <2> QED BY <2>3, <2>5, <2>6
<1>3. Has(S)
  BY <1>2
<1> QED BY <1>3 DEF Largest

-----------------------------------------------------------------------------
(* Type correctness.                                                       *)

DataTypes ==
    /\ alter \in Alters
    /\ table \in [Names -> Objects \cup {"none"}] /\ table.t \in Objects
    /\ rows \in [Objects -> Rows] /\ base \in [Objects -> Rows]
    /\ held \in [Writers -> SUBSET (Objects \X Keys)]
    /\ triggers \subseteq Kinds /\ altered \subseteq Objects
    /\ gap \in BOOLEAN

(* A run remembers what its next statement needs. *)
RunTypes ==
    /\ pc \in Running \cup Cleaning \cup Ended \cup {"mismatch"}
    /\ mem \in Memory
    /\ tries \in 0..MaxAttempts /\ tries < MaxAttempts
    /\ inflight \in Statements \cup {"none"} /\ late \in Arguments
    /\ op \in {"idle", "triggers", "shadow", "old"}
    /\ found \subseteq Kinds /\ outlived \in BOOLEAN
    /\ runs \in 0..MaxRuns /\ writes \in 0..MaxWrites
    /\ pc \in {"instant", "create", "alter"} => mem.recorded = 0
    /\ pc = "record" => mem.recorded \in 0..2
    /\ pc = "trigger" => mem.recorded \in 1..3
    /\ inflight = "trigger" => late.recorded \in 1..3
    /\ pc \in {"throttle", "hot", "boundary", "copy"} => mem.max_pk \in Keys
    /\ pc = "copy" => mem.hi \in Keys

TypeInv == DataTypes /\ RunTypes

(* The statement that adds the new column in place. *)
AlterInPlace ==
    /\ altered' = altered \cup {table.t} /\ UNCHANGED <<table, triggers>>
    /\ SameRows

(* ServerTypes: no statement of a run or of a clean-up leaves the types. *)
LEMMA ServerTypes ==
  ASSUME DataTypes, UNCHANGED <<alter, held>>
  PROVE  /\ SameDict /\ SameRows => DataTypes'
         /\ AlterInPlace \/ CreateShadow \/ AlterShadow \/ Rename
              => DataTypes'
         /\ \A kind \in Kinds : CreateTrigger(kind) => DataTypes'
         /\ \A kind : DropTrigger(kind) => DataTypes'
         /\ \A S : CopyChunk(S) => DataTypes'
         /\ \A name \in {"new", "old"} : DropTable(name) => DataTypes'
<1> USE DEF SameDict, SameRows, dict, DataTypes, Objects, Names
<1>1. SameDict /\ SameRows => DataTypes'
  OBVIOUS
<1>2. AlterInPlace => DataTypes'
  BY DEF AlterInPlace
<1>3. CreateShadow => DataTypes'
  BY DEF CreateShadow
<1>4. AlterShadow => DataTypes'
  BY DEF AlterShadow
<1>5. Rename => DataTypes'
  BY DEF Rename
<1>6. \A kind \in Kinds : CreateTrigger(kind) => DataTypes'
  BY DEF CreateTrigger
<1>7. \A kind : DropTrigger(kind) => DataTypes'
  BY DEF DropTrigger
<1>8. ASSUME NEW S, CopyChunk(S) PROVE DataTypes'
  <2>1. Copied(S) \in Rows
    BY DEF Copied, Rows
  <2>2. rows' \in [Objects -> Rows]
    BY <1>8, <2>1 DEF CopyChunk
  <2>3. [k \in Keys |-> IF k \in S THEN Copied(S)[k] ELSE base.sh[k]] \in Rows
    BY <2>1 DEF Rows
  <2>4. base' = [base EXCEPT !.sh =
          [k \in Keys |-> IF k \in S THEN Copied(S)[k] ELSE base.sh[k]]]
    BY <1>8 DEF CopyChunk
  <2>5. base' \in [Objects -> Rows]
    BY <2>3, <2>4
  <2> QED BY <1>8, <2>2, <2>5 DEF CopyChunk
<1>9. ASSUME NEW name \in {"new", "old"}, DropTable(name) PROVE DataTypes'
  <2>1. Empty \in Rows
    BY DEF Empty, Rows
  <2>2. CASE table[name] = "none"
    BY <1>9, <2>2 DEF DropTable
  <2>3. CASE table[name] # "none"
    <3>1. table[name] \in Objects
      BY <2>3
    <3>2. /\ table' = [table EXCEPT ![name] = "none"]
          /\ triggers' = {} \/ triggers' = triggers
          /\ altered' = altered \ {table[name]}
          /\ rows' = [rows EXCEPT ![table[name]] = Empty]
          /\ base' = [base EXCEPT ![table[name]] = Empty]
          /\ UNCHANGED gap
      BY <1>9, <2>3 DEF DropTable
    <3> QED BY <2>1, <3>1, <3>2
  <2> QED BY <2>2, <2>3
<1> QED BY <1>1, <1>2, <1>3, <1>4, <1>5, <1>6, <1>7, <1>8, <1>9

(* AppTypes: nor does the application. *)
LEMMA AppTypes ==
  ASSUME TypeInv, App
  PROVE  TypeInv'
<1>0. DataTypes /\ RunTypes
  BY DEF TypeInv
<1> USE DEF Objects, Names
<1>a. ASSUME NEW w \in Writers, NEW kind, NEW f \in Rows, NEW g \in Rows,
             Apply(w, kind, f, g)
      PROVE  TypeInv'
  <2>1. PICK o \in Objects, K \in SUBSET Keys, L \in SUBSET Keys :
          /\ \/ rows' = [src |-> f, sh |-> g]
             \/ rows' = [rows EXCEPT ![o] = f]
          /\ held' = [held EXCEPT ![w] =
                        held[w] \cup ({o} \X K) \cup ({"sh"} \X L)]
    <3> DEFINE o == table.t
               mirrored == o = "src" /\ kind \in triggers
               K == {k \in Keys : f[k] # rows[o][k]}
               L == IF mirrored
                    THEN {k \in Keys : g[k] # rows.sh[k]} \cup K ELSE {}
    <3>1. o \in Objects /\ K \in SUBSET Keys /\ L \in SUBSET Keys
      BY <1>0 DEF DataTypes
    <3>2. /\ \/ rows' = [src |-> f, sh |-> g]
             \/ rows' = [rows EXCEPT ![o] = f]
          /\ held' = [held EXCEPT ![w] =
                        @ \cup ({o} \X K) \cup ({"sh"} \X L)]
      BY <1>a DEF Apply
    <3> HIDE DEF o, K, L
    <3> QED BY <3>1, <3>2
  <2>2. rows' \in [Objects -> Rows]
    BY <1>0, <2>1 DEF DataTypes
  <2>3. held' \in [Writers -> SUBSET (Objects \X Keys)]
    BY <1>0, <2>1 DEF DataTypes
  <2>4. gap' \in BOOLEAN
    BY <1>a DEF Apply
  <2>5. /\ UNCHANGED <<alter, base, dict, osc>>
        /\ writes < MaxWrites /\ writes' = writes + 1
    BY <1>a DEF Apply
  <2>6. DataTypes'
    BY <1>0, <2>2, <2>3, <2>4, <2>5 DEF DataTypes, dict
  <2>7. writes' \in 0..MaxWrites
    BY <1>0, <2>5 DEF RunTypes
  <2> QED BY <1>0, <2>5, <2>6, <2>7 DEF TypeInv, RunTypes, osc
<1>1. ASSUME NEW w \in Writers, Write(w) PROVE TypeInv'
  <2>1. PICK k \in Keys, v \in Values \cup {Absent} :
          LET o == table.t
              f == [rows[o] EXCEPT ![k] = v]
              kind == IF rows[o][k] = Absent THEN "insert"
                      ELSE IF v = Absent THEN "delete" ELSE "update"
              g == IF v = Absent THEN Delete(rows.sh, k)
                   ELSE Replace(rows.sh, k, v)
          IN  Apply(w, kind, f, g)
    BY <1>1 DEF Write
  <2>2. /\ [rows[table.t] EXCEPT ![k] = v] \in Rows
        /\ Delete(rows.sh, k) \in Rows /\ Replace(rows.sh, k, v) \in Rows
    BY <1>0 DEF DataTypes, Rows, Delete, Replace
  <2>3. (IF v = Absent THEN Delete(rows.sh, k) ELSE Replace(rows.sh, k, v))
          \in Rows
    BY <2>2
  <2> QED BY <1>a, <2>1, <2>2, <2>3
<1>2. ASSUME NEW w \in Writers, Move(w) PROVE TypeInv'
  <2>1. PICK j \in Keys, k \in Keys :
          Apply(w, "update",
                [rows[table.t] EXCEPT ![j] = Absent, ![k] = rows[table.t][j]],
                Replace(Delete(rows.sh, j), k, rows[table.t][j]))
    BY <1>2 DEF Move
  <2>2. rows[table.t][j] \in Values \cup {Absent}
    BY <1>0 DEF DataTypes, Rows
  <2>3. [rows[table.t] EXCEPT ![j] = Absent, ![k] = rows[table.t][j]] \in Rows
    BY <1>0, <2>2 DEF DataTypes, Rows
  <2>4. Delete(rows.sh, j) \in Rows
    BY <1>0 DEF DataTypes, Rows, Delete
  <2>5. Replace(Delete(rows.sh, j), k, rows[table.t][j]) \in Rows
    BY <2>2, <2>4 DEF Rows, Replace
  <2> QED BY <1>a, <2>1, <2>3, <2>5
<1>3. ASSUME NEW w \in Writers, NEW c \in BOOLEAN, End(w, c) PROVE TypeInv'
  <2>1. held' \in [Writers -> SUBSET (Objects \X Keys)]
    BY <1>0, <1>3 DEF End, DataTypes
  <2>2. base' \in [Objects -> Rows]
    BY <1>0, <1>3 DEF End, DataTypes, Rows
  <2>3. rows' \in [Objects -> Rows]
    BY <1>0, <1>3 DEF End, DataTypes, Rows
  <2>4. UNCHANGED <<alter, dict, osc, writes, gap>>
    BY <1>3 DEF End
  <2>5. DataTypes'
    BY <1>0, <2>1, <2>2, <2>3, <2>4 DEF DataTypes, dict
  <2> QED BY <1>0, <2>4, <2>5 DEF TypeInv, RunTypes, osc
<1> QED BY <1>1, <1>2, <1>3 DEF App, Commit, Rollback

(* MemoryTypes: what a run forgets, and what it keeps for its clean-up. *)
LEMMA MemoryTypes ==
  ASSUME mem \in Memory
  PROVE  /\ Fresh \in Memory /\ Fresh.recorded = 0
         /\ ~Fresh.created_shadow /\ ~Fresh.swapped
         /\ Flags(mem) \in Memory /\ Flags(mem).recorded = mem.recorded
         /\ Flags(mem).created_shadow = mem.created_shadow
         /\ Flags(mem).swapped = mem.swapped
<1>1. /\ Fresh \in Memory /\ Fresh.recorded = 0
      /\ ~Fresh.created_shadow /\ ~Fresh.swapped
  BY DEF Fresh, Memory
<1>2. /\ Flags(mem) \in Memory /\ Flags(mem).recorded = mem.recorded
      /\ Flags(mem).created_shadow = mem.created_shadow
      /\ Flags(mem).swapped = mem.swapped
  BY DEF Flags, Fresh, Memory
<1> QED BY <1>1, <1>2

(* StopTypes: what is known of the statement a stopped run leaves behind. *)
LEMMA StopTypes ==
  ASSUME RunTypes, Stops
  PROVE  /\ late' \in Arguments /\ inflight' \in {inflight, pc}
         /\ inflight' \in Statements \cup {"none"}
         /\ inflight' = "trigger" => late'.recorded \in 1..3
         /\ \/ UNCHANGED <<inflight, late>>
            \/ /\ pc \in Statements /\ inflight' = pc /\ late'.run = runs
               /\ pc = "trigger" => late'.recorded = mem.recorded
<1>1. CASE UNCHANGED <<inflight, late>>
  BY <1>1 DEF RunTypes
<1>2. CASE pc \in Statements /\ inflight' = pc /\ late' = Arguing(pc)
  <2>1. /\ mem.recorded \in 0..3 /\ mem.lo \in Keys \cup {0}
        /\ mem.hi \in Keys \cup {0} /\ runs \in 0..MaxRuns
    BY DEF RunTypes, Memory
  <2>2. /\ late' \in Arguments /\ late'.run = runs
        /\ pc = "trigger" => late'.recorded = mem.recorded
    BY <1>2, <2>1 DEF Arguing, Arguments
  <2> QED BY <1>2, <2>2 DEF RunTypes
<1> QED BY <1>1, <1>2 DEF Stops

(* Fits: what m must hold for the statement next. *)
Fits(next, m) ==
    /\ next \in {"instant", "create", "alter"} => m.recorded = 0
    /\ next = "record" => m.recorded \in 0..2
    /\ next = "trigger" => m.recorded \in 1..3
    /\ next \in {"throttle", "hot", "boundary", "copy"} => m.max_pk \in Keys
    /\ next = "copy" => m.hi \in Keys

(* GoTypes: a step to the next statement. *)
LEMMA GoTypes ==
  ASSUME RunTypes, NEW next, NEW m \in Memory, Go(next, m), Fits(next, m),
         next \in Running \cup Cleaning \cup Ended \cup {"mismatch"},
         inflight' \in Statements \cup {"none"}, late' \in Arguments,
         inflight' = "trigger" => late'.recorded \in 1..3,
         outlived' \in BOOLEAN, runs' \in 0..MaxRuns,
         UNCHANGED <<op, found, writes>>
  PROVE  RunTypes'
<1>1. tries' \in 0..MaxAttempts /\ tries' < MaxAttempts
  BY DEF Go, RunTypes
<1>2. pc' = next /\ mem' = m
  BY DEF Go
<1> QED BY <1>1, <1>2 DEF RunTypes, Fits

(* TypeMakes: the steps up to the first chunk. *)
LEMMA TypeMakes ==
  ASSUME TypeInv,
         \/ TryInstant \/ MakeShadow \/ RecordTrigger \/ AddTrigger
         \/ Exists \/ MaxPk
  PROVE  TypeInv'
<1>0. DataTypes /\ RunTypes /\ mem \in Memory
  BY DEF TypeInv, RunTypes
<1>1. DataTypes'
  <2> USE DEF Step, Other, Quiet
  <2>1. CASE TryInstant
    BY <1>0, <2>1, ServerTypes DEF TryInstant, AlterInPlace
  <2>2. CASE MakeShadow
    BY <1>0, <2>2, ServerTypes DEF MakeShadow
  <2>3. CASE RecordTrigger \/ Exists \/ MaxPk
    BY <1>0, <2>3, ServerTypes DEF RecordTrigger, Exists, MaxPk
  <2>4. CASE AddTrigger
    <3>1. mem.recorded \in 1..3
      BY <1>0, <2>4 DEF AddTrigger, RunTypes
    <3>2. Order[mem.recorded] \in Kinds
      BY <3>1 DEF Order, Kinds
    <3> QED BY <1>0, <2>4, <3>2, ServerTypes DEF AddTrigger
  <2> QED BY <2>1, <2>2, <2>3, <2>4
<1>2. RunTypes'
  <2>0. UNCHANGED <<inflight, late, op, found, outlived, runs, writes>>
    BY DEF TryInstant, MakeShadow, RecordTrigger, AddTrigger, Exists, MaxPk,
           Step, Other, Quiet
  <2>a. ASSUME NEW next \in Running \cup Cleaning \cup Ended,
               NEW m \in Memory, Go(next, m), Fits(next, m)
        PROVE  RunTypes'
    BY <1>0, <2>0, <2>a, GoTypes DEF RunTypes
  <2>b. Flags(mem) \in Memory /\ Flags(mem).recorded = mem.recorded
    BY <1>0, MemoryTypes
  <2> USE DEF Running, Statements, Cleaning, Ended, Fits
  <2>1. CASE TryInstant
    <3>1. (Go("done", mem) \/ Go("create", mem)) /\ mem.recorded = 0
      BY <1>0, <2>1 DEF TryInstant, RunTypes
    <3> QED BY <1>0, <2>a, <3>1
  <2>2. CASE MakeShadow
    <3> DEFINE m == [mem EXCEPT !.created_shadow = TRUE]
    <3>1. /\ Go("alter", m) \/ Go("record", mem) \/ Go("kill", Flags(mem))
          /\ mem.recorded = 0
      BY <1>0, <2>2 DEF MakeShadow, ValidateShadow, RunTypes
    <3>3. m \in Memory /\ m.recorded = mem.recorded
      BY <1>0 DEF Memory
    <3> HIDE DEF m
    <3> QED BY <1>0, <2>a, <2>b, <3>1, <3>3
  <2>3. CASE RecordTrigger
    <3> DEFINE m == [mem EXCEPT !.recorded = @ + 1]
    <3>1. Go("trigger", m) /\ mem.recorded \in 0..2
      BY <1>0, <2>3 DEF RecordTrigger, RunTypes
    <3>2. m \in Memory /\ m.recorded \in 1..3
      BY <1>0, <3>1 DEF Memory
    <3> HIDE DEF m
    <3> QED BY <2>a, <3>1, <3>2
  <2>4. CASE AddTrigger
    <3>1. /\ Go(IF mem.recorded < 3 THEN "record" ELSE "maxpk", mem)
          /\ mem.recorded \in 1..3
      BY <1>0, <2>4 DEF AddTrigger, RunTypes
    <3> QED BY <1>0, <2>a, <3>1
  <2>5. CASE MaxPk
    <3> DEFINE P == Present(base.src)
               m == [mem EXCEPT !.max_pk = Largest(P)]
    <3>2. CASE P = {}
      BY <1>0, <2>5, <2>a, <3>2 DEF MaxPk
    <3>3. CASE P # {}
      <4>1. P \in SUBSET Keys
        BY DEF Present
      <4>2. Largest(P) \in Keys
        <5> HIDE DEF P
        <5> QED BY <3>3, <4>1, LargestKey
      <4>3. m \in Memory /\ m.max_pk \in Keys /\ m.recorded = mem.recorded
        <5> HIDE DEF P
        <5> QED BY <1>0, <4>2 DEF Memory
      <4>4. Go("throttle", m)
        BY <2>5, <3>3 DEF MaxPk
      <4> HIDE DEF m
      <4> QED BY <2>a, <4>3, <4>4
    <3> QED BY <3>2, <3>3
  <2>6. CASE Exists
    BY <2>6, <2>a, <2>b DEF Exists
  <2> QED BY <2>1, <2>2, <2>3, <2>4, <2>5, <2>6
<1> QED BY <1>1, <1>2 DEF TypeInv

(* TypeCopies: the copy and the checksum. *)
LEMMA TypeCopies ==
  ASSUME TypeInv,
         \/ Throttle \/ Boundary \/ Copy \/ SumSource \/ SumShadow
         \/ Mismatch \/ LockTimeout
  PROVE  TypeInv'
<1>0. DataTypes /\ RunTypes /\ mem \in Memory
  BY DEF TypeInv, RunTypes
<1>1. DataTypes'
  <2> USE DEF Step, Other, Quiet
  <2>1. CASE Copy
    BY <1>0, <2>1, ServerTypes DEF Copy
  <2>2. CASE ~Copy
    BY <1>0, <2>2, ServerTypes
    DEF Throttle, Resume, Pause, Boundary, SumSource, SumShadow, Mismatch,
        LockTimeout
  <2> QED BY <2>1, <2>2
<1>2. RunTypes'
  <2>0. UNCHANGED <<inflight, late, op, found, outlived, runs, writes>>
    BY DEF Throttle, Resume, Pause, Boundary, Copy, SumSource, SumShadow,
           Mismatch, LockTimeout, Step, Other, Quiet
  <2>a. ASSUME NEW next \in Running \cup Cleaning \cup {"mismatch"},
               NEW m \in Memory, Go(next, m), Fits(next, m)
        PROVE  RunTypes'
    BY <1>0, <2>0, <2>a, GoTypes DEF RunTypes
  <2> USE DEF Running, Statements, Cleaning, Ended, Fits
  <2>1. CASE Throttle
    BY <1>0, <2>1, <2>a DEF Throttle, Resume, Pause, RunTypes
  <2>2. CASE Boundary
    <3>1. mem.max_pk \in Keys
      BY <1>0, <2>2 DEF Boundary, RunTypes
    <3>2. PICK k \in Keys, b \in BOOLEAN :
            Go("copy", IF b THEN [mem EXCEPT !.hi = mem.max_pk, !.last = TRUE]
                       ELSE [mem EXCEPT !.hi = k])
      <4>1. \/ \E k \in Keys : Go("copy", [mem EXCEPT !.hi = k])
            \/ Go("copy", [mem EXCEPT !.hi = mem.max_pk, !.last = TRUE])
        BY <2>2 DEF Boundary, Between
      <4> QED BY <3>1, <4>1
    <3> DEFINE m == IF b THEN [mem EXCEPT !.hi = mem.max_pk, !.last = TRUE]
                    ELSE [mem EXCEPT !.hi = k]
    <3>3. m \in Memory /\ m.hi \in Keys /\ m.max_pk \in Keys
      BY <1>0, <3>1 DEF Memory
    <3> HIDE DEF m
    <3> QED BY <2>a, <3>2, <3>3 DEF m
  <2>3. CASE Copy
    <3>1. mem.hi \in Keys /\ mem.max_pk \in Keys
      BY <1>0, <2>3 DEF Copy, RunTypes
    <3> DEFINE m == [mem EXCEPT !.boundaries = @ \cup {mem.hi},
                                !.lo = mem.hi, !.hi = 0]
               l == [m EXCEPT !.lo = 0, !.max_pk = 0, !.last = FALSE]
    <3>2. m \in Memory /\ m.max_pk \in Keys
      BY <1>0, <3>1 DEF Memory
    <3>3. l \in Memory
      <4> HIDE DEF m
      <4> QED BY <3>2 DEF Memory
    <3>4. \/ Go("sumSrc", l) \/ Go("throttle", m)
      BY <2>3 DEF Copy
    <3> HIDE DEF m, l
    <3> QED BY <2>a, <3>2, <3>3, <3>4
  <2>4. CASE SumSource
    <3> DEFINE m == [mem EXCEPT !.sum = Digest(rows.src)]
    <3>1. Digest(rows.src) \in SUBSET (Keys \X Values)
      <4>1. rows.src \in Rows
        BY <1>0 DEF DataTypes, Objects
      <4> QED BY <4>1 DEF Digest, Present, Rows
    <3>2. m \in Memory
      BY <1>0, <3>1 DEF Memory
    <3>3. Go("sumShadow", m)
      BY <2>4 DEF SumSource
    <3> HIDE DEF m
    <3> QED BY <2>a, <3>2, <3>3
  <2>5. CASE SumShadow
    <3> DEFINE m == [mem EXCEPT !.sum = {}]
               l == [m EXCEPT !.checked = NextCut]
               e == [m EXCEPT !.checked = 0, !.boundaries = {}]
    <3>1. NextCut \in Keys \cup {0}
      <4> DEFINE rest == {b \in mem.boundaries : b > mem.checked}
      <4>1. rest \subseteq Keys /\ rest \subseteq Nat
        BY <1>0 DEF Memory
      <4>2. NextCut = IF rest = {} THEN 0 ELSE Smallest(rest)
        BY DEF NextCut
      <4> HIDE DEF rest
      <4> QED BY <4>1, <4>2, SmallestKey
    <3>2. m \in Memory
      BY <1>0 DEF Memory
    <3>3. l \in Memory /\ e \in Memory
      <4> HIDE DEF m
      <4> QED BY <3>1, <3>2 DEF Memory
    <3>4. \/ Go("mismatch", m) \/ Go("sumSrc", l) \/ Go("swap", e)
      BY <2>5 DEF SumShadow
    <3> HIDE DEF m, l, e
    <3> QED BY <2>a, <3>2, <3>3, <3>4
  <2>6. CASE Mismatch
    <3>1. Flags(mem) \in Memory
      BY <1>0, MemoryTypes
    <3> QED BY <2>6, <2>a, <3>1 DEF Mismatch
  <2>7. CASE LockTimeout
    <3>1. Flags(mem) \in Memory
      BY <1>0, MemoryTypes
    <3>2. CASE pc \in {"instant", "create"} \/ tries + 1 = MaxAttempts
      BY <2>7, <2>a, <3>1, <3>2 DEF LockTimeout
    <3>3. CASE ~(pc \in {"instant", "create"} \/ tries + 1 = MaxAttempts)
      <4>1. /\ pc' = IF pc = "sumShadow" THEN "sumSrc" ELSE pc
            /\ mem' = [mem EXCEPT !.sum = {}] /\ tries' = tries + 1
        BY <2>7, <3>3 DEF LockTimeout
      <4>2. /\ mem' \in Memory /\ mem'.recorded = mem.recorded
            /\ mem'.max_pk = mem.max_pk /\ mem'.hi = mem.hi
        BY <1>0, <4>1 DEF Memory
      <4>3. tries' \in 0..MaxAttempts /\ tries' < MaxAttempts
        BY <1>0, <3>3, <4>1 DEF RunTypes
      <4>4. pc' \in Running \cup Cleaning \cup Ended \cup {"mismatch"}
        BY <1>0, <4>1 DEF RunTypes
      <4> QED BY <1>0, <2>0, <4>1, <4>2, <4>3, <4>4 DEF RunTypes
    <3> QED BY <3>2, <3>3
  <2> QED BY <2>1, <2>2, <2>3, <2>4, <2>5, <2>6, <2>7
<1> QED BY <1>1, <1>2 DEF TypeInv

(* TypeEnds: the swap, the clean-up, failures and the operator's clean-up. *)
LEMMA TypeEnds ==
  ASSUME TypeInv,
         \/ Swap \/ DropTriggersAfterSwap \/ DropOld
         \/ Kill \/ DropCreated \/ DropShadow \/ CleanupTimeout
         \/ Start \/ Interrupt \/ Crash
  PROVE  TypeInv'
<1>0. DataTypes /\ RunTypes /\ mem \in Memory
  BY DEF TypeInv, RunTypes
<1>1. DataTypes'
  <2> USE DEF Step, Other, Quiet
  <2>1. CASE Swap
    BY <1>0, <2>1, ServerTypes DEF Swap
  <2>2. CASE DropTriggersAfterSwap
    BY <1>0, <2>2, ServerTypes DEF DropTriggersAfterSwap
  <2>3. CASE DropOld
    BY <1>0, <2>3, ServerTypes DEF DropOld
  <2>4. CASE DropCreated
    BY <1>0, <2>4, ServerTypes DEF DropCreated
  <2>5. CASE DropShadow
    BY <1>0, <2>5, ServerTypes DEF DropShadow
  <2>6. CASE Kill \/ CleanupTimeout \/ Start \/ Interrupt \/ Crash
    BY <1>0, <2>6, ServerTypes
    DEF Kill, CleanupTimeout, Start, Interrupt, Crash
  <2> QED BY <2>1, <2>2, <2>3, <2>4, <2>5, <2>6
<1>2. RunTypes'
  <2>0. /\ UNCHANGED <<op, found, writes>> /\ runs' \in 0..MaxRuns
        /\ outlived' \in BOOLEAN
        /\ inflight' \in Statements \cup {"none"} /\ late' \in Arguments
        /\ inflight' = "trigger" => late'.recorded \in 1..3
    <3> USE DEF Other, Step, Quiet
    <3>1. CASE Start
      BY <1>0, <3>1 DEF Start, Outlives, RunTypes
    <3>2. CASE Interrupt \/ Crash
      <4>1. Stops /\ Other
        BY <3>2 DEF Interrupt, Crash
      <4> QED BY <1>0, <4>1, StopTypes DEF RunTypes
    <3>3. CASE Kill
      <4>1. NoArguments \in Arguments
        BY DEF NoArguments, Arguments
      <4> QED BY <1>0, <3>3, <4>1 DEF Kill, RunTypes
    <3>4. CASE Swap \/ DropTriggersAfterSwap \/ DropOld
      BY <1>0, <3>4 DEF Swap, DropTriggersAfterSwap, DropOld, RunTypes
    <3>5. CASE DropCreated \/ DropShadow \/ CleanupTimeout
      BY <1>0, <3>5 DEF DropCreated, DropShadow, CleanupTimeout, RunTypes
    <3> QED BY <3>1, <3>2, <3>3, <3>4, <3>5
  <2>a. ASSUME NEW next \in Running \cup Cleaning \cup Ended,
               NEW m \in Memory, Go(next, m), Fits(next, m)
        PROVE  RunTypes'
    BY <1>0, <2>0, <2>a, GoTypes
  <2>b. /\ Fresh \in Memory /\ Fresh.recorded = 0
        /\ Flags(mem) \in Memory /\ Flags(mem).recorded = mem.recorded
    BY <1>0, MemoryTypes
  <2> USE DEF Running, Statements, Cleaning, Ended, Fits
  <2>1. CASE Swap
    <3> DEFINE m == [mem EXCEPT !.swapped = TRUE]
    <3>1. m \in Memory /\ m.recorded = mem.recorded
      BY <1>0 DEF Memory
    <3>2. Go("drop", m)
      BY <2>1 DEF Swap
    <3> HIDE DEF m
    <3> QED BY <2>a, <3>1, <3>2
  <2>2. CASE DropTriggersAfterSwap
    <3> DEFINE m == [mem EXCEPT !.recorded = 0]
    <3>1. m \in Memory
      BY <1>0 DEF Memory
    <3>2. Go("drop", mem) \/ Go("dropOld", m) \/ Go("done", m)
      BY <2>2 DEF DropTriggersAfterSwap
    <3> HIDE DEF m
    <3> QED BY <1>0, <2>a, <3>1, <3>2
  <2>3. CASE DropOld
    BY <2>a, <2>b, <2>3 DEF DropOld
  <2>4. CASE Kill
    BY <2>a, <2>b, <2>4 DEF Kill
  <2>5. CASE DropCreated
    BY <1>0, <2>a, <2>5 DEF DropCreated
  <2>6. CASE DropShadow \/ CleanupTimeout
    BY <2>a, <2>b, <2>6 DEF DropShadow, CleanupTimeout
  <2>7. CASE Start
    BY <2>a, <2>b, <2>7 DEF Start
  <2>8. CASE Interrupt
    BY <2>a, <2>b, <2>8 DEF Interrupt
  <2>9. CASE Crash
    BY <2>a, <2>b, <2>9 DEF Crash
  <2> QED BY <2>1, <2>2, <2>3, <2>4, <2>5, <2>6, <2>7, <2>8, <2>9
<1> QED BY <1>1, <1>2 DEF TypeInv

(* TypeLate: a statement that executes late, the operator, and stuttering. *)
LEMMA TypeLate ==
  ASSUME TypeInv,
         \/ LateStatement \/ CleanupStart \/ CleanupStep \/ CleanupStops
         \/ UNCHANGED vars
  PROVE  TypeInv'
<1>0. DataTypes /\ RunTypes
  BY DEF TypeInv
<1>1. CASE LateStatement
  <2>0. /\ UNCHANGED <<alter, held, pc, mem, tries, op, found, outlived, runs,
                       writes>>
        /\ inflight' = "none" /\ late' \in Arguments
    BY <1>1 DEF LateStatement, NoArguments, Arguments
  <2>1. RunTypes'
    BY <1>0, <2>0 DEF RunTypes
  <2>2. DataTypes'
    <3>1. CASE inflight = "trigger" /\ CreateTrigger(Order[late.recorded])
      <4>1. late.recorded \in 1..3
        BY <1>0, <3>1 DEF RunTypes
      <4>2. Order[late.recorded] \in Kinds
        BY <4>1 DEF Order, Kinds
      <4> QED BY <1>0, <2>0, <3>1, <4>2, ServerTypes
    <3>2. CASE ~(inflight = "trigger" /\ CreateTrigger(Order[late.recorded]))
      BY <1>0, <1>1, <2>0, <3>2, ServerTypes DEF LateStatement, AlterInPlace
    <3> QED BY <3>1, <3>2
  <2> QED BY <2>1, <2>2 DEF TypeInv
<1>2. ASSUME NEW n \in {"idle", "triggers", "shadow", "old"},
             NEW T \in SUBSET Kinds, Op(n, T), outlived' \in BOOLEAN,
             DataTypes'
      PROVE  TypeInv'
  BY <1>0, <1>2 DEF TypeInv, RunTypes, Op
<1>3. CASE CleanupStart
  <2>1. Op("triggers", triggers) /\ SameDict /\ SameRows
        /\ outlived' \in BOOLEAN
    BY <1>0, <1>3 DEF CleanupStart, Outlives, RunTypes
  <2>2. DataTypes'
    BY <1>0, <2>1, ServerTypes DEF Op
  <2> QED BY <1>0, <1>2, <2>1, <2>2 DEF DataTypes
<1>4. CASE CleanupStops
  BY <1>0, <1>2, <1>4, ServerTypes DEF CleanupStops, Op, RunTypes
<1>5. CASE CleanupStep
  <2>0. outlived' \in BOOLEAN /\ found \subseteq Kinds
    BY <1>0, <1>5 DEF CleanupStep, RunTypes
  <2>1. CASE op = "triggers"
    <3>1. \/ \E k \in found : DropTrigger(k) /\ Op(op, found \ {k})
          \/ Op("shadow", {}) /\ SameDict /\ SameRows
      BY <1>5, <2>1 DEF CleanupStep
    <3>2. DataTypes'
      BY <1>0, <3>1, ServerTypes DEF Op
    <3> QED BY <1>2, <2>0, <2>1, <3>1, <3>2
  <2>2. CASE op # "triggers"
    <3>1. \E n \in {"old", "idle"} : Op(n, {})
      BY <1>5, <2>2 DEF CleanupStep
    <3>2. DropTable("new") \/ DropTable("old")
      BY <1>5, <2>2 DEF CleanupStep
    <3>3. DataTypes'
      BY <1>0, <3>1, <3>2, ServerTypes DEF Op
    <3> QED BY <1>2, <2>0, <3>1, <3>3
  <2> QED BY <2>1, <2>2
<1>6. CASE UNCHANGED vars
  BY <1>0, <1>6 DEF TypeInv, RunTypes, DataTypes, vars, osc
<1> QED BY <1>1, <1>3, <1>4, <1>5, <1>6

(* TypeInit: the types at the start. *)
LEMMA TypeInit == Init => TypeInv
<1> SUFFICES ASSUME Init PROVE TypeInv
  OBVIOUS
<1>1. Empty \in Rows
  BY DEF Empty, Rows
<1>2. rows \in [Objects -> Rows] /\ base = rows
  BY <1>1 DEF Init, Objects
<1>3. DataTypes
  <2>1. table \in [Names -> Objects \cup {"none"}] /\ table.t \in Objects
    BY DEF Init, Objects, Names
  <2>2. held \in [Writers -> SUBSET (Objects \X Keys)]
    BY DEF Init
  <2>3. /\ alter \in Alters /\ triggers \subseteq Kinds
        /\ altered \subseteq Objects
    BY DEF Init
  <2>4. gap \in BOOLEAN
    BY DEF Init
  <2> QED BY <1>2, <2>1, <2>2, <2>3, <2>4 DEF DataTypes
<1>4. Fresh \in Memory
  BY DEF Fresh, Memory
<1>5. NoArguments \in Arguments
  BY DEF NoArguments, Arguments
<1>6. 0 \in 0..MaxAttempts /\ 0 < MaxAttempts /\ 0 \in 0..MaxRuns
      /\ 0 \in 0..MaxWrites
  OBVIOUS
<1>7. RunTypes
  BY <1>4, <1>5, <1>6 DEF Init, RunTypes, Ended
<1> QED BY <1>3, <1>7 DEF TypeInv

(* TypeNext: no step of the specification leaves the types. *)
LEMMA TypeNext == TypeInv /\ [Next]_vars => TypeInv'
<1> SUFFICES ASSUME TypeInv, [Next]_vars PROVE TypeInv'
  OBVIOUS
<1>1. CASE App
  BY <1>1, AppTypes
<1>2. CASE Run
  BY <1>2, TypeMakes, TypeCopies, TypeEnds DEF Run
<1>3. CASE Start \/ Interrupt \/ Crash
  BY <1>3, TypeEnds
<1>4. CASE \/ LateStatement \/ CleanupStart \/ CleanupStep \/ CleanupStops
           \/ UNCHANGED vars
  BY <1>4, TypeLate
<1> QED BY <1>1, <1>2, <1>3, <1>4 DEF Next

(* TypeCorrect: every variable of the schema change keeps its type, and a  *)
(* statement never meets a memory without the key or the trigger it names. *)
THEOREM TypeCorrect == Spec => []TypeOK
<1>1. TypeInv => TypeOK
  BY DEF TypeInv, DataTypes, RunTypes, TypeOK
<1> QED BY <1>1, TypeInit, TypeNext, PTL DEF Spec

-----------------------------------------------------------------------------
(* Where the tables and the triggers are, statement by statement.          *)

(* The triggers the first n CREATEs make. *)
Upto(n) == IF n = 0 THEN {}
           ELSE IF n = 1 THEN {"insert"}
           ELSE IF n = 2 THEN {"insert", "update"} ELSE Kinds

At(s) == pc = s \/ inflight = s
Brief == {"instant", "create", "trigger"}
Copying == {"maxpk", "throttle", "hot", "boundary", "copy", "sumSrc",
            "sumShadow", "mismatch", "swap"}

TableInv ==
    \/ table.t = "src" /\ table.old = "none" /\ table.new \in {"none", "sh"}
    \/ table.t = "sh" /\ table.new = "none" /\ table.old \in {"src", "none"}

(* What a statement finds, executed in time or late. *)
PhaseInv ==
    /\ pc \in {"instant", "create"} \/ inflight \in Brief => table.t = "src"
    /\ inflight = "trigger" => table.new = "sh" \/ outlived
    /\ At("alter") => table.t = "src" /\ table.new = "sh"
    /\ pc \in {"record", "trigger"} => table.t = "src" /\ table.new = "sh"
    /\ pc = "record" => Upto(mem.recorded) \subseteq triggers
    /\ pc = "trigger" => Upto(mem.recorded - 1) \subseteq triggers
    /\ pc \in Copying \/ inflight \in Copying
         => table.t = "src" /\ table.new = "sh" /\ triggers = Kinds
    /\ At("drop") \/ At("dropOld") \/ mem.swapped => table.t = "sh"

(* What the run remembers covers what its clean-up must undo, and what the *)
(* operator has found covers what there is: but for a trigger that         *)
(* outlives its run.                                                       *)
MemoryInv ==
    /\ op # "idle" => pc \in Ended
    /\ op # "idle" /\ inflight = "trigger" => outlived
    /\ op = "triggers" => /\ outlived \/ triggers \subseteq found
                          /\ inflight \in Copying => found = Kinds
    /\ op = "shadow" =>
         (outlived \/ triggers = {}) /\ inflight \notin Copying
    /\ pc \in Copying \cup {"drop"} => mem.recorded = 3
    /\ pc = "kill" /\ inflight = "trigger"
         => outlived \/ late.recorded = mem.recorded
    /\ pc \in Running \cup Cleaning \cup {"mismatch"}
         => outlived \/ triggers \subseteq Upto(mem.recorded)
    /\ pc \in {"cleanShadow", "dropOld"} => outlived \/ triggers = {}

(* A statement nobody reads is the stopped run's own until its KILL, or    *)
(* one of an earlier run: then it has the table's lock, and a later run    *)
(* gets nowhere.                                                           *)
StrayInv ==
    inflight # "none" =>
      \/ pc \in {"failed", "dead"}
      \/ pc = "kill" /\ late.run = runs
      \/ /\ pc \in {"instant", "create", "kill", "clean", "cleanShadow"}
         /\ inflight \in Brief /\ mem.recorded = 0
         /\ inflight = "trigger" => outlived

Control ==
    TableInv /\ PhaseInv /\ MemoryInv /\ StrayInv /\ WritesSurvive
ControlInv == TypeInv /\ Control

(* ControlFacts: the types the proofs below use. *)
LEMMA ControlFacts ==
  ASSUME TypeInv
  PROVE  /\ mem \in Memory /\ mem.recorded \in 0..3
         /\ triggers \subseteq Kinds
         /\ table \in [Names -> Objects \cup {"none"}]
         /\ inflight \in Statements \cup {"none"}
         /\ pc \in {"instant", "create", "alter"} => mem.recorded = 0
         /\ pc = "trigger" => mem.recorded \in 1..3
         /\ inflight = "trigger" => late.recorded \in 1..3
         /\ found \subseteq Kinds /\ outlived \in BOOLEAN
BY DEF TypeInv, RunTypes, DataTypes, Memory

(* TriggerOrder: the triggers a run has recorded. *)
LEMMA TriggerOrder ==
  ASSUME mem.recorded \in 0..3
  PROVE  /\ Created = Upto(mem.recorded)
         /\ mem.recorded # 0 =>
              Upto(mem.recorded) = Upto(mem.recorded - 1)
                                     \cup {Order[mem.recorded]}
<1> USE DEF Created, Upto, Order, Kinds
<1>1. CASE mem.recorded = 0
  BY <1>1
<1>2. CASE mem.recorded = 1
  <2>1. 1..mem.recorded = {1}
    BY <1>2
  <2> QED BY <1>2, <2>1
<1>3. CASE mem.recorded = 2
  <2>1. 1..mem.recorded = {1, 2}
    BY <1>3
  <2> QED BY <1>3, <2>1
<1>4. CASE mem.recorded = 3
  <2>1. 1..mem.recorded = {1, 2, 3}
    BY <1>4
  <2> QED BY <1>4, <2>1
<1> QED BY <1>1, <1>2, <1>3, <1>4

(* ControlMakes: the steps up to the first chunk. *)
LEMMA ControlMakes ==
  ASSUME ControlInv, TypeInv',
         \/ TryInstant \/ MakeShadow \/ RecordTrigger \/ AddTrigger
         \/ Exists \/ MaxPk
  PROVE  Control'
<1>0. TypeInv /\ TableInv /\ PhaseInv /\ MemoryInv /\ StrayInv
      /\ WritesSurvive
  BY DEF ControlInv, Control
<1>a. /\ mem \in Memory /\ mem' \in Memory /\ triggers \subseteq Kinds
      /\ table \in [Names -> Objects \cup {"none"}]
      /\ pc \in {"instant", "create", "alter"} => mem.recorded = 0
      /\ pc = "trigger" => mem.recorded \in 1..3
      /\ mem.recorded \in 0..3
  BY <1>0, ControlFacts, TypeInv' DEF TypeInv, RunTypes
<1>b. UNCHANGED <<inflight, late, op, outlived, runs, found>>
  BY DEF TryInstant, MakeShadow, RecordTrigger, AddTrigger, Exists, MaxPk,
         Quiet, Step, Other
<1>c. pc \notin Ended /\ op = "idle"
  BY <1>0 DEF TryInstant, MakeShadow, RecordTrigger, AddTrigger, Exists,
              MaxPk, MemoryInv, Ended
<1>d. pc \notin {"instant", "create"} => inflight = "none"
  BY <1>0 DEF TryInstant, MakeShadow, RecordTrigger, AddTrigger, Exists,
              MaxPk, StrayInv
<1> USE DEF Control, TableInv, PhaseInv, MemoryInv, StrayInv, WritesSurvive,
            At, Copying, Brief, Running, Cleaning, Ended, Statements,
            SameDict, dict, Go
<1>1. CASE TryInstant
  <2>1. /\ pc = "instant" /\ pc' \in {"done", "create"} /\ mem' = mem
        /\ UNCHANGED <<table, triggers>> /\ ~Queued("src")
    BY <1>1 DEF TryInstant
  <2>2. inflight = "none"
    BY <1>0, <2>1 DEF Queued, Locks, Objects
  <2> QED BY <1>0, <1>a, <1>b, <1>c, <2>1, <2>2
<1>2. CASE MakeShadow
  <2>1. CASE pc = "create"
    <3>1. /\ pc' = "alter" /\ mem' = [mem EXCEPT !.created_shadow = TRUE]
          /\ table' = [table EXCEPT !.new = "sh"] /\ UNCHANGED triggers
          /\ ~Queued("src")
      BY <1>2, <2>1 DEF MakeShadow, CreateShadow
    <3>2. mem'.recorded = mem.recorded /\ mem'.swapped = mem.swapped
      BY <1>a, <3>1 DEF Memory
    <3>3. inflight = "none"
      BY <1>0, <2>1, <3>1 DEF Queued, Locks, Objects
    <3> QED BY <1>0, <1>a, <1>b, <1>c, <2>1, <3>1, <3>2, <3>3 DEF Upto, Names
  <2>2. CASE pc = "alter"
    <3>1. /\ pc' \in {"record", "kill"} /\ UNCHANGED <<table, triggers>>
          /\ mem' \in {mem, Flags(mem)}
      BY <1>2, <2>2 DEF MakeShadow, AlterShadow, ValidateShadow
    <3>2. mem'.recorded = mem.recorded /\ mem'.swapped = mem.swapped
      BY <1>a, <3>1, MemoryTypes
    <3> QED BY <1>0, <1>a, <1>b, <1>c, <1>d, <2>2, <3>1, <3>2
            DEF Upto, Names
  <2> QED BY <1>2, <2>1, <2>2 DEF MakeShadow
<1>3. CASE RecordTrigger
  <2>1. /\ pc = "record" /\ pc' = "trigger" /\ UNCHANGED dict
        /\ mem' = [mem EXCEPT !.recorded = mem.recorded + 1]
    BY <1>3 DEF RecordTrigger, Quiet
  <2>2. mem'.recorded = mem.recorded + 1 /\ mem'.swapped = mem.swapped
    BY <1>a, <2>1 DEF Memory
  <2>3. mem'.recorded - 1 = mem.recorded
    BY <1>a, <2>2
  <2>4. Upto(mem.recorded) \subseteq Upto(mem'.recorded)
    BY <1>a, <2>2 DEF Upto, Kinds
  <2>5. TableInv' /\ WritesSurvive' /\ StrayInv'
    BY <1>0, <1>b, <1>d, <2>1
  <2>6. PhaseInv'
    BY <1>0, <1>a, <1>b, <1>d, <2>1, <2>2, <2>3
  <2>7. MemoryInv'
    BY <1>0, <1>a, <1>b, <1>c, <1>d, <2>1, <2>2, <2>3, <2>4
  <2> QED BY <2>5, <2>6, <2>7
<1>4. CASE AddTrigger
  <2>1. /\ pc = "trigger" /\ mem' = mem /\ mem.recorded \in 1..3
        /\ pc' = IF mem.recorded < 3 THEN "record" ELSE "maxpk"
        /\ triggers' = triggers \cup {Order[mem.recorded]}
        /\ UNCHANGED table
    BY <1>a, <1>4 DEF AddTrigger, CreateTrigger
  <2>2. Upto(mem.recorded) = Upto(mem.recorded - 1) \cup {Order[mem.recorded]}
    BY <2>1, <1>a, TriggerOrder
  <2>3. /\ Upto(mem.recorded) \subseteq triggers'
        /\ outlived \/ triggers' \subseteq Upto(mem.recorded)
    BY <1>0, <2>1, <2>2
  <2>4. Order[mem.recorded] \in Kinds
    BY <2>1 DEF Order, Kinds
  <2>5. mem.recorded = 3 => triggers' = Kinds
    BY <1>a, <2>1, <2>3, <2>4 DEF Upto
  <2> QED BY <1>0, <1>a, <1>b, <1>c, <1>d, <2>1, <2>3, <2>5
<1>5. CASE MaxPk
  <2>1. /\ pc = "maxpk" /\ pc' \in {"sumSrc", "throttle"}
        /\ UNCHANGED dict /\ mem'.recorded = mem.recorded
        /\ mem'.swapped = mem.swapped
    BY <1>a, <1>5 DEF MaxPk, Quiet, Memory
  <2> QED BY <1>0, <1>a, <1>b, <1>c, <1>d, <2>1
<1>6. CASE Exists
  <2>1. /\ pc \in {"create", "trigger"} /\ pc' = "kill" /\ UNCHANGED dict
        /\ mem' = Flags(mem)
    BY <1>6 DEF Exists, Quiet
  <2>2. mem'.recorded = mem.recorded /\ mem'.swapped = mem.swapped
    BY <1>a, <2>1, MemoryTypes
  <2> QED BY <1>0, <1>a, <1>b, <1>c, <1>d, <2>1, <2>2
<1> QED BY <1>1, <1>2, <1>3, <1>4, <1>5, <1>6

(* ControlCopies: the copy and the checksum leave the tables where they    *)
(* are, or hand over to the clean-up.                                      *)
LEMMA ControlCopies ==
  ASSUME ControlInv, TypeInv',
         \/ Throttle \/ Boundary \/ Copy \/ SumSource \/ SumShadow
         \/ Mismatch \/ LockTimeout
  PROVE  Control'
<1>0. TypeInv /\ TableInv /\ PhaseInv /\ MemoryInv /\ StrayInv
      /\ WritesSurvive
  BY DEF ControlInv, Control
<1>a. mem \in Memory
  BY <1>0, ControlFacts
<1>b. UNCHANGED <<inflight, late, op, found, outlived, runs, table, triggers>>
  BY DEF Throttle, Resume, Pause, Boundary, Copy, SumSource, SumShadow,
         Mismatch, LockTimeout, Quiet, Step, Other, CopyChunk, SameDict,
         dict
<1>c. ASSUME pc' \in {pc, "kill"} \/ (pc \in Copying /\ pc' \in Copying),
             pc \in Running \cup {"mismatch"},
             mem'.recorded = mem.recorded, mem'.swapped = mem.swapped
      PROVE  Control'
  <2> USE DEF Copying, Brief, Running, Cleaning, Ended, Statements, At
  <2>0. op = "idle" /\ (pc \notin {"instant", "create"} => inflight = "none")
    BY <1>0, <1>c DEF MemoryInv, StrayInv
  <2>1. TableInv' /\ WritesSurvive'
    BY <1>0, <1>b DEF TableInv, WritesSurvive
  <2>2. StrayInv'
    BY <1>0, <1>b, <1>c, <2>0 DEF StrayInv
  <2>3. PhaseInv'
    BY <1>0, <1>b, <1>c, <2>0 DEF PhaseInv
  <2>4. MemoryInv'
    BY <1>0, <1>b, <1>c, <2>0 DEF MemoryInv, StrayInv
  <2> QED BY <2>1, <2>2, <2>3, <2>4 DEF Control
<1> USE DEF Copying, Running, Statements, Go
<1>1. CASE Throttle
  BY <1>c, <1>1 DEF Throttle, Resume, Pause
<1>2. CASE Boundary
  <2>1. mem'.recorded = mem.recorded /\ mem'.swapped = mem.swapped
    BY <1>a, <1>2 DEF Boundary, Memory
  <2> QED BY <1>c, <1>2, <2>1 DEF Boundary
<1>3. CASE Copy
  <2> DEFINE m == [mem EXCEPT !.boundaries = @ \cup {mem.hi}, !.lo = mem.hi,
                              !.hi = 0]
  <2>1. m.recorded = mem.recorded /\ m.swapped = mem.swapped
    BY <1>a DEF Memory
  <2>2. \/ mem' = m
        \/ mem' = [m EXCEPT !.lo = 0, !.max_pk = 0, !.last = FALSE]
    BY <1>3 DEF Copy
  <2>3. mem'.recorded = mem.recorded /\ mem'.swapped = mem.swapped
    BY <1>a, <2>1, <2>2 DEF Memory
  <2> QED BY <1>c, <1>3, <2>3 DEF Copy
<1>4. CASE SumSource
  <2>1. mem'.recorded = mem.recorded /\ mem'.swapped = mem.swapped
    BY <1>a, <1>4 DEF SumSource, Memory
  <2> QED BY <1>c, <1>4, <2>1 DEF SumSource
<1>5. CASE SumShadow
  <2> DEFINE m == [mem EXCEPT !.sum = {}]
  <2>1. \/ mem' = m \/ mem' = [m EXCEPT !.checked = NextCut]
        \/ mem' = [m EXCEPT !.checked = 0, !.boundaries = {}]
    BY <1>5 DEF SumShadow
  <2>2. mem'.recorded = mem.recorded /\ mem'.swapped = mem.swapped
    BY <1>a, <2>1 DEF Memory
  <2> QED BY <1>c, <1>5, <2>2 DEF SumShadow
<1>6. CASE Mismatch
  <2>1. mem'.recorded = mem.recorded /\ mem'.swapped = mem.swapped
    BY <1>a, <1>6, MemoryTypes DEF Mismatch
  <2> QED BY <1>c, <1>6, <2>1 DEF Mismatch
<1>7. CASE LockTimeout
  <2>1. mem' = Flags(mem) \/ mem' = [mem EXCEPT !.sum = {}]
    BY <1>7 DEF LockTimeout
  <2>2. mem'.recorded = mem.recorded /\ mem'.swapped = mem.swapped
    BY <1>a, <2>1, MemoryTypes DEF Memory
  <2> QED BY <1>c, <1>7, <2>2 DEF LockTimeout, Blocked
<1> QED BY <1>1, <1>2, <1>3, <1>4, <1>5, <1>6, <1>7

(* ControlEnds: the swap, and the clean-up of a run. *)
LEMMA ControlEnds ==
  ASSUME ControlInv, TypeInv',
         \/ Swap \/ DropTriggersAfterSwap \/ DropOld
         \/ Kill \/ DropCreated \/ DropShadow \/ CleanupTimeout
  PROVE  Control'
<1>0. TypeInv /\ TableInv /\ PhaseInv /\ MemoryInv /\ StrayInv
      /\ WritesSurvive
  BY DEF ControlInv, Control
<1>a. /\ mem \in Memory /\ mem.recorded \in 0..3
      /\ triggers \subseteq Kinds
      /\ table \in [Names -> Objects \cup {"none"}]
  BY <1>0, ControlFacts
<1>b. Created = Upto(mem.recorded)
  BY <1>a, TriggerOrder
<1>c. /\ Fresh.recorded = 0 /\ ~Fresh.swapped
      /\ Flags(mem).recorded = mem.recorded /\ Flags(mem).swapped = mem.swapped
  BY <1>a, MemoryTypes
<1>d. UNCHANGED <<op, found, outlived, runs>>
  BY DEF Swap, DropTriggersAfterSwap, DropOld, Kill, DropCreated, DropShadow,
         CleanupTimeout, Step, Other, Quiet
<1>e. op = "idle" /\ (pc \in {"swap", "drop", "dropOld"} => inflight = "none")
  BY <1>0 DEF MemoryInv, StrayInv, Ended, Swap, DropTriggersAfterSwap,
              DropOld, Kill, DropCreated, DropShadow, CleanupTimeout
<1> USE DEF Control, TableInv, PhaseInv, MemoryInv, StrayInv, WritesSurvive,
            At, Copying, Brief, Running, Cleaning, Ended, Statements,
            SameDict, dict, Go
<1>1. CASE Swap
  <2>1. /\ pc = "swap" /\ pc' = "drop" /\ UNCHANGED <<inflight, triggers>>
        /\ mem' = [mem EXCEPT !.swapped = TRUE]
        /\ table' = [t |-> "sh", new |-> "none", old |-> table.t]
    BY <1>1 DEF Swap, Rename, Step
  <2>2. mem'.recorded = mem.recorded
    BY <1>a, <2>1 DEF Memory
  <2> QED BY <1>0, <1>a, <1>d, <1>e, <2>1, <2>2
<1>2. CASE DropTriggersAfterSwap
  <2>1. /\ pc = "drop" /\ UNCHANGED <<inflight, table>>
        /\ triggers' \subseteq triggers
        /\ \/ pc' = "drop" /\ mem' = mem
           \/ /\ pc' \in {"dropOld", "done"} /\ triggers' = {}
              /\ mem' = [mem EXCEPT !.recorded = 0]
    BY <1>2 DEF DropTriggersAfterSwap, DropTrigger, Step
  <2>2. mem'.swapped = mem.swapped
    BY <1>a, <2>1 DEF Memory
  <2> QED BY <1>0, <1>a, <1>d, <1>e, <2>1, <2>2
<1>3. CASE DropOld
  <2>1. /\ pc = "dropOld" /\ pc' = "done" /\ UNCHANGED inflight
        /\ mem' = Fresh
    BY <1>3 DEF DropOld, Step
  <2>2. table' = [table EXCEPT !.old = "none"] \/ table' = table
    BY <1>3 DEF DropOld, DropTable
  <2> QED BY <1>0, <1>a, <1>c, <1>d, <1>e, <2>1, <2>2 DEF Names
<1>4. CASE Kill
  <2>1. /\ pc = "kill" /\ UNCHANGED <<table, triggers>>
        /\ \/ /\ pc' = "clean" /\ mem' = Flags(mem)
              /\ IF late.run = runs THEN inflight' = "none"
                 ELSE UNCHANGED <<inflight, late>>
           \/ /\ pc' = "failed" /\ mem' = Fresh
              /\ UNCHANGED <<inflight, late>>
    BY <1>4 DEF Kill
  <2>2. TableInv' /\ WritesSurvive'
    BY <1>0, <1>d, <2>1
  <2>3. StrayInv'
    BY <1>0, <1>c, <1>d, <2>1
  <2>4. PhaseInv'
    BY <1>0, <1>c, <1>d, <2>1
  <2>5. MemoryInv'
    BY <1>0, <1>c, <1>d, <1>e, <2>1
  <2> QED BY <2>2, <2>3, <2>4, <2>5
<1>5. CASE DropCreated
  <2>1. /\ pc = "clean" /\ UNCHANGED <<inflight, late, table, mem>>
        /\ triggers' \subseteq triggers
        /\ \/ pc' = "clean"
           \/ pc' = "cleanShadow" /\ triggers' = triggers
              /\ Created \cap triggers = {}
    BY <1>5 DEF DropCreated, DropTrigger, Step
  <2>2. inflight \in Brief \cup {"none"}
    BY <1>0, <2>1
  <2> QED BY <1>0, <1>a, <1>b, <1>d, <1>e, <2>1, <2>2
<1>6. CASE DropShadow
  <2>1. /\ pc = "cleanShadow" /\ pc' = "failed" /\ UNCHANGED inflight
        /\ mem' = Fresh /\ inflight \in Brief \cup {"none"}
        /\ outlived \/ triggers = {}
        /\ inflight = "trigger" => outlived
    BY <1>0, <1>6 DEF DropShadow, Step
  <2>2. table' = [table EXCEPT !.new = "none"] \/ table' = table
    BY <1>6 DEF DropShadow, DropTable
  <2>3. triggers' \subseteq triggers
    BY <1>6, <2>1 DEF DropShadow, DropTable
  <2> QED BY <1>0, <1>a, <1>c, <1>d, <1>e, <2>1, <2>2, <2>3 DEF Names
<1>7. CASE CleanupTimeout
  <2>1. /\ pc \in {"clean", "cleanShadow"} /\ pc' = "failed"
        /\ UNCHANGED <<inflight, dict>> /\ mem' = Fresh
    BY <1>7 DEF CleanupTimeout, Quiet, Step
  <2> QED BY <1>0, <1>a, <1>c, <1>d, <1>e, <2>1
<1> QED BY <1>1, <1>2, <1>3, <1>4, <1>5, <1>6, <1>7

(* ControlStops: a run begins, is interrupted, or dies. *)
LEMMA ControlStops ==
  ASSUME ControlInv, TypeInv', Start \/ Interrupt \/ Crash
  PROVE  Control'
<1>0. TypeInv /\ TableInv /\ PhaseInv /\ MemoryInv /\ StrayInv
      /\ WritesSurvive
  BY DEF ControlInv, Control
<1>a. /\ mem \in Memory /\ mem.recorded \in 0..3 /\ triggers \subseteq Kinds
      /\ table \in [Names -> Objects \cup {"none"}]
      /\ inflight \in Statements \cup {"none"} /\ outlived \in BOOLEAN
  BY <1>0, ControlFacts
<1>b. /\ Fresh.recorded = 0 /\ ~Fresh.swapped
      /\ Flags(mem).recorded = mem.recorded /\ Flags(mem).swapped = mem.swapped
  BY <1>a, MemoryTypes
<1> USE DEF Control, TableInv, PhaseInv, MemoryInv, StrayInv, WritesSurvive,
            At, Copying, Brief, Running, Cleaning, Ended, Statements,
            SameDict, dict, Go
<1>1. CASE Start
  <2>1. /\ pc' \in {"instant", "create"} => ~Leftover
        /\ pc' \in {"instant", "create", "failed"} /\ mem' = Fresh
        /\ table.t = "src" /\ UNCHANGED dict /\ op = "idle" /\ op' = op
        /\ UNCHANGED inflight
        /\ outlived' = (outlived \/ inflight = "trigger")
    BY <1>1 DEF Start, Preflight, Outlives
  <2>2. pc' \in {"instant", "create"} =>
          table.new = "none" /\ triggers = {}
    BY <2>1 DEF Leftover
  <2>3. pc' \in {"instant", "create"} => inflight \in Brief \cup {"none"}
    BY <1>0, <1>a, <2>1, <2>2
  <2>4. TableInv' /\ WritesSurvive' /\ StrayInv'
    BY <1>0, <1>b, <2>1, <2>3
  <2>5. PhaseInv'
    BY <1>0, <1>b, <2>1, <2>2, <2>3
  <2>6. MemoryInv'
    BY <1>0, <1>a, <1>b, <2>1, <2>2
  <2> QED BY <2>4, <2>5, <2>6
<1>2. CASE Interrupt
  <2>1. /\ pc \in Running /\ pc' = "kill" /\ UNCHANGED dict
        /\ mem' = Flags(mem) /\ UNCHANGED <<op, outlived, runs>>
        /\ op = "idle"
    BY <1>0, <1>2 DEF Interrupt, Other
  <2>2. \/ UNCHANGED <<inflight, late>>
        \/ /\ pc \in Statements /\ inflight' = pc /\ late'.run = runs
           /\ pc = "trigger" => late'.recorded = mem.recorded
    BY <1>0, <1>2, StopTypes DEF Interrupt, TypeInv
  <2>3. mem'.recorded = mem.recorded /\ mem'.swapped = mem.swapped
    BY <1>b, <2>1
  <2>4. TableInv' /\ WritesSurvive'
    BY <1>0, <2>1
  <2>5. StrayInv'
    BY <1>0, <2>1, <2>2, <2>3
  <2>6. PhaseInv'
    BY <1>0, <1>a, <2>1, <2>2, <2>3
  <2>7. MemoryInv'
    BY <1>0, <1>a, <2>1, <2>2, <2>3
  <2> QED BY <2>4, <2>5, <2>6, <2>7
<1>3. CASE Crash
  <2>1. /\ pc \in Running \cup Cleaning /\ pc' = "dead" /\ UNCHANGED dict
        /\ mem' = Fresh /\ UNCHANGED <<op, outlived, runs>>
        /\ op = "idle"
    BY <1>0, <1>3 DEF Crash, Other
  <2>2. inflight' = inflight \/ (pc \in Statements /\ inflight' = pc)
    BY <1>3 DEF Crash, Stops
  <2>4. TableInv' /\ WritesSurvive' /\ StrayInv'
    BY <1>0, <2>1
  <2>5. PhaseInv'
    BY <1>0, <1>a, <1>b, <2>1, <2>2
  <2>6. MemoryInv'
    BY <1>0, <1>a, <2>1, <2>2
  <2> QED BY <2>4, <2>5, <2>6
<1> QED BY <1>1, <1>2, <1>3

(* ControlLate: a statement that executes late finds what it would have    *)
(* found in time, but for a trigger whose shadow is gone.                  *)
LEMMA ControlLate ==
  ASSUME ControlInv, TypeInv', LateStatement
  PROVE  Control'
<1>0. TypeInv /\ TableInv /\ PhaseInv /\ MemoryInv /\ StrayInv
      /\ WritesSurvive
  BY DEF ControlInv, Control
<1>a. /\ mem \in Memory /\ mem.recorded \in 0..3
      /\ inflight = "trigger" => late.recorded \in 1..3
      /\ triggers \subseteq Kinds
      /\ table \in [Names -> Objects \cup {"none"}]
  BY <1>0, ControlFacts
<1> USE DEF Control, TableInv, PhaseInv, MemoryInv, StrayInv, WritesSurvive,
            At, Copying, Brief, Running, Cleaning, Ended, Statements
<1>b. /\ UNCHANGED <<pc, mem, op, found, outlived, runs>>
      /\ inflight' = "none" /\ inflight # "none"
  BY DEF LateStatement
<1>1. CASE UNCHANGED <<table, triggers>>
  BY <1>0, <1>a, <1>b, <1>1
<1>2. CASE inflight = "create" /\ CreateShadow
  <2>1. /\ table.new = "none" /\ table' = [table EXCEPT !.new = "sh"]
        /\ UNCHANGED triggers /\ table.t = "src"
    BY <1>0, <1>2 DEF CreateShadow
  <2>2. pc \in {"instant", "create", "kill", "clean", "cleanShadow", "failed",
                "dead"}
    BY <1>0, <1>b
  <2> QED BY <1>0, <1>a, <1>b, <2>1, <2>2 DEF Names
<1>3. CASE inflight = "trigger" /\ CreateTrigger(Order[late.recorded])
  <2>1. triggers' = triggers \cup {Order[late.recorded]} /\ table' = table
    BY <1>3 DEF CreateTrigger
  <2>2. CASE outlived
    BY <1>0, <1>b, <1>3, <2>1, <2>2
  <2>3. CASE ~outlived
    <3>1. pc \in {"kill", "failed", "dead"} /\ op = "idle"
      BY <1>0, <1>a, <1>b, <1>3, <2>3
    <3>2. pc = "kill" => Order[late.recorded] \in Upto(mem.recorded)
      BY <1>0, <1>a, <1>3, <2>3, TriggerOrder
    <3> QED BY <1>0, <1>a, <1>b, <1>3, <2>1, <3>1, <3>2
  <2> QED BY <2>2, <2>3
<1>4. CASE inflight = "swap" /\ Rename
  <2>1. /\ table' = [t |-> "sh", new |-> "none", old |-> table.t]
        /\ UNCHANGED triggers
    BY <1>4 DEF Rename
  <2>2. pc \in {"kill", "failed", "dead"}
    BY <1>0, <1>b, <1>4
  <2> QED BY <1>0, <1>a, <1>b, <1>4, <2>1, <2>2
<1>5. CASE inflight = "drop" /\ DropTrigger(First(triggers))
  <2>1. triggers' \subseteq triggers /\ table' = table
    BY <1>5 DEF DropTrigger
  <2>2. pc \in {"kill", "failed", "dead"}
    BY <1>0, <1>b, <1>5
  <2> QED BY <1>0, <1>a, <1>b, <1>5, <2>1, <2>2
<1>6. CASE inflight = "dropOld" /\ DropTable("old")
  <2>1. table' = [table EXCEPT !.old = "none"] \/ table' = table
    BY <1>6 DEF DropTable, SameDict, dict
  <2>2. triggers' = {} \/ triggers' = triggers
    BY <1>6 DEF DropTable, SameDict, dict
  <2>3. pc \in {"kill", "failed", "dead"}
    BY <1>0, <1>b, <1>6
  <2> QED BY <1>0, <1>a, <1>b, <1>6, <2>1, <2>2, <2>3 DEF Names
<1> QED
  BY <1>1, <1>2, <1>3, <1>4, <1>5, <1>6
  DEF LateStatement, AlterShadow, CopyChunk, SameDict, SameRows, dict

(* ControlOperator: the operator drops the triggers before the shadow; the *)
(* application touches neither.                                            *)
LEMMA ControlOperator ==
  ASSUME ControlInv, TypeInv',
         \/ CleanupStart \/ CleanupStep \/ CleanupStops
         \/ App \/ UNCHANGED vars
  PROVE  Control'
<1>0. TypeInv /\ TableInv /\ PhaseInv /\ MemoryInv /\ StrayInv
      /\ WritesSurvive
  BY DEF ControlInv, Control
<1>a. /\ mem \in Memory /\ triggers \subseteq Kinds /\ found \subseteq Kinds
      /\ table \in [Names -> Objects \cup {"none"}]
      /\ inflight \in Statements \cup {"none"} /\ outlived \in BOOLEAN
  BY <1>0, ControlFacts
<1> USE DEF Control, TableInv, PhaseInv, MemoryInv, StrayInv, WritesSurvive,
            At, Copying, Brief, Running, Cleaning, Ended, Statements
<1>1. CASE CleanupStart
  <2>1. /\ pc \in Ended /\ op' = "triggers" /\ found' = triggers
        /\ UNCHANGED <<pc, mem, inflight, late, runs, table, triggers>>
        /\ outlived' = (outlived \/ inflight = "trigger")
    BY <1>1 DEF CleanupStart, Op, Outlives, SameDict, dict
  <2> QED BY <1>0, <1>a, <2>1
<1>2. CASE CleanupStops
  <2>1. /\ op' = "idle"
        /\ UNCHANGED <<pc, mem, inflight, late, runs, table, triggers,
                       outlived>>
    BY <1>2 DEF CleanupStops, Op, SameDict, dict
  <2> QED BY <1>0, <2>1
<1>3. CASE CleanupStep
  <2>0. UNCHANGED <<pc, mem, inflight, late, runs, outlived>> /\ pc \in Ended
        /\ op # "idle"
    BY <1>0, <1>3 DEF CleanupStep, Op
  <2>q. ~Queued("src") => inflight \in {"none", "alter"}
    BY <1>a DEF Queued, Locks, Objects
  <2>s. ~Queued("sh") => inflight \notin {"create", "copy", "swap", "alter"}
    BY <1>a DEF Queued, Locks, Objects
  <2>1. ASSUME op = "triggers", NEW k \in found, DropTrigger(k),
               Op(op, found \ {k}), ~Queued("src")
        PROVE  Control'
    <3>1. /\ triggers' = triggers \ {k} /\ table' = table /\ op' = op
          /\ found' = found \ {k}
      BY <2>1 DEF DropTrigger, Op
    <3> QED BY <1>0, <1>a, <2>0, <2>q, <2>1, <3>1
  <2>2. ASSUME op = "triggers", found = {}, Op("shadow", {}), SameDict
        PROVE  Control'
    <3>1. UNCHANGED <<triggers, table>> /\ op' = "shadow"
      BY <2>2 DEF SameDict, dict, Op
    <3>2. inflight \notin Copying
      BY <1>0, <2>2 DEF Kinds
    <3> QED BY <1>0, <1>a, <2>0, <2>2, <3>1, <3>2
  <2>3. ASSUME op = "shadow", ~Queued("sh"), DropTable("new"),
               op' \in {"old", "idle"}
        PROVE  Control'
    <3>1. \/ table' = [table EXCEPT !.new = "none"]
          \/ UNCHANGED <<table, triggers>>
      BY <2>3 DEF DropTable, SameDict, dict
    <3>2. triggers' \subseteq triggers
      BY <2>3 DEF DropTable, SameDict, dict
    <3>3. inflight \notin Copying \cup {"alter"}
      BY <1>0, <2>s, <2>3
    <3>4. table.t = "sh" => UNCHANGED <<table, triggers>>
      BY <1>0, <2>3 DEF DropTable, SameDict, dict
    <3> QED BY <1>0, <1>a, <2>0, <2>3, <3>1, <3>2, <3>3, <3>4 DEF Names
  <2>4. ASSUME op = "old", ~Queued("src"), DropTable("old"), op' = "idle"
        PROVE  Control'
    <3>1. \/ /\ table' = [table EXCEPT !.old = "none"] /\ table.t = "sh"
             /\ triggers' \in {{}, triggers}
          \/ UNCHANGED <<table, triggers>>
      BY <1>0, <2>4 DEF DropTable, SameDict, dict
    <3> QED BY <1>0, <1>a, <2>0, <2>4, <3>1 DEF Names
  <2> QED BY <1>3, <2>1, <2>2, <2>3, <2>4 DEF CleanupStep, Op
<1>4. CASE App
  <2>1. \A w, kind, f, g : Apply(w, kind, f, g) => UNCHANGED <<dict, osc>>
    BY DEF Apply
  <2>2. \A w : Write(w) \/ Move(w) => UNCHANGED <<dict, osc>>
    BY <2>1 DEF Write, Move
  <2>3. \A w, c : End(w, c) => UNCHANGED <<dict, osc>>
    BY DEF End
  <2>4. UNCHANGED <<dict, osc>>
    BY <1>4, <2>2, <2>3 DEF App, Commit, Rollback
  <2> QED BY <1>0, <2>4 DEF dict, osc
<1>5. CASE UNCHANGED vars
  BY <1>0, <1>5 DEF vars, osc, dict
<1> QED BY <1>1, <1>2, <1>3, <1>4, <1>5

(* ControlInit: the tables and triggers at the start. *)
LEMMA ControlInit == Init => ControlInv
<1> SUFFICES ASSUME Init PROVE ControlInv
  OBVIOUS
<1>1. TypeInv
  BY TypeInit
<1>2. Control
  BY DEF Init, Fresh, Control, TableInv, PhaseInv, MemoryInv, StrayInv,
         WritesSurvive, At, Copying, Brief, Running, Cleaning, Ended,
         Statements
<1> QED BY <1>1, <1>2 DEF ControlInv

(* ControlNext: the control invariant is inductive. *)
LEMMA ControlNext == ControlInv /\ [Next]_vars => ControlInv'
<1> SUFFICES ASSUME ControlInv, [Next]_vars PROVE ControlInv'
  OBVIOUS
<1>0. TypeInv'
  BY TypeNext DEF ControlInv
<1>1. ASSUME Run PROVE Control'
  BY <1>0, <1>1, ControlMakes, ControlCopies, ControlEnds DEF Run
<1>2. ASSUME Start \/ Interrupt \/ Crash PROVE Control'
  BY <1>0, <1>2, ControlStops
<1>3. ASSUME LateStatement PROVE Control'
  BY <1>0, <1>3, ControlLate
<1>4. ASSUME \/ CleanupStart \/ CleanupStep \/ CleanupStops
             \/ App \/ UNCHANGED vars
      PROVE  Control'
  BY <1>0, <1>4, ControlOperator
<1>5. Control'
  BY <1>1, <1>2, <1>3, <1>4 DEF Next
<1> QED BY <1>0, <1>5 DEF ControlInv

(* SurviveCorrect: whatever fails and whatever executes late, a trigger on *)
(* the table the application writes has its shadow, so no write fails; but *)
(* for a CREATE TRIGGER still executing when the operator cleans up or     *)
(* another run begins.                                                     *)
THEOREM SurviveCorrect == Spec => []WritesSurvive
<1>1. ControlInv => WritesSurvive
  BY DEF ControlInv, Control
<1> QED BY <1>1, ControlInit, ControlNext, PTL DEF Spec

(* CleanupCorrect: a clean-up that got through leaves no shadow it knows   *)
(* of, and no trigger unless one outlived an earlier run.                  *)
THEOREM CleanupCorrect == Spec => CleanupLeavesNothing
<1>1. ASSUME ControlInv, DropShadow
      PROVE  /\ triggers' = {} \/ outlived
             /\ table'.new = "none" \/ ~mem.created_shadow
  <2>1. /\ pc = "cleanShadow" /\ (triggers = {} \/ outlived)
        /\ table \in [Names -> Objects \cup {"none"}]
        /\ mem.swapped => table.new = "none"
        /\ mem \in Memory
    BY <1>1 DEF DropShadow, ControlInv, Control, MemoryInv, PhaseInv,
                TableInv, TypeInv, DataTypes, RunTypes
  <2>2. triggers' = {} \/ outlived
    BY <1>1, <2>1 DEF DropShadow, DropTable, SameDict, dict
  <2>3. CASE mem.created_shadow /\ ~mem.swapped
    <3>1. DropTable("new")
      BY <1>1, <2>3 DEF DropShadow
    <3>2. table'.new = "none"
      BY <2>1, <3>1 DEF DropTable, SameDict, dict, Names
    <3> QED BY <2>2, <3>2
  <2>4. CASE ~(mem.created_shadow /\ ~mem.swapped)
    <3>1. table' = table
      BY <1>1, <2>4 DEF DropShadow, SameDict, dict
    <3> QED BY <2>1, <2>2, <2>4, <3>1
  <2> QED BY <2>3, <2>4
<1>2. ASSUME ControlInv
      PROVE  [DropShadow => /\ triggers' = {} \/ outlived
                            /\ table'.new = "none" \/ ~mem.created_shadow]_vars
  BY <1>1, <1>2
<1> QED BY <1>2, ControlInit, ControlNext, PTL DEF Spec, CleanupLeavesNothing

-----------------------------------------------------------------------------
(* The rows, for an ALTER that neither changes a type nor adds a UNIQUE    *)
(* key: the others may lose rows on the way, and the checksum may not see  *)
(* it.                                                                     *)

PlainOnly == Alters \subseteq {"plain"}

Unheld(o, k) == \A w \in Writers : <<o, k>> \notin held[w]

(* A row lock has one owner; a row nobody holds is as committed; a trigger *)
(* locks the shadow's row only along with the table's.                     *)
LockInv ==
    /\ \A w, x \in Writers, o \in Objects, k \in Keys :
         <<o, k>> \in held[w] /\ <<o, k>> \in held[x] => w = x
    /\ \A o \in Objects, k \in Keys : Unheld(o, k) => rows[o][k] = base[o][k]
    /\ table.t = "src" => \A w \in Writers, k \in Keys :
         <<"sh", k>> \in held[w] => <<"src", k>> \in held[w]

(* No shadow, no rows; a shadow's row is absent or right unless a write    *)
(* went past the triggers; with all triggers each open write is mirrored.  *)
ShadowInv ==
    /\ table.t = "src" /\ table.new = "none"
         => rows.sh = Empty /\ base.sh = Empty /\ ~InUse("sh")
    /\ table.t = "src" /\ table.new = "sh" /\ ~gap => \A k \in Keys :
         /\ rows.sh[k] \in {Absent, rows.src[k]}
         /\ base.sh[k] \in {Absent, base.src[k]}
    /\ table.t = "src" /\ triggers = Kinds => \A w \in Writers, k \in Keys :
         <<"src", k>> \in held[w]
           => <<"sh", k>> \in held[w] /\ rows.sh[k] = rows.src[k]

Equal(k) == rows.sh[k] = rows.src[k] /\ base.sh[k] = base.src[k]

(* What a statement of w on the live table does to the keys K, mirrored to *)
(* the shadow or not: each row becomes f's, and is locked.                 *)
Cells(K, mirrored) ==
    (IF mirrored THEN Objects ELSE {table.t}) \X K
Statement(w, K, f, mirrored) ==
    /\ mirrored => table.t = "src" /\ table.new = "sh"
    /\ table.t = "src" /\ triggers = Kinds => mirrored
    /\ \A x \in Writers \ {w} : \A c \in Cells(K, mirrored) : c \notin held[x]
    /\ K \cap ShareLocked = {}
    /\ \A o \in Objects, k \in Keys :
         rows'[o][k] = IF <<o, k>> \in Cells(K, mirrored) THEN f[k]
                       ELSE rows[o][k]
    /\ held' = [held EXCEPT ![w] = @ \cup Cells(K, mirrored)]
    /\ gap => gap'
    /\ mirrored => gap' = gap
    /\ table.t = "src" /\ ~mirrored /\ ~gap'
         => \A k \in K : rows.sh[k] = Absent
    /\ UNCHANGED <<alter, base, dict, osc>>

(* StatementApplies: an INSERT, UPDATE or DELETE is such a statement. *)
LEMMA StatementApplies ==
  ASSUME TypeInv, NEW w \in Writers, NEW kind \in Kinds, NEW f \in Rows,
         NEW g \in Rows, Apply(w, kind, f, g),
         table.t = "src" => \A k \in Keys :
           g[k] = IF f[k] # rows.src[k] THEN f[k] ELSE rows.sh[k]
  PROVE  \E K \in SUBSET Keys, mirrored \in BOOLEAN :
           Statement(w, K, f, mirrored)
<1> DEFINE o == table.t
           mirrored == o = "src" /\ kind \in triggers
           K == {k \in Keys : f[k] # rows[o][k]}
           L == IF mirrored
                THEN {k \in Keys : g[k] # rows.sh[k]} \cup K ELSE {}
<1>0. DataTypes
  BY DEF TypeInv
<1>1. /\ mirrored => table.new = "sh"
      /\ Free(o, K, w) /\ Free("sh", L, w) /\ K \cap ShareLocked = {}
      /\ rows' = IF mirrored THEN [src |-> f, sh |-> g]
                 ELSE [rows EXCEPT ![o] = f]
      /\ held' = [held EXCEPT ![w] = @ \cup ({o} \X K) \cup ({"sh"} \X L)]
      /\ gap' = (gap \/ (o = "src" /\ ~mirrored
                             /\ \E k \in K : rows.sh[k] # Absent))
      /\ UNCHANGED <<alter, base, dict, osc>>
  BY DEF Apply
<1>2. mirrored => L = K
  OBVIOUS
<1>3. ~mirrored => L = {}
  OBVIOUS
<1>4. o \in Objects /\ rows \in [Objects -> Rows] /\ w \in DOMAIN held
  BY <1>0 DEF DataTypes
<1>5. ({o} \X K) \cup ({"sh"} \X L) = Cells(K, mirrored)
  <2>1. CASE mirrored
    BY <1>2, <2>1 DEF Cells, Objects
  <2>2. CASE ~mirrored
    BY <1>3, <2>2 DEF Cells
  <2> QED BY <2>1, <2>2
<1>6. \A x \in Writers \ {w} : \A c \in Cells(K, mirrored) : c \notin held[x]
  <2> SUFFICES ASSUME NEW x \in Writers \ {w}, NEW c \in Cells(K, mirrored)
               PROVE  c \notin held[x]
    OBVIOUS
  <2>1. c \in {o} \X K \/ c \in {"sh"} \X L
    BY <1>5
  <2>2. /\ \A k \in K : <<o, k>> \notin held[x]
        /\ \A k \in L : <<"sh", k>> \notin held[x]
    BY <1>1 DEF Free
  <2> HIDE DEF o, K, L
  <2>3. CASE c \in {o} \X K
    BY <2>2, <2>3
  <2>4. CASE c \in {"sh"} \X L
    BY <2>2, <2>4
  <2> QED BY <2>1, <2>3, <2>4
<1>7. \A p \in Objects, k \in Keys :
        rows'[p][k] = IF <<p, k>> \in Cells(K, mirrored) THEN f[k]
                      ELSE rows[p][k]
  <2>1. CASE mirrored
    BY <1>1, <1>2, <1>4, <2>1 DEF Cells, Objects
  <2>2. CASE ~mirrored
    BY <1>1, <1>4, <2>2 DEF Cells, Objects, Rows
  <2> QED BY <2>1, <2>2
<1>8. held' = [held EXCEPT ![w] = @ \cup Cells(K, mirrored)]
  <2>1. held[w] \cup ({o} \X K) \cup ({"sh"} \X L)
          = held[w] \cup Cells(K, mirrored)
    BY <1>5
  <2> QED BY <1>1, <2>1
<1>9. /\ gap => gap'
      /\ mirrored => gap' = gap
      /\ table.t = "src" /\ ~mirrored /\ ~gap'
           => \A k \in K : rows.sh[k] = Absent
  BY <1>0, <1>1 DEF DataTypes
<1>10. /\ mirrored => table.t = "src" /\ table.new = "sh"
       /\ table.t = "src" /\ triggers = Kinds => mirrored
       /\ K \in SUBSET Keys /\ mirrored \in BOOLEAN
  BY <1>1
<1> HIDE DEF K, mirrored
<1>11. Statement(w, K, f, mirrored)
  BY <1>1, <1>6, <1>7, <1>8, <1>9, <1>10 DEF Statement
<1> QED BY <1>10, <1>11

(* WriteStatement: with a plain ALTER the triggers write the same keys. *)
LEMMA WriteStatement ==
  ASSUME TypeInv, alter = "plain", NEW w \in Writers, Write(w) \/ Move(w)
  PROVE  \E K \in SUBSET Keys, f \in Rows, mirrored \in BOOLEAN :
           Statement(w, K, f, mirrored)
<1>0. table.t \in Objects /\ rows \in [Objects -> Rows]
  BY DEF TypeInv, DataTypes
<1>a. rows[table.t] \in Rows /\ rows.sh \in Rows
  BY <1>0 DEF Objects
<1> DEFINE r == rows[table.t]
<1>1. CASE Write(w)
  <2>1. PICK k \in Keys, v \in Values \cup {Absent} :
          /\ v # r[k]
          /\ Apply(w, IF r[k] = Absent THEN "insert"
                      ELSE IF v = Absent THEN "delete" ELSE "update",
                   [r EXCEPT ![k] = v],
                   IF v = Absent THEN Delete(rows.sh, k)
                   ELSE Replace(rows.sh, k, v))
    BY <1>1 DEF Write
  <2> DEFINE kind == IF r[k] = Absent THEN "insert"
                     ELSE IF v = Absent THEN "delete" ELSE "update"
             f == [r EXCEPT ![k] = v]
             g == IF v = Absent THEN Delete(rows.sh, k)
                  ELSE Replace(rows.sh, k, v)
  <2>2. g = [rows.sh EXCEPT ![k] = v]
    BY <1>a DEF Delete, Replace, Rows
  <2>3. f \in Rows /\ g \in Rows /\ kind \in Kinds
    BY <1>a, <2>2 DEF Rows, Kinds
  <2>4. table.t = "src" => \A j \in Keys :
          g[j] = IF f[j] # rows.src[j] THEN f[j] ELSE rows.sh[j]
    BY <1>a, <2>1, <2>2 DEF Rows
  <2>5. Apply(w, kind, f, g)
    BY <2>1
  <2> HIDE DEF kind, f, g
  <2> QED BY <2>3, <2>4, <2>5, StatementApplies
<1>2. CASE Move(w)
  <2>1. PICK j \in Keys, k \in Keys :
          /\ r[j] # Absent /\ r[k] = Absent
          /\ Apply(w, "update", [r EXCEPT ![j] = Absent, ![k] = r[j]],
                   Replace(Delete(rows.sh, j), k, r[j]))
    BY <1>2 DEF Move
  <2> DEFINE f == [r EXCEPT ![j] = Absent, ![k] = r[j]]
             g == Replace(Delete(rows.sh, j), k, r[j])
  <2>2. g = [rows.sh EXCEPT ![j] = Absent, ![k] = r[j]]
    BY <1>a, <2>1 DEF Delete, Replace, Rows
  <2>3. f \in Rows /\ g \in Rows
    BY <1>a, <2>2 DEF Rows
  <2>4. table.t = "src" => \A i \in Keys :
          g[i] = IF f[i] # rows.src[i] THEN f[i] ELSE rows.sh[i]
    BY <1>a, <2>1, <2>2 DEF Rows
  <2>5. Apply(w, "update", f, g) /\ "update" \in Kinds
    BY <2>1 DEF Kinds
  <2> HIDE DEF f, g
  <2> QED BY <2>3, <2>4, <2>5, StatementApplies
<1> QED BY <1>1, <1>2

(* RowsEqual: two tables with the same row under each key are the same. *)
LEMMA RowsEqual ==
  ASSUME NEW a \in Rows, NEW b \in Rows, \A k \in Keys : a[k] = b[k]
  PROVE  a = b
<1>1. a = [k \in Keys |-> a[k]] /\ b = [k \in Keys |-> b[k]]
  BY DEF Rows
<1> QED BY <1>1

(* LocksApp: the application keeps the locks and the shadow right, and     *)
(* leaves equal rows equal while all triggers mirror it.                   *)
LEMMA LocksApp ==
  ASSUME TypeInv, TypeInv', TableInv, LockInv, ShadowInv, alter = "plain", App
  PROVE  /\ LockInv' /\ ShadowInv'
         /\ gap => gap'
         /\ table.t = "src" /\ triggers = Kinds
              => \A k \in Keys : Equal(k) => Equal(k)'
<1>0. /\ rows \in [Objects -> Rows] /\ base \in [Objects -> Rows]
      /\ rows' \in [Objects -> Rows] /\ base' \in [Objects -> Rows]
      /\ held \in [Writers -> SUBSET (Objects \X Keys)]
      /\ "src" \in Objects /\ "sh" \in Objects
  BY DEF TypeInv, DataTypes, Objects
<1>1. PICK w \in Writers : Write(w) \/ Move(w) \/ End(w, TRUE) \/ End(w, FALSE)
  BY DEF App, Commit, Rollback
<1>2. CASE Write(w) \/ Move(w)
  <2>1. PICK K \in SUBSET Keys, f \in Rows, mirrored \in BOOLEAN :
          Statement(w, K, f, mirrored)
    BY <1>2, WriteStatement
  <2> DEFINE C == Cells(K, mirrored)
  <2>2. \A o \in Objects, k \in Keys :
          <<o, k>> \in C <=> k \in K /\ (mirrored \/ o = table.t)
    BY DEF Cells
  <2> HIDE DEF C
  <2>3. /\ \A x \in Writers \ {w} : held'[x] = held[x]
        /\ held'[w] = held[w] \cup C
    BY <1>0, <2>1 DEF Statement, C
  <2>4. /\ \A x \in Writers \ {w} : \A c \in C : c \notin held[x]
        /\ \A o \in Objects, k \in Keys :
             rows'[o][k] = IF <<o, k>> \in C THEN f[k] ELSE rows[o][k]
        /\ base' = base /\ table' = table /\ triggers' = triggers
        /\ mirrored => table.t = "src" /\ table.new = "sh"
        /\ table.t = "src" /\ triggers = Kinds => mirrored
        /\ gap => gap'
        /\ mirrored => gap' = gap
        /\ table.t = "src" /\ ~mirrored /\ ~gap'
             => \A k \in K : rows.sh[k] = Absent
    BY <2>1 DEF Statement, C, dict
  <2>5. LockInv'
    <3>1. ASSUME NEW x \in Writers, NEW y \in Writers, NEW o \in Objects,
                 NEW k \in Keys, <<o, k>> \in held'[x], <<o, k>> \in held'[y]
          PROVE  x = y
      BY <2>3, <2>4, <3>1 DEF LockInv
    <3>2. ASSUME NEW o \in Objects, NEW k \in Keys, Unheld(o, k)'
          PROVE  rows'[o][k] = base'[o][k]
      <4>1. Unheld(o, k) /\ <<o, k>> \notin C
        BY <2>3, <3>2 DEF Unheld
      <4> QED BY <2>4, <4>1 DEF LockInv
    <3>3. ASSUME table.t = "src", NEW x \in Writers, NEW k \in Keys,
                 <<"sh", k>> \in held'[x]
          PROVE  <<"src", k>> \in held'[x]
      BY <1>0, <2>2, <2>3, <2>4, <3>3 DEF LockInv
    <3> QED BY <2>4, <3>1, <3>2, <3>3 DEF LockInv
  <2>6. ASSUME table.t = "src", table.new = "none"
        PROVE  (rows.sh = Empty /\ base.sh = Empty /\ ~InUse("sh"))'
    <3>1. ~mirrored /\ \A k \in Keys : <<"sh", k>> \notin C
      BY <1>0, <2>2, <2>4, <2>6
    <3>2. rows'.sh = rows.sh
      <4>1. \A k \in Keys : rows'.sh[k] = rows.sh[k]
        BY <1>0, <2>4, <3>1
      <4>2. rows'.sh \in Rows /\ rows.sh \in Rows
        BY <1>0
      <4> QED BY <4>1, <4>2, RowsEqual
    <3>3. ~InUse("sh")'
      BY <2>3, <2>6, <3>1 DEF InUse, ShadowInv
    <3> QED BY <2>4, <2>6, <3>2, <3>3 DEF ShadowInv
  <2>7. ASSUME table.t = "src", table.new = "sh", ~gap', NEW k \in Keys
        PROVE  /\ rows'.sh[k] \in {Absent, rows'.src[k]}
               /\ base'.sh[k] \in {Absent, base'.src[k]}
    <3>1. /\ rows.sh[k] \in {Absent, rows.src[k]}
          /\ base.sh[k] \in {Absent, base.src[k]}
      BY <2>4, <2>7 DEF ShadowInv
    <3>2. CASE k \in K /\ mirrored
      BY <1>0, <2>2, <2>4, <3>1, <3>2
    <3>3. CASE k \in K /\ ~mirrored
      <4>1. <<"sh", k>> \notin C /\ rows.sh[k] = Absent
        BY <1>0, <2>2, <2>4, <2>7, <3>3
      <4> QED BY <1>0, <2>4, <3>1, <4>1
    <3>4. CASE k \notin K
      BY <1>0, <2>2, <2>4, <3>1, <3>4
    <3> QED BY <3>2, <3>3, <3>4
  <2>8. ASSUME table.t = "src", triggers = Kinds, NEW x \in Writers,
               NEW k \in Keys, <<"src", k>> \in held'[x]
        PROVE  <<"sh", k>> \in held'[x] /\ rows'.sh[k] = rows'.src[k]
    BY <1>0, <2>2, <2>3, <2>4, <2>8 DEF ShadowInv
  <2>9. ShadowInv'
    BY <2>4, <2>6, <2>7, <2>8 DEF ShadowInv
  <2>10. ASSUME table.t = "src", triggers = Kinds, NEW k \in Keys, Equal(k)
         PROVE  Equal(k)'
    <3>1. mirrored /\ base' = base
      BY <2>4, <2>10
    <3>2. <<"src", k>> \in C <=> <<"sh", k>> \in C
      BY <1>0, <2>2, <3>1
    <3>3. rows'.sh[k] = rows'.src[k]
      BY <1>0, <2>4, <2>10, <3>2 DEF Equal
    <3> QED BY <2>10, <3>1, <3>3 DEF Equal
  <2> QED BY <2>4, <2>5, <2>9, <2>10
<1>3. CASE \E c \in BOOLEAN : End(w, c)
  <2>1. PICK c \in BOOLEAN : End(w, c)
    BY <1>3
  <2>2. /\ \A x \in Writers \ {w} : held'[x] = held[x]
        /\ held'[w] = {}
    BY <1>0, <2>1 DEF End
  <2>3. /\ \A o \in Objects, k \in Keys :
             /\ <<o, k>> \notin held[w] =>
                  rows'[o][k] = rows[o][k] /\ base'[o][k] = base[o][k]
             /\ <<o, k>> \in held[w] =>
                  IF c
                  THEN rows'[o][k] = rows[o][k] /\ base'[o][k] = rows[o][k]
                  ELSE rows'[o][k] = base[o][k] /\ base'[o][k] = base[o][k]
        /\ gap' = gap /\ table' = table /\ triggers' = triggers
    BY <2>1 DEF End, dict
  <2>4. LockInv'
    <3>1. ASSUME NEW o \in Objects, NEW k \in Keys, Unheld(o, k)'
          PROVE  rows'[o][k] = base'[o][k]
      <4>1. CASE <<o, k>> \in held[w]
        BY <2>3, <4>1
      <4>2. CASE <<o, k>> \notin held[w]
        <5>1. Unheld(o, k)
          BY <2>2, <3>1, <4>2 DEF Unheld
        <5> QED BY <2>3, <4>2, <5>1 DEF LockInv
      <4> QED BY <4>1, <4>2
    <3>2. \A x \in Writers : held'[x] \subseteq held[x]
      BY <2>2
    <3>3. ASSUME table.t = "src", NEW x \in Writers, NEW k \in Keys,
                 <<"sh", k>> \in held'[x]
          PROVE  <<"src", k>> \in held'[x]
      BY <2>2, <3>3 DEF LockInv
    <3> QED BY <2>3, <3>1, <3>2, <3>3 DEF LockInv
  <2>5. ASSUME table.t = "src", table.new = "none"
        PROVE  (rows.sh = Empty /\ base.sh = Empty /\ ~InUse("sh"))'
    <3>1. \A x \in Writers, k \in Keys : <<"sh", k>> \notin held[x]
      BY <2>5 DEF ShadowInv, InUse
    <3>2. \A k \in Keys : rows'.sh[k] = rows.sh[k] /\ base'.sh[k] = base.sh[k]
      BY <1>0, <2>3, <3>1
    <3>3. rows'.sh = rows.sh /\ base'.sh = base.sh
      BY <1>0, <3>2 DEF Rows
    <3>4. ~InUse("sh")'
      BY <2>2, <3>1 DEF InUse
    <3> QED BY <2>5, <3>3, <3>4 DEF ShadowInv
  <2>6. ASSUME table.t = "src", NEW k \in Keys, <<"sh", k>> \notin held[w],
               <<"src", k>> \in held[w]
        PROVE  rows.sh[k] = base.sh[k]
    <3>1. Unheld("sh", k)
      BY <1>0, <2>6 DEF LockInv, Unheld
    <3> QED BY <1>0, <3>1 DEF LockInv
  <2>7. ASSUME table.t = "src", table.new = "sh", ~gap', NEW k \in Keys
        PROVE  /\ rows'.sh[k] \in {Absent, rows'.src[k]}
               /\ base'.sh[k] \in {Absent, base'.src[k]}
    <3>1. /\ rows.sh[k] \in {Absent, rows.src[k]}
          /\ base.sh[k] \in {Absent, base.src[k]}
      BY <2>3, <2>7 DEF ShadowInv
    <3>2. <<"sh", k>> \in held[w] => <<"src", k>> \in held[w]
      BY <2>7 DEF LockInv
    <3>3. CASE <<"sh", k>> \in held[w]
      BY <1>0, <2>3, <3>1, <3>2, <3>3
    <3>4. CASE <<"sh", k>> \notin held[w] /\ <<"src", k>> \in held[w]
      BY <1>0, <2>3, <2>6, <2>7, <3>1, <3>4
    <3>5. CASE <<"src", k>> \notin held[w]
      BY <1>0, <2>3, <3>1, <3>2, <3>5
    <3> QED BY <3>3, <3>4, <3>5
  <2>8. ASSUME table.t = "src", triggers = Kinds, NEW x \in Writers,
               NEW k \in Keys, <<"src", k>> \in held'[x]
        PROVE  <<"sh", k>> \in held'[x] /\ rows'.sh[k] = rows'.src[k]
    <3>1. /\ x # w /\ <<"src", k>> \in held[x] /\ <<"sh", k>> \in held[x]
          /\ <<"sh", k>> \in held'[x] /\ rows.sh[k] = rows.src[k]
      BY <2>2, <2>8 DEF ShadowInv
    <3>2. <<"src", k>> \notin held[w] /\ <<"sh", k>> \notin held[w]
      BY <1>0, <3>1 DEF LockInv
    <3> QED BY <1>0, <2>3, <3>1, <3>2
  <2>9. ShadowInv'
    BY <2>3, <2>5, <2>7, <2>8 DEF ShadowInv
  <2>10. ASSUME table.t = "src", triggers = Kinds, NEW k \in Keys, Equal(k)
         PROVE  Equal(k)'
    <3>1. <<"sh", k>> \in held[w] <=> <<"src", k>> \in held[w]
      BY <2>10 DEF LockInv, ShadowInv
    <3> QED BY <1>0, <2>3, <2>10, <3>1 DEF Equal
  <2> QED BY <2>3, <2>4, <2>9, <2>10
<1> QED BY <1>1, <1>2, <1>3

(* LocksServer: so does every statement of a run or of a clean-up, and a   *)
(* chunk copied without a gap is equal.                                    *)
LEMMA LocksServer ==
  ASSUME TypeInv, TypeInv', TableInv, LockInv, ShadowInv, alter = "plain",
         UNCHANGED held
  PROVE  /\ UNCHANGED <<table, triggers>> /\ SameRows
              => LockInv' /\ ShadowInv'
         /\ Rename => LockInv' /\ ShadowInv'
         /\ CreateShadow /\ table.t = "src" => LockInv' /\ ShadowInv'
         /\ \A kind : CreateTrigger(kind) => LockInv' /\ ShadowInv'
         /\ \A kind : DropTrigger(kind) => LockInv' /\ ShadowInv'
         /\ \A name \in {"new", "old"} :
              DropTable(name) => LockInv' /\ ShadowInv'
         /\ \A S \in SUBSET Keys :
              CopyChunk(S) /\ table.t = "src" /\ triggers = Kinds
                => /\ LockInv' /\ ShadowInv' /\ gap' = gap
                   /\ \A k \in Keys : Equal(k) \/ (~gap /\ k \in S)
                                        => Equal(k)'
<1>0. /\ rows \in [Objects -> Rows] /\ base \in [Objects -> Rows]
      /\ rows' \in [Objects -> Rows] /\ base' \in [Objects -> Rows]
      /\ held \in [Writers -> SUBSET (Objects \X Keys)]
      /\ table \in [Names -> Objects \cup {"none"}]
      /\ triggers \subseteq Kinds
      /\ "src" \in Objects /\ "sh" \in Objects /\ "src" # "sh"
      /\ Objects = {"src", "sh"}
  BY DEF TypeInv, DataTypes, Objects
<1> DEFINE Good == LockInv' /\ ShadowInv'
<1>1. ASSUME UNCHANGED <<table, triggers>>, SameRows PROVE Good
  BY <1>1 DEF SameRows, LockInv, ShadowInv, Unheld, InUse
<1>2. ASSUME Rename PROVE Good
  BY <1>2 DEF Rename, SameRows, LockInv, ShadowInv, Unheld
<1>3. ASSUME CreateShadow, table.t = "src" PROVE Good
  <2>1. /\ table.new = "none" /\ table' = [table EXCEPT !.new = "sh"]
        /\ UNCHANGED <<rows, base, triggers>>
        /\ rows.sh = Empty /\ base.sh = Empty /\ ~InUse("sh")
    BY <1>3 DEF CreateShadow, ShadowInv
  <2>2. table'.t = "src" /\ table'.new = "sh"
    BY <1>0, <1>3, <2>1 DEF Names
  <2>3. LockInv'
    BY <1>3, <2>1, <2>2 DEF LockInv, Unheld
  <2>4. ShadowInv'
    <3>1. \A k \in Keys : rows'.sh[k] = Absent /\ base'.sh[k] = Absent
      BY <2>1 DEF Empty
    <3>2. triggers' = Kinds => \A w \in Writers, k \in Keys :
            <<"src", k>> \in held'[w]
              => <<"sh", k>> \in held'[w] /\ rows'.sh[k] = rows'.src[k]
      BY <1>3, <2>1 DEF ShadowInv
    <3> QED BY <2>2, <3>1, <3>2 DEF ShadowInv
  <2> QED BY <2>3, <2>4
<1>4. ASSUME NEW kind, CreateTrigger(kind) PROVE Good
  <2>1. ~InUse("src") /\ UNCHANGED <<table, rows, base, gap>>
    BY <1>4 DEF CreateTrigger, SameRows
  <2>2. \A w \in Writers, k \in Keys : <<"src", k>> \notin held'[w]
    BY <2>1 DEF InUse
  <2>3. LockInv'
    BY <2>1 DEF LockInv, Unheld
  <2> QED BY <2>1, <2>2, <2>3 DEF ShadowInv, InUse
<1>5. ASSUME NEW kind, DropTrigger(kind) PROVE Good
  <2>1. UNCHANGED <<table, rows, base, gap>>
        /\ (triggers' = Kinds => triggers = Kinds)
    BY <1>0, <1>5 DEF DropTrigger, SameRows
  <2>2. LockInv'
    BY <2>1 DEF LockInv, Unheld
  <2> QED BY <2>1, <2>2 DEF ShadowInv, InUse
<1>6. ASSUME NEW name \in {"new", "old"}, DropTable(name) PROVE Good
  <2>1. CASE table[name] = "none"
    <3>1. UNCHANGED <<table, triggers>> /\ SameRows
      BY <1>6, <2>1 DEF DropTable, SameDict, dict
    <3> QED BY <1>1, <3>1
  <2>2. CASE table[name] # "none"
    <3> DEFINE o == table[name]
    <3>1. /\ o \in Objects /\ o # table.t /\ ~InUse(o)
          /\ (o = "sh" => name = "new") /\ (o = "src" => table.t = "sh")
      BY <1>0, <1>6, <2>2 DEF DropTable, TableInv, Names
    <3>2. /\ table' = [table EXCEPT ![name] = "none"]
          /\ rows' = [rows EXCEPT ![o] = Empty]
          /\ base' = [base EXCEPT ![o] = Empty]
          /\ triggers' = IF o = "src" THEN {} ELSE triggers
      BY <1>6, <2>2 DEF DropTable
    <3>3. table'.t = table.t /\ (o = "sh" => table'.new = "none")
      BY <1>0, <3>1, <3>2 DEF Names
    <3> HIDE DEF o
    <3>4. LockInv'
      <4>1. ASSUME NEW p \in Objects, NEW k \in Keys, Unheld(p, k)'
            PROVE  rows'[p][k] = base'[p][k]
        BY <1>0, <3>1, <3>2, <4>1 DEF LockInv, Unheld
      <4> QED BY <3>3, <4>1 DEF LockInv
    <3>5. CASE o = "src"
      BY <3>1, <3>3, <3>4, <3>5 DEF ShadowInv
    <3>6. CASE o = "sh"
      <4>1. table.t = "src" /\ table'.t = "src" /\ table'.new = "none"
        BY <1>0, <3>1, <3>3, <3>6 DEF TypeInv, DataTypes
      <4>2. rows'.sh = Empty /\ base'.sh = Empty /\ ~InUse("sh")'
        BY <1>0, <3>1, <3>2, <3>6 DEF InUse
      <4>3. rows'.src = rows.src /\ triggers' = triggers
        BY <1>0, <3>2, <3>6
      <4>4. ASSUME triggers = Kinds, NEW w \in Writers, NEW k \in Keys,
                   <<"src", k>> \in held[w]
            PROVE  FALSE
        BY <3>1, <3>6, <4>1, <4>4 DEF ShadowInv, InUse
      <4> QED BY <3>4, <4>1, <4>2, <4>3, <4>4 DEF ShadowInv
    <3> QED BY <1>0, <3>1, <3>5, <3>6
  <2> QED BY <2>1, <2>2
<1>7. ASSUME NEW S \in SUBSET Keys, CopyChunk(S), table.t = "src",
             triggers = Kinds
      PROVE  /\ Good /\ gap' = gap
             /\ \A k \in Keys : Equal(k) \/ (~gap /\ k \in S) => Equal(k)'
  <2>1. /\ table.new = "sh" /\ UNCHANGED <<table, triggers, gap>>
        /\ \A k \in S, w \in Writers : <<"src", k>> \notin held[w]
                                       /\ <<"sh", k>> \notin held[w]
    BY <1>0, <1>7 DEF CopyChunk, SameDict, dict, Unlocked
  <2>2. \A k \in Keys : Copied(S)[k] = IF k \in S /\ rows.sh[k] = Absent
                                       THEN rows.src[k] ELSE rows.sh[k]
    BY DEF Copied
  <2>3. /\ rows'.src = rows.src /\ base'.src = base.src
        /\ \A k \in Keys : /\ rows'.sh[k] = Copied(S)[k]
                           /\ base'.sh[k] = IF k \in S THEN Copied(S)[k]
                                            ELSE base.sh[k]
    BY <1>0, <1>7 DEF CopyChunk
  <2>4. \A k \in S : rows.src[k] = base.src[k] /\ rows.sh[k] = base.sh[k]
    BY <1>0, <2>1 DEF LockInv, Unheld
  <2>5. LockInv'
    <3>1. ASSUME NEW o \in Objects, NEW k \in Keys, Unheld(o, k)'
          PROVE  rows'[o][k] = base'[o][k]
      <4>1. Unheld(o, k) /\ rows[o][k] = base[o][k]
        BY <3>1 DEF Unheld, LockInv
      <4> QED BY <1>0, <2>2, <2>3, <4>1
    <3> QED BY <2>1, <3>1 DEF LockInv
  <2>6. ASSUME ~gap, NEW k \in Keys
        PROVE  /\ rows'.sh[k] \in {Absent, rows'.src[k]}
               /\ base'.sh[k] \in {Absent, base'.src[k]}
               /\ k \in S => Equal(k)'
    <3>1. /\ rows.sh[k] \in {Absent, rows.src[k]}
          /\ base.sh[k] \in {Absent, base.src[k]}
      BY <1>7, <2>1, <2>6 DEF ShadowInv
    <3> QED BY <2>2, <2>3, <2>4, <3>1 DEF Equal
  <2>7. ASSUME NEW w \in Writers, NEW k \in Keys, <<"src", k>> \in held'[w]
        PROVE  <<"sh", k>> \in held'[w] /\ rows'.sh[k] = rows'.src[k]
    <3>1. <<"sh", k>> \in held[w] /\ rows.sh[k] = rows.src[k] /\ k \notin S
      BY <1>7, <2>1, <2>7 DEF ShadowInv
    <3> QED BY <2>2, <2>3, <3>1
  <2>8. ASSUME NEW k \in Keys, Equal(k) PROVE Equal(k)'
    BY <2>2, <2>3, <2>4, <2>8 DEF Equal
  <2>9. ShadowInv'
    BY <2>1, <2>6, <2>7 DEF ShadowInv
  <2> QED BY <2>1, <2>5, <2>6, <2>8, <2>9
<1> HIDE DEF Good
<1> QED BY <1>1, <1>2, <1>3, <1>4, <1>5, <1>6, <1>7 DEF Good

(* What a step that is not the application's does to the tables. *)
ServerStep ==
    \/ UNCHANGED <<table, triggers>> /\ SameRows
    \/ Rename /\ At("swap")
    \/ CreateShadow /\ table.t = "src"
    \/ \E kind : CreateTrigger(kind) \/ DropTrigger(kind)
    \/ \E name \in {"new", "old"} : DropTable(name)
    \/ \E S \in SUBSET Keys :
         CopyChunk(S) /\ table.t = "src" /\ triggers = Kinds

(* ServerSteps: it executes one of the statements, or none. *)
LEMMA ServerSteps ==
  ASSUME ControlInv, [Next]_vars, ~App
  PROVE  ServerStep /\ UNCHANGED <<alter, held>>
<1>0. PhaseInv
  BY DEF ControlInv, Control
<1>a. \A lo, hi : Between(lo, hi) \in SUBSET Keys
  BY DEF Between
<1> USE DEF ServerStep, At, Quiet, Step, Other, SameDict, dict
<1>1. CASE Start \/ Interrupt \/ Crash \/ UNCHANGED vars
  BY <1>1 DEF Start, Interrupt, Crash, vars, SameRows
<1>2. CASE \/ RecordTrigger \/ Exists \/ MaxPk \/ Throttle \/ Boundary
           \/ SumSource \/ SumShadow \/ Mismatch \/ LockTimeout \/ Kill
           \/ CleanupTimeout
  BY <1>2 DEF RecordTrigger, Exists, MaxPk, Throttle, Resume, Pause, Boundary,
              SumSource, SumShadow, Mismatch, LockTimeout, Kill,
              CleanupTimeout
<1>3. CASE TryInstant
  BY <1>3 DEF TryInstant
<1>4. CASE MakeShadow
  <2>1. CASE pc = "create"
    BY <1>0, <1>4, <2>1 DEF MakeShadow, PhaseInv
  <2>2. CASE pc = "alter"
    BY <1>4, <2>2 DEF MakeShadow, AlterShadow
  <2> QED BY <1>4, <2>1, <2>2 DEF MakeShadow
<1>5. CASE AddTrigger
  BY <1>5 DEF AddTrigger
<1>6. CASE Copy
  <2>1. pc = "copy" /\ CopyChunk(Between(mem.lo, mem.hi)) /\ Step
    BY <1>6 DEF Copy
  <2>2. table.t = "src" /\ triggers = Kinds
    BY <1>0, <2>1 DEF PhaseInv, Copying
  <2> QED BY <1>a, <2>1, <2>2
<1>7. CASE Swap
  BY <1>7 DEF Swap
<1>8. CASE DropTriggersAfterSwap
  BY <1>8 DEF DropTriggersAfterSwap
<1>9. CASE DropOld
  BY <1>9 DEF DropOld
<1>10. CASE DropCreated
  BY <1>10 DEF DropCreated
<1>11. CASE DropShadow
  BY <1>11 DEF DropShadow
<1>12. CASE CleanupStart \/ CleanupStops
  BY <1>12 DEF CleanupStart, CleanupStops, Op
<1>13. CASE CleanupStep
  BY <1>13 DEF CleanupStep, Op
<1>14. CASE LateStatement
  <2>1. UNCHANGED <<alter, held>>
    BY <1>14 DEF LateStatement
  <2>2. CASE inflight = "copy" /\ CopyChunk(Between(late.lo, late.hi))
    <3>1. table.t = "src" /\ triggers = Kinds
      BY <1>0, <2>2 DEF PhaseInv, Copying
    <3> QED BY <1>a, <2>1, <2>2, <3>1
  <2>3. CASE inflight = "create" /\ CreateShadow
    BY <1>0, <2>1, <2>3 DEF PhaseInv, Brief
  <2>4. CASE inflight = "alter" /\ AlterShadow
    BY <2>1, <2>4 DEF AlterShadow
  <2> QED BY <1>14, <2>1, <2>2, <2>3, <2>4 DEF LateStatement
<1> QED
  BY <1>1, <1>2, <1>3, <1>4, <1>5, <1>6, <1>7, <1>8, <1>9, <1>10, <1>11,
     <1>12, <1>13, <1>14
  DEF Next, Run

(* LocksNext: the locks and the shadow, over every step. *)
LEMMA LocksNext ==
  ASSUME ControlInv, ControlInv', alter = "plain", LockInv, ShadowInv,
         [Next]_vars
  PROVE  LockInv' /\ ShadowInv'
<1>0. TypeInv /\ TypeInv' /\ TableInv
  BY DEF ControlInv, Control
<1>1. CASE App
  BY <1>0, <1>1, LocksApp
<1>2. CASE ~App
  <2>1. ServerStep /\ UNCHANGED held
    BY <1>2, ServerSteps
  <2> QED BY <1>0, <2>1, LocksServer DEF ServerStep
<1> QED BY <1>1, <1>2

-----------------------------------------------------------------------------
(* The copy and the checksum.                                              *)

Before == {"instant", "create", "alter", "record", "trigger", "maxpk"}
Chunks == {"throttle", "hot", "boundary", "copy"}

(* Without a gap the copied keys and those above the last one are equal.   *)
CopyInv ==
    /\ pc \in Before => mem.lo = 0
    /\ pc \in Before \cup (Chunks \ {"copy"}) => ~mem.last
    /\ pc \in Before \cup Chunks => mem.checked = 0
    /\ pc = "copy" /\ mem.last => mem.hi = mem.max_pk
    /\ pc \in Chunks /\ ~gap =>
         \A k \in Keys : k <= mem.lo \/ k > mem.max_pk => Equal(k)
    /\ pc \in {"sumSrc", "sumShadow"} /\ ~gap => \A k \in Keys : Equal(k)
    /\ pc = "mismatch" => gap

(* What the checksum has passed is equal; the range it is in is locked.    *)
SumInv ==
    /\ pc \in {"sumSrc", "sumShadow"} =>
         \A k \in Keys : k <= mem.checked => Equal(k)
    /\ pc = "sumShadow" => /\ \A k \in SumRange : Unheld("src", k)
                           /\ mem.sum = Digest(rows.src)
    /\ At("swap") => \A k \in Keys : Equal(k)

DataInv ==
    /\ ControlInv /\ alter = "plain" /\ LockInv /\ ShadowInv
    /\ CopyInv /\ SumInv

(* DigestOf: two tables have the same digest when the range's rows agree. *)
LEMMA DigestOf ==
  ASSUME NEW f \in Rows, NEW g \in Rows
  PROVE  Digest(f) = Digest(g) <=> \A k \in SumRange : f[k] = g[k]
<1>0. SumRange \subseteq Keys
  BY DEF SumRange
<1>1. ASSUME Digest(f) = Digest(g), NEW k \in SumRange PROVE f[k] = g[k]
  <2>1. f[k] # Absent => <<k, f[k]>> \in Digest(f)
    BY <1>0 DEF Digest, Present
  <2>2. g[k] # Absent => <<k, g[k]>> \in Digest(g)
    BY <1>0 DEF Digest, Present
  <2>3. \A v : <<k, v>> \in Digest(f) => v = f[k]
    BY DEF Digest
  <2>4. \A v : <<k, v>> \in Digest(g) => v = g[k]
    BY DEF Digest
  <2> QED BY <1>1, <2>1, <2>2, <2>3, <2>4
<1>2. ASSUME \A k \in SumRange : f[k] = g[k] PROVE Digest(f) = Digest(g)
  BY <1>2 DEF Digest, Present
<1> QED BY <1>1, <1>2

(* CutIs: where the checksum's next range ends. *)
LEMMA CutIs ==
  ASSUME mem \in Memory
  PROVE  /\ NextCut \in Keys \cup {0}
         /\ \A k \in Keys : \/ k <= mem.checked \/ k \in SumRange
                            \/ NextCut # 0 /\ k > NextCut
         /\ SumRange \subseteq Keys
<1> DEFINE rest == {b \in mem.boundaries : b > mem.checked}
<1>1. rest \subseteq Keys /\ rest \subseteq Nat
  BY DEF Memory
<1>2. NextCut = IF rest = {} THEN 0 ELSE Smallest(rest)
  BY DEF NextCut
<1>3. NextCut \in Keys \cup {0}
  <2> HIDE DEF rest
  <2> QED BY <1>1, <1>2, SmallestKey
<1>4. mem.checked \in Nat
  <2>1. mem.checked \in Keys \cup {0}
    BY DEF Memory
  <2>2. Keys \cup {0} \subseteq Nat
    OBVIOUS
  <2> QED BY <2>1, <2>2
<1> QED BY <1>3, <1>4 DEF SumRange

(* RangeStays: it depends on two of the run's variables. *)
LEMMA RangeStays ==
  ASSUME mem'.boundaries = mem.boundaries, mem'.checked = mem.checked
  PROVE  SumRange' = SumRange
<1>1. NextCut' = NextCut
  BY DEF NextCut, Smallest
<1> QED BY <1>1 DEF SumRange

(* DataApp: the application's steps. *)
LEMMA DataApp ==
  ASSUME DataInv, TypeInv', App
  PROVE  CopyInv' /\ SumInv'
<1>0. /\ TypeInv /\ TableInv /\ PhaseInv /\ LockInv /\ ShadowInv
      /\ CopyInv /\ SumInv /\ alter = "plain"
  BY DEF DataInv, ControlInv, Control
<1>1. UNCHANGED <<pc, mem, inflight>>
  <2>1. \A w, kind, f, g : Apply(w, kind, f, g) => UNCHANGED osc
    BY DEF Apply
  <2>2. \A w : Write(w) \/ Move(w) => UNCHANGED osc
    BY <2>1 DEF Write, Move
  <2>3. \A w, c : End(w, c) => UNCHANGED osc
    BY DEF End
  <2> QED BY <2>2, <2>3 DEF App, Commit, Rollback, osc
<1>2. /\ gap => gap'
      /\ pc \in Copying \/ inflight = "swap"
           => \A k \in Keys : Equal(k) => Equal(k)'
  BY <1>0, LocksApp DEF PhaseInv, Copying
<1>3. CopyInv'
  BY <1>0, <1>1, <1>2 DEF CopyInv, Copying, Chunks
<1>4. ASSUME pc = "sumShadow"
      PROVE  /\ (\A k \in SumRange : Unheld("src", k))'
             /\ mem'.sum = Digest(rows.src)'
  <2>0. /\ mem \in Memory /\ rows \in [Objects -> Rows]
        /\ rows' \in [Objects -> Rows] /\ "src" \in Objects
        /\ held \in [Writers -> SUBSET (Objects \X Keys)]
    BY <1>0 DEF TypeInv, DataTypes, RunTypes, Objects
  <2>1. /\ \A k \in SumRange : Unheld("src", k)
        /\ mem.sum = Digest(rows.src) /\ ShareLocked = SumRange
        /\ SumRange' = SumRange /\ SumRange \subseteq Keys
        /\ table.t = "src"
    BY <1>0, <1>1, <1>4, <2>0, CutIs, RangeStays
    DEF SumInv, ShareLocked, PhaseInv, Copying
  <2>2. \A k \in SumRange : Unheld("src", k)' /\ rows'.src[k] = rows.src[k]
    <3>1. PICK w \in Writers :
            Write(w) \/ Move(w) \/ End(w, TRUE) \/ End(w, FALSE)
      BY DEF App, Commit, Rollback
    <3>2. CASE Write(w) \/ Move(w)
      <4>1. PICK K \in SUBSET Keys, f \in Rows, mirrored \in BOOLEAN :
              Statement(w, K, f, mirrored)
        BY <1>0, <3>2, WriteStatement
      <4>2. \A k \in SumRange : <<"src", k>> \notin Cells(K, mirrored)
        BY <2>1, <4>1 DEF Statement, Cells
      <4>3. \A x \in Writers, k \in SumRange :
              <<"src", k>> \notin held'[x]
        BY <2>0, <2>1, <4>1, <4>2 DEF Statement, Unheld
      <4>4. \A k \in SumRange : rows'.src[k] = rows.src[k]
        BY <2>0, <2>1, <4>1, <4>2 DEF Statement
      <4> QED BY <4>3, <4>4 DEF Unheld
    <3>3. CASE \E c \in BOOLEAN : End(w, c)
      <4>1. \A k \in SumRange : rows'.src[k] = rows.src[k]
        BY <2>0, <2>1, <3>3 DEF End, Unheld
      <4>2. \A x \in Writers : held'[x] \subseteq held[x]
        BY <2>0, <3>3 DEF End
      <4> QED BY <2>1, <4>1, <4>2 DEF Unheld
    <3> QED BY <3>1, <3>2, <3>3
  <2>3. Digest(rows'.src) = Digest(rows.src)
    BY <2>0, <2>2, DigestOf
  <2>4. Digest(rows.src)' = Digest(rows'.src)
    BY <2>1 DEF Digest, Present
  <2> QED BY <1>1, <2>1, <2>2, <2>3, <2>4
<1>5. SumInv'
  BY <1>0, <1>1, <1>2, <1>4 DEF SumInv, At, Copying
<1> QED BY <1>3, <1>5

(* DataIdle: a run that is neither copying nor about to claims nothing. *)
LEMMA DataIdle ==
  ASSUME pc' \notin Before \cup Copying, inflight' # "swap"
  PROVE  CopyInv' /\ SumInv'
BY DEF CopyInv, SumInv, Before, Copying, Chunks, At

(* DataStops: the end of a run, its failures, and its clean-up. *)
LEMMA DataStops ==
  ASSUME DataInv,
         \/ Swap \/ DropTriggersAfterSwap \/ DropOld \/ Kill \/ DropCreated
         \/ DropShadow \/ CleanupTimeout \/ Exists \/ Interrupt \/ Crash
  PROVE  CopyInv' /\ SumInv'
<1>0. StrayInv /\ SumInv
  BY DEF DataInv, ControlInv, Control
<1>1. pc' \in {"drop", "dropOld", "done", "clean", "failed", "cleanShadow",
               "kill", "dead"}
  <2> USE DEF Go
  <2>1. CASE Swap \/ DropTriggersAfterSwap \/ DropOld
    BY <2>1 DEF Swap, DropTriggersAfterSwap, DropOld
  <2>2. CASE Kill \/ DropCreated \/ DropShadow \/ CleanupTimeout \/ Exists
    BY <2>2 DEF Kill, DropCreated, DropShadow, CleanupTimeout, Exists
  <2>3. CASE Interrupt \/ Crash
    BY <2>3 DEF Interrupt, Crash
  <2> QED BY <2>1, <2>2, <2>3
<1>2. CASE inflight' # "swap"
  BY <1>1, <1>2, DataIdle DEF Before, Copying
<1>3. CASE inflight' = "swap"
  <2>1. At("swap") /\ UNCHANGED <<rows, base>>
    <3>1. CASE Swap \/ DropTriggersAfterSwap \/ DropOld
      BY <1>0, <1>3, <3>1
      DEF Swap, DropTriggersAfterSwap, DropOld, Step, StrayInv, Brief
    <3>2. CASE Kill \/ CleanupTimeout \/ Exists
      BY <1>3, <3>2
      DEF Kill, CleanupTimeout, Exists, Quiet, Step, At, SameRows
    <3>3. CASE DropCreated \/ DropShadow
      BY <1>0, <1>3, <3>3 DEF DropCreated, DropShadow, Step, StrayInv, Brief
    <3>4. CASE Interrupt \/ Crash
      BY <1>3, <3>4 DEF Interrupt, Crash, Stops, At, SameRows
    <3> QED BY <3>1, <3>2, <3>3, <3>4
  <2>2. \A k \in Keys : Equal(k)'
    BY <1>0, <2>1 DEF SumInv, Equal
  <2> QED BY <1>1, <2>2 DEF CopyInv, SumInv, Before, Chunks, At
<1> QED BY <1>2, <1>3

(* DataStrays: statements that execute late, and the operator's clean-up.  *)
LEMMA DataStrays ==
  ASSUME DataInv,
         LateStatement \/ CleanupStart \/ CleanupStep \/ CleanupStops
  PROVE  CopyInv' /\ SumInv'
<1>0. /\ TypeInv /\ StrayInv /\ SumInv /\ CopyInv
      /\ op # "idle" => pc \in Ended
  BY DEF DataInv, ControlInv, Control, MemoryInv
<1>1. UNCHANGED <<pc, mem>>
  BY DEF LateStatement, CleanupStart, CleanupStep, CleanupStops, Op
<1>2. pc \notin Copying /\ pc \notin Chunks
  BY <1>0 DEF LateStatement, CleanupStart, CleanupStep, CleanupStops,
              StrayInv, Copying, Chunks, Ended
<1>3. CopyInv'
  BY <1>0, <1>1, <1>2 DEF CopyInv, Chunks, Copying
<1>4. inflight' = "swap" => At("swap") /\ UNCHANGED <<rows, base>>
  <2> SUFFICES ASSUME inflight' = "swap"
               PROVE  At("swap") /\ UNCHANGED <<rows, base>>
    OBVIOUS
  <2>1. CASE LateStatement
    BY <2>1 DEF LateStatement
  <2>2. CASE CleanupStart \/ CleanupStops
    BY <2>2 DEF CleanupStart, CleanupStops, Op, SameRows, At
  <2>3. CASE CleanupStep
    <3>1. inflight = "swap"
      BY <2>3 DEF CleanupStep, Op
    <3>2. Queued("src") /\ Queued("sh")
      BY <3>1 DEF Queued, Locks, Statements, Objects
    <3>3. SameRows
      BY <2>3, <3>2 DEF CleanupStep
    <3> QED BY <3>1, <3>3 DEF SameRows, At
  <2> QED BY <2>1, <2>2, <2>3
<1>5. SumInv'
  BY <1>0, <1>1, <1>2, <1>4 DEF SumInv, Equal, At, Copying
<1> QED BY <1>3, <1>5

(* DataMakes: the steps before the first chunk. *)
LEMMA DataMakes ==
  ASSUME DataInv, TypeInv',
         \/ Start \/ TryInstant \/ MakeShadow \/ RecordTrigger \/ AddTrigger
  PROVE  CopyInv' /\ SumInv'
<1>0. StrayInv /\ SumInv /\ PhaseInv /\ mem \in Memory /\ CopyInv
  BY DEF DataInv, ControlInv, Control, TypeInv, RunTypes
<1>1. UNCHANGED inflight /\ (~Start => inflight # "swap")
  BY <1>0 DEF Start, TryInstant, MakeShadow, RecordTrigger, AddTrigger, Step,
              Other, Quiet, StrayInv, Brief
<1>2. \/ pc' \in {"done", "failed", "kill"}
      \/ pc' \in Before /\ mem'.lo = 0 /\ ~mem'.last /\ mem'.checked = 0
  <2> USE DEF Go, Before
  <2>1. CASE Start
    BY <2>1 DEF Start, Fresh
  <2>2. ASSUME pc \in Before \ {"maxpk"}, mem'.lo = mem.lo,
               mem'.last = mem.last, mem'.checked = mem.checked,
               pc' \in Before
        PROVE  pc' \in Before /\ mem'.lo = 0 /\ ~mem'.last
               /\ mem'.checked = 0
    BY <1>0, <2>2 DEF CopyInv
  <2>3. CASE TryInstant
    BY <2>2, <2>3 DEF TryInstant
  <2>4. CASE MakeShadow
    <3>1. CASE pc = "create"
      <4>1. mem' = [mem EXCEPT !.created_shadow = TRUE] /\ pc' = "alter"
        BY <2>4, <3>1 DEF MakeShadow
      <4>2. /\ mem'.lo = mem.lo /\ mem'.last = mem.last
            /\ mem'.checked = mem.checked
        BY <1>0, <4>1 DEF Memory
      <4> QED BY <2>2, <3>1, <4>1, <4>2
    <3>2. CASE pc = "alter"
      BY <2>2, <2>4, <3>2 DEF MakeShadow, ValidateShadow
    <3> QED BY <2>4, <3>1, <3>2 DEF MakeShadow
  <2>5. CASE RecordTrigger
    <3>1. /\ mem' = [mem EXCEPT !.recorded = mem.recorded + 1]
          /\ pc = "record" /\ pc' = "trigger"
      BY <2>5 DEF RecordTrigger
    <3>2. /\ mem'.lo = mem.lo /\ mem'.last = mem.last
          /\ mem'.checked = mem.checked
      BY <1>0, <3>1 DEF Memory
    <3> QED BY <2>2, <3>1, <3>2
  <2>6. CASE AddTrigger
    BY <2>2, <2>6 DEF AddTrigger
  <2> QED BY <2>1, <2>3, <2>4, <2>5, <2>6
<1>3. CASE inflight # "swap"
  BY <1>1, <1>2, <1>3 DEF CopyInv, SumInv, Before, Chunks, At
<1>4. CASE inflight = "swap"
  <2>1. Start
    BY <1>1, <1>4
  <2>2. UNCHANGED <<rows, base>>
    BY <2>1 DEF Start, SameRows
  <2>3. \A k \in Keys : Equal(k)'
    BY <1>0, <1>4, <2>2 DEF SumInv, At, Equal
  <2> QED BY <1>1, <1>2, <2>3 DEF CopyInv, SumInv, Before, Chunks, At
<1> QED BY <1>3, <1>4

(* DataChunks: the copy. *)
LEMMA DataChunks ==
  ASSUME DataInv, TypeInv', MaxPk \/ Throttle \/ Boundary \/ Copy
  PROVE  CopyInv' /\ SumInv'
<1>0. /\ TypeInv /\ TableInv /\ PhaseInv /\ LockInv /\ ShadowInv
      /\ CopyInv /\ SumInv /\ alter = "plain" /\ StrayInv
      /\ mem \in Memory /\ Keys \cup {0} \subseteq Nat
      /\ mem.lo \in Keys \cup {0} /\ mem.max_pk \in Keys \cup {0}
  BY DEF DataInv, ControlInv, Control, TypeInv, RunTypes, Memory
<1>1. inflight' = "none" /\ UNCHANGED held
  BY <1>0 DEF MaxPk, Throttle, Resume, Pause, Boundary, Copy, Step, Other,
              Quiet, StrayInv
<1>2. table.t = "src" /\ table.new = "sh" /\ triggers = Kinds
  BY <1>0 DEF MaxPk, Throttle, Resume, Pause, Boundary, Copy, PhaseInv,
              Copying
<1>3. CASE MaxPk
  <2>0. pc = "maxpk" /\ UNCHANGED <<rows, base, gap>>
    BY <1>3 DEF MaxPk, Quiet, SameRows
  <2>1. ASSUME NEW k \in Keys, ~gap, base.src[k] = Absent PROVE Equal(k)
    <3>1. base.sh[k] = Absent
      BY <1>0, <1>2, <2>1 DEF ShadowInv
    <3>2. CASE Unheld("src", k)
      <4>1. Unheld("sh", k)
        BY <1>0, <1>2, <3>2 DEF Unheld, LockInv
      <4> QED BY <1>0, <2>1, <3>1, <3>2, <4>1 DEF LockInv, Equal, Objects
    <3>3. CASE ~Unheld("src", k)
      <4>1. rows.sh[k] = rows.src[k]
        BY <1>0, <1>2, <3>3 DEF Unheld, ShadowInv
      <4> QED BY <2>1, <3>1, <4>1 DEF Equal
    <3> QED BY <3>2, <3>3
  <2>2. mem.lo = 0 /\ ~mem.last /\ mem.checked = 0
    BY <1>0, <2>0 DEF CopyInv, Before
  <2> DEFINE P == Present(base.src)
  <2>3. CASE P = {}
    <3>1. pc' = "sumSrc" /\ mem' = mem
      BY <1>3, <2>3 DEF MaxPk, Go
    <3>2. \A k \in Keys : ~gap => Equal(k)
      BY <2>1, <2>3 DEF Present
    <3>3. \A k \in Keys : ~(k <= mem.checked)
      BY <1>0, <2>2
    <3> QED BY <1>1, <2>0, <3>1, <3>2, <3>3
            DEF CopyInv, SumInv, Before, Chunks, At, Equal
  <2>4. CASE P # {}
    <3> DEFINE m == Largest(P)
    <3>1. P \in SUBSET Keys
      BY DEF Present
    <3>2. m \in Keys /\ \A j \in P : j <= m
      <4> HIDE DEF P
      <4> QED BY <2>4, <3>1, LargestKey
    <3>3. pc' = "throttle" /\ mem' = [mem EXCEPT !.max_pk = m]
      BY <1>3, <2>4 DEF MaxPk, Go
    <3> HIDE DEF m
    <3>4. /\ mem'.lo = mem.lo /\ mem'.last = mem.last
          /\ mem'.checked = mem.checked /\ mem'.max_pk = m
      BY <1>0, <3>3 DEF Memory
    <3>5. ASSUME NEW k \in Keys, k <= mem'.lo \/ k > mem'.max_pk, ~gap
          PROVE  Equal(k)
      <4>1. k > m
        BY <1>0, <2>2, <3>2, <3>4, <3>5
      <4>2. k \notin P
        BY <1>0, <3>2, <4>1
      <4> QED BY <2>1, <3>5, <4>2 DEF Present
    <3>6. \A k \in Keys :
            ~gap /\ (k <= mem'.lo \/ k > mem'.max_pk) => Equal(k)'
      BY <2>0, <3>5 DEF Equal
    <3> QED BY <1>1, <2>0, <2>2, <3>3, <3>4, <3>6
            DEF CopyInv, SumInv, Before, Chunks, At
  <2> QED BY <2>3, <2>4
<1>4. CASE Throttle
  <2>1. /\ pc \in {"throttle", "hot"}
        /\ pc' \in {"boundary", "throttle", "hot"}
        /\ mem' = mem /\ UNCHANGED <<rows, base, gap>>
    BY <1>4 DEF Throttle, Resume, Pause, Go, Quiet, SameRows
  <2> QED BY <1>0, <1>1, <2>1 DEF CopyInv, SumInv, Before, Chunks, At, Equal
<1>5. CASE Boundary
  <2>1. /\ pc = "boundary" /\ pc' = "copy" /\ UNCHANGED <<rows, base, gap>>
        /\ \/ \E k : mem' = [mem EXCEPT !.hi = k]
           \/ mem' = [mem EXCEPT !.hi = mem.max_pk, !.last = TRUE]
    BY <1>5 DEF Boundary, Go, Quiet, SameRows
  <2>2. /\ mem'.lo = mem.lo /\ mem'.max_pk = mem.max_pk
        /\ mem'.checked = mem.checked
        /\ mem'.last = mem.last \/ mem'.hi = mem.max_pk
    BY <1>0, <2>1 DEF Memory
  <2> QED BY <1>0, <1>1, <2>1, <2>2
          DEF CopyInv, SumInv, Before, Chunks, At, Equal
<1>6. CASE Copy
  <2> DEFINE S == Between(mem.lo, mem.hi)
             m == [mem EXCEPT !.boundaries = @ \cup {mem.hi}, !.lo = mem.hi,
                              !.hi = 0]
             l == [m EXCEPT !.lo = 0, !.max_pk = 0, !.last = FALSE]
  <2>1. pc = "copy" /\ CopyChunk(S) /\ S \in SUBSET Keys
    BY <1>6 DEF Copy, Between
  <2>2. /\ gap' = gap
        /\ \A k \in Keys : Equal(k) \/ (~gap /\ k \in S) => Equal(k)'
    <3> HIDE DEF S
    <3> QED BY <1>0, <1>1, <1>2, <2>1, LocksServer
  <2>3. mem.hi \in Keys /\ mem.checked = 0
        /\ (mem.last => mem.hi = mem.max_pk)
    BY <1>0, <2>1 DEF TypeInv, RunTypes, CopyInv, Before, Chunks
  <2>4. ASSUME NEW k \in Keys, ~gap, k <= mem.hi \/ k > mem.max_pk
        PROVE  Equal(k)'
    <3>1. CASE k \in S
      BY <2>2, <2>4, <3>1
    <3>2. CASE k \notin S
      <4>0. /\ k \in Nat /\ mem.lo \in Nat /\ mem.hi \in Nat
            /\ ~(mem.lo < k /\ k <= mem.hi)
        BY <1>0, <2>3, <3>2 DEF Between
      <4>1. k <= mem.lo \/ k > mem.max_pk
        BY <2>4, <4>0
      <4>2. Equal(k)
        BY <1>0, <2>1, <2>4, <4>1 DEF CopyInv, Chunks
      <4> QED BY <2>2, <4>2
    <3> QED BY <3>1, <3>2
  <2>5. /\ m.lo = mem.hi /\ m.max_pk = mem.max_pk /\ m.last = mem.last
        /\ m.checked = mem.checked
    BY <1>0 DEF Memory
  <2>6. l.checked = mem.checked
    BY <1>0 DEF Memory
  <2>7. IF mem.last THEN pc' = "sumSrc" /\ mem' = l
        ELSE pc' = "throttle" /\ mem' = m
    BY <1>6 DEF Copy, Go
  <2> HIDE DEF m, l, S
  <2>8. CASE mem.last
    <3>0. \A k \in Keys : k <= mem.hi \/ k > mem.max_pk
      <4>1. mem.hi \in Nat /\ mem.max_pk = mem.hi
        BY <1>0, <2>3, <2>8
      <4>2. \A i, j \in Nat : i <= j \/ i > j
        OBVIOUS
      <4> QED BY <1>0, <4>1, <4>2
    <3>1. \A k \in Keys : ~gap => Equal(k)'
      BY <2>4, <3>0
    <3>2. \A k \in Keys : ~(k <= mem'.checked)
      BY <1>0, <2>3, <2>6, <2>7, <2>8
    <3> QED BY <1>1, <2>2, <2>7, <2>8, <3>1, <3>2
            DEF CopyInv, SumInv, Before, Chunks, At
  <2>9. CASE ~mem.last
    BY <1>1, <2>2, <2>3, <2>4, <2>5, <2>7, <2>9
    DEF CopyInv, SumInv, Before, Chunks, At
  <2> QED BY <2>8, <2>9
<1> QED BY <1>3, <1>4, <1>5, <1>6

(* DataSums: the checksum, and lock waits that time out. *)
LEMMA DataSums ==
  ASSUME DataInv, TypeInv',
         SumSource \/ SumShadow \/ Mismatch \/ LockTimeout
  PROVE  CopyInv' /\ SumInv'
<1>0. /\ TypeInv /\ PhaseInv /\ LockInv /\ ShadowInv
      /\ CopyInv /\ SumInv /\ alter = "plain" /\ StrayInv
      /\ mem \in Memory /\ Keys \cup {0} \subseteq Nat
      /\ mem.checked \in Keys \cup {0}
      /\ rows.src \in Rows /\ rows.sh \in Rows
  BY DEF DataInv, ControlInv, Control, TypeInv, RunTypes, DataTypes, Memory,
         Objects
<1>1. inflight' # "swap" /\ UNCHANGED <<rows, base, gap, held>>
  BY <1>0 DEF SumSource, SumShadow, Mismatch, LockTimeout, Blocked, Step,
              Other, Quiet, SameRows, StrayInv, Brief
<1>2. \A k \in Keys : Equal(k)' <=> Equal(k)
  BY <1>1 DEF Equal
<1>3. CASE SumSource
  <2>1. /\ pc = "sumSrc" /\ pc' = "sumShadow" /\ Unlocked(SumRange)
        /\ mem' = [mem EXCEPT !.sum = Digest(rows.src)]
    BY <1>3 DEF SumSource, Go
  <2>2. /\ mem'.sum = Digest(rows.src) /\ mem'.checked = mem.checked
        /\ mem'.boundaries = mem.boundaries
    BY <1>0, <2>1 DEF Memory
  <2>3. SumRange' = SumRange
    BY <2>2, RangeStays
  <2>4. Digest(rows.src)' = Digest(rows.src)
    BY <1>1, <2>3 DEF Digest, Present
  <2>5. (\A k \in SumRange : Unheld("src", k))'
    BY <1>1, <2>1, <2>3 DEF Unlocked, Unheld, Objects
  <2> QED BY <1>0, <1>1, <1>2, <2>1, <2>2, <2>4, <2>5
          DEF CopyInv, SumInv, Before, Chunks, At
<1>4. CASE SumShadow
  <2>1. /\ pc = "sumShadow" /\ Unlocked(SumRange)
        /\ mem.sum = Digest(rows.src)
    BY <1>0, <1>4 DEF SumShadow, SumInv
  <2>2. SumRange \subseteq Keys /\ NextCut \in Keys \cup {0}
    BY <1>0, CutIs
  <2>3. SameSum(mem.sum, Digest(rows.sh))
          <=> \A k \in SumRange : rows.src[k] = rows.sh[k]
    BY <1>0, <2>1, DigestOf DEF SameSum
  <2> DEFINE m == [mem EXCEPT !.sum = {}]
             l == [m EXCEPT !.checked = NextCut]
             e == [m EXCEPT !.checked = 0, !.boundaries = {}]
  <2>4. l.checked = NextCut
    BY <1>0 DEF Memory
  <2>5. IF ~SameSum(mem.sum, Digest(rows.sh)) THEN pc' = "mismatch"
        ELSE IF NextCut # 0 THEN pc' = "sumSrc" /\ mem' = l
        ELSE pc' = "swap"
    BY <1>4 DEF SumShadow, Go
  <2> HIDE DEF m, l, e
  <2>6. CASE ~SameSum(mem.sum, Digest(rows.sh))
    <3>1. gap
      BY <1>0, <2>1, <2>2, <2>3, <2>6 DEF CopyInv, Equal
    <3> QED BY <1>1, <2>5, <2>6, <3>1
            DEF CopyInv, SumInv, Before, Chunks, At
  <2>7. CASE SameSum(mem.sum, Digest(rows.sh))
    <3>1. \A k \in SumRange : Equal(k)
      <4>1. ASSUME NEW k \in SumRange PROVE Equal(k)
        <5>1. Unheld("src", k) /\ Unheld("sh", k)
          BY <2>1 DEF Unlocked, Unheld, Objects
        <5>2. rows.src[k] = base.src[k] /\ rows.sh[k] = base.sh[k]
          BY <1>0, <2>2, <5>1 DEF LockInv, Objects
        <5> QED BY <2>3, <2>7, <5>2 DEF Equal
      <4> QED BY <4>1
    <3>2. \A k \in Keys : k <= mem.checked => Equal(k)
      BY <1>0, <2>1 DEF SumInv
    <3>3. \A k \in Keys : Equal(k) \/ (NextCut # 0 /\ k > NextCut)
      BY <1>0, <3>1, <3>2, CutIs
    <3>4. CASE NextCut # 0
      <4>1. \A k \in Keys : k <= NextCut => Equal(k)
        <5>1. \A k \in Keys : k <= NextCut => ~(k > NextCut)
          BY <1>0, <2>2
        <5> QED BY <3>3, <5>1
      <4> QED BY <1>0, <1>1, <1>2, <2>1, <2>4, <2>5, <2>7, <3>4, <4>1
              DEF CopyInv, SumInv, Before, Chunks, At
    <3>5. CASE NextCut = 0
      BY <1>1, <1>2, <2>5, <2>7, <3>3, <3>5
      DEF CopyInv, SumInv, Before, Chunks, At
    <3> QED BY <3>4, <3>5
  <2> QED BY <2>6, <2>7
<1>5. CASE Mismatch
  BY <1>1, <1>5, DataIdle DEF Mismatch, Go, Before, Copying
<1>6. CASE LockTimeout
  <2>1. CASE pc' = "kill"
    BY <1>1, <2>1, DataIdle DEF Before, Copying
  <2>2. CASE pc' # "kill"
    <3>1. /\ pc' = IF pc = "sumShadow" THEN "sumSrc" ELSE pc
          /\ mem' = [mem EXCEPT !.sum = {}]
          /\ pc \in {"trigger", "swap", "drop", "copy", "sumSrc",
                     "sumShadow"}
      BY <1>6, <2>2 DEF LockTimeout, Go, Blocked
    <3>2. /\ mem'.lo = mem.lo /\ mem'.hi = mem.hi /\ mem'.last = mem.last
          /\ mem'.checked = mem.checked /\ mem'.max_pk = mem.max_pk
      BY <1>0, <3>1 DEF Memory
    <3> QED BY <1>0, <1>1, <1>2, <3>1, <3>2
            DEF CopyInv, SumInv, Before, Chunks, At
  <2> QED BY <2>1, <2>2
<1> QED BY <1>3, <1>4, <1>5, <1>6

(* DataInit: the rows and locks at the start. *)
LEMMA DataInit == PlainOnly /\ Init => DataInv
<1> SUFFICES ASSUME PlainOnly, Init PROVE DataInv
  OBVIOUS
<1>1. ControlInv /\ TypeInv
  BY ControlInit DEF ControlInv
<1>2. alter = "plain"
  BY DEF PlainOnly, Init
<1>3. \A w \in Writers : held[w] = {}
  BY DEF Init
<1>4. LockInv
  BY <1>3 DEF LockInv, Init
<1>5. ShadowInv
  BY <1>3 DEF ShadowInv, Init, InUse
<1>6. CopyInv /\ SumInv
  BY DEF CopyInv, SumInv, Init, Before, Chunks, At
<1> QED BY <1>1, <1>2, <1>4, <1>5, <1>6 DEF DataInv

(* DataNext: the invariant of the rows is inductive. *)
LEMMA DataNext == DataInv /\ [Next]_vars => DataInv'
<1> SUFFICES ASSUME DataInv, [Next]_vars PROVE DataInv'
  OBVIOUS
<1>0. ControlInv /\ ControlInv' /\ TypeInv'
  BY ControlNext DEF DataInv, ControlInv
<1>1. LockInv' /\ ShadowInv'
  BY <1>0, LocksNext DEF DataInv
<1>2. alter' = alter
  <2>1. CASE App
    <3>1. \A w, kind, f, g : Apply(w, kind, f, g) => alter' = alter
      BY DEF Apply
    <3>2. \A w : Write(w) \/ Move(w) => alter' = alter
      BY <3>1 DEF Write, Move
    <3>3. \A w, c : End(w, c) => alter' = alter
      BY DEF End
    <3> QED BY <2>1, <3>2, <3>3 DEF App, Commit, Rollback
  <2>2. CASE ~App
    BY <1>0, <2>2, ServerSteps
  <2> QED BY <2>1, <2>2
<1>3. CopyInv' /\ SumInv'
  <2>1. CASE App
    BY <1>0, <2>1, DataApp
  <2>2. CASE Run
    BY <1>0, <2>2, DataMakes, DataChunks, DataSums, DataStops DEF Run
  <2>3. CASE Start
    BY <1>0, <2>3, DataMakes
  <2>4. CASE \/ Interrupt \/ Crash \/ LateStatement
             \/ CleanupStart \/ CleanupStep \/ CleanupStops
    BY <2>4, DataStops, DataStrays
  <2>5. CASE UNCHANGED vars
    <3>1. UNCHANGED <<pc, mem, inflight, rows, base, gap, held>>
      BY <2>5 DEF vars, osc
    <3>2. SumRange' = SumRange
      BY <3>1, RangeStays
    <3>3. Digest(rows.src)' = Digest(rows.src)
      BY <3>1, <3>2 DEF Digest, Present
    <3>4. CopyInv'
      BY <3>1 DEF DataInv, CopyInv, Equal
    <3>5. SumInv'
      BY <3>1, <3>2, <3>3 DEF DataInv, SumInv, Equal, Unheld, At
    <3> QED BY <3>4, <3>5
  <2> QED BY <2>1, <2>2, <2>3, <2>4, <2>5 DEF Next
<1> QED BY <1>0, <1>1, <1>2, <1>3 DEF DataInv

(* ChecksumCorrect: for a plain ALTER, what the checksum found equal stays *)
(* equal until the swap, whatever the sessions write and roll back.        *)
THEOREM ChecksumCorrect == PlainOnly /\ Spec => []ChecksumStands
<1>1. DataInv => ChecksumStands
  BY DEF DataInv, SumInv, ChecksumStands, Verified, Equal, At
<1> QED BY <1>1, DataInit, DataNext, PTL DEF Spec

(* MismatchCorrect: for a plain ALTER, the checksum reports a mismatch     *)
(* only if a write went past the triggers before they all existed.         *)
THEOREM MismatchCorrect == PlainOnly /\ Spec => []MismatchHasCause
<1>1. DataInv => MismatchHasCause
  BY DEF DataInv, CopyInv, MismatchHasCause
<1> QED BY <1>1, DataInit, DataNext, PTL DEF Spec

(* RowsCorrect: for a plain ALTER, the application sees no row of its      *)
(* table change but by its own commits: the swap exchanges equal tables,   *)
(* and no drop, in time or late, takes the table in use.                   *)
THEOREM RowsCorrect == PlainOnly /\ Spec => OnlyCommitsChangeRows
<1>1. ASSUME DataInv, [Next]_vars, \A w \in Writers : ~Commit(w)
      PROVE  Visible' = Visible
  <2>0. /\ TableInv /\ SumInv /\ ControlInv
        /\ table \in [Names -> Objects \cup {"none"}]
        /\ table.t \in Objects /\ table'.t \in Objects
        /\ base \in [Objects -> Rows] /\ Objects = {"src", "sh"}
    BY <1>1, ControlNext
    DEF DataInv, ControlInv, Control, TypeInv, DataTypes, Objects
  <2>1. Visible = base[table.t] /\ Visible' = base'[table'.t]
    BY <2>0 DEF Visible, Objects
  <2>2. CASE App
    <3>1. \A w, kind, f, g :
            Apply(w, kind, f, g) => UNCHANGED <<base, table>>
      BY DEF Apply, dict
    <3>2. \A w : Write(w) \/ Move(w) => UNCHANGED <<base, table>>
      BY <3>1 DEF Write, Move
    <3>3. \A w : Rollback(w) => UNCHANGED <<base, table>>
      BY DEF Rollback, End, dict
    <3> QED BY <1>1, <2>1, <2>2, <3>2, <3>3 DEF App
  <2>3. CASE ~App
    <3>0. ServerStep
      BY <1>1, <2>0, <2>3, ServerSteps
    <3>1. CASE UNCHANGED <<table, triggers>> /\ SameRows
      BY <2>1, <3>1 DEF SameRows
    <3>2. CASE Rename /\ At("swap")
      <4>1. base' = base /\ table'.t = "sh" /\ table.t = "src"
        BY <2>0, <3>2 DEF Rename, SameRows, TableInv
      <4>2. \A k \in Keys : base.sh[k] = base.src[k]
        BY <2>0, <3>2 DEF SumInv, Equal
      <4>3. base.sh \in Rows /\ base.src \in Rows
        BY <2>0
      <4>4. base.sh = base.src
        BY <4>2, <4>3, RowsEqual
      <4> QED BY <2>1, <4>1, <4>4
    <3>3. CASE CreateShadow
      <4>1. base' = base /\ table'.t = table.t
        BY <2>0, <3>3 DEF CreateShadow, Names
      <4> QED BY <2>1, <4>1
    <3>4. CASE \E kind : CreateTrigger(kind) \/ DropTrigger(kind)
      BY <2>1, <3>4 DEF CreateTrigger, DropTrigger, SameRows
    <3>5. ASSUME NEW name \in {"new", "old"}, DropTable(name)
          PROVE  Visible' = Visible
      <4>1. table[name] # table.t
        BY <2>0 DEF TableInv
      <4>2. /\ table'.t = table.t
            /\ base' = base \/ base' = [base EXCEPT ![table[name]] = Empty]
        BY <2>0, <3>5 DEF DropTable, SameDict, SameRows, dict, Names
      <4> QED BY <2>0, <2>1, <4>1, <4>2
    <3>6. ASSUME NEW S \in SUBSET Keys, CopyChunk(S), table.t = "src"
          PROVE  Visible' = Visible
      <4>1. table' = table /\ base'.src = base.src
        BY <2>0, <3>6 DEF CopyChunk, SameDict, dict
      <4> QED BY <2>1, <3>6, <4>1
    <3> QED BY <3>0, <3>1, <3>2, <3>3, <3>4, <3>5, <3>6 DEF ServerStep
  <2> QED BY <2>2, <2>3
<1>2. ASSUME DataInv, [Next]_vars
      PROVE  [(\E w \in Writers : Commit(w)) \/ Visible' = Visible]_vars
  BY <1>1, <1>2
<1> QED
  BY <1>2, DataInit, DataNext, PTL DEF Spec, OnlyCommitsChangeRows
=============================================================================
