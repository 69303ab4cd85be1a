-------------------------------- MODULE Gtid --------------------------------
(***************************************************************************)
(* GTID sets as dbguard/gtid.py keeps them (sorted, merged intervals per   *)
(* source) and as agent/gtidcount.py counts them without it.  Two          *)
(* registers hold sets that were read from text or computed from one       *)
(* another; beside each of them runs the plain set of transactions.        *)
(* A text is the set of the intervals it names; its layout, and which text *)
(* is accepted, are left out.                                              *)
(***************************************************************************)
EXTENDS FiniteSets, Integers, Sequences

LOCAL INSTANCE SequencesExt
LOCAL INSTANCE FiniteSetsExt

CONSTANTS
    Source,     \* the uuids, tags included
    MaxGno,     \* bound: MaxGno[s] is the greatest number of source s
    MaxParts    \* bound: intervals in one text

ASSUME GtidAssumption == MaxGno \in [Source -> Nat] /\ MaxParts \in Nat

VARIABLES
    x, y,       \* two GtidSets: x[s] is the sequence of s's intervals
    gx, gy      \* history: the transactions they stand for

gtidVars == <<x, y, gx, gy>>

(* One interval of a text, <<source, first, last>>. *)
Part == {<<s, i, j>> \in UNION {{s} \X (1 .. MaxGno[s]) \X (1 .. MaxGno[s]) :
                                  s \in Source} : i <= j}

Members(iv) == iv[1] .. iv[2]
Points(g) == UNION {{s} \X UNION {Members(g[s][i]) : i \in DOMAIN g[s]} :
                      s \in Source}

(* Mutant: intervals that touch are not merged. *)
MergeOverlap(out, iv) ==
    IF out # <<>> /\ iv[1] <= Last(out)[2]
      THEN Append(Front(out), <<Last(out)[1], Max({Last(out)[2], iv[2]})>>)
      ELSE Append(out, iv)

(* An interval that overlaps or touches the last one is merged into it. *)
Merge(out, iv) ==
    IF out # <<>> /\ iv[1] <= Last(out)[2] + 1
      THEN Append(Front(out), <<Last(out)[1], Max({Last(out)[2], iv[2]})>>)
      ELSE Append(out, iv)

Before(a, b) == a[1] < b[1] \/ (a[1] = b[1] /\ a[2] <= b[2])
Normalize(ivs) == FoldLeft(Merge, <<>>, SetToSortSeq(ivs, Before))

Parse(parts) ==
    LET of(s) == {<<p[2], p[3]>> : p \in {q \in parts : q[1] = s}}
    IN  [s \in Source |-> Normalize(of(s))]

(* The canonical text, in which sets travel to MySQL and to the agents.    *)
Text(g) ==
    UNION {{<<s, g[s][i][1], g[s][i][2]>> : i \in DOMAIN g[s]} : s \in Source}

(* One interval minus the sorted intervals b: cur is the first number not  *)
(* decided yet.                                                            *)
Cut(st, iv) ==
    [cur |-> Max({st.cur, iv[2] + 1}),
     out |-> IF iv[1] > st.cur THEN Append(st.out, <<st.cur, iv[1] - 1>>)
                               ELSE st.out]

Remainder(iv, b) ==
    LET near == SelectSeq(b, LAMBDA o : o[2] >= iv[1] /\ o[1] <= iv[2])
        st == FoldLeft(Cut, [cur |-> iv[1], out |-> <<>>], near)
    IN  IF st.cur <= iv[2] THEN Append(st.out, <<st.cur, iv[2]>>) ELSE st.out

SubtractIv(a, b) ==
    FoldLeft(LAMBDA out, iv : out \o Remainder(iv, b), <<>>, a)

(* Two pointers: the interval that ends first is left behind. *)
IntersectIv(a, b) ==
    LET meet[i \in 1 .. Len(a) + 1, j \in 1 .. Len(b) + 1] ==
          IF i > Len(a) \/ j > Len(b) THEN <<>>
          ELSE LET s == Max({a[i][1], b[j][1]})
                   e == Min({a[i][2], b[j][2]})
               IN  (IF s <= e THEN <<<<s, e>>>> ELSE <<>>)
                   \o IF a[i][2] < b[j][2] THEN meet[i + 1, j]
                                           ELSE meet[i, j + 1]
    IN  meet[1, 1]

(* Every set that is made is brought into the one form. *)
GtidSet(m) == [s \in Source |-> Normalize(ToSet(m[s]))]

Subtract(g, h) == GtidSet([s \in Source |-> SubtractIv(g[s], h[s])])
Intersection(g, h) == GtidSet([s \in Source |-> IntersectIv(g[s], h[s])])
Union(g, h) == GtidSet([s \in Source |-> g[s] \o h[s]])
IsSubset(g, h) == \A s \in Source : Subtract(g, h)[s] = <<>>

Length(iv) == iv[2] - iv[1] + 1
Count(g) ==
    MapThenSumSet(LAMBDA s : FoldLeft(LAMBDA n, iv : n + Length(iv), 0, g[s]),
                  Source)

(* The scan stops at the first interval that ends at n or later. *)
Holds(g, s, n) ==
    \E i \in DOMAIN g[s] : /\ n \in Members(g[s][i])
                           /\ \A k \in 1 .. i - 1 : g[s][k][1] <= n

(* gtidcount.py: each interval of a is cut into pieces by each of b. *)
Pieces(ps, o) ==
    UNION {{q \in {<<p[1], Min({p[2], o[1] - 1})>>,
                   <<Max({p[1], o[2] + 1}), p[2]>>} : q[1] <= q[2]} : p \in ps}

IntervalCount(a, b) ==
    LET rest(iv) == FoldLeft(Pieces, {iv}, b)
    IN  FoldLeft(LAMBDA n, iv : n + MapThenSumSet(Length, rest(iv)), 0, a)

-----------------------------------------------------------------------------
GtidInit ==
    /\ x = Parse({}) /\ gx = {}
    /\ y = Parse({}) /\ gy = {}

Read(parts) ==
    /\ x' = Parse(parts)
    /\ gx' = UNION {{p[1]} \X (p[2] .. p[3]) : p \in parts}
    /\ UNCHANGED <<y, gy>>

Unite ==
    /\ x' = Union(x, y) /\ gx' = gx \cup gy
    /\ UNCHANGED <<y, gy>>

TakeAway ==
    /\ x' = Subtract(x, y) /\ gx' = gx \ gy
    /\ UNCHANGED <<y, gy>>

Meet ==
    /\ x' = Intersection(x, y) /\ gx' = gx \cap gy
    /\ UNCHANGED <<y, gy>>

Swap == x' = y /\ gx' = gy /\ y' = x /\ gy' = gx

Texts == UNION {kSubset(k, Part) : k \in 0 .. MaxParts}

GtidNext ==
    \/ \E parts \in Texts : Read(parts)
    \/ Unite \/ TakeAway \/ Meet \/ Swap

(* Sorted, and with a gap between any two intervals: equal sets are equal  *)
(* as Python compares them.                                                *)
Canonical(g) == \A s \in Source : \A i \in 1 .. Len(g[s]) - 1 :
                  g[s][i][2] + 1 < g[s][i + 1][1]

(* Whatever was computed from whatever, the intervals stand for the plain  *)
(* set, in their one form, and every question asked of them (the subset    *)
(* check of choose and rejoin, the count of phantoms, the agent's own      *)
(* count) has the plain set's answer.                                      *)
SetsAgree ==
    /\ Points(x) = gx /\ Canonical(x) /\ Parse(Text(x)) = x
    /\ Count(x) = Cardinality(gx)
    /\ IsSubset(x, y) <=> gx \subseteq gy
    /\ \A s \in Source : \A n \in 1 .. MaxGno[s] :
         Holds(x, s, n) <=> <<s, n>> \in gx
    /\ \A s \in Source :
         IntervalCount(x[s], y[s]) = Cardinality({p \in gx \ gy : p[1] = s})
=============================================================================
