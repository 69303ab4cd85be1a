----------------------------- MODULE Selection -----------------------------
(***************************************************************************)
(* Failover step 3 of dbguard/manager/selection.py: which replica may be   *)
(* promoted, which one wins, and when the set must halt.  Pure operators   *)
(* on node views, a view being what one /status answer says of a node.     *)
(*                                                                         *)
(* GTID sets are sets of transactions.  Ties on both counts are broken in  *)
(* the code by node order; here any of the tied nodes may win.             *)
(***************************************************************************)
EXTENDS FiniteSets, Integers

(* A view holding transactions of T. "responsive" is mysqld_responsive,    *)
(* "sqlStopped" is sql_running = No, "ssReplica" the semi-sync replica     *)
(* switch.                                                                 *)
NodeView(T) ==
    [reachable : BOOLEAN, responsive : BOOLEAN, configured : BOOLEAN,
     sqlError : BOOLEAN, sqlStopped : BOOLEAN, ssReplica : BOOLEAN,
     executed : SUBSET T, retrieved : SUBSET T]

(* What the manager knows of a node whose agent did not answer. *)
UnreachableView ==
    [reachable |-> FALSE, responsive |-> FALSE, configured |-> FALSE,
     sqlError |-> FALSE, sqlStopped |-> FALSE, ssReplica |-> FALSE,
     executed |-> {}, retrieved |-> {}]

(* The agent answers and mysqld answers. *)
Usable(v) == v.reachable /\ v.responsive

(* Mutant: the executed set alone, as the naive baseline compares. *)
HaveExecuted(v) == v.executed

(* Everything a node holds, applied or only in its relay log. *)
Have(v) == v.executed \cup v.retrieved

(* The node may be promoted. *)
Candidate(v) ==
    /\ Usable(v)
    /\ v.configured
    /\ ~v.sqlError
    /\ ~v.sqlStopped
    /\ v.ssReplica

Candidates(views, nodes) == {n \in nodes : Candidate(views[n])}

(* Mutant: the most applied wins, whatever the relay logs hold. *)
BestApplied(views, cands) ==
    {w \in cands : \A c \in cands :
        Cardinality(views[w].executed) >= Cardinality(views[c].executed)}

(* Candidates that hold the most, then have applied the most. *)
Best(views, cands) ==
    {w \in cands : \A c \in cands :
        LET more == Cardinality(Have(views[w])) - Cardinality(Have(views[c]))
            applied == Cardinality(views[w].executed)
                       - Cardinality(views[c].executed)
        IN  more > 0 \/ (more = 0 /\ applied >= 0)}

(* Some other candidate holds a transaction the winner lacks. *)
Diverged(views, cands, w) ==
    \E c \in cands : ~(Have(views[c]) \subseteq Have(views[w]))

(* The winners the manager may promote; empty when the set must halt. *)
Winners(views, cands) ==
    {w \in Best(views, cands) : ~Diverged(views, cands, w)}
=============================================================================
