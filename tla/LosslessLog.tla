---------------------------- MODULE LosslessLog -----------------------------
(***************************************************************************)
(* What automatic failover promises the clients of a set, without nodes    *)
(* that fail, fences or replication: one log of writes with at most one    *)
(* owner.  While it has an owner the log only grows and only what is in it *)
(* is answered; ownership passes over a time without an owner; and a new   *)
(* owner may bring another log, but one with every answered write in it.   *)
(***************************************************************************)
CONSTANTS Node, Nobody, Write

VARIABLES
    owner,      \* the primary in charge, or Nobody
    log,        \* the writes of the primary, or of the last one
    answered    \* the writes answered OK

logVars == <<owner, log, answered>>

Init ==
    /\ owner \in Node
    /\ log = {}
    /\ answered = {}

Serve ==
    /\ owner # Nobody
    /\ log \subseteq log' /\ log' \subseteq Write
    /\ answered \subseteq answered' /\ answered' \subseteq log'
    /\ UNCHANGED owner

StepDown ==
    /\ owner # Nobody
    /\ owner' = Nobody
    /\ UNCHANGED <<log, answered>>

(* An answer may still be on its way, a node nobody has named yet may have *)
(* started to serve, and a write that no replica in reach holds is given   *)
(* up.                                                                     *)
Adrift ==
    /\ owner = Nobody
    /\ log \subseteq log' /\ log' \subseteq Write
    /\ answered' \subseteq Write
    /\ UNCHANGED owner

TakeOver ==
    /\ owner = Nobody
    /\ owner' \in Node
    /\ answered \subseteq log' /\ log' \subseteq Write
    /\ UNCHANGED answered

Next == Serve \/ StepDown \/ Adrift \/ TakeOver

Spec == Init /\ [][Next]_logVars
=============================================================================
