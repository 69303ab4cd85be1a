------------------------------- MODULE Lease --------------------------------
(***************************************************************************)
(* The self-fence lease of one node's agent (agent/core.py,                *)
(* self_fence_tick): a primary that neither the manager nor a semi-sync    *)
(* replica can reach fences itself.  A check reads the number of clients   *)
(* from mysqld, then asks the manager; everything may change in between.   *)
(* All times are kept as ages.                                             *)
(***************************************************************************)
EXTENDS Integers

CONSTANTS
    After,      \* self_fence_after_s
    Interval,   \* self_fence_interval_s, the sleep between two checks
    Timeout     \* how long a check may wait for its answers

ASSUME LeaseAssumption ==
    {After, Interval, Timeout} \subseteq Nat \ {0}

VARIABLES
    cut,        \* TRUE: the manager cannot be reached
    replicas,   \* TRUE: a semi-sync replica is connected
    hung,       \* TRUE: mysqld does not answer the agent
    role,       \* primary, replica, or fenced (the flag is set)
    enabled,    \* the lease runs on this node
    facts,      \* Rpl_semi_sync_source_clients as the check in progress read
                \* it: none, some or unknown; "sleep" between two checks
    waited,     \* for how long the sleep or the check has lasted
    count,      \* manager_unreachable_s, or NoCount
    alone, answered, heard, followed,   \* history: how long the primary has
                \* had nobody, mysqld has answered, the manager has been in
                \* reach, and an answering mysqld has had a replica
    contact,    \* history: the time since a contact no check can have missed
    hasty       \* history: the lease fenced a node it should not have

world == <<cut, replicas, hung, role, enabled>>
ages == <<alone, answered, heard, followed, contact>>
leaseVars == <<world, facts, waited, count, ages, hasty>>

NoCount == 0 - 1

(* No check takes longer from one sleep to the next. *)
Cycle == Interval + Timeout

(* An isolated primary is fenced by then: a check may have looked just     *)
(* before, the next one starts the count, and one more runs while the      *)
(* count becomes complete.                                                 *)
Late == After + Timeout + 2 * Cycle

(* Bounds on the ages: nothing looks further back. *)
Older(age, cap) == IF age < cap THEN age + 1 ELSE age

LeaseInit ==
    /\ cut = FALSE /\ replicas = TRUE /\ hung = FALSE
    /\ role = "primary"
    /\ enabled = TRUE
    /\ facts = "sleep" /\ waited = 0
    /\ count = NoCount
    /\ alone = 0 /\ answered = 0 /\ heard = 0 /\ followed = 0 /\ contact = 0
    /\ hasty = FALSE

(* An age starts over with what it is the age of. *)
Ages ==
    /\ alone' = IF cut' /\ ~replicas' /\ role' = "primary" /\ enabled'
                  THEN alone ELSE 0
    /\ answered' = IF hung' THEN 0 ELSE answered
    /\ heard' = IF cut' THEN 0 ELSE heard
    /\ followed' = IF replicas' /\ ~hung' THEN followed ELSE 0
    /\ UNCHANGED contact

Asleep(c) == facts' = "sleep" /\ waited' = 0 /\ count' = c

(* The flag is known without mysqld, super_read_only is not. *)
CheckStarts ==
    /\ facts = "sleep" /\ waited = Interval
    /\ IF ~enabled \/ role = "fenced" \/ (role = "replica" /\ ~hung)
         THEN Asleep(NoCount)
         ELSE /\ facts' = IF hung THEN "unknown"
                          ELSE IF replicas THEN "some" ELSE "none"
              /\ waited' = 0
              /\ UNCHANGED count
    /\ UNCHANGED <<world, ages, hasty>>

ManagerAnswers ==
    /\ facts # "sleep" /\ ~cut
    /\ Asleep(NoCount)
    /\ UNCHANGED <<world, ages, hasty>>

(* The first check to miss the manager starts the count. *)
Counted == IF count = NoCount THEN 0 ELSE count

(* Mutant: an unknown client count starts the count over. *)
CountsOnForgets ==
    /\ facts # "sleep" /\ cut
    /\ \/ facts = "unknown" /\ Asleep(NoCount)
       \/ facts = "some" /\ Asleep(NoCount)
       \/ facts = "none" /\ Counted < After /\ Asleep(Counted)
    /\ UNCHANGED <<world, ages, hasty>>

CountsOn ==
    /\ facts # "sleep" /\ cut
    /\ \/ facts = "unknown" /\ Asleep(Counted)
       \/ facts = "some" /\ Asleep(NoCount)
       \/ facts = "none" /\ Counted < After /\ Asleep(Counted)
    /\ UNCHANGED <<world, ages, hasty>>

(* There was contact in the last After seconds, or there is a replica and  *)
(* it was there when the check began.                                      *)
TooEarly == contact < After \/ followed > Timeout

SelfFences ==
    /\ facts = "none" /\ cut
    /\ Counted >= After
    /\ Asleep(NoCount)
    /\ role' = "fenced"
    /\ hasty' = (hasty \/ (role = "primary" /\ TooEarly))
    /\ UNCHANGED <<cut, replicas, hung, enabled>>
    /\ Ages

-----------------------------------------------------------------------------
(* The network, mysqld, the operator and the manager's own calls: the     *)
(* lease is switched by itself, and its count with it, or with semi-sync.  *)
Change ==
    /\ \/ cut' = ~cut /\ UNCHANGED <<replicas, hung, role, enabled, count>>
       \/ /\ replicas' = ~replicas
          /\ UNCHANGED <<cut, hung, role, enabled, count>>
       \/ hung' = ~hung /\ UNCHANGED <<cut, replicas, role, enabled, count>>
       \/ /\ enabled' = ~enabled /\ count' \in {count, NoCount}
          /\ UNCHANGED <<cut, replicas, hung, role>>
       \/ /\ role' \in {"primary", "fenced", "replica"} \ {role}
          /\ <<role, role'>> # <<"primary", "replica">>
          /\ UNCHANGED <<cut, replicas, hung, enabled, count>>
    /\ UNCHANGED <<facts, waited, hasty>>
    /\ Ages

(* A check looks once in a cycle. *)
Missed == heard' <= Cycle /\ followed' <= Cycle

TimePasses ==
    /\ waited < IF facts = "sleep" THEN Interval ELSE Timeout
    /\ waited' = waited + 1
    /\ count' = IF count = NoCount THEN NoCount ELSE Older(count, After)
    /\ alone' = IF cut /\ ~replicas /\ role = "primary" /\ enabled
                  THEN Older(alone, Late + 1) ELSE 0
    /\ answered' = IF hung THEN 0 ELSE Older(answered, 2 * Cycle)
    /\ heard' = IF cut THEN 0 ELSE Older(heard, Cycle + 1)
    /\ followed' = IF replicas /\ ~hung THEN Older(followed, Cycle + 1) ELSE 0
    /\ contact' = IF Missed THEN Older(contact, After) ELSE 0
    /\ UNCHANGED <<world, facts, hasty>>

LeaseNext ==
    \/ CheckStarts \/ ManagerAnswers \/ CountsOn \/ SelfFences
    \/ Change \/ TimePasses

LeaseSpec == LeaseInit /\ [][LeaseNext]_leaseVars

(* The lease never fences a primary that has had contact, with the manager *)
(* or with a replica, that no check can have missed in the time it counts; *)
(* and a primary that is alone, however often its mysqld failed to say so, *)
(* is fenced soon after the count is complete and mysqld answers.          *)
LeaseHolds ==
    /\ ~hasty
    /\ ~(alone > Late /\ answered = 2 * Cycle)
=============================================================================
