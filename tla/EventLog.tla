------------------------------ MODULE EventLog ------------------------------
(***************************************************************************)
(* The manager's event log (events.py): a file of lines, flushed and       *)
(* synced event by event, and a ring of the newest events in memory.  The  *)
(* manager may crash in the middle of a write; what is in the file when it *)
(* starts again need not end with a newline.                               *)
(***************************************************************************)
EXTENDS Integers, Sequences

CONSTANTS
    Ring,       \* keep, the length of the ring
    MaxEvents,  \* bound: events
    MaxCrashes  \* bound: crashes

ASSUME EventLogAssumption == Ring \in Nat \ {0}

VARIABLES
    file,       \* the events on the lines that parse; a line that does not
                \* is skipped whenever the file is read
    open,       \* the last line when it has no newline: "torn" when it does
                \* not parse, "event" when it is the last of file; else "no"
    ring,
    up,         \* the manager runs
    writing,    \* the event whose append() has not returned, or NoEvent
    events, crashes,
    done,       \* history: the events whose append() returned
    failed,     \* history: a write of this manager has failed
    spoiled     \* history: the events written right after such a write

eventLogVars == <<file, open, ring, up, writing, events, crashes, done,
                  failed, spoiled>>

NoEvent == 0

Newest(s) == IF Len(s) <= Ring THEN s
                               ELSE SubSeq(s, Len(s) - Ring + 1, Len(s))

EventLogInit ==
    /\ file = <<>> /\ open = "no"
    /\ ring = <<>>
    /\ up = TRUE
    /\ writing = NoEvent
    /\ events = 0 /\ crashes = 0
    /\ done = {} /\ failed = FALSE /\ spoiled = {}

(* The ring first, then the file. *)
AppendStarts ==
    /\ up /\ writing = NoEvent
    /\ events < MaxEvents
    /\ events' = events + 1
    /\ writing' = events'
    /\ ring' = Newest(Append(ring, writing'))
    /\ UNCHANGED <<file, open, up, crashes, done, failed, spoiled>>

(* Bytes after a line without a newline make one line of the two, which    *)
(* does not parse.                                                         *)
Glued == IF open = "event" THEN SubSeq(file, 1, Len(file) - 1) ELSE file
Written(event) == IF open = "no" THEN Append(file, event) ELSE Glued

AppendEnds ==
    /\ up /\ writing # NoEvent
    /\ file' = Written(writing)
    /\ open' = "no"
    /\ done' = done \cup {writing}
    /\ writing' = NoEvent
    /\ spoiled' = IF failed /\ open # "no" THEN spoiled \cup {writing}
                                           ELSE spoiled
    /\ UNCHANGED <<ring, up, events, crashes, failed>>

(* Of the line being written nothing, a part, all but the newline or all   *)
(* is found in the file.                                                   *)
BreaksOff ==
    \/ UNCHANGED <<file, open>>
    \/ file' = Glued /\ open' = "torn"
    \/ /\ file' = Written(writing)
       /\ open' \in {"no", IF open = "no" THEN "event" ELSE "torn"}

(* The disk is full: append() raises, and the manager goes on. *)
AppendFails ==
    /\ up /\ writing # NoEvent
    /\ BreaksOff
    /\ writing' = NoEvent
    /\ failed' = TRUE
    /\ UNCHANGED <<ring, up, events, crashes, done, spoiled>>

Crash ==
    /\ up
    /\ crashes < MaxCrashes
    /\ crashes' = crashes + 1
    /\ up' = FALSE
    /\ ring' = <<>>
    /\ writing' = NoEvent
    /\ IF writing = NoEvent THEN UNCHANGED <<file, open>> ELSE BreaksOff
    /\ failed' = FALSE
    /\ UNCHANGED <<events, done, spoiled>>

(* Mutant: the last line is left as it is. *)
StartUnterminated ==
    /\ ~up
    /\ up' = TRUE
    /\ ring' = Newest(file)
    /\ UNCHANGED <<file, open, writing, events, crashes, done, failed,
                   spoiled>>

(* __init__: _load_tail, then _terminate_torn_line. *)
Start ==
    /\ ~up
    /\ up' = TRUE
    /\ ring' = Newest(file)
    /\ open' = "no"
    /\ UNCHANGED <<file, writing, events, crashes, done, failed, spoiled>>

EventLogNext ==
    AppendStarts \/ AppendEnds \/ AppendFails \/ Crash \/ Start

EventLogSpec == EventLogInit /\ [][EventLogNext]_eventLogVars

(* Whatever crashed when, every event whose append() returned is in the    *)
(* file on a line of its own, in the order of the appends and once, and    *)
(* the ring of a running manager holds the newest of what the file would   *)
(* give a manager that starts now.  A write that fails spoils this for the  *)
(* event written next, for no other, and for the ring.                     *)
NoEventLost ==
    /\ done \ spoiled \subseteq {file[i] : i \in DOMAIN file}
    /\ \A i, j \in DOMAIN file : i < j => file[i] < file[j]
    /\ up /\ ~failed /\ writing = NoEvent => ring = Newest(file)
=============================================================================
