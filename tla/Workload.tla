------------------------------ MODULE Workload ------------------------------
(***************************************************************************)
(* The chaos workload (harness/workload.py) and the verdict the checker    *)
(* (harness/checker.py) draws from its ack log: client threads that write  *)
(* one row at a time, and the main thread that stops them and closes the   *)
(* log.  A row whose client was told of an error may still land.           *)
(* Latencies, timestamps and the summary are left out.                     *)
(***************************************************************************)
EXTENDS Integers

CONSTANTS
    Client,
    LateConnect,    \* TRUE: a connect() may last longer than the join
    MaxSeq          \* bound: rows of one client

ASSUME WorkloadAssumption == LateConnect \in BOOLEAN /\ MaxSeq \in Nat

VARIABLES
    pc,             \* loop, connect, send, insert, ok, error, logged, done
    conn, seq, inFlight,
    sent, rows,     \* rows the server was sent, and those that landed
    acked, errored, \* the ack log
    stop,           \* the stop event
    main,           \* running, joining, closing or closed
    left            \* clients to join, then clients to examine

workloadVars ==
    <<pc, conn, seq, inFlight, sent, rows, acked, errored, stop, main, left>>

NoSeq == 0

WorkloadInit ==
    /\ pc = [c \in Client |-> "loop"]
    /\ conn = [c \in Client |-> FALSE]
    /\ seq = [c \in Client |-> 0]
    /\ inFlight = [c \in Client |-> NoSeq]
    /\ sent = {} /\ rows = {} /\ acked = {} /\ errored = {}
    /\ stop = FALSE
    /\ main = "running" /\ left = Client

Goto(c, where) == pc' = [pc EXCEPT ![c] = where]
Row(c) == <<c, seq[c]>>

server == <<sent, rows>>
log == <<acked, errored>>
control == <<stop, main, left>>

(* run(): the stop event is looked at once around the loop. *)
LoopTop(c) ==
    /\ pc[c] = "loop"
    /\ stop \/ seq[c] < MaxSeq
    /\ Goto(c, IF stop THEN "done" ELSE IF conn[c] THEN "send" ELSE "connect")
    /\ UNCHANGED <<conn, seq, inFlight, server, log, control>>

Connect(c) ==
    /\ pc[c] = "connect"
    /\ \/ conn' = [conn EXCEPT ![c] = TRUE] /\ Goto(c, "send")
       \/ Goto(c, "loop") /\ UNCHANGED conn
    /\ UNCHANGED <<seq, inFlight, server, log, control>>

Send(c) ==
    /\ pc[c] = "send"
    /\ seq' = [seq EXCEPT ![c] = @ + 1]
    /\ inFlight' = [inFlight EXCEPT ![c] = seq'[c]]
    /\ sent' = sent \cup {<<c, seq'[c]>>}
    /\ Goto(c, "insert")
    /\ UNCHANGED <<conn, rows, log, control>>

Land(r) ==
    /\ r \in sent \ rows
    /\ rows' = rows \cup {r}
    /\ UNCHANGED <<pc, conn, seq, inFlight, sent, log, control>>

(* OK means the row is committed; an error says nothing. *)
Answered(c) ==
    /\ pc[c] = "insert"
    /\ \/ Row(c) \in rows /\ Goto(c, "ok")
       \/ Goto(c, "error")
    /\ UNCHANGED <<conn, seq, inFlight, server, log, control>>

(* AckLog.write: nothing is written once the log is closed. *)
Note(s, r) == s' = IF main = "closed" THEN s ELSE s \cup {r}

(* Mutant: in_flight_seq is cleared before the row is in the log. *)
LogRowCleared(c) ==
    /\ \/ pc[c] \in {"ok", "error"} /\ inFlight[c] # NoSeq
          /\ inFlight' = [inFlight EXCEPT ![c] = NoSeq]
          /\ UNCHANGED <<pc, log>>
       \/ pc[c] = "ok" /\ inFlight[c] = NoSeq
          /\ Note(acked, Row(c)) /\ Goto(c, "logged")
          /\ UNCHANGED <<errored, inFlight>>
       \/ pc[c] = "error" /\ inFlight[c] = NoSeq
          /\ Note(errored, Row(c)) /\ Goto(c, "logged")
          /\ UNCHANGED <<acked, inFlight>>
    /\ UNCHANGED <<conn, seq, server, control>>

LogRow(c) ==
    /\ \/ pc[c] = "ok" /\ Note(acked, Row(c)) /\ UNCHANGED <<errored, conn>>
       \/ /\ pc[c] = "error"
          /\ Note(errored, Row(c))
          /\ conn' = [conn EXCEPT ![c] = FALSE]
          /\ UNCHANGED acked
    /\ Goto(c, "logged")
    /\ UNCHANGED <<seq, inFlight, server, control>>

Clear(c) ==
    /\ pc[c] = "logged"
    /\ inFlight' = [inFlight EXCEPT ![c] = NoSeq]
    /\ Goto(c, "loop")
    /\ UNCHANGED <<conn, seq, server, log, control>>

-----------------------------------------------------------------------------
StopClients ==
    /\ main = "running"
    /\ stop' = TRUE /\ main' = "joining"
    /\ UNCHANGED <<pc, conn, seq, inFlight, server, log, left>>

(* A join times out only on a client that waits for the server: the rest   *)
(* of the loop takes no time.                                              *)
Waits(c) == pc[c] = "insert" \/ (LateConnect /\ pc[c] = "connect")

Join(c) ==
    /\ main = "joining" /\ c \in left
    /\ pc[c] = "done" \/ Waits(c)
    /\ left' = left \ {c}
    /\ UNCHANGED <<pc, conn, seq, inFlight, server, log, stop, main>>

Joined ==
    /\ main = "joining" /\ left = {}
    /\ main' = "closing" /\ left' = Client
    /\ UNCHANGED <<pc, conn, seq, inFlight, server, log, stop>>

(* A row in flight at shutdown is logged as an error row. *)
Examine(c) ==
    /\ main = "closing" /\ c \in left
    /\ left' = left \ {c}
    /\ IF inFlight[c] = NoSeq THEN UNCHANGED errored
       ELSE Note(errored, <<c, inFlight[c]>>)
    /\ UNCHANGED <<pc, conn, seq, inFlight, server, acked, stop, main>>

Close ==
    /\ main = "closing" /\ left = {}
    /\ main' = "closed"
    /\ UNCHANGED <<pc, conn, seq, inFlight, server, log, stop, left>>

WorkloadNext ==
    \/ \E c \in Client :
         \/ LoopTop(c) \/ Connect(c) \/ Send(c) \/ Answered(c)
         \/ LogRow(c) \/ Clear(c) \/ Join(c) \/ Examine(c)
    \/ \E r \in sent : Land(r)
    \/ StopClients \/ Joined \/ Close

WorkloadSpec == WorkloadInit /\ [][WorkloadNext]_workloadVars

-----------------------------------------------------------------------------
(* lossless_and_phantom. *)
Lost == acked \ rows
Phantom == rows \ (acked \cup errored)

(* Once the log is closed, and whenever the rows are read after that, the  *)
(* checker accuses a cluster that lost nothing and invented nothing of     *)
(* neither: every row that is there or may yet land is in the log.         *)
VerdictTrue == main = "closed" => Lost = {} /\ Phantom = {}
=============================================================================
