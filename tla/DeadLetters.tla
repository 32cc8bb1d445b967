---------------------------- MODULE DeadLetters ----------------------------
(***************************************************************************)
(* The dead-letter queue of CARQ: ErrorHandler                              *)
(* (src/carq/monitoring/error_handler.py) on top of TaskQueue.  Operators   *)
(* scan for tasks that failed for good, list the marked ones and replay     *)
(* them, while coordinators claim and settle rows.  Dead letters are rows   *)
(* of processing_tasks with the key "dlq" in the JSON column attributes.    *)
(*                                                                          *)
(* Nothing in src/ calls ErrorHandler: each call is modelled as a session   *)
(* of its own (get_session), as the API and the worker use theirs.          *)
(***************************************************************************)
EXTENDS TaskQueue

CONSTANTS
    Operator,     \* sessions with an ErrorHandler
    Plain,        \* tasks queued with empty attributes
    DeadAfter,    \* ErrorHandler.max_attempts, apart from ProcessingTask.max_attempts
    MaxReplays    \* bound: replays of each task

ASSUME DeadLetterAssumption ==
    /\ Plain \subseteq Task
    /\ DeadAfter \in 1..MaxAttempts
    /\ MaxReplays \in Nat

VARIABLES
    marked,   \* the committed rows with attributes["dlq"]
    entries,  \* entries[o]: tasks of the DLQEntry list operator o has at hand
    read,     \* read[o]: the rows o's replay has loaded and is about to write
    replays   \* replays[t]: replays of t that were committed

dvars == <<marked, entries, read, replays>>
deadvars == <<vars, dvars>>

DInit ==
    /\ Init
    /\ marked = {}
    /\ entries = [o \in Operator |-> {}]
    /\ read = [o \in Operator |-> [t \in {} |-> row[t]]]
    /\ replays = [t \in Task |-> 0]

-----------------------------------------------------------------------------
(* Scan and list *)

\* Bug: every row that has used up its attempts, whatever became of it.
BugDoomed == {t \in Task : row[t].attempts >= DeadAfter /\ t \notin marked}

Doomed ==
    {t \in Task : row[t].status = "failed" /\ row[t].attempts >= DeadAfter /\ t \notin marked}

\* scan_and_move_to_dlq reports every doomed row.  It changes the attributes it
\* loaded in place and assigns the same dictionary back, which SQLAlchemy takes
\* for no change: only a row without attributes gets a new dictionary, and with
\* it the mark.  No claim locks a FAILED row.
Scan(o) ==
    /\ Doomed # {}
    /\ entries' = [entries EXCEPT ![o] = Doomed]
    /\ marked' = marked \cup (Doomed \cap Plain)
    /\ UNCHANGED <<vars, read, replays>>

Listed == {t \in marked : row[t].status = "failed"}

\* get_dlq_entries
List(o) ==
    /\ Listed # {}
    /\ entries' = [entries EXCEPT ![o] = Listed]
    /\ UNCHANGED <<vars, marked, read, replays>>

-----------------------------------------------------------------------------
(* Replay *)

Idle(o) == DOMAIN read[o] = {}

\* replay_task of an entry: the row is loaded without a lock, and its status is
\* not looked at, however old the entry is.
ReplayTask(o) ==
    /\ Idle(o)
    /\ \E t \in entries[o] :
        /\ read' = [read EXCEPT ![o] = [u \in {t} |-> row[u]]]
        /\ entries' = [entries EXCEPT ![o] = @ \ {t}]
    /\ UNCHANGED <<vars, marked, replays>>

\* replay_all: the rows were loaded by the listing, in the same session.
ReplayAll(o) ==
    /\ Idle(o)
    /\ Listed # {}
    /\ read' = [read EXCEPT ![o] = [u \in Listed |-> row[u]]]
    /\ UNCHANGED <<vars, marked, entries, replays>>

\* Bug: the attempts are not reset.
BugReplayed(r, now) == [now EXCEPT !.status = IF r.status = "pending" THEN @ ELSE "pending"]

\* What the UPDATE makes of the row as it is now: it sends what differs from
\* the row r that was read.  Popping the mark off the loaded dictionary is no
\* change either, so that it stays in the table.
Replayed(r, now) ==
    [now EXCEPT !.status = IF r.status = "pending" THEN @ ELSE "pending",
                !.attempts = IF r.attempts = 0 THEN @ ELSE 0]

Changed(o) == {t \in DOMAIN read[o] : read[o][t].status # "pending" \/ read[o][t].attempts # 0}

Blocked(o) == \E t \in Changed(o) : Locked(t)

\* The UPDATEs wait for claims to end; then the session commits.  (Its own row
\* locks, from the first UPDATE to the commit, are not modelled: only another
\* replay of the same row could meet them.)
ReplayCommit(o) ==
    /\ ~Idle(o)
    /\ ~Blocked(o)
    /\ \A t \in DOMAIN read[o] : replays[t] < MaxReplays
    /\ row' = [t \in Task |->
                  IF t \in Changed(o) THEN Replayed(read[o][t], row[t]) ELSE row[t]]
    /\ replays' = [t \in Task |-> IF t \in Changed(o) THEN replays[t] + 1 ELSE replays[t]]
    /\ read' = [read EXCEPT ![o] = [t \in {} |-> row[t]]]
    /\ UNCHANGED <<own, tx, todo, run, applied, effect, starts, crashes, losses, marked, entries>>

\* The flush fails (replay_task returns False) or the process ends: rolled back.
ReplayFails(o) ==
    /\ ~Idle(o)
    /\ read' = [read EXCEPT ![o] = [t \in {} |-> row[t]]]
    /\ UNCHANGED <<vars, marked, entries, replays>>

-----------------------------------------------------------------------------
Operate(o) ==
    Scan(o) \/ List(o) \/ ReplayTask(o) \/ ReplayAll(o) \/ ReplayCommit(o) \/ ReplayFails(o)

DNext ==
    \/ Next /\ UNCHANGED dvars
    \/ \E o \in Operator : Operate(o)

DSpec == DInit /\ [][DNext]_deadvars

-----------------------------------------------------------------------------
(* Properties *)

DTypeOK ==
    /\ TypeOK
    /\ marked \subseteq Task
    /\ entries \in [Operator -> SUBSET Task]
    /\ DOMAIN read = Operator
    /\ \A o \in Operator : DOMAIN read[o] \subseteq Task /\ read[o] \in [DOMAIN read[o] -> Row]
    /\ replays \in [Task -> 0..MaxReplays]

\* A finished row is reopened only by a replay, as PENDING with all its attempts
\* (error_handler.py:136-137).  A DONE row is never reopened unless the task has
\* been replayed before: only an entry older than that replay can name it.
ReopenedByReplay ==
    [][\A t \in Task :
        row[t].status \in {"done", "failed"} /\ row'[t] # row[t] =>
            /\ row'[t].status = "pending" /\ row'[t].attempts = 0
            /\ row[t].status = "done" => replays[t] > 0]_deadvars

\* A replay gives a task MaxAttempts executions and no more, whenever it lands:
\* also on a row another session has replayed, claimed or settled meanwhile.
ReplayBound ==
    \A t \in Task : starts[t] <= row[t].attempts + MaxAttempts * replays[t] + crashes + losses
                     + Cardinality({c \in Coordinator : t \in Held(c) \ todo[c]})
=============================================================================
