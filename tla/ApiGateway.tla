---------------------------- MODULE ApiGateway ----------------------------
(***************************************************************************)
(* The command "carq ingest" (cli/client.py) against API processes: the      *)
(* client repeats its POST, the RateLimitMiddleware of each process          *)
(* (main.py) lets it through or answers 429, and POST /documents             *)
(* (api/router.py) creates the document or fails on the unique index of      *)
(* (source_uri, content_hash).                                               *)
(*                                                                           *)
(* The middleware counts per client; the model has one client.  Time is      *)
(* counted in ticks, Window of them make window_seconds.  The pauses of the  *)
(* client are of any length.                                                 *)
(***************************************************************************)
EXTENDS Integers, FiniteSets

CONSTANTS
    Process,     \* API processes behind the load balancer
    Rpm,         \* requests one client has per window
    Window,      \* ticks of a window
    MaxTries,    \* max_retries of make_request
    MaxPolls     \* polls that fit into the timeout of _poll_until_done

ASSUME GatewayAssumption ==
    /\ Rpm \in Nat \ {0}
    /\ Window \in Nat \ {0}
    /\ MaxTries \in Nat \ {0}
    /\ MaxPolls \in Nat \ {0}

VARIABLES
    redisUp,    \* Redis answers
    clock,      \* ticks since the last multiple of the window
    mode,       \* mode[p]: "fresh", "redis" (connected) or "local" (gave up)
    count,      \* Redis: requests counted in this window, capped
    localCount, \* localCount[p]: the in-process counter, capped
    localAge,   \* localAge[p]: ticks since its window started, capped
    byRedis,    \* requests of this window the Redis counter let through
    byLocal,    \* byLocal[p]: the same for the counter of process p
    quiet       \* ticks since the client's last request, capped

middleware == <<redisUp, clock, mode, count, localCount, localAge, byRedis, byLocal, quiet>>

VARIABLES
    step,       \* what the client is doing
    tries,      \* attempts made by make_request
    polls,      \* polls made by _poll_until_done
    server,     \* server[a]: what became of attempt a at the server
    docs,       \* documents with the client's source_uri and content_hash
    progress,   \* status of the document
    mine,       \* this invocation has created the document
    lost,       \* an answer of this invocation came not or too late
    unsure      \* a commit of this invocation reached the database, and failed
                \* for the API process that waited for it

client == <<step, tries, polls, server, docs, progress, mine, lost, unsure>>
gvars == <<middleware, client>>

Attempt == 1..MaxTries
Final == {"accepted", "refused", "error", "reported", "timedout"}

Capped(n, bound) == IF n <= bound THEN n ELSE bound

GInit ==
    /\ redisUp \in BOOLEAN
    /\ clock = 0
    /\ mode = [p \in Process |-> "fresh"]
    /\ count = 0
    /\ localCount = [p \in Process |-> 0]
    /\ localAge = [p \in Process |-> Window]
    /\ byRedis = 0
    /\ byLocal = [p \in Process |-> 0]
    /\ quiet = Window
    /\ step = "ready"
    /\ tries = 0
    /\ polls = 0
    /\ server = [a \in Attempt |-> "none"]
    /\ docs = 0
    /\ progress = "pending"
    /\ mine = FALSE
    /\ lost = FALSE
    /\ unsure = FALSE

-----------------------------------------------------------------------------
(* RateLimitMiddleware.dispatch: each action handles one request at p and    *)
(* says whether it passes.                                                   *)

\* _get_redis: connects once; a failed first connection is never repeated.
Backend(p) ==
    IF mode[p] # "fresh" THEN mode[p] ELSE IF redisUp THEN "redis" ELSE "local"

\* INCR returns the count with this request in it.
RedisPasses == count + 1 <= Rpm

CountInRedis(p, passes) ==
    /\ Backend(p) = "redis"
    /\ redisUp
    /\ passes = RedisPasses
    /\ count' = Capped(count + 1, Rpm + 1)
    /\ byRedis' = IF passes THEN Capped(byRedis + 1, Rpm + 1) ELSE byRedis
    /\ UNCHANGED <<localCount, localAge, byLocal>>

\* The connection that once worked fails: everything passes.
FailOpen(p, passes) ==
    /\ Backend(p) = "redis"
    /\ ~redisUp
    /\ passes
    /\ UNCHANGED <<count, byRedis, localCount, localAge, byLocal>>

\* Bug: a window ends one tick too late.
BugExpired(p) == localAge[p] > Window

Expired(p) == localAge[p] >= Window

\* Bug: the counter is cleared, the start of the window is not moved.
BugLocalStart(p) == localAge[p]

LocalStart(p) == IF Expired(p) THEN 0 ELSE localAge[p]

LocalCount(p) == (IF Expired(p) THEN 0 ELSE localCount[p]) + 1

CountLocally(p, passes) ==
    /\ Backend(p) = "local"
    /\ passes = (LocalCount(p) <= Rpm)
    /\ localCount' = [localCount EXCEPT ![p] = Capped(LocalCount(p), Rpm + 1)]
    /\ localAge' = [localAge EXCEPT ![p] = LocalStart(p)]
    /\ byLocal' = [byLocal EXCEPT ![p] = IF passes THEN Capped(byLocal[p] + 1, 2 * Rpm + 1) ELSE @]
    /\ UNCHANGED <<count, byRedis>>

Admit(p, passes) ==
    /\ CountInRedis(p, passes) \/ FailOpen(p, passes) \/ CountLocally(p, passes)
    /\ mode' = [mode EXCEPT ![p] = Backend(p)]
    /\ quiet' = 0
    /\ UNCHANGED <<redisUp, clock>>

-----------------------------------------------------------------------------
(* make_request("POST", "/api/v1/documents") *)

Post(p) ==
    /\ step = "ready"
    /\ tries < MaxTries
    /\ Admit(p, TRUE)
    /\ tries' = tries + 1
    /\ server' = [server EXCEPT ![tries + 1] = "running"]
    /\ step' = "waiting"
    /\ UNCHANGED <<polls, docs, progress, mine, lost, unsure>>

\* 429 is below 500: raised at once.
TooMany(p) ==
    /\ step = "ready"
    /\ Admit(p, FALSE)
    /\ tries' = tries + 1
    /\ step' = "refused"
    /\ UNCHANGED <<polls, server, docs, progress, mine, lost, unsure>>

\* Bug: reading the document after its commit fails the request.
BugAccepted == "500"

\* What ingest_document answers once it has committed.
Accepted == "202"

\* The unique index on source_uri and content_hash (models.py:103) refuses the
\* insertion.
Duplicate == docs > 0

\* The transaction of ingest_document: the document and its first task.
Create ==
    /\ ~Duplicate
    /\ docs' = docs + 1
    /\ progress' = "pending"
    /\ mine' = TRUE

Ingest(a) ==
    /\ server[a] = "running"
    /\ \/ /\ Create
          /\ server' = [server EXCEPT ![a] = Accepted]
       \/ /\ Duplicate
          /\ server' = [server EXCEPT ![a] = "500"]
          /\ UNCHANGED <<docs, progress, mine>>
    /\ UNCHANGED <<middleware, step, tries, polls, lost, unsure>>

\* The database fails, which is answered with 500 (router.py:447-452): rolled
\* back, or after COMMIT (router.py:433) had done its work.
IngestFails(a) ==
    /\ server[a] = "running"
    /\ server' = [server EXCEPT ![a] = "500"]
    /\ \/ UNCHANGED <<docs, progress, mine, unsure>>
       \/ Create /\ unsure' = TRUE
    /\ UNCHANGED <<middleware, step, tries, polls, lost>>

\* The process dies or the connection breaks before the answer is out.
LoseAnswer(a) ==
    /\ server[a] # "none"
    /\ server' = [server EXCEPT ![a] = "none"]
    /\ lost' = (lost \/ (step = "waiting" /\ tries = a))
    /\ UNCHANGED <<middleware, step, tries, polls, docs, progress, mine, unsure>>

\* Bug: the last attempt is not recognised.
BugAfterFailure == "sleeping"

\* A 5xx, or no answer at all: another attempt after a pause, or the error.
AfterFailure == IF tries < MaxTries THEN "sleeping" ELSE "error"

\* The answer to attempt a arrives; only the last attempt is listened to.
Deliver(a) ==
    /\ server[a] \in {"202", "500"}
    /\ server' = [server EXCEPT ![a] = "none"]
    /\ IF step = "waiting" /\ tries = a
       THEN step' = IF server[a] = "500" THEN AfterFailure ELSE "accepted"
       ELSE UNCHANGED step
    /\ UNCHANGED <<middleware, tries, polls, docs, progress, mine, lost, unsure>>

\* httpx.RequestError: 30 s are over or the connection is gone.
GiveUpOnAnswer ==
    /\ step = "waiting"
    /\ step' = AfterFailure
    /\ lost' = TRUE
    /\ UNCHANGED <<middleware, tries, polls, server, docs, progress, mine, unsure>>

WakeUp ==
    /\ step = "sleeping"
    /\ step' = "ready"
    /\ UNCHANGED <<middleware, tries, polls, server, docs, progress, mine, lost, unsure>>

-----------------------------------------------------------------------------
(* _poll_until_done (--wait) *)

StartPolling ==
    /\ step = "accepted"
    /\ step' = "polling"
    /\ polls' = 0
    /\ UNCHANGED <<middleware, tries, server, docs, progress, mine, lost, unsure>>

\* GET /documents/{id} with its answer.
PollAnswered(p) ==
    /\ step = "polling"
    /\ polls < MaxPolls
    /\ Admit(p, TRUE)
    /\ polls' = polls + 1
    /\ step' = IF progress \in {"done", "failed"} THEN "reported" ELSE "polling"
    /\ UNCHANGED <<tries, server, docs, progress, mine, lost, unsure>>

\* 429 and every other failure are passed over.
PollRefused(p) ==
    /\ step = "polling"
    /\ polls < MaxPolls
    /\ Admit(p, FALSE)
    /\ polls' = polls + 1
    /\ UNCHANGED <<step, tries, server, docs, progress, mine, lost, unsure>>

PollTimeout ==
    /\ step = "polling"
    /\ polls = MaxPolls
    /\ step' = "timedout"
    /\ UNCHANGED <<middleware, tries, polls, server, docs, progress, mine, lost, unsure>>

\* The pipeline goes on with the document.
Work ==
    /\ docs > 0
    /\ progress = "pending"
    /\ progress' \in {"done", "failed"}
    /\ UNCHANGED <<middleware, step, tries, polls, server, docs, mine, lost, unsure>>

\* The user runs the command again; nothing of the last run is under way.
Rerun ==
    /\ step \in Final
    /\ \A a \in Attempt : server[a] = "none"
    /\ step' = "ready"
    /\ tries' = 0
    /\ polls' = 0
    /\ mine' = FALSE
    /\ lost' = FALSE
    /\ unsure' = FALSE
    /\ UNCHANGED <<middleware, server, docs, progress>>

-----------------------------------------------------------------------------
(* Time, Redis and restarts *)

GTick ==
    /\ LET wrap == clock + 1 = Window IN
        /\ clock' = IF wrap THEN 0 ELSE clock + 1
        /\ count' = IF wrap THEN 0 ELSE count
        /\ byRedis' = IF wrap THEN 0 ELSE byRedis
        /\ byLocal' = IF wrap THEN [p \in Process |-> 0] ELSE byLocal
    /\ localAge' = [p \in Process |-> Capped(localAge[p] + 1, Window)]
    /\ quiet' = Capped(quiet + 1, Window)
    /\ UNCHANGED <<redisUp, mode, localCount, client>>

RedisFlips ==
    /\ redisUp' = ~redisUp
    /\ UNCHANGED <<clock, mode, count, localCount, localAge, byRedis, byLocal, quiet, client>>

\* A process starts over: no connection, no counters.
Restart(p) ==
    /\ mode[p] # "fresh"
    /\ mode' = [mode EXCEPT ![p] = "fresh"]
    /\ localCount' = [localCount EXCEPT ![p] = 0]
    /\ localAge' = [localAge EXCEPT ![p] = Window]
    /\ byLocal' = [byLocal EXCEPT ![p] = 0]
    /\ UNCHANGED <<redisUp, clock, count, byRedis, quiet, client>>

ClientStep ==
    \/ \E p \in Process : Post(p) \/ TooMany(p) \/ PollAnswered(p) \/ PollRefused(p)
    \/ GiveUpOnAnswer \/ WakeUp \/ StartPolling \/ PollTimeout

GNext ==
    \/ ClientStep \/ Rerun \/ Work \/ GTick \/ RedisFlips
    \/ \E a \in Attempt : Ingest(a) \/ IngestFails(a) \/ LoseAnswer(a) \/ Deliver(a)
    \/ \E p \in Process : Restart(p)

GSpec == GInit /\ [][GNext]_gvars

-----------------------------------------------------------------------------
(* Properties *)

GTypeOK ==
    /\ redisUp \in BOOLEAN
    /\ clock \in 0..(Window - 1)
    /\ mode \in [Process -> {"fresh", "redis", "local"}]
    /\ count \in 0..(Rpm + 1)
    /\ localCount \in [Process -> 0..(Rpm + 1)]
    /\ localAge \in [Process -> 0..Window]
    /\ byRedis \in 0..(Rpm + 1)
    /\ byLocal \in [Process -> 0..(2 * Rpm + 1)]
    /\ quiet \in 0..Window
    /\ step \in Final \cup {"ready", "waiting", "sleeping", "polling"}
    /\ tries \in 0..MaxTries
    /\ polls \in 0..MaxPolls
    /\ server \in [Attempt -> {"none", "running", "202", "500"}]
    /\ docs \in 0..1
    /\ progress \in {"pending", "done", "failed"}
    /\ mine \in BOOLEAN /\ lost \in BOOLEAN /\ unsure \in BOOLEAN

\* What a counter lets through within a window of the clock: its limit in
\* Redis, whatever the processes; twice the limit for each process that fell
\* back to its own counter, whose windows begin anywhere.
WindowBound ==
    /\ byRedis <= Rpm
    /\ \A p \in Process : byLocal[p] <= 2 * Rpm

\* "Rate limit exceeded. Retry after 60 seconds." (main.py:161): a client that
\* was quiet for a whole window is not refused, whichever process it meets and
\* wherever that process counts.
RetryAfterHelps == [][step # "refused" /\ quiet = Window => step' # "refused"]_gvars

\* The client only reports an error for a document it has created itself when
\* an answer was lost or came too late, or when the API itself could not know
\* that its commit had succeeded: overlapping and repeated attempts, 429s, rolled
\* back transactions and restarts of processes do no such harm.
FailureExplained == step \in {"refused", "error"} /\ mine => lost \/ unsure
=============================================================================
