------------------------------ MODULE Pipeline ------------------------------
(***************************************************************************)
(* Documents on their way through CARQ: the API accepts and retries them    *)
(* (src/carq/api/router.py), the handlers of the worker split them into     *)
(* chunks and embed the chunks (src/carq/worker/runner.py), each in its own *)
(* transaction, while the coordinator of TaskQueue holds the claim of the   *)
(* task in another one.  Every action here is an action of TaskQueue with   *)
(* what it does to documents and chunks.  Sessions are isolated.            *)
(*                                                                          *)
(* Three facts about the sessions decide what the pipeline achieves:        *)
(*   Autoflush   the autoflush option of the session factory: database.py   *)
(*               sets it to FALSE, the sessions of the test fixtures keep    *)
(*               SQLAlchemy's default, TRUE;                                 *)
(*   EnumRows    task_type of a loaded row is a TaskType, as in a session    *)
(*               that created the row, and not the plain string that the     *)
(*               String(50) column returns;                                  *)
(*   CutCommits  the timeout of a task may hit the COMMIT of its handler.   *)
(***************************************************************************)
EXTENDS TaskQueue

CONSTANTS
    Document, Chunk,
    RootTask,     \* RootTask[d]: the parse_pdf or chunk_document task of d
    EmbedTask,    \* EmbedTask[k]: the embed_chunk task of chunk k
    DocumentOf,   \* DocumentOf[k]: the document chunk k is cut from
    Autoflush, EnumRows, CutCommits,
    MaxRetries,   \* bound: calls of POST /documents/{id}/retry
    NoRetry       \* null value

ASSUME PipelineAssumption ==
    /\ RootTask \in [Document -> Task]
    /\ EmbedTask \in [Chunk -> Task]
    /\ DocumentOf \in [Chunk -> Document]
    /\ \A d \in Document, k \in Chunk : RootTask[d] # EmbedTask[k]
    /\ \A j, k \in Chunk : j # k => EmbedTask[j] # EmbedTask[k]
    /\ {Autoflush, EnumRows, CutCommits} \subseteq BOOLEAN
    /\ MaxRetries \in Nat
    /\ IsolatedSessions

VARIABLES
    doc,       \* doc[d]: committed status of document d
    chunk,     \* chunk[k]: committed status of chunk k
    embedded,  \* the chunks with a committed row in rag_embeddings
    seen,      \* seen[c]: status of each document in c's claim session
    failing,   \* failing[c]: documents c's claim transaction writes FAILED to
    touched,   \* touched[c]: document rows that transaction locks
    loaded,    \* loaded[c]: status of the document as c's handler loaded it
    hand,      \* hand[c]: what the embed handler of c is about to commit
    retry,     \* the retry request in progress
    retries

pvars == <<doc, chunk, embedded, seen, failing, touched, loaded, hand, retry, retries>>
allvars == <<vars, pvars>>

ChunksOf(d) == {k \in Chunk : DocumentOf[k] = d}

\* The document a task belongs to.
DocOf(t) == CHOOSE d \in Document : t = RootTask[d] \/ \E k \in ChunksOf(d) : t = EmbedTask[k]

TasksOf(d) == {RootTask[d]} \cup {EmbedTask[k] : k \in ChunksOf(d)}

DocumentStatus == {"absent", "pending", "embedding", "done", "failed"}

PInit ==
    /\ Init
    /\ doc = [d \in Document |-> "absent"]
    /\ chunk = [k \in Chunk |-> "absent"]
    /\ embedded = {}
    /\ seen = [c \in Coordinator |-> doc]
    /\ failing = [c \in Coordinator |-> {}]
    /\ touched = [c \in Coordinator |-> {}]
    /\ loaded = [c \in Coordinator |-> "absent"]
    /\ hand = [c \in Coordinator |-> "none"]
    /\ retry = NoRetry
    /\ retries = 0

\* The row of document d is locked by a claim transaction or by a retry.
DocumentLocked(d) ==
    \/ \E c \in Coordinator : d \in touched[c]
    \/ retry # NoRetry /\ retry.flushed /\ retry.doc = d

-----------------------------------------------------------------------------
(* API: submit a document *)

Ingest(d) ==
    /\ doc[d] = "absent"
    /\ doc' = [doc EXCEPT ![d] = "pending"]
    /\ Enqueue(RootTask[d])
    /\ UNCHANGED <<chunk, embedded, seen, failing, touched, loaded, hand, retry, retries>>

-----------------------------------------------------------------------------
(* Claim and start *)

\* The claim loads each task with its document (lazy="joined").
PClaim(c) ==
    /\ Claim(c)
    /\ seen' = [seen EXCEPT ![c] = doc]
    /\ UNCHANGED <<doc, chunk, embedded, failing, touched, loaded, hand, retry, retries>>

\* embed_chunk loads its chunk, and with it the document (lazy="joined"), before
\* it awaits the embedding: that is the document its session still shows later.
PStart(c) ==
    /\ StartHandler(c)
    /\ loaded' = [loaded EXCEPT ![c] = doc[DocOf(run'[c])]]
    /\ UNCHANGED <<doc, chunk, embedded, seen, failing, touched, hand, retry, retries>>

-----------------------------------------------------------------------------
(* Handlers *)

\* _chunk_document: all chunks of the document and their tasks, or nothing.
\* (document_id, chunk_index) is unique: once there are chunks it only fails.
ChunkCommit(c) ==
    \E d \in Document :
        /\ run[c] = RootTask[d]
        /\ ~DocumentLocked(d)
        /\ \A k \in ChunksOf(d) : chunk[k] = "absent"
        /\ HandlerCommit(c, {EmbedTask[k] : k \in ChunksOf(d)})
        /\ chunk' = [k \in Chunk |-> IF k \in ChunksOf(d) THEN "pending" ELSE chunk[k]]
        /\ doc' = [doc EXCEPT ![d] = "embedding"]
        /\ UNCHANGED <<embedded, seen, failing, touched, loaded, hand, retry, retries>>

\* Bug: the progress is computed before the chunk is set to DONE.
BugReadStatus(k, j) == chunk[j]

\* The status the handler of chunk k reads for chunk j.  Its own DONE is only
\* in the database when the session flushes before a query; what the insert
\* of the embedding flushed is EMBEDDING.
ReadStatus(k, j) ==
    IF j # k THEN chunk[j] ELSE IF Autoflush THEN "done" ELSE "embedding"

\* Bug: the document is finished with its first chunk.
BugProgress(k) ==
    IF \E j \in ChunksOf(DocumentOf[k]) : ReadStatus(k, j) = "done"
    THEN "done" ELSE "embedding"

\* _refresh_document_progress, after the chunk was set to DONE.
Progress(k) ==
    IF \A j \in ChunksOf(DocumentOf[k]) : ReadStatus(k, j) = "done"
    THEN "done" ELSE "embedding"

\* embed_chunk up to its commit: the embedding is inserted (chunk_id is unique,
\* also among inserts that are not committed yet), then the progress of the
\* document is computed.  The status that was loaded is not written again.
EmbedInsert(c) ==
    \E k \in Chunk :
        /\ run[c] = EmbedTask[k]
        /\ hand[c] = "none"
        /\ ~applied[c]
        /\ chunk[k] # "absent"
        /\ k \notin embedded
        /\ \A e \in Coordinator : run[e] = run[c] => hand[e] = "none"
        /\ hand' = [hand EXCEPT ![c] =
                       IF Progress(k) = loaded[c] THEN "keep" ELSE Progress(k)]
        /\ UNCHANGED <<vars, doc, chunk, embedded, seen, failing, touched, loaded, retry, retries>>

\* Its commit, which waits for the row of the document when it writes there.
EmbedCommit(c) ==
    \E k \in Chunk :
        /\ run[c] = EmbedTask[k]
        /\ hand[c] # "none"
        /\ hand[c] # "keep" => ~DocumentLocked(DocumentOf[k])
        /\ HandlerCommit(c, {})
        /\ chunk' = [chunk EXCEPT ![k] = "done"]
        /\ embedded' = embedded \cup {k}
        /\ doc' = IF hand[c] = "keep" THEN doc
                  ELSE [doc EXCEPT ![DocumentOf[k]] = hand[c]]
        /\ hand' = [hand EXCEPT ![c] = "none"]
        /\ UNCHANGED <<seen, failing, touched, loaded, retry, retries>>

-----------------------------------------------------------------------------
(* Outcomes *)

\* The session of the handler is closed.
HandlerOver(c) ==
    /\ loaded' = [loaded EXCEPT ![c] = "absent"]
    /\ hand' = [hand EXCEPT ![c] = "none"]

\* execute_task logs task.task_type.value before it returns: with a plain
\* string this raises, and a handler that succeeded is reported as failed.
PMarkDone(c) ==
    /\ EnumRows
    /\ MarkDone(c)
    /\ HandlerOver(c)
    /\ UNCHANGED <<doc, chunk, embedded, seen, failing, touched, retry, retries>>

\* The last attempt fails: the document of the task is set to FAILED in the
\* claim transaction, which is sent as an UPDATE of the status only if the
\* session does not hold FAILED already.
FailDocument(c, d) ==
    /\ \A e \in Coordinator \ {c} : d \notin touched[e]
    /\ ~(retry # NoRetry /\ retry.flushed /\ retry.doc = d)
    /\ touched' = [touched EXCEPT ![c] = @ \cup {d}]
    /\ failing' = [failing EXCEPT ![c] = IF seen[c][d] = "failed" THEN @ ELSE @ \cup {d}]
    /\ seen' = [seen EXCEPT ![c] = [@ EXCEPT ![d] = "failed"]]

PMarkFailed(c) ==
    /\ MarkFailed(c)
    /\ applied[c] => ~EnumRows \/ CutCommits
    /\ HandlerOver(c)
    /\ IF tx[c] = "open" /\ AfterFailure(Seen(c, run[c])).status = "failed"
       THEN FailDocument(c, DocOf(run[c]))
       ELSE UNCHANGED <<touched, failing, seen>>
    /\ UNCHANGED <<doc, chunk, embedded, retry, retries>>

\* The claim session is closed, its writes committed (kept) or not.
CloseSession(c, kept) ==
    /\ doc' = [d \in Document |-> IF kept /\ d \in failing[c] THEN "failed" ELSE doc[d]]
    /\ seen' = [seen EXCEPT ![c] = [d \in Document |-> "absent"]]
    /\ failing' = [failing EXCEPT ![c] = {}]
    /\ touched' = [touched EXCEPT ![c] = {}]
    /\ UNCHANGED <<chunk, embedded, retry, retries>>

PEnd(c) == EndIteration(c) /\ CloseSession(c, TRUE) /\ UNCHANGED <<loaded, hand>>

PLose(c) ==
    /\ LoseConnection(c)
    /\ CloseSession(c, FALSE)
    /\ UNCHANGED <<loaded, hand>>

PCrash(c) ==
    /\ Crash(c)
    /\ CloseSession(c, FALSE)
    /\ HandlerOver(c)

-----------------------------------------------------------------------------
(* API: POST /documents/{id}/retry *)

\* The request reads the tasks of the document.  Only what it changes is sent:
\* a row it read as PENDING keeps the status others give it meanwhile.
RetryRead(d) ==
    /\ retry = NoRetry
    /\ retries < MaxRetries
    /\ doc[d] # "absent"
    /\ retry' = [doc |-> d, flushed |-> FALSE, writes |-> doc[d] # "pending",
                 rows |-> {t \in TasksOf(d) : row[t].status \notin {"absent", "pending"}}]
    /\ retries' = retries + 1
    /\ UNCHANGED <<vars, doc, chunk, embedded, seen, failing, touched, loaded, hand>>

\* Its UPDATE of the document waits for the row.
RetryFlush ==
    /\ retry # NoRetry
    /\ ~retry.flushed /\ retry.writes
    /\ ~DocumentLocked(retry.doc)
    /\ retry' = [retry EXCEPT !.flushed = TRUE]
    /\ UNCHANGED <<vars, doc, chunk, embedded, seen, failing, touched, loaded, hand, retries>>

\* Bug: the retry starts over with fresh attempts.
BugRequeued(r) == [r EXCEPT !.status = "pending", !.worker = NoWorker, !.attempts = 0]

Requeued(r) == [r EXCEPT !.status = "pending", !.worker = NoWorker]

RowsBlocked == \E t \in retry.rows : Locked(t)

\* Its UPDATEs of the tasks wait for claims to end, then it commits.
RetryCommit ==
    /\ retry # NoRetry
    /\ retry.flushed \/ ~retry.writes
    /\ ~RowsBlocked
    /\ row' = [t \in Task |-> IF t \in retry.rows THEN Requeued(row[t]) ELSE row[t]]
    /\ doc' = IF retry.writes THEN [doc EXCEPT ![retry.doc] = "pending"] ELSE doc
    /\ retry' = NoRetry
    /\ UNCHANGED <<own, tx, todo, run, applied, effect, starts, crashes, losses,
                   chunk, embedded, seen, failing, touched, loaded, hand, retries>>

\* The request fails and is rolled back: an error, or the victim of a deadlock.
RetryAbort ==
    /\ retry # NoRetry
    /\ retry' = NoRetry
    /\ UNCHANGED <<vars, doc, chunk, embedded, seen, failing, touched, loaded, hand, retries>>

-----------------------------------------------------------------------------
PStep(c) == PClaim(c) \/ PStart(c) \/ ChunkCommit(c) \/ EmbedInsert(c) \/ EmbedCommit(c)
            \/ PMarkDone(c) \/ PMarkFailed(c) \/ PEnd(c)

PNext ==
    \/ \E d \in Document : Ingest(d) \/ RetryRead(d)
    \/ \E c \in Coordinator :
        \/ PClaim(c) \/ PStart(c) \/ ChunkCommit(c) \/ EmbedInsert(c) \/ EmbedCommit(c)
        \/ PMarkDone(c) \/ PMarkFailed(c) \/ PEnd(c) \/ PLose(c) \/ PCrash(c)
        \/ Poll(c) /\ UNCHANGED pvars
    \/ RetryFlush \/ RetryCommit \/ RetryAbort

PSpec == PInit /\ [][PNext]_allvars

PFairSpec ==
    /\ PSpec
    /\ \A c \in Coordinator : WF_allvars(PStep(c))
    /\ WF_allvars(RetryFlush \/ RetryCommit \/ RetryAbort)

-----------------------------------------------------------------------------
(* Properties *)

PTypeOK ==
    /\ TypeOK
    /\ doc \in [Document -> DocumentStatus]
    /\ chunk \in [Chunk -> {"absent", "pending", "done"}]
    /\ embedded \subseteq Chunk
    /\ seen \in [Coordinator -> [Document -> DocumentStatus]]
    /\ failing \in [Coordinator -> SUBSET Document]
    /\ touched \in [Coordinator -> SUBSET Document]
    /\ loaded \in [Coordinator -> DocumentStatus]
    /\ hand \in [Coordinator -> {"none", "keep", "embedding", "done"}]
    /\ retry \in {NoRetry} \cup [doc : Document, flushed : BOOLEAN, writes : BOOLEAN,
                                 rows : SUBSET Task]
    /\ retries \in 0..MaxRetries

\* A document is only DONE when every one of its chunks has its embedding,
\* although the decision is taken before the commit that publishes it.
DoneIsComplete ==
    \A d \in Document : doc[d] = "done" => ChunksOf(d) \subseteq embedded

\* No chunk is forgotten: a chunk without its embedding has a task that will be
\* claimed again, or that has used up its attempts and is FAILED.
NoForgottenChunk ==
    \A k \in Chunk : chunk[k] = "pending" =>
        \/ row[EmbedTask[k]].status = "failed"
        \/ Claimable(row[EmbedTask[k]])

\* A document is DONE as soon as the last of its chunks is: the handler that
\* commits the chunk refreshes the progress of the document (runner.py:113, "done"
\* only if all statuses are DONE, runner.py:170-174), and commits both together.
CompletedDocument ==
    \A d \in Document :
        ChunksOf(d) # {} /\ (\A k \in ChunksOf(d) : chunk[k] = "done") => doc[d] = "done"

\* A task that ends FAILED has not done its work: what execute_task reports of a
\* handler (worker_pool.py:82-95) agrees with what the handler has committed.
FailureIsReal == \A t \in Task : row[t].status = "failed" => ~effect[t]

\* Every task ends DONE or FAILED, unless a retry request has put it back to
\* PENDING with its attempts used up (that such rows exist is what the run
\* pipeline_retry shows): the waits for document rows and claims among handlers,
\* claim transactions and the request always come to an end.
SettlesUnlessSpent ==
    \A t \in Task : row[t].status # "absent" ~>
        \/ row[t].status \in {"done", "failed"}
        \/ retries > 0 /\ row[t].status = "pending" /\ row[t].attempts = MaxAttempts
=============================================================================
