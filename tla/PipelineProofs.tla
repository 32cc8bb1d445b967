--------------------------- MODULE PipelineProofs ---------------------------
(***************************************************************************)
(* Proofs about Pipeline, for any documents, chunks, workers, retries,      *)
(* crashes and lost claims, and whichever way the three session constants   *)
(* are set.                                                                  *)
(***************************************************************************)
EXTENDS Pipeline, TaskQueueProofs

\* embed_chunk decides that its document is DONE before it commits.  What makes
\* that decision still right at the commit: a chunk that is DONE has its
\* embedding and stays DONE, so "every other chunk is DONE" stays true as long
\* as the same handler goes on.
CompleteInv ==
    /\ doc \in [Document -> DocumentStatus]
    /\ chunk \in [Chunk -> {"absent", "pending", "done"}]
    /\ run = [c \in Coordinator |-> run[c]]
    /\ hand \in [Coordinator -> {"none", "keep", "embedding", "done"}]
    /\ \A c \in Coordinator : hand[c] # "none" => run[c] # NoTask
    /\ \A k \in Chunk : chunk[k] = "done" => k \in embedded
    /\ \A c \in Coordinator, k \in Chunk :
        hand[c] = "done" /\ run[c] = EmbedTask[k]
            => \A j \in ChunksOf(DocumentOf[k]) \ {k} : chunk[j] = "done"
    /\ DoneIsComplete

LEMMA CompleteInit == PInit => CompleteInv
  BY PipelineAssumption
     DEF PInit, Init, CompleteInv, DocumentStatus, DoneIsComplete, ChunksOf

\* Actions that finish no chunk, and no document, and give no handler a decision.
LEMMA Preserved ==
    ASSUME CompleteInv, UNCHANGED <<chunk, embedded>>,
           doc' \in [Document -> DocumentStatus],
           \A d \in Document : doc'[d] = "done" => doc[d] = "done",
           run' = [c \in Coordinator |-> run'[c]],
           hand' \in [Coordinator -> {"none", "keep", "embedding", "done"}],
           \A c \in Coordinator :
               hand'[c] = "none" \/ (hand'[c] = hand[c] /\ run'[c] = run[c])
    PROVE  CompleteInv'
  BY DEF CompleteInv, DoneIsComplete, ChunksOf

LEMMA CompleteStep == CompleteInv /\ [PNext]_allvars => CompleteInv'
<1> SUFFICES ASSUME CompleteInv, [PNext]_allvars PROVE CompleteInv'
  OBVIOUS
<1> USE PipelineAssumption, QueueAssumption
<1>1. ASSUME NEW d \in Document, Ingest(d) PROVE CompleteInv'
  BY <1>1, Preserved DEF Ingest, Enqueue, CompleteInv, DocumentStatus
<1>2. ASSUME NEW d \in Document, RetryRead(d) PROVE CompleteInv'
  BY <1>2, Preserved DEF RetryRead, vars, CompleteInv
<1>3. ASSUME NEW c \in Coordinator, PClaim(c) PROVE CompleteInv'
  BY <1>3, Preserved DEF PClaim, Claim, CompleteInv
<1>4. ASSUME NEW c \in Coordinator, PStart(c) PROVE CompleteInv'
  <2>1. PICK t \in todo[c] : run' = [run EXCEPT ![c] = t]
    BY <1>4 DEF PStart, StartHandler
  <2>2. run[c] = NoTask /\ hand[c] = "none" /\ UNCHANGED <<doc, chunk, embedded, hand>>
    BY <1>4 DEF PStart, StartHandler, CompleteInv
  <2>3. run' = [e \in Coordinator |-> run'[e]]
    BY <2>1 DEF CompleteInv
  <2> QED BY <2>1, <2>2, <2>3, Preserved DEF CompleteInv
<1>5. ASSUME NEW c \in Coordinator, ChunkCommit(c) PROVE CompleteInv'
  <2>1. PICK d \in Document :
           /\ \A k \in ChunksOf(d) : chunk[k] = "absent"
           /\ chunk' = [k \in Chunk |-> IF k \in ChunksOf(d) THEN "pending" ELSE chunk[k]]
           /\ doc' = [doc EXCEPT ![d] = "embedding"]
    BY <1>5 DEF ChunkCommit
  <2>2. UNCHANGED <<embedded, hand, run>>
    BY <1>5 DEF ChunkCommit, HandlerCommit
  <2>3. \A k \in Chunk : chunk'[k] = "done" <=> chunk[k] = "done"
    BY <2>1 DEF ChunksOf
  <2>4. /\ doc' \in [Document -> DocumentStatus]
        /\ chunk' \in [Chunk -> {"absent", "pending", "done"}]
        /\ \A e \in Document : doc'[e] = "done" => doc[e] = "done"
    BY <2>1 DEF CompleteInv, DocumentStatus
  <2> QED BY <2>2, <2>3, <2>4 DEF CompleteInv, DoneIsComplete, ChunksOf
<1>6. ASSUME NEW c \in Coordinator, EmbedInsert(c) PROVE CompleteInv'
  <2>1. PICK k \in Chunk :
           /\ run[c] = EmbedTask[k]
           /\ hand' = [hand EXCEPT ![c] =
                          IF Progress(k) = loaded[c] THEN "keep" ELSE Progress(k)]
    BY <1>6 DEF EmbedInsert
  <2>2. UNCHANGED <<doc, chunk, embedded, run>>
    BY <1>6 DEF EmbedInsert, vars
  <2>3. Progress(k) \in {"embedding", "done"}
    BY DEF Progress
  <2>4. hand'[c] = "done" => \A j \in ChunksOf(DocumentOf[k]) \ {k} : chunk[j] = "done"
    BY <2>1, <2>3 DEF Progress, ReadStatus, CompleteInv
  <2>5. \A e \in Coordinator \ {c} : hand'[e] = hand[e]
    BY <2>1 DEF CompleteInv
  <2>6. hand' \in [Coordinator -> {"none", "keep", "embedding", "done"}]
    BY <2>1, <2>3 DEF CompleteInv
  <2>7. run[c] # NoTask
    BY <2>1
  <2>8. ASSUME NEW e \in Coordinator, NEW i \in Chunk, hand'[e] = "done", run[e] = EmbedTask[i]
        PROVE  \A j \in ChunksOf(DocumentOf[i]) \ {i} : chunk[j] = "done"
    <3>1. CASE e = c
      BY <2>1, <2>4, <2>8, <3>1
    <3>2. CASE e # c
      BY <2>5, <2>8, <3>2 DEF CompleteInv
    <3> QED BY <3>1, <3>2
  <2> QED BY <2>2, <2>5, <2>6, <2>7, <2>8 DEF CompleteInv, DoneIsComplete, ChunksOf
<1>7. ASSUME NEW c \in Coordinator, EmbedCommit(c) PROVE CompleteInv'
  <2>1. PICK k \in Chunk :
           /\ run[c] = EmbedTask[k]
           /\ hand[c] # "none"
           /\ chunk' = [chunk EXCEPT ![k] = "done"]
           /\ embedded' = embedded \cup {k}
           /\ doc' = IF hand[c] = "keep" THEN doc
                     ELSE [doc EXCEPT ![DocumentOf[k]] = hand[c]]
           /\ hand' = [hand EXCEPT ![c] = "none"]
    BY <1>7 DEF EmbedCommit
  <2>2. run' = run
    BY <1>7 DEF EmbedCommit, HandlerCommit
  <2>3. /\ doc' \in [Document -> DocumentStatus]
        /\ chunk' \in [Chunk -> {"absent", "pending", "done"}]
        /\ hand' \in [Coordinator -> {"none", "keep", "embedding", "done"}]
    BY <2>1 DEF CompleteInv, DocumentStatus
  <2>4. \A j \in Chunk : /\ chunk[j] = "done" => chunk'[j] = "done"
                         /\ chunk'[j] = "done" => j \in embedded'
    BY <2>1 DEF CompleteInv
  <2>5. \A e \in Coordinator : hand'[e] = "none" \/ hand'[e] = hand[e]
    BY <2>1 DEF CompleteInv
  <2>6. ASSUME NEW d \in Document, doc'[d] = "done" PROVE ChunksOf(d) \subseteq embedded'
    <3>1. CASE doc[d] = "done"
      BY <2>1, <3>1 DEF CompleteInv, DoneIsComplete
    <3>2. CASE doc[d] # "done"
      <4>1. d = DocumentOf[k] /\ hand[c] = "done"
        BY <2>1, <2>6, <3>2 DEF CompleteInv
      <4>2. \A j \in ChunksOf(d) \ {k} : chunk[j] = "done"
        BY <2>1, <4>1 DEF CompleteInv
      <4> QED BY <2>1, <4>2 DEF CompleteInv, ChunksOf
    <3> QED BY <3>1, <3>2
  <2>7. ASSUME NEW e \in Coordinator, NEW i \in Chunk, hand'[e] = "done", run[e] = EmbedTask[i]
        PROVE  \A j \in ChunksOf(DocumentOf[i]) \ {i} : chunk'[j] = "done"
    BY <2>4, <2>5, <2>7 DEF CompleteInv, ChunksOf
  <2> QED BY <2>2, <2>3, <2>4, <2>5, <2>6, <2>7 DEF CompleteInv, DoneIsComplete, ChunksOf
<1>8. ASSUME NEW c \in Coordinator, PMarkDone(c) \/ PMarkFailed(c) PROVE CompleteInv'
  <2>1. /\ UNCHANGED <<doc, chunk, embedded>>
        /\ hand' = [hand EXCEPT ![c] = "none"] /\ run' = [run EXCEPT ![c] = NoTask]
    BY <1>8 DEF PMarkDone, MarkDone, PMarkFailed, MarkFailed, Record, HandlerOver
  <2> QED BY <2>1, Preserved DEF CompleteInv
<1>9. ASSUME NEW c \in Coordinator, NEW kept \in BOOLEAN, CloseSession(c, kept)
      PROVE  /\ UNCHANGED <<chunk, embedded>>
             /\ doc' \in [Document -> DocumentStatus]
             /\ \A d \in Document : doc'[d] = "done" => doc[d] = "done"
  BY <1>9 DEF CloseSession, CompleteInv, DocumentStatus
<1>10. ASSUME NEW c \in Coordinator, PEnd(c) \/ PLose(c) PROVE CompleteInv'
  <2>1. CloseSession(c, TRUE) \/ CloseSession(c, FALSE)
    BY <1>10 DEF PEnd, PLose
  <2>2. UNCHANGED <<run, hand>>
    BY <1>10 DEF PEnd, EndIteration, PLose, LoseConnection
  <2> QED BY <1>9, <2>1, <2>2, Preserved DEF CompleteInv
<1>11. ASSUME NEW c \in Coordinator, PCrash(c) PROVE CompleteInv'
  <2>1. CloseSession(c, FALSE) /\ hand' = [hand EXCEPT ![c] = "none"]
        /\ run' = [run EXCEPT ![c] = NoTask]
    BY <1>11 DEF PCrash, Crash, HandlerOver
  <2> QED BY <1>9, <2>1, Preserved DEF CompleteInv
<1>12. ASSUME RetryFlush \/ RetryAbort PROVE CompleteInv'
  BY <1>12, Preserved DEF RetryFlush, RetryAbort, vars, CompleteInv
<1>13. ASSUME RetryCommit PROVE CompleteInv'
  <2>1. /\ UNCHANGED <<chunk, embedded, run, hand>>
        /\ doc' = IF retry.writes THEN [doc EXCEPT ![retry.doc] = "pending"] ELSE doc
    BY <1>13 DEF RetryCommit
  <2> QED BY <2>1, Preserved DEF CompleteInv, DocumentStatus
<1>14. ASSUME NEW c \in Coordinator, Poll(c) /\ UNCHANGED pvars PROVE CompleteInv'
  BY <1>14, Preserved DEF Poll, vars, pvars, CompleteInv
<1>15. ASSUME UNCHANGED allvars PROVE CompleteInv'
  BY <1>15, Preserved DEF allvars, vars, pvars, CompleteInv
<1> QED
  BY <1>1, <1>2, <1>3, <1>4, <1>5, <1>6, <1>7, <1>8, <1>10, <1>11, <1>12, <1>13, <1>14, <1>15
     DEF PNext

\* A document that the database shows DONE has the embedding of every chunk,
\* however its handlers, claim transactions, crashes and retries interleave
\* (_refresh_document_progress, runner.py:113).
THEOREM DocumentsComplete == PSpec => []DoneIsComplete
<1>1. CompleteInv /\ [PNext]_allvars => CompleteInv'
  BY CompleteStep
<1>2. CompleteInv => DoneIsComplete
  BY DEF CompleteInv
<1> QED BY <1>1, <1>2, CompleteInit, PTL DEF PSpec

-----------------------------------------------------------------------------
(* The pipeline and the queue *)

\* t belongs to a document, so that the worker knows what to do with it.
Belongs(t) == \E d \in Document : t \in TasksOf(d)

\* A chunk and its task are inserted together, and never disappear; every task
\* on its way belongs to a document; a retry names tasks that exist.
Links ==
    /\ \A k \in Chunk : chunk[k] = "absent" <=> row[EmbedTask[k]].status = "absent"
    /\ \A t \in Task : row[t].status # "absent" => Belongs(t)
    /\ \A c \in Coordinator : \A t \in Task :
        t \in todo[c] \cup {run[c]} => Belongs(t) /\ row[t].status # "absent"
    /\ retry # NoRetry => \A t \in retry.rows : row[t].status # "absent"

PInv == PTypeOK /\ ClaimConsistent /\ Links

LEMMA Tasks ==
    /\ \A d \in Document : TasksOf(d) \subseteq Task
    /\ \A t : Belongs(t) => DocOf(t) \in Document
    /\ \A d \in Document : Belongs(RootTask[d])
    /\ \A k \in Chunk : EmbedTask[k] \in Task /\ Belongs(EmbedTask[k])
<1> USE PipelineAssumption
<1>1. \A d \in Document : TasksOf(d) \subseteq Task
  BY DEF TasksOf, ChunksOf
<1>2. ASSUME NEW t, Belongs(t) PROVE DocOf(t) \in Document
  <2>1. \E d \in Document : t = RootTask[d] \/ \E k \in ChunksOf(d) : t = EmbedTask[k]
    BY <1>2 DEF Belongs, TasksOf
  <2> QED BY <2>1 DEF DocOf
<1>3. \A d \in Document : Belongs(RootTask[d])
  BY DEF Belongs, TasksOf
<1>4. \A k \in Chunk : EmbedTask[k] \in Task /\ Belongs(EmbedTask[k])
  BY DEF Belongs, TasksOf, ChunksOf
<1> QED BY <1>1, <1>2, <1>3, <1>4

\* An insertion takes exactly its tasks out of the absent ones.
LEMMA InsertAbsent ==
    ASSUME TypeOK, NEW new, Insert(new), NEW t \in Task
    PROVE  row'[t].status = "absent" <=> row[t].status = "absent" /\ t \notin new
<1>1. row[t] \in Row
  BY DEF TypeOK
<1>2. CASE t \in new
  BY <1>1, <1>2 DEF Insert, Row
<1>3. CASE t \notin new
  BY <1>3 DEF Insert
<1> QED BY <1>2, <1>3

\* What each action of the pipeline is for the queue.
LEMMA QueueView ==
    ASSUME PTypeOK, Links, PNext PROVE [QueueNext]_vars \/ RetryCommit
<1> USE PipelineAssumption
<1>1. ASSUME NEW d \in Document, Ingest(d) PROVE QueueNext
  BY <1>1 DEF Ingest, QueueNext
<1>2. ASSUME NEW d \in Document, RetryRead(d) PROVE UNCHANGED vars
  BY <1>2 DEF RetryRead
<1>3. ASSUME NEW c \in Coordinator, ChunkCommit(c) PROVE QueueStep(c)
  <2>1. PICK d \in Document :
           /\ \A k \in ChunksOf(d) : chunk[k] = "absent"
           /\ HandlerCommit(c, {EmbedTask[k] : k \in ChunksOf(d)})
    BY <1>3 DEF ChunkCommit
  <2>2. {EmbedTask[k] : k \in ChunksOf(d)} \in SUBSET Absent
    BY <2>1 DEF Links, Absent, ChunksOf
  <2> QED BY <2>1, <2>2 DEF QueueStep
<1>4. ASSUME NEW c \in Coordinator, EmbedCommit(c) PROVE QueueStep(c)
  <2>1. {} \in SUBSET Absent
    OBVIOUS
  <2>2. HandlerCommit(c, {})
    BY <1>4 DEF EmbedCommit
  <2> QED BY <2>1, <2>2 DEF QueueStep
<1>5. ASSUME NEW c \in Coordinator,
             \/ PClaim(c) \/ PStart(c) \/ PMarkDone(c) \/ PMarkFailed(c)
             \/ PEnd(c) \/ PLose(c) \/ PCrash(c) \/ Poll(c)
      PROVE  QueueStep(c)
  BY <1>5 DEF PClaim, PStart, PMarkDone, PMarkFailed, PEnd, PLose, PCrash, QueueStep
<1>6. ASSUME NEW c \in Coordinator, EmbedInsert(c) PROVE UNCHANGED vars
  BY <1>6 DEF EmbedInsert
<1>7. ASSUME RetryFlush \/ RetryAbort PROVE UNCHANGED vars
  BY <1>7 DEF RetryFlush, RetryAbort
<1> QED BY <1>1, <1>2, <1>3, <1>4, <1>5, <1>6, <1>7 DEF PNext, QueueNext

\* A retry puts rows back to PENDING that no claim holds, and keeps their attempts.
LEMMA RetryRows ==
    ASSUME PTypeOK, RetryCommit, NEW t \in Task
    PROVE  /\ row'[t] \in Row /\ row'[t].attempts = row[t].attempts
           /\ t \notin retry.rows => row'[t] = row[t]
           /\ t \in retry.rows =>
                row'[t].status = "pending" /\ \A c \in Coordinator : t \notin Held(c)
<1>1. row[t] \in Row
  BY DEF PTypeOK, TypeOK
<1>2. \A r \in Row : /\ Requeued(r) \in Row /\ Requeued(r).attempts = r.attempts
                     /\ Requeued(r).status = "pending"
  BY DEF Requeued, Row, Status
<1>3. row'[t] = IF t \in retry.rows THEN Requeued(row[t]) ELSE row[t]
  BY DEF RetryCommit
<1>4. t \in retry.rows => \A c \in Coordinator : t \notin Held(c)
  BY DEF RetryCommit, RowsBlocked, Locked
<1> QED BY <1>1, <1>2, <1>3, <1>4

\* The queue's own invariants through a step of the pipeline.
LEMMA QueueInvStep ==
    ASSUME PInv, PNext PROVE TypeOK' /\ ClaimConsistent'
<1> USE PipelineAssumption
<1>1. TypeOK /\ ClaimCore
  BY DEF PInv, PTypeOK, ClaimCore
<1>2. CASE [QueueNext]_vars
  <2>1. TypeOK'
    BY <1>1, <1>2, QueueNextIsNext, TypeStep
  <2> QED BY <1>1, <1>2, <2>1, ClaimCoreStep
<1>3. CASE RetryCommit
  <2>1. UNCHANGED <<own, tx, todo, run, applied, effect, starts, crashes, losses>>
    BY <1>3 DEF RetryCommit
  <2>2. \A d \in Coordinator : Held(d)' = Held(d) /\ Held(d) \subseteq Task
    BY <1>1, <2>1 DEF Held, TypeOK
  <2>3. \A d \in Coordinator : \A t \in Held(d) : row'[t] = row[t]
    BY <1>3, <2>2, RetryRows DEF PInv
  <2>4. row' \in [Task -> Row]
    BY <1>3, RetryRows DEF PInv, RetryCommit
  <2>5. TypeOK'
    BY <1>1, <2>1, <2>2, <2>4 DEF TypeOK, Held
  <2>6. ClaimConsistent'
    BY <1>1, <2>1, <2>2, <2>3 DEF ClaimCore, ClaimConsistent, BatchOver, Claimable
  <2> QED BY <2>5, <2>6
<1> QED BY <1>2, <1>3, QueueView DEF PInv

\* The types of what the pipeline adds to the queue.
PipelineTypes ==
    /\ doc \in [Document -> DocumentStatus]
    /\ chunk \in [Chunk -> {"absent", "pending", "done"}]
    /\ embedded \subseteq Chunk
    /\ seen \in [Coordinator -> [Document -> DocumentStatus]]
    /\ failing \in [Coordinator -> SUBSET Document]
    /\ touched \in [Coordinator -> SUBSET Document]
    /\ loaded \in [Coordinator -> DocumentStatus]
    /\ hand \in [Coordinator -> {"none", "keep", "embedding", "done"}]
    /\ retry \in {NoRetry} \cup [doc : Document, flushed : BOOLEAN, writes : BOOLEAN,
                                 rows : SUBSET Task]
    /\ retries \in 0..MaxRetries

LEMMA TypesSplit == PTypeOK <=> TypeOK /\ PipelineTypes
  BY DEF PTypeOK, PipelineTypes

LEMMA PipelineTypesStep ==
    ASSUME PTypeOK, Links, PNext PROVE PipelineTypes'
<1> USE PipelineAssumption, TypesSplit DEF DocumentStatus
<1>1. PipelineTypes
  OBVIOUS
<1>2. ASSUME NEW d \in Document, Ingest(d) PROVE PipelineTypes'
  BY <1>1, <1>2 DEF Ingest, PipelineTypes
<1>3. ASSUME NEW c \in Coordinator, PClaim(c) PROVE PipelineTypes'
  BY <1>1, <1>3 DEF PClaim, PipelineTypes
<1>4. ASSUME NEW c \in Coordinator, PStart(c) PROVE PipelineTypes'
  <2>1. PICK t \in todo[c] : run' = [run EXCEPT ![c] = t]
    BY <1>4 DEF PStart, StartHandler
  <2>2. run'[c] = t /\ t \in Task /\ Belongs(t)
    BY <2>1 DEF PTypeOK, TypeOK, Links
  <2>3. doc[DocOf(run'[c])] \in DocumentStatus
    BY <1>1, <2>2, Tasks DEF PipelineTypes
  <2> QED BY <1>1, <1>4, <2>3 DEF PStart, PipelineTypes
<1>5. ASSUME NEW c \in Coordinator, ChunkCommit(c) PROVE PipelineTypes'
  BY <1>1, <1>5 DEF ChunkCommit, PipelineTypes
<1>6. ASSUME NEW c \in Coordinator, EmbedInsert(c) PROVE PipelineTypes'
  <2>1. \A k \in Chunk : Progress(k) \in {"embedding", "done"}
    BY DEF Progress
  <2> QED BY <1>1, <1>6, <2>1 DEF EmbedInsert, PipelineTypes
<1>7. ASSUME NEW c \in Coordinator, EmbedCommit(c) PROVE PipelineTypes'
  <2>1. PICK k \in Chunk :
           /\ hand[c] # "none"
           /\ chunk' = [chunk EXCEPT ![k] = "done"]
           /\ embedded' = embedded \cup {k}
           /\ doc' = IF hand[c] = "keep" THEN doc
                     ELSE [doc EXCEPT ![DocumentOf[k]] = hand[c]]
           /\ hand' = [hand EXCEPT ![c] = "none"]
           /\ UNCHANGED <<seen, failing, touched, loaded, retry, retries>>
    BY <1>7 DEF EmbedCommit
  <2>2. doc' \in [Document -> DocumentStatus]
    BY <1>1, <2>1 DEF PipelineTypes
  <2> QED BY <1>1, <2>1, <2>2 DEF PipelineTypes
<1>8. ASSUME NEW c \in Coordinator, PMarkDone(c) PROVE PipelineTypes'
  BY <1>1, <1>8 DEF PMarkDone, HandlerOver, PipelineTypes
<1>9. ASSUME NEW c \in Coordinator, PMarkFailed(c) PROVE PipelineTypes'
  <2>1. run[c] \in Task /\ Belongs(run[c])
    BY <1>9 DEF PMarkFailed, MarkFailed, PTypeOK, TypeOK, Links
  <2>2. DocOf(run[c]) \in Document
    BY <2>1, Tasks
  <2>3. CASE FailDocument(c, DocOf(run[c]))
    BY <1>1, <1>9, <2>2, <2>3 DEF PMarkFailed, FailDocument, HandlerOver, PipelineTypes
  <2>4. CASE UNCHANGED <<touched, failing, seen>>
    BY <1>1, <1>9, <2>4 DEF PMarkFailed, HandlerOver, PipelineTypes
  <2> QED BY <1>9, <2>3, <2>4 DEF PMarkFailed
<1>10. ASSUME NEW c \in Coordinator, NEW kept \in BOOLEAN, CloseSession(c, kept),
              UNCHANGED <<loaded, hand>> \/ HandlerOver(c)
       PROVE  PipelineTypes'
  BY <1>1, <1>10 DEF CloseSession, HandlerOver, PipelineTypes
<1>11. ASSUME NEW c \in Coordinator, PEnd(c) \/ PLose(c) \/ PCrash(c) PROVE PipelineTypes'
  BY <1>10, <1>11 DEF PEnd, PLose, PCrash
<1>12. ASSUME NEW d \in Document, RetryRead(d) PROVE PipelineTypes'
  <2>1. {t \in TasksOf(d) : row[t].status \notin {"absent", "pending"}} \in SUBSET Task
    BY Tasks
  <2>2. retries' \in 0..MaxRetries
    BY <1>1, <1>12 DEF RetryRead, PipelineTypes
  <2> QED BY <1>1, <1>12, <2>1, <2>2 DEF RetryRead, PipelineTypes
<1>13. ASSUME RetryFlush PROVE PipelineTypes'
  BY <1>1, <1>13 DEF RetryFlush, PipelineTypes
<1>14. ASSUME RetryCommit PROVE PipelineTypes'
  BY <1>1, <1>14 DEF RetryCommit, PipelineTypes
<1>15. ASSUME RetryAbort PROVE PipelineTypes'
  BY <1>1, <1>15 DEF RetryAbort, PipelineTypes
<1>16. ASSUME UNCHANGED pvars PROVE PipelineTypes'
  BY <1>1, <1>16 DEF pvars, PipelineTypes
<1> QED BY <1>2, <1>3, <1>4, <1>5, <1>6, <1>7, <1>8, <1>9, <1>11, <1>12, <1>13, <1>14, <1>15, <1>16
        DEF PNext

\* Steps that insert no task and start nothing outside the batch keep the links.
LEMMA LinksKept ==
    ASSUME PTypeOK, Links,
           \A t \in Task : row'[t].status = "absent" <=> row[t].status = "absent",
           \A k \in Chunk : chunk'[k] = "absent" <=> chunk[k] = "absent",
           \A c \in Coordinator : /\ todo'[c] \subseteq todo[c]
                                  /\ run'[c] \in todo[c] \cup {run[c], NoTask},
           retry' # NoRetry => retry # NoRetry /\ retry'.rows = retry.rows
    PROVE  Links'
<1>1. \A t \in Task : t # NoTask
  BY QueueAssumption
<1>2. retry # NoRetry => retry.rows \subseteq Task
  BY DEF PTypeOK
<1> QED BY <1>1, <1>2, Tasks DEF Links, Belongs

LEMMA LinksStep == ASSUME PInv, TypeOK', PNext PROVE Links'
<1> USE PipelineAssumption
<1>1. PTypeOK /\ TypeOK /\ Links /\ ClaimCore
  BY DEF PInv, PTypeOK, ClaimCore
<1>2. ASSUME NEW d \in Document, Ingest(d) PROVE Links'
  <2>1. Insert({RootTask[d]}) /\ UNCHANGED <<todo, run, chunk, retry>> /\ RootTask[d] \in Absent
    BY <1>2 DEF Ingest, Enqueue
  <2>2. \A t \in Task : row'[t].status = "absent" <=> row[t].status = "absent" /\ t # RootTask[d]
    BY <1>1, <2>1, InsertAbsent
  <2>3. \A k \in Chunk : EmbedTask[k] \in Task /\ EmbedTask[k] # RootTask[d]
    BY Tasks
  <2>4. \A t \in Task : row'[t].status # "absent" => Belongs(t)
    BY <1>1, <2>2, Tasks DEF Links
  <2>5. retry # NoRetry => \A t \in retry.rows : row'[t].status # "absent"
    BY <1>1, <2>2 DEF Links, PTypeOK
  <2> QED BY <1>1, <2>1, <2>2, <2>3, <2>4, <2>5 DEF Links, Belongs
<1>3. ASSUME NEW c \in Coordinator, PClaim(c) PROVE Links'
  <2>1. PICK B \in Batch : todo' = [todo EXCEPT ![c] = B]
    BY <1>3 DEF PClaim, Claim
  <2>2. UNCHANGED <<row, run, chunk, retry>>
    BY <1>3 DEF PClaim, Claim
  <2>3. \A t \in B : Belongs(t) /\ row[t].status # "absent"
    BY <1>1 DEF Links, Batch, Free, Claimable
  <2>4. \A d \in Coordinator : todo'[d] = todo[d] \/ todo'[d] = B
    BY <1>1, <2>1 DEF TypeOK
  <2> QED BY <1>1, <2>2, <2>3, <2>4 DEF Links, Belongs
<1>4. ASSUME NEW c \in Coordinator, PStart(c) PROVE Links'
  <2>1. PICK t \in todo[c] : /\ run' = [run EXCEPT ![c] = t]
                             /\ todo' = [todo EXCEPT ![c] = @ \ {t}]
    BY <1>4 DEF PStart, StartHandler
  <2>2. UNCHANGED <<row, chunk, retry>>
    BY <1>4 DEF PStart, StartHandler
  <2>3. \A d \in Coordinator : /\ todo'[d] \subseteq todo[d]
                               /\ run'[d] \in todo[d] \cup {run[d], NoTask}
    BY <1>1, <2>1 DEF TypeOK
  <2> QED BY <1>1, <2>2, <2>3, LinksKept
<1>5. ASSUME NEW c \in Coordinator, ChunkCommit(c) PROVE Links'
  <2>1. PICK d \in Document :
           /\ \A k \in ChunksOf(d) : chunk[k] = "absent"
           /\ HandlerCommit(c, {EmbedTask[k] : k \in ChunksOf(d)})
           /\ chunk' = [k \in Chunk |-> IF k \in ChunksOf(d) THEN "pending" ELSE chunk[k]]
           /\ UNCHANGED retry
    BY <1>5 DEF ChunkCommit
  <2> DEFINE new == {EmbedTask[k] : k \in ChunksOf(d)}
  <2>2. Insert(new) /\ UNCHANGED <<todo, run>>
    BY <2>1 DEF HandlerCommit
  <2> HIDE DEF new
  <2>3. \A t \in Task : row'[t].status = "absent" <=> row[t].status = "absent" /\ t \notin new
    BY <1>1, <2>2, InsertAbsent
  <2>4. \A k \in Chunk : EmbedTask[k] \in Task /\ (EmbedTask[k] \in new <=> k \in ChunksOf(d))
    BY Tasks DEF new, ChunksOf
  <2>5. \A t \in new : Belongs(t)
    BY Tasks DEF new, ChunksOf
  <2>6. \A k \in Chunk : chunk'[k] = "absent" <=> row'[EmbedTask[k]].status = "absent"
    BY <1>1, <2>1, <2>3, <2>4 DEF Links
  <2>7. \A t \in Task : row'[t].status # "absent" => Belongs(t)
    BY <1>1, <2>3, <2>5 DEF Links
  <2>8. retry # NoRetry => \A t \in retry.rows : row'[t].status # "absent"
    BY <1>1, <2>3 DEF Links, PTypeOK
  <2>9. \A e \in Coordinator : \A t \in Task :
           t \in todo'[e] \cup {run'[e]} => Belongs(t) /\ row'[t].status # "absent"
    BY <1>1, <2>2, <2>3 DEF Links
  <2> QED BY <2>1, <2>6, <2>7, <2>8, <2>9 DEF Links, Belongs
<1>6. ASSUME NEW c \in Coordinator, EmbedInsert(c) PROVE Links'
  BY <1>1, <1>6, LinksKept DEF EmbedInsert, vars
<1>7. ASSUME NEW c \in Coordinator, EmbedCommit(c) PROVE Links'
  <2>1. PICK k \in Chunk : /\ run[c] = EmbedTask[k] /\ chunk[k] # "absent"
                           /\ chunk' = [chunk EXCEPT ![k] = "done"]
    <3>1. PICK k \in Chunk : run[c] = EmbedTask[k] /\ chunk' = [chunk EXCEPT ![k] = "done"]
      BY <1>7 DEF EmbedCommit
    <3>2. row[EmbedTask[k]].status # "absent"
      BY <1>1, <3>1, Tasks DEF Links
    <3> QED BY <1>1, <3>1, <3>2 DEF Links
  <2>2. Insert({}) /\ UNCHANGED <<todo, run, retry>>
    BY <1>7 DEF EmbedCommit, HandlerCommit
  <2>3. \A t \in Task : row'[t].status = "absent" <=> row[t].status = "absent"
    BY <1>1, <2>2, InsertAbsent
  <2>4. \A j \in Chunk : chunk'[j] = "absent" <=> chunk[j] = "absent"
    BY <1>1, <2>1 DEF PTypeOK
  <2> QED BY <1>1, <2>2, <2>3, <2>4, LinksKept
<1>8. ASSUME NEW c \in Coordinator, PMarkDone(c) \/ PMarkFailed(c) PROVE Links'
  <2>1. /\ UNCHANGED <<row, todo, chunk, retry>> /\ run' = [run EXCEPT ![c] = NoTask]
    BY <1>8 DEF PMarkDone, MarkDone, PMarkFailed, MarkFailed, Record
  <2> QED BY <1>1, <2>1, LinksKept DEF TypeOK
<1>9. ASSUME NEW c \in Coordinator, PEnd(c) PROVE Links'
  <2>1. /\ BatchOver(c) /\ UNCHANGED <<todo, run, chunk, retry>>
        /\ row' = [t \in Task |-> Seen(c, t)]
    BY <1>9 DEF PEnd, EndIteration, CloseSession
  <2>2. ASSUME NEW t \in Held(c)
        PROVE  own[c][t].status # "absent" /\ row[t].status # "absent"
    BY <1>1, <2>1, <2>2, HeldOutcome DEF ClaimCore, ClaimConsistent, Claimable
  <2>3. \A t \in Task : row'[t].status = "absent" <=> row[t].status = "absent"
    BY <2>1, <2>2 DEF Seen
  <2> QED BY <1>1, <2>1, <2>3, LinksKept
<1>10. ASSUME NEW c \in Coordinator, PLose(c) \/ PCrash(c) PROVE Links'
  <2>1. /\ UNCHANGED <<row, chunk, retry>>
        /\ \A d \in Coordinator : /\ todo'[d] \subseteq todo[d]
                                  /\ run'[d] \in todo[d] \cup {run[d], NoTask}
    BY <1>1, <1>10 DEF PLose, PCrash, LoseConnection, Crash, CloseSession, TypeOK
  <2> QED BY <1>1, <2>1, LinksKept
<1>11. ASSUME NEW d \in Document, RetryRead(d) PROVE Links'
  <2>1. /\ UNCHANGED <<row, todo, run, chunk>>
        /\ \A t \in retry'.rows : row[t].status # "absent"
    BY <1>11 DEF RetryRead, vars
  <2> QED BY <1>1, <2>1 DEF Links, Belongs
<1>12. ASSUME RetryFlush \/ RetryAbort PROVE Links'
  <2>1. UNCHANGED <<row, todo, run, chunk>>
    BY <1>12 DEF RetryFlush, RetryAbort, vars
  <2>2. retry' # NoRetry => retry # NoRetry /\ retry'.rows = retry.rows
    BY <1>1, <1>12 DEF RetryFlush, RetryAbort, PTypeOK
  <2> QED BY <1>1, <2>1, <2>2, LinksKept
<1>13. ASSUME RetryCommit PROVE Links'
  <2>1. UNCHANGED <<todo, run, chunk>> /\ retry' = NoRetry /\ retry # NoRetry
    BY <1>13 DEF RetryCommit
  <2>2. \A t \in Task : row'[t].status = "absent" <=> row[t].status = "absent"
    BY <1>1, <1>13, <2>1, RetryRows DEF Links
  <2> QED BY <1>1, <2>1, <2>2, LinksKept
<1>14. ASSUME NEW c \in Coordinator, Poll(c) /\ UNCHANGED pvars PROVE Links'
  BY <1>1, <1>14, LinksKept DEF Poll, vars, pvars
<1> QED BY <1>2, <1>3, <1>4, <1>5, <1>6, <1>7, <1>8, <1>9, <1>10, <1>11, <1>12, <1>13, <1>14
        DEF PNext

LEMMA PInvInit == PInit => PInv
<1> SUFFICES ASSUME PInit PROVE PInv
  OBVIOUS
<1> USE PipelineAssumption
<1>1. ClaimInv
  BY ClaimInit DEF PInit
<1>2. PipelineTypes
  BY DEF PInit, PipelineTypes, DocumentStatus
<1>3. Links
  <2>1. /\ \A k \in Chunk : chunk[k] = "absent"
        /\ \A t \in Task : row[t].status = "absent"
        /\ \A c \in Coordinator : todo[c] = {} /\ run[c] = NoTask
        /\ retry = NoRetry
    BY DEF PInit, Init
  <2>2. \A t \in Task : t # NoTask
    BY QueueAssumption
  <2> QED BY <2>1, <2>2, Tasks DEF Links
<1> QED BY <1>1, <1>2, <1>3, TypesSplit DEF PInv, ClaimInv, ClaimCore

LEMMA PInvStep == PInv /\ [PNext]_allvars => PInv'
<1> SUFFICES ASSUME PInv, [PNext]_allvars PROVE PInv'
  OBVIOUS
<1>1. CASE PNext
  <2>1. TypeOK' /\ ClaimConsistent'
    BY <1>1, QueueInvStep
  <2>2. PipelineTypes' /\ Links'
    BY <1>1, <2>1, PipelineTypesStep, LinksStep DEF PInv
  <2>3. PTypeOK'
    BY <2>1, <2>2 DEF PTypeOK, PipelineTypes
  <2> QED BY <2>1, <2>2, <2>3 DEF PInv
<1>2. CASE UNCHANGED allvars
  BY <1>2 DEF allvars, vars, pvars, PInv, PTypeOK, TypeOK, ClaimConsistent, Links, Held,
     BatchOver, Claimable, Belongs
<1> QED BY <1>1, <1>2

LEMMA PInvariant == PSpec => []PInv
  BY PInvInit, PInvStep, PTL DEF PSpec

\* In every reachable state each variable holds a value of its type: the worker
\* only ever runs tasks of documents, and a retry only names tasks that exist.
THEOREM PipelineTyped == PSpec => []PTypeOK
<1>1. PInv => PTypeOK
  BY DEF PInv
<1> QED BY <1>1, PInvariant, PTL

\* Retries leave the claims alone: the bookkeeping of the coordinators stays right
\* and no task runs twice at a time, although POST /documents/{id}/retry rewrites
\* rows it read without a lock (router.py:607-634).
THEOREM RetriesKeepClaims == PSpec => [](ClaimConsistent /\ ExclusiveRun)
<1>1. PInv => ClaimConsistent /\ ExclusiveRun
  BY ExclusiveClaims, PipelineAssumption DEF PInv, PTypeOK, ClaimCore
<1> QED BY <1>1, PInvariant, PTL

-----------------------------------------------------------------------------
(* Outcomes and chunks *)

LEMMA PEffectStep == PInv /\ EffectInv /\ [PNext]_allvars => EffectInv'
<1> SUFFICES ASSUME PInv, EffectInv, [PNext]_allvars PROVE EffectInv'
  OBVIOUS
<1>1. TypeOK /\ TypeOK'
  BY PInvStep DEF PInv, PTypeOK
<1>2. CASE [QueueNext]_vars
  BY <1>1, <1>2, QueueNextIsNext, EffectStep
<1>3. CASE RetryCommit
  <2>1. UNCHANGED <<own, run, applied, effect>>
    BY <1>3 DEF RetryCommit
  <2>2. \A t \in Task : row'[t] = row[t] \/ row'[t].status = "pending"
    BY <1>3, RetryRows DEF PInv
  <2> QED BY <2>1, <2>2 DEF EffectInv, Held
<1> QED BY <1>2, <1>3, QueueView DEF PInv, allvars

\* The embedding task of a chunk has done its work once the chunk is DONE only.
EmbedDone == \A k \in Chunk : effect[EmbedTask[k]] => chunk[k] = "done"

LEMMA EmbedDoneStep == PInv /\ EmbedDone /\ [PNext]_allvars => EmbedDone'
<1> SUFFICES ASSUME PInv, EmbedDone, [PNext]_allvars PROVE EmbedDone'
  OBVIOUS
<1> USE PipelineAssumption
<1>1. PTypeOK /\ TypeOK
  BY DEF PInv, PTypeOK
<1>2. ASSUME NEW c \in Coordinator, ChunkCommit(c) PROVE EmbedDone'
  <2>1. PICK d \in Document :
           /\ run[c] = RootTask[d]
           /\ \A k \in ChunksOf(d) : chunk[k] = "absent"
           /\ effect' = [effect EXCEPT ![run[c]] = TRUE]
           /\ chunk' = [k \in Chunk |-> IF k \in ChunksOf(d) THEN "pending" ELSE chunk[k]]
    BY <1>2 DEF ChunkCommit, HandlerCommit
  <2>2. \A k \in Chunk : effect'[EmbedTask[k]] = effect[EmbedTask[k]]
    BY <1>1, <2>1, Tasks DEF TypeOK
  <2> QED BY <2>1, <2>2 DEF EmbedDone
<1>3. ASSUME NEW c \in Coordinator, EmbedCommit(c) PROVE EmbedDone'
  <2>1. PICK k \in Chunk : /\ run[c] = EmbedTask[k]
                           /\ effect' = [effect EXCEPT ![run[c]] = TRUE]
                           /\ chunk' = [chunk EXCEPT ![k] = "done"]
    BY <1>3 DEF EmbedCommit, HandlerCommit
  <2>2. \A j \in Chunk \ {k} : effect'[EmbedTask[j]] = effect[EmbedTask[j]] /\ chunk'[j] = chunk[j]
    BY <1>1, <2>1, Tasks DEF TypeOK, PTypeOK
  <2>3. chunk'[k] = "done"
    BY <1>1, <2>1 DEF PTypeOK
  <2> QED BY <2>2, <2>3 DEF EmbedDone
<1>4. ASSUME UNCHANGED <<effect, chunk>> PROVE EmbedDone'
  BY <1>4 DEF EmbedDone
<1>5. ASSUME NEW d \in Document, Ingest(d) \/ RetryRead(d) PROVE UNCHANGED <<effect, chunk>>
  BY <1>5 DEF Ingest, Enqueue, RetryRead, vars
<1>6. ASSUME NEW c \in Coordinator,
             \/ PClaim(c) \/ PStart(c) \/ EmbedInsert(c) \/ PMarkDone(c) \/ PMarkFailed(c)
             \/ PEnd(c) \/ PLose(c) \/ PCrash(c) \/ (Poll(c) /\ UNCHANGED pvars)
      PROVE  UNCHANGED <<effect, chunk>>
  BY <1>6 DEF PClaim, Claim, PStart, StartHandler, EmbedInsert, vars, PMarkDone, MarkDone,
     PMarkFailed, MarkFailed, Record, PEnd, EndIteration, PLose, LoseConnection, PCrash, Crash,
     CloseSession, Poll, pvars
<1>7. ASSUME RetryFlush \/ RetryCommit \/ RetryAbort PROVE UNCHANGED <<effect, chunk>>
  BY <1>7 DEF RetryFlush, RetryCommit, RetryAbort, vars
<1>8. ASSUME UNCHANGED allvars PROVE UNCHANGED <<effect, chunk>>
  BY <1>8 DEF allvars, vars, pvars
<1> QED BY <1>2, <1>3, <1>4, <1>5, <1>6, <1>7, <1>8 DEF PNext

\* Until a retry is asked for, the committed rows are those of the queue alone.
Unretried == retries = 0 => retry = NoRetry /\ CommittedRows

LEMMA UnretriedStep == PInv /\ Unretried /\ [PNext]_allvars => Unretried'
<1> SUFFICES ASSUME PInv, Unretried, [PNext]_allvars, retries' = 0
             PROVE  retry' = NoRetry /\ CommittedRows'
  BY DEF Unretried
<1>1. TypeOK' /\ ClaimCore /\ IsolatedSessions /\ retries \in Nat
  BY PInvStep, PipelineAssumption DEF PInv, PTypeOK, ClaimCore
<1>2. ASSUME NEW d \in Document, RetryRead(d) PROVE FALSE
  <2>1. retries' = retries + 1
    BY <1>2 DEF RetryRead
  <2>2. retries + 1 # 0
    BY <1>1
  <2> QED BY <2>1, <2>2
<1>3. UNCHANGED <<retry, retries>> \/ RetryFlush \/ RetryCommit \/ RetryAbort
  BY <1>2 DEF PNext, Ingest, PClaim, PStart, ChunkCommit, EmbedInsert, EmbedCommit, PMarkDone,
     PMarkFailed, PEnd, PLose, PCrash, CloseSession, pvars, allvars
<1>4. retry = NoRetry /\ retry' = NoRetry /\ CommittedRows /\ ~RetryCommit
  BY <1>3 DEF Unretried, RetryFlush, RetryCommit, RetryAbort
<1>5. [QueueNext]_vars
  BY <1>4, QueueView DEF PInv, allvars
<1> QED BY <1>1, <1>4, <1>5, ClaimCoreStep

ChunkInv == PInv /\ EffectInv /\ EmbedDone /\ Unretried

LEMMA ChunkInvariant == PSpec => []ChunkInv
<1>1. PInit => ChunkInv
  <2> SUFFICES ASSUME PInit PROVE ChunkInv
    OBVIOUS
  <2>1. PInv /\ EffectInv /\ CommittedRows
    BY PInvInit, EffectInit, ClaimInit DEF PInit, ClaimInv
  <2>2. EmbedDone /\ retry = NoRetry
    BY Tasks DEF PInit, Init, EmbedDone
  <2> QED BY <2>1, <2>2 DEF ChunkInv, Unretried
<1>2. ChunkInv /\ [PNext]_allvars => ChunkInv'
  BY PInvStep, PEffectStep, EmbedDoneStep, UnretriedStep DEF ChunkInv
<1> QED BY <1>1, <1>2, PTL DEF PSpec

\* A task is recorded DONE only when a handler has committed its work, retries or not.
THEOREM RetriesInventNothing == PSpec => []DoneHasEffect
<1>1. ChunkInv => DoneHasEffect
  BY DEF ChunkInv, PInv, PTypeOK, TypeOK, EffectInv, DoneHasEffect, Seen
<1> QED BY <1>1, ChunkInvariant, PTL

\* Until a retry is asked for, no chunk is forgotten: one without its embedding
\* has a task that will be claimed again, or that has failed for good.
THEOREM ChunksRemembered == PSpec => [](retries = 0 => NoForgottenChunk)
<1>1. ChunkInv => (retries = 0 => NoForgottenChunk)
  <2> SUFFICES ASSUME ChunkInv, retries = 0, NEW k \in Chunk, chunk[k] = "pending",
                      row[EmbedTask[k]].status # "failed"
               PROVE  Claimable(row[EmbedTask[k]])
    BY DEF NoForgottenChunk
  <2>1. EmbedTask[k] \in Task /\ row[EmbedTask[k]] \in Row
    BY Tasks DEF ChunkInv, PInv, PTypeOK, TypeOK
  <2>2. row[EmbedTask[k]].status # "absent"
    BY DEF ChunkInv, PInv, Links
  <2>3. row[EmbedTask[k]].status # "done"
    BY <2>1 DEF ChunkInv, EffectInv, EmbedDone
  <2>4. row[EmbedTask[k]].status # "processing"
    BY <2>1 DEF ChunkInv, Unretried, CommittedRows
  <2>5. row[EmbedTask[k]].status \in {"pending", "retrying"}
    BY <2>1, <2>2, <2>3, <2>4 DEF Row, Status
  <2> QED BY <2>1, <2>5 DEF ChunkInv, Unretried, CommittedRows, Claimable
<1> QED BY <1>1, ChunkInvariant, PTL

LEMMA PExecStep == PInv /\ ExecInv /\ [PNext]_allvars => ExecInv'
<1> SUFFICES ASSUME PInv, ExecInv, [PNext]_allvars PROVE ExecInv'
  OBVIOUS
<1>1. CASE [QueueNext]_vars
  BY <1>1, QueueNextIsNext, ExecStep DEF PInv, PTypeOK
<1>2. CASE RetryCommit
  <2>1. UNCHANGED <<own, tx, todo, starts, crashes, losses>>
    BY <1>2 DEF RetryCommit
  <2>2. \A t \in Task : row'[t].attempts = row[t].attempts
    BY <1>2, RetryRows DEF PInv
  <2>3. \A c \in Coordinator : Held(c)' = Held(c) /\ Held(c) \subseteq Task
    BY <2>1 DEF Held, PInv, PTypeOK, TypeOK
  <2>4. HoldInv'
    BY <2>1, <2>2, <2>3 DEF ExecInv, HoldInv
  <2>5. \A t \in Task : Unheld(t)' = Unheld(t) /\ Started(t)' = Started(t) /\ Credit(t)' = Credit(t)
    BY <2>1, <2>2, <2>3 DEF Unheld, Started, Credit
  <2> QED BY <2>1, <2>4, <2>5 DEF ExecInv
<1> QED BY <1>1, <1>2, QueueView DEF PInv, allvars

\* A retry grants no execution: it keeps attempt_count (router.py:618), so that
\* the bound on the executions of a task is the one of the queue alone.
THEOREM RetriesGrantNothing == PSpec => []ExecutionBound
<1>1. PInv /\ ExecInv => ExecutionBound
  BY ExecBounds DEF PInv, PTypeOK
<1>2. PInit => ExecInv
  BY ExecInit DEF PInit
<1> QED BY <1>1, <1>2, PInvariant, PExecStep, PTL DEF PSpec

-----------------------------------------------------------------------------
(* Without retries the pipeline implements the queue *)

\* What handlers do to documents and chunks is invisible to the queue: without
\* retries, a behaviour of the pipeline is one of TaskQueue, and its committed
\* rows behave as TaskLifecycle says.
THEOREM PipelineImplementsQueue == ASSUME MaxRetries = 0 PROVE PSpec => Spec /\ ImplementsLifecycle
<1>1. ChunkInv /\ [PNext]_allvars => [Next]_vars
  <2> SUFFICES ASSUME ChunkInv, [PNext]_allvars PROVE [Next]_vars
    OBVIOUS
  <2>1. retries = 0
    BY DEF ChunkInv, PInv, PTypeOK
  <2>2. ~RetryCommit
    BY <2>1 DEF ChunkInv, Unretried, RetryCommit
  <2> QED BY <2>2, QueueView, QueueNextIsNext DEF ChunkInv, PInv, allvars
<1>2. PInit => Init
  BY DEF PInit
<1>3. PSpec => Spec
  BY <1>1, <1>2, ChunkInvariant, PTL DEF PSpec, Spec
<1>4. Spec => ImplementsLifecycle
  BY Refinement, PipelineAssumption
<1> QED BY <1>3, <1>4, PTL
=============================================================================
