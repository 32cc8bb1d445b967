------------------------- MODULE EmbeddingService -------------------------
(***************************************************************************)
(* Requests for embeddings: the API handlers of api/router.py, the worker    *)
(* that embeds chunks, the EmbeddingDispatcher with its RetryPolicy          *)
(* (queue/backoff_strategy.py), the Redis cache, and the token bucket of     *)
(* module RateLimiter in front of the provider.                              *)
(*                                                                           *)
(* A request enters by one of these doors:                                   *)
(*   "single"  POST /embed: cache first, store the result                    *)
(*   "batch"   POST /embed-batch: sub-batches, then store every result       *)
(*   "direct"  POST /search and the worker: no cache, may be cancelled       *)
(*   "helper"  retry_with_backoff around a bare call of the provider         *)
(*                                                                           *)
(* Of a vector the module keeps the text it belongs to, and the embedding    *)
(* model that computed it: the vector of text t is t, and all the vectors a  *)
(* request receives come from one model.                                     *)
(***************************************************************************)
EXTENDS RateLimiter, Sequences

CONSTANTS
    Text,          \* texts that occur
    TokensOf,      \* TokensOf[t]: what _estimate_tokens makes of t
    BatchSize,     \* EmbeddingDispatcher.batch_size
    Batch,         \* bound: the lists of texts batch requests bring
    MaxAttempts,   \* RetryPolicy.max_attempts
    MaxDelay,      \* max_delay, in ticks
    NoVector,      \* no entry in the cache
    Model,         \* embedding models a request can name
    NoModel        \* none

ASSUME ServiceAssumption ==
    /\ TokensOf \in [Text -> Nat \ {0}]
    /\ BatchSize \in Nat \ {0}
    /\ Batch \subseteq Seq(Text) \ {<<>>}
    /\ MaxAttempts \in Nat \ {0}
    /\ MaxDelay \in Nat
    /\ NoVector \notin Text
    /\ NoModel \notin Model

VARIABLES
    redis,    \* "absent" (the cache was never connected), "up" or "down"
    cache,    \* cache[t]: the vector stored under the key of t
    maker,    \* maker[t]: the model that computed that vector
    door,     \* door[r]: how r entered, "none" while idle
    job,      \* job[r]: what r is doing
    texts,    \* texts[r]: the texts of the request
    model,    \* model[r]: the model it names
    got,      \* got[r]: the vectors received so far
    origin,   \* origin[r]: the model that computed them
    stored,   \* stored[r]: how many of them were offered to the cache
    calls,    \* calls[r]: calls of the provider since its last success
    rest      \* rest[r]: ticks of backoff left

service == <<redis, cache, maker, door, job, texts, model, got, origin, stored, calls, rest>>
evars == <<limiter, service>>

EInit ==
    /\ LimiterInit
    /\ redis \in {"absent", "up"}
    /\ cache = [t \in Text |-> NoVector]
    /\ maker = [t \in Text |-> NoModel]
    /\ door = [r \in Caller |-> "none"]
    /\ job = [r \in Caller |-> "idle"]
    /\ texts = [r \in Caller |-> <<>>]
    /\ model = [r \in Caller |-> NoModel]
    /\ got = [r \in Caller |-> <<>>]
    /\ origin = [r \in Caller |-> NoModel]
    /\ stored = [r \in Caller |-> 0]
    /\ calls = [r \in Caller |-> 0]
    /\ rest = [r \in Caller |-> 0]

Becomes(r, j) == job' = [job EXCEPT ![r] = j]

Enter(r, d, ts, m) ==
    /\ job[r] = "idle"
    /\ door' = [door EXCEPT ![r] = d]
    /\ texts' = [texts EXCEPT ![r] = ts]
    /\ model' = [model EXCEPT ![r] = m]
    /\ UNCHANGED <<redis, cache, maker, stored, rest>>

\* Bug: every sub-batch is paired with the first texts of the request.
BugSubBatch(ts, n) == SubSeq(ts, 1, Least(BatchSize, Len(ts) - n))

\* The sub-batch that follows the first n texts.
SubBatch(ts, n) == SubSeq(ts, n + 1, Least(n + BatchSize, Len(ts)))

TokensIn(ts) ==
    LET upto[i \in 0..Len(ts)] == IF i = 0 THEN 0 ELSE upto[i - 1] + TokensOf[ts[i]]
    IN  upto[Len(ts)]

-----------------------------------------------------------------------------
(* The four doors *)

\* POST /embed, answered from the cache, whose key is the text alone.
Hit(r, t, m) ==
    /\ Enter(r, "single", <<t>>, m)
    /\ redis = "up"
    /\ cache[t] # NoVector
    /\ got' = [got EXCEPT ![r] = <<cache[t]>>]
    /\ origin' = [origin EXCEPT ![r] = maker[t]]
    /\ Becomes(r, "answered")
    /\ UNCHANGED <<limiter, calls>>

\* POST /embed while Redis is down: get raises CacheError, answered with 500.
CacheFails(r, t, m) ==
    /\ Enter(r, "single", <<t>>, m)
    /\ redis = "down"
    /\ Becomes(r, "failed")
    /\ UNCHANGED <<limiter, got, origin, calls>>

\* POST /embed without an entry, or without a connection to the cache.
Miss(r, t, m) ==
    /\ Enter(r, "single", <<t>>, m)
    /\ redis # "down"
    /\ redis = "up" => cache[t] = NoVector
    /\ Becomes(r, "waiting")
    /\ BeginWait(r, TokensOf[t])
    /\ UNCHANGED <<got, origin, calls>>

EmbedDirect(r, t, m) ==
    /\ Enter(r, "direct", <<t>>, m)
    /\ Becomes(r, "waiting")
    /\ BeginWait(r, TokensOf[t])
    /\ UNCHANGED <<got, origin, calls>>

EmbedBatch(r, ts, m) ==
    /\ Enter(r, "batch", ts, m)
    /\ Becomes(r, "waiting")
    /\ BeginWait(r, TokensIn(SubBatch(ts, 0)))
    /\ UNCHANGED <<got, origin, calls>>

RetryWithBackoff(r, t, m) ==
    /\ Enter(r, "helper", <<t>>, m)
    /\ Becomes(r, "calling")
    /\ calls' = [calls EXCEPT ![r] = 1]
    /\ UNCHANGED <<limiter, got, origin>>

-----------------------------------------------------------------------------
(* Waiting for the limiter, and the call of the provider *)

CallProvider(r) ==
    /\ job[r] = "waiting"
    /\ phase[r] = "granted"
    /\ Leave(r)
    /\ Becomes(r, "calling")
    /\ calls' = [calls EXCEPT ![r] = 1]
    /\ UNCHANGED <<redis, cache, maker, door, texts, model, got, origin, stored, rest>>

\* RateLimitError: wrapped by _embed_internal, raised as it is by embed_batch.
\* Neither is retried, and both end as 500 or as a failed attempt of the task.
Refused(r) ==
    /\ job[r] = "waiting"
    /\ phase[r] = "refused"
    /\ Leave(r)
    /\ Becomes(r, "failed")
    /\ UNCHANGED <<redis, cache, maker, door, texts, model, got, origin, stored, calls, rest>>

Received(r) == got[r] \o SubBatch(texts[r], Len(got[r]))

\* The provider has embedded the sub-batch: on to the next one, to the cache,
\* or to the answer.
ProviderAnswers(r) ==
    /\ job[r] = "calling"
    /\ got' = [got EXCEPT ![r] = Received(r)]
    /\ origin' = [origin EXCEPT ![r] = model[r]]
    /\ calls' = [calls EXCEPT ![r] = 0]
    /\ IF Len(got'[r]) < Len(texts[r])
       THEN /\ BeginWait(r, TokensIn(SubBatch(texts[r], Len(got'[r]))))
            /\ Becomes(r, "waiting")
       ELSE /\ Becomes(r, IF door[r] \in {"single", "batch"} THEN "storing" ELSE "answered")
            /\ UNCHANGED limiter
    /\ UNCHANGED <<redis, cache, maker, door, texts, model, stored, rest>>

\* _embed_internal wraps every error before the retry policy sees it.
Seen(r, error) == IF door[r] = "helper" THEN error ELSE "embedding"

\* _is_retryable, and an attempt is left.  embed_batch has no policy at all.
Retries(r, error) == Seen(r, error) = "transient" /\ calls[r] < MaxAttempts

\* The initial delay is one tick, and every attempt doubles it up to the limit.
Delay(attempt) ==
    LET delay[i \in 0..attempt] == IF i = 0 THEN 1 ELSE 2 * delay[i - 1]
    IN  Least(MaxDelay, delay[attempt])

\* ExponentialBackoff.get_delay for the attempt that failed, with its jitter.
Delays(attempt) == Delay(attempt)..Nap(Delay(attempt))

\* error is "transient" (a connection or a timeout) or "fatal"; a request that
\* ends by a transient error is "exhausted".
ProviderFails(r, error) ==
    /\ job[r] = "calling"
    /\ IF Retries(r, error)
       THEN /\ Becomes(r, "backoff")
            /\ \E d \in Delays(calls[r] - 1) : rest' = [rest EXCEPT ![r] = d]
       ELSE /\ Becomes(r, IF error = "transient" THEN "exhausted" ELSE "failed")
            /\ UNCHANGED rest
    /\ UNCHANGED <<limiter, redis, cache, maker, door, texts, model, got, origin, stored, calls>>

TryAgain(r) ==
    /\ job[r] = "backoff"
    /\ rest[r] = 0
    /\ Becomes(r, "calling")
    /\ calls' = [calls EXCEPT ![r] = calls[r] + 1]
    /\ UNCHANGED <<limiter, redis, cache, maker, door, texts, model, got, origin, stored, rest>>

-----------------------------------------------------------------------------
(* The end of a request *)

\* Bug: a CacheError of set ends the request.
BugStored(r) == IF redis = "down" THEN "failed" ELSE "answered"

\* A CacheError of set is only logged.
Stored(r) == "answered"

\* cache.set for the next vector; without a connection it does nothing.
Store(r) ==
    /\ job[r] = "storing"
    /\ LET i == stored[r] + 1 IN
        /\ stored' = [stored EXCEPT ![r] = i]
        /\ IF redis = "up"
           THEN /\ cache' = [cache EXCEPT ![texts[r][i]] = got[r][i]]
                /\ maker' = [maker EXCEPT ![texts[r][i]] = origin[r]]
           ELSE UNCHANGED <<cache, maker>>
        /\ Becomes(r, IF i < Len(texts[r]) THEN "storing" ELSE Stored(r))
    /\ UNCHANGED <<limiter, redis, door, texts, model, got, origin, calls, rest>>

Ended == {"answered", "failed", "exhausted"}

\* Everything the request held is given up.
Forgotten(r) ==
    /\ Becomes(r, "idle")
    /\ door' = [door EXCEPT ![r] = "none"]
    /\ texts' = [texts EXCEPT ![r] = <<>>]
    /\ model' = [model EXCEPT ![r] = NoModel]
    /\ got' = [got EXCEPT ![r] = <<>>]
    /\ origin' = [origin EXCEPT ![r] = NoModel]
    /\ stored' = [stored EXCEPT ![r] = 0]
    /\ calls' = [calls EXCEPT ![r] = 0]
    /\ rest' = [rest EXCEPT ![r] = 0]
    /\ UNCHANGED <<redis, cache, maker>>

Return(r) ==
    /\ job[r] \in Ended
    /\ Forgotten(r)
    /\ UNCHANGED limiter

\* The timeout of the worker's task cancels the handler at an await.
Cancel(r) ==
    /\ door[r] = "direct"
    /\ \/ job[r] = "waiting" /\ Leave(r)
       \/ job[r] = "calling" /\ UNCHANGED limiter
    /\ Forgotten(r)

-----------------------------------------------------------------------------
(* Around the requests *)

RedisFails ==
    /\ redis = "up"
    /\ redis' = "down"
    /\ UNCHANGED <<limiter, cache, maker, door, job, texts, model, got, origin, stored, calls, rest>>

RedisRecovers ==
    /\ redis = "down"
    /\ redis' = "up"
    /\ UNCHANGED <<limiter, cache, maker, door, job, texts, model, got, origin, stored, calls, rest>>

\* The entry expires, is deleted, or goes with all the others (clear).
Forget(t) ==
    /\ redis = "up"
    /\ cache[t] # NoVector
    /\ cache' = [cache EXCEPT ![t] = NoVector]
    /\ maker' = [maker EXCEPT ![t] = NoModel]
    /\ UNCHANGED <<limiter, redis, door, job, texts, model, got, origin, stored, calls, rest>>

Limit(r) == LimiterStep(r) /\ UNCHANGED service

\* Code that uses the limiter without waiting, or resets it.
Outside ==
    /\ \/ \E n \in 1..MaxRequest : Acquire(n) \/ Consume(n)
       \/ CheckCapacity \/ ResetProvider
    /\ UNCHANGED service

ETick ==
    /\ Tick
    /\ rest' = [r \in Caller |-> IF rest[r] > 0 THEN rest[r] - 1 ELSE 0]
    /\ UNCHANGED <<redis, cache, maker, door, job, texts, model, got, origin, stored, calls>>

Arrive(r) == \E m \in Model :
    \/ \E t \in Text : \/ Hit(r, t, m) \/ CacheFails(r, t, m) \/ Miss(r, t, m)
                       \/ EmbedDirect(r, t, m) \/ RetryWithBackoff(r, t, m)
    \/ \E ts \in Batch : EmbedBatch(r, ts, m)

\* What a request does by itself once it has arrived.
Proceed(r) ==
    \/ Limit(r) \/ CallProvider(r) \/ Refused(r)
    \/ ProviderAnswers(r) \/ (\E error \in {"transient", "fatal"} : ProviderFails(r, error))
    \/ TryAgain(r) \/ Store(r)

ENext ==
    \/ \E r \in Caller : Arrive(r) \/ Proceed(r) \/ Return(r) \/ Cancel(r)
    \/ \E t \in Text : Forget(t)
    \/ RedisFails \/ RedisRecovers \/ Outside \/ ETick

ESpec == EInit /\ [][ENext]_evars

\* Time goes on, the event loop runs every coroutine that can go on, and the
\* client library answers or times out.
EFairSpec == ESpec /\ WF_evars(ETick) /\ \A r \in Caller : WF_evars(Proceed(r))

-----------------------------------------------------------------------------
(* Properties *)

ETypeOK ==
    /\ LimiterTypeOK
    /\ redis \in {"absent", "up", "down"}
    /\ cache \in [Text -> Text \cup {NoVector}]
    /\ maker \in [Text -> Model \cup {NoModel}]
    /\ door \in [Caller -> {"none", "single", "batch", "direct", "helper"}]
    /\ job \in [Caller -> Ended \cup {"idle", "waiting", "calling", "backoff", "storing"}]
    /\ texts \in [Caller -> Seq(Text)]
    /\ model \in [Caller -> Model \cup {NoModel}]
    /\ got \in [Caller -> Seq(Text)]
    /\ origin \in [Caller -> Model \cup {NoModel}]
    /\ stored \in [Caller -> Nat]
    /\ calls \in [Caller -> 0..MaxAttempts]
    /\ rest \in [Caller -> Nat]

\* Cached or fresh, from whichever sub-batch: an answer holds the vectors of
\* the texts asked for, in their order, and the cache never gives the vector of
\* one text for another.
VectorsMatch ==
    /\ \A t \in Text : cache[t] \in {t, NoVector}
    /\ \A r \in Caller : job[r] \in {"storing", "answered"} => got[r] = texts[r]

\* The vectors of an answer were computed by the model the answer names, which
\* is the model the request names ("Modelo utilizado", api/models.py).  It does
\* not hold with two models: the key of the cache is the text alone.
ModelMatches == \A r \in Caller : job[r] = "answered" => origin[r] = model[r]

\* A single request whose vector was paid for is answered, whatever the cache
\* does afterwards.
PaidAnswered ==
    \A r \in Caller : door[r] = "single" /\ job[r] \in Ended /\ got[r] # <<>> => job[r] = "answered"

\* Every request ends, with an answer or an error: neither a request larger
\* than the bucket, nor a bucket others keep empty, nor a failing provider
\* holds it for ever.
RequestsEnd == \A r \in Caller : job[r] # "idle" ~> job[r] \in Ended \cup {"idle"}
=============================================================================
