---------------------------- MODULE GatewayProofs ----------------------------
(***************************************************************************)
(* Proofs about ApiGateway, for any number of processes, any limit, window, *)
(* number of tries and of polls.                                            *)
(***************************************************************************)
EXTENDS ApiGateway, TLAPS

-----------------------------------------------------------------------------
(* Types *)

MiddlewareTypes ==
    /\ redisUp \in BOOLEAN
    /\ clock \in 0..(Window - 1)
    /\ mode \in [Process -> {"fresh", "redis", "local"}]
    /\ count \in 0..(Rpm + 1)
    /\ localCount \in [Process -> 0..(Rpm + 1)]
    /\ localAge \in [Process -> 0..Window]
    /\ byRedis \in 0..(Rpm + 1)
    /\ byLocal \in [Process -> 0..(2 * Rpm + 1)]
    /\ quiet \in 0..Window

\* make_request only goes on while it has a try left.
ClientTypes ==
    /\ step \in Final \cup {"ready", "waiting", "sleeping", "polling"}
    /\ tries \in 0..MaxTries
    /\ step \in {"ready", "sleeping"} => tries < MaxTries
    /\ step = "waiting" => tries \in Attempt
    /\ polls \in 0..MaxPolls
    /\ server \in [Attempt -> {"none", "running", "202", "500"}]
    /\ docs \in 0..1
    /\ progress \in {"pending", "done", "failed"}
    /\ mine \in BOOLEAN /\ lost \in BOOLEAN /\ unsure \in BOOLEAN

LEMMA CappedRange ==
    ASSUME NEW bound \in Nat, NEW n \in Nat
    PROVE  /\ Capped(n, bound) \in 0..bound
           /\ n <= bound => Capped(n, bound) = n
           /\ n > bound => Capped(n, bound) = bound
  BY DEF Capped

LEMMA MiddlewareInit == GInit => MiddlewareTypes
<1> SUFFICES ASSUME GInit PROVE MiddlewareTypes
  OBVIOUS
<1>1. /\ clock \in 0..(Window - 1) /\ count \in 0..(Rpm + 1) /\ byRedis \in 0..(Rpm + 1)
      /\ quiet \in 0..Window
  BY GatewayAssumption DEF GInit
<1>2. /\ localCount \in [Process -> 0..(Rpm + 1)] /\ localAge \in [Process -> 0..Window]
      /\ byLocal \in [Process -> 0..(2 * Rpm + 1)]
  BY GatewayAssumption DEF GInit
<1>3. redisUp \in BOOLEAN /\ mode \in [Process -> {"fresh", "redis", "local"}]
  BY DEF GInit
<1> QED BY <1>1, <1>2, <1>3 DEF MiddlewareTypes

\* One request counted, wherever it is counted.
LEMMA AdmitTypes ==
    ASSUME MiddlewareTypes, NEW p \in Process, NEW passes \in BOOLEAN, Admit(p, passes)
    PROVE  MiddlewareTypes'
<1> USE GatewayAssumption
<1>1. Backend(p) \in {"fresh", "redis", "local"}
  BY DEF Backend, MiddlewareTypes
<1>2. /\ mode' \in [Process -> {"fresh", "redis", "local"}]
      /\ quiet' \in 0..Window /\ redisUp' = redisUp /\ clock' = clock
  BY <1>1 DEF Admit, MiddlewareTypes
<1>3. CASE CountInRedis(p, passes)
  <2>1. count' \in 0..(Rpm + 1)
    BY <1>3, CappedRange DEF CountInRedis, MiddlewareTypes
  <2>2. byRedis' \in 0..(Rpm + 1)
    BY <1>3 DEF Capped, CountInRedis, MiddlewareTypes
  <2> QED BY <1>2, <1>3, <2>1, <2>2 DEF CountInRedis, MiddlewareTypes
<1>4. CASE FailOpen(p, passes)
  BY <1>2, <1>4 DEF FailOpen, MiddlewareTypes
<1>5. CASE CountLocally(p, passes)
  <2>1. LocalCount(p) \in Nat /\ LocalStart(p) \in 0..Window
    BY DEF LocalCount, LocalStart, MiddlewareTypes
  <2>2. Capped(LocalCount(p), Rpm + 1) \in 0..(Rpm + 1)
    BY <2>1 DEF Capped
  <2>3. Capped(byLocal[p] + 1, 2 * Rpm + 1) \in 0..(2 * Rpm + 1)
    <3>1. byLocal[p] \in 0..(2 * Rpm + 1)
      BY DEF MiddlewareTypes
    <3> QED BY <3>1 DEF Capped
  <2>4. /\ localCount' \in [Process -> 0..(Rpm + 1)] /\ localAge' \in [Process -> 0..Window]
        /\ byLocal' \in [Process -> 0..(2 * Rpm + 1)]
    BY <1>5, <2>1, <2>2, <2>3 DEF CountLocally, MiddlewareTypes
  <2> QED BY <1>2, <1>5, <2>4 DEF CountLocally, MiddlewareTypes
<1> QED BY <1>3, <1>4, <1>5 DEF Admit

LEMMA MiddlewareStep == MiddlewareTypes /\ [GNext]_gvars => MiddlewareTypes'
<1> SUFFICES ASSUME MiddlewareTypes, [GNext]_gvars PROVE MiddlewareTypes'
  OBVIOUS
<1> USE GatewayAssumption
<1>1. ASSUME NEW p \in Process, Post(p) \/ TooMany(p) \/ PollAnswered(p) \/ PollRefused(p)
      PROVE  MiddlewareTypes'
  BY <1>1, AdmitTypes DEF Post, TooMany, PollAnswered, PollRefused
<1>2. ASSUME GTick PROVE MiddlewareTypes'
  <2>1. clock' \in 0..(Window - 1)
    BY <1>2 DEF GTick, MiddlewareTypes
  <2>2. count' \in 0..(Rpm + 1) /\ byRedis' \in 0..(Rpm + 1)
    BY <1>2 DEF GTick, MiddlewareTypes
  <2>3. byLocal' \in [Process -> 0..(2 * Rpm + 1)]
    BY <1>2 DEF GTick, MiddlewareTypes
  <2>4. localAge' \in [Process -> 0..Window] /\ quiet' \in 0..Window
    BY <1>2, CappedRange DEF GTick, MiddlewareTypes
  <2> QED BY <1>2, <2>1, <2>2, <2>3, <2>4 DEF GTick, MiddlewareTypes
<1>3. ASSUME RedisFlips PROVE MiddlewareTypes'
  <2>1. redisUp' \in BOOLEAN
    BY <1>3 DEF RedisFlips
  <2> QED BY <1>3, <2>1 DEF RedisFlips, MiddlewareTypes
<1>4. ASSUME NEW p \in Process, Restart(p) PROVE MiddlewareTypes'
  BY <1>4 DEF Restart, MiddlewareTypes
<1>5. ASSUME UNCHANGED middleware PROVE MiddlewareTypes'
  BY <1>5 DEF middleware, MiddlewareTypes
<1>6. ASSUME NEW a \in Attempt, Ingest(a) \/ IngestFails(a) \/ LoseAnswer(a) \/ Deliver(a)
      PROVE  MiddlewareTypes'
  BY <1>5, <1>6 DEF Ingest, IngestFails, LoseAnswer, Deliver
<1>7. ASSUME GiveUpOnAnswer \/ WakeUp \/ StartPolling \/ PollTimeout \/ Rerun \/ Work
             \/ UNCHANGED gvars
      PROVE  MiddlewareTypes'
  BY <1>5, <1>7 DEF GiveUpOnAnswer, WakeUp, StartPolling, PollTimeout, Rerun, Work, gvars
<1> QED BY <1>1, <1>2, <1>3, <1>4, <1>6, <1>7 DEF GNext, ClientStep

LEMMA ClientInit == GInit => ClientTypes
<1> SUFFICES ASSUME GInit PROVE ClientTypes
  OBVIOUS
<1>1. /\ tries \in 0..MaxTries /\ tries < MaxTries /\ polls \in 0..MaxPolls /\ docs \in 0..1
      /\ step = "ready" /\ progress = "pending"
  BY GatewayAssumption DEF GInit
<1>2. server \in [Attempt -> {"none", "running", "202", "500"}]
  BY DEF GInit
<1>3. mine \in BOOLEAN /\ lost \in BOOLEAN /\ unsure \in BOOLEAN
  BY DEF GInit
<1> QED BY <1>1, <1>2, <1>3 DEF ClientTypes

LEMMA ClientStepTypes == ClientTypes /\ [GNext]_gvars => ClientTypes'
<1> SUFFICES ASSUME ClientTypes, [GNext]_gvars PROVE ClientTypes'
  OBVIOUS
<1> USE GatewayAssumption DEF Attempt, Final
<1>1. ASSUME NEW p \in Process, Post(p) PROVE ClientTypes'
  <2>1. tries' = tries + 1 /\ tries + 1 \in 1..MaxTries /\ step' = "waiting"
    BY <1>1 DEF Post, ClientTypes
  <2>2. server' \in [Attempt -> {"none", "running", "202", "500"}]
    BY <1>1, <2>1 DEF Post, ClientTypes
  <2> QED BY <1>1, <2>1, <2>2 DEF Post, ClientTypes
<1>2. ASSUME NEW p \in Process, TooMany(p) PROVE ClientTypes'
  <2>1. tries' = tries + 1 /\ tries + 1 \in 1..MaxTries /\ step' = "refused"
    BY <1>2 DEF TooMany, ClientTypes
  <2> QED BY <1>2, <2>1 DEF TooMany, ClientTypes
<1>3. ASSUME NEW p \in Process, PollAnswered(p) \/ PollRefused(p) PROVE ClientTypes'
  <2>1. polls' = polls + 1 /\ polls < MaxPolls
    BY <1>3 DEF PollAnswered, PollRefused
  <2>2. step' \in {"reported", "polling"}
    BY <1>3 DEF PollAnswered, PollRefused
  <2>3. polls + 1 \in 0..MaxPolls
    BY <2>1 DEF ClientTypes
  <2> QED BY <1>3, <2>1, <2>2, <2>3 DEF PollAnswered, PollRefused, ClientTypes
<1>4. ASSUME NEW a \in Attempt, Ingest(a) \/ IngestFails(a) PROVE ClientTypes'
  <2>1. server' \in [Attempt -> {"none", "running", "202", "500"}]
    BY <1>4 DEF Ingest, IngestFails, Accepted, ClientTypes
  <2>2. docs' \in 0..1 /\ progress' \in {"pending", "done", "failed"}
    BY <1>4 DEF Ingest, IngestFails, Create, Duplicate, ClientTypes
  <2>3. mine' \in BOOLEAN /\ unsure' \in BOOLEAN
    <3>1. mine' = TRUE \/ mine' = mine
      BY <1>4 DEF Ingest, IngestFails, Create
    <3>2. unsure' = TRUE \/ unsure' = unsure
      BY <1>4 DEF Ingest, IngestFails
    <3> QED BY <3>1, <3>2 DEF ClientTypes
  <2>4. UNCHANGED <<step, tries, polls, lost>>
    BY <1>4 DEF Ingest, IngestFails
  <2> QED BY <2>1, <2>2, <2>3, <2>4 DEF ClientTypes
<1>5. ASSUME NEW a \in Attempt, LoseAnswer(a) \/ Deliver(a) PROVE ClientTypes'
  <2>1. server' \in [Attempt -> {"none", "running", "202", "500"}]
    BY <1>5 DEF LoseAnswer, Deliver, ClientTypes
  <2>2. /\ step' \in Final \cup {"ready", "waiting", "sleeping", "polling"}
        /\ step' \in {"ready", "sleeping"} => tries < MaxTries
        /\ step' = "waiting" => tries \in Attempt
    BY <1>5 DEF LoseAnswer, Deliver, AfterFailure, ClientTypes
  <2>3. lost' \in BOOLEAN
    BY <1>5 DEF LoseAnswer, Deliver, ClientTypes
  <2> QED BY <1>5, <2>1, <2>2, <2>3 DEF LoseAnswer, Deliver, ClientTypes
<1>6. ASSUME GiveUpOnAnswer \/ WakeUp \/ StartPolling \/ PollTimeout PROVE ClientTypes'
  <2>1. /\ step' \in Final \cup {"ready", "sleeping", "polling"}
        /\ step' \in {"ready", "sleeping"} => tries < MaxTries
    BY <1>6 DEF GiveUpOnAnswer, WakeUp, StartPolling, PollTimeout, AfterFailure, ClientTypes
  <2>2. polls' \in 0..MaxPolls
    BY <1>6 DEF GiveUpOnAnswer, WakeUp, StartPolling, PollTimeout, ClientTypes
  <2>3. lost' \in BOOLEAN
    BY <1>6 DEF GiveUpOnAnswer, WakeUp, StartPolling, PollTimeout, ClientTypes
  <2>4. UNCHANGED <<tries, server, docs, progress, mine, unsure>>
    BY <1>6 DEF GiveUpOnAnswer, WakeUp, StartPolling, PollTimeout
  <2> QED BY <2>1, <2>2, <2>3, <2>4 DEF ClientTypes
<1>7. ASSUME Rerun \/ Work PROVE ClientTypes'
  <2>1. CASE Rerun
    <3>1. /\ step' = "ready" /\ tries' = 0 /\ polls' = 0 /\ UNCHANGED <<server, docs, progress>>
      BY <2>1 DEF Rerun
    <3>2. mine' \in BOOLEAN /\ lost' \in BOOLEAN /\ unsure' \in BOOLEAN
      BY <2>1 DEF Rerun
    <3>3. 0 \in 0..MaxTries /\ 0 < MaxTries /\ 0 \in 0..MaxPolls
      OBVIOUS
    <3> QED BY <3>1, <3>2, <3>3 DEF ClientTypes
  <2>2. CASE Work
    BY <2>2 DEF Work, ClientTypes
  <2> QED BY <1>7, <2>1, <2>2
<1>8. ASSUME UNCHANGED client PROVE ClientTypes'
  BY <1>8 DEF client, ClientTypes
<1>9. ASSUME NEW p \in Process, Restart(p) PROVE ClientTypes'
  BY <1>8, <1>9 DEF Restart
<1>10. ASSUME GTick \/ RedisFlips \/ UNCHANGED gvars PROVE ClientTypes'
  BY <1>8, <1>10 DEF GTick, RedisFlips, gvars
<1> QED BY <1>1, <1>2, <1>3, <1>4, <1>5, <1>6, <1>7, <1>9, <1>10 DEF GNext, ClientStep

LEMMA GatewayTypes == GSpec => [](MiddlewareTypes /\ ClientTypes)
  BY MiddlewareInit, MiddlewareStep, ClientInit, ClientStepTypes, PTL DEF GSpec

\* Every counter, capped or not, stays in its range, and no attempt is made
\* after the last one (make_request, cli/client.py).
THEOREM GatewayTypesHold == GSpec => []GTypeOK
<1>1. MiddlewareTypes /\ ClientTypes => GTypeOK
  BY DEF MiddlewareTypes, ClientTypes, GTypeOK
<1> QED BY <1>1, GatewayTypes, PTL

-----------------------------------------------------------------------------
(* The client *)

\* What the client knows as long as no answer was lost and no commit was cut
\* off from its acknowledgement: only its current attempt
\* is at the server, and while it waits it will be answered; if this invocation
\* has created the document, the 202 is on its way or has arrived.
AnswerOutstanding ==
    ~lost /\ ~unsure =>
        /\ \A a \in Attempt : server[a] # "none" => step = "waiting" /\ a = tries
        /\ step = "waiting" => server[tries] # "none"
        /\ mine => \/ step = "waiting" /\ server[tries] = "202"
                   \/ step \in {"accepted", "polling", "reported", "timedout"}

\* Who created the document knows that it is there.
MineExists == mine => docs = 1

LEMMA ClientKnows ==
    ClientTypes /\ AnswerOutstanding /\ MineExists /\ [GNext]_gvars
        => AnswerOutstanding' /\ MineExists'
<1> SUFFICES ASSUME ClientTypes, AnswerOutstanding, MineExists, [GNext]_gvars
             PROVE  AnswerOutstanding' /\ MineExists'
  OBVIOUS
<1> USE GatewayAssumption DEF Final
<1>1. ASSUME NEW p \in Process, Post(p) PROVE AnswerOutstanding' /\ MineExists'
  <2>1. /\ step = "ready" /\ step' = "waiting" /\ tries' = tries + 1 /\ tries + 1 \in Attempt
        /\ UNCHANGED <<mine, docs, lost, unsure>>
    BY <1>1 DEF Post, ClientTypes, Attempt
  <2>2. server'[tries + 1] = "running" /\ \A a \in Attempt \ {tries + 1} : server'[a] = server[a]
    BY <1>1, <2>1 DEF Post, ClientTypes
  <2>3. AnswerOutstanding'
    BY <2>1, <2>2 DEF AnswerOutstanding
  <2> QED BY <2>1, <2>3 DEF MineExists
<1>2. ASSUME NEW p \in Process, TooMany(p) \/ PollAnswered(p) \/ PollRefused(p)
      PROVE  AnswerOutstanding' /\ MineExists'
  <2>1. /\ step \in {"ready", "polling"} /\ step' \in {"refused", "polling", "reported"}
        /\ step = "polling" => step' # "refused"
        /\ UNCHANGED <<server, mine, docs, lost, unsure>>
    BY <1>2 DEF TooMany, PollAnswered, PollRefused
  <2> QED BY <2>1 DEF AnswerOutstanding, MineExists
<1>3. ASSUME NEW a \in Attempt, Ingest(a) PROVE AnswerOutstanding' /\ MineExists'
  <2>1. /\ server[a] = "running" /\ UNCHANGED <<step, tries, lost, unsure>>
        /\ server' = [server EXCEPT ![a] = IF docs > 0 THEN "500" ELSE "202"]
        /\ docs > 0 => UNCHANGED <<docs, mine>>
        /\ ~(docs > 0) => docs' = 1 /\ mine'
    BY <1>3 DEF Ingest, Create, Duplicate, Accepted, ClientTypes
  <2>2. MineExists'
    BY <2>1 DEF MineExists, ClientTypes
  <2>3. AnswerOutstanding'
    <3> SUFFICES ASSUME ~lost, ~unsure PROVE AnswerOutstanding'
      BY <2>1 DEF AnswerOutstanding
    <3>1. step = "waiting" /\ a = tries /\ ~mine
      BY <2>1 DEF AnswerOutstanding
    <3>2. server'[a] = IF docs > 0 THEN "500" ELSE "202"
      BY <2>1 DEF ClientTypes
    <3>3. \A b \in Attempt \ {a} : server'[b] = server[b]
      BY <2>1 DEF ClientTypes
    <3> QED BY <2>1, <3>1, <3>2, <3>3 DEF AnswerOutstanding
  <2> QED BY <2>2, <2>3
<1>4. ASSUME NEW a \in Attempt, IngestFails(a), unsure'
      PROVE  AnswerOutstanding' /\ MineExists'
  <2>1. CASE Create
    <3>1. docs' = 1
      BY <2>1 DEF Create, Duplicate, ClientTypes
    <3> QED BY <1>4, <3>1 DEF AnswerOutstanding, MineExists
  <2>2. CASE UNCHANGED <<docs, mine>>
    BY <1>4, <2>2 DEF AnswerOutstanding, MineExists
  <2> QED BY <1>4, <2>1, <2>2 DEF IngestFails
<1>4b. ASSUME NEW a \in Attempt, (IngestFails(a) /\ ~unsure') \/ LoseAnswer(a) \/ Deliver(a)
       PROVE  AnswerOutstanding' /\ MineExists'
  <2>1. /\ server[a] # "none" /\ UNCHANGED <<tries, mine, docs, unsure>>
        /\ \A b \in Attempt \ {a} : server'[b] = server[b]
    BY <1>4b DEF IngestFails, LoseAnswer, Deliver, ClientTypes
  <2>2. AnswerOutstanding'
    <3> SUFFICES ASSUME ~lost, ~lost', ~unsure PROVE AnswerOutstanding'
      BY <1>4b, <2>1 DEF AnswerOutstanding, IngestFails, LoseAnswer, Deliver
    <3>1. step = "waiting" /\ a = tries
      BY <2>1 DEF AnswerOutstanding
    <3>2. CASE IngestFails(a)
      <4>1. server[a] = "running" /\ server'[a] = "500" /\ step' = step
        BY <3>2 DEF IngestFails, ClientTypes
      <4> QED BY <2>1, <3>1, <4>1 DEF AnswerOutstanding
    <3>3. CASE Deliver(a)
      <4>1. /\ server'[a] = "none"
            /\ step' = IF server[a] = "500" THEN AfterFailure ELSE "accepted"
        BY <3>1, <3>3 DEF Deliver, ClientTypes
      <4>2. AfterFailure \in {"sleeping", "error"}
        BY DEF AfterFailure
      <4> QED BY <2>1, <3>1, <4>1, <4>2 DEF AnswerOutstanding
    <3>4. ~LoseAnswer(a)
      BY <3>1 DEF LoseAnswer
    <3> QED BY <1>4b, <3>2, <3>3, <3>4
  <2> QED BY <2>1, <2>2 DEF MineExists
<1>5. ASSUME GiveUpOnAnswer PROVE AnswerOutstanding' /\ MineExists'
  BY <1>5 DEF GiveUpOnAnswer, AnswerOutstanding, MineExists
<1>6. ASSUME WakeUp \/ StartPolling \/ PollTimeout PROVE AnswerOutstanding' /\ MineExists'
  BY <1>6 DEF WakeUp, StartPolling, PollTimeout, AnswerOutstanding, MineExists
<1>7. ASSUME Rerun PROVE AnswerOutstanding' /\ MineExists'
  BY <1>7 DEF Rerun, AnswerOutstanding, MineExists
<1>8. ASSUME UNCHANGED <<step, tries, server, docs, mine, lost, unsure>>
      PROVE  AnswerOutstanding' /\ MineExists'
  BY <1>8 DEF AnswerOutstanding, MineExists
<1>9. ASSUME NEW p \in Process, Restart(p) PROVE AnswerOutstanding' /\ MineExists'
  BY <1>8, <1>9 DEF Restart, client
<1>10. ASSUME Work \/ GTick \/ RedisFlips \/ UNCHANGED gvars
       PROVE  AnswerOutstanding' /\ MineExists'
  BY <1>8, <1>10 DEF Work, GTick, RedisFlips, gvars, client
<1> QED BY <1>1, <1>2, <1>3, <1>4, <1>5, <1>6, <1>7, <1>9, <1>10, <1>4b DEF GNext, ClientStep

\* The retries of make_request do no harm by themselves: an error about a document
\* that this invocation has created means that an answer was lost or came late, or
\* that a COMMIT (router.py:433) succeeded unseen by the process that answered 500.
THEOREM RetriesHarmless == GSpec => []FailureExplained
<1>1. GInit => AnswerOutstanding /\ MineExists
  BY DEF GInit, AnswerOutstanding, MineExists
<1>2. AnswerOutstanding => FailureExplained
  BY DEF AnswerOutstanding, FailureExplained
<1> QED BY <1>1, <1>2, ClientKnows, GatewayTypes, PTL DEF GSpec

-----------------------------------------------------------------------------
(* The counters of the middleware *)

\* Within one window of the clock: Redis has let through no more than it has
\* counted; a local window that began before the clock's has counted all that
\* its process let through; one that began after it has its own limit on top
\* of the limit of its predecessor, and does not end before the clock's window.
\* Whoever was quiet for longer than the clock's window is counted nowhere, and
\* no local window began after the last request.
WindowInv ==
    /\ byRedis <= count /\ byRedis <= Rpm
    /\ quiet > clock => count = 0
    /\ \A p \in Process :
        /\ localAge[p] > clock => byLocal[p] <= localCount[p] /\ byLocal[p] <= Rpm
        /\ localAge[p] <= clock => byLocal[p] <= Rpm + localCount[p] /\ byLocal[p] <= 2 * Rpm
        /\ localAge[p] >= quiet

LEMMA WindowInit == GInit => WindowInv
  BY GatewayAssumption DEF GInit, WindowInv

LEMMA WindowAdmit ==
    ASSUME MiddlewareTypes, WindowInv, NEW p \in Process, NEW passes \in BOOLEAN, Admit(p, passes)
    PROVE  WindowInv'
<1> USE GatewayAssumption
<1>1. clock' = clock /\ quiet' = 0 /\ clock \in Nat
  BY DEF Admit, MiddlewareTypes
<1>2. CASE CountInRedis(p, passes)
  <2>1. UNCHANGED <<localCount, localAge, byLocal>>
    BY <1>2 DEF CountInRedis
  <2>2. byRedis \in Nat /\ count \in 0..(Rpm + 1) /\ byRedis <= count /\ byRedis <= Rpm
    BY DEF WindowInv, MiddlewareTypes
  <2>3. CASE passes
    <3>1. /\ count + 1 <= Rpm /\ count' = Capped(count + 1, Rpm + 1)
          /\ byRedis' = Capped(byRedis + 1, Rpm + 1)
      BY <1>2, <2>3 DEF CountInRedis, RedisPasses
    <3>2. Capped(count + 1, Rpm + 1) = count + 1 /\ Capped(byRedis + 1, Rpm + 1) = byRedis + 1
      BY <2>2, <3>1 DEF Capped
    <3>3. byRedis + 1 <= count + 1 /\ byRedis + 1 <= Rpm
      BY <2>2, <3>1
    <3>4. byRedis' <= count' /\ byRedis' <= Rpm
      BY <3>1, <3>2, <3>3
    <3> QED BY <1>1, <2>1, <3>4 DEF WindowInv, MiddlewareTypes
  <2>4. CASE ~passes
    <3>1. count' = Capped(count + 1, Rpm + 1) /\ byRedis' = byRedis
      BY <1>2, <2>4 DEF CountInRedis
    <3>2. count <= Capped(count + 1, Rpm + 1) /\ Capped(count + 1, Rpm + 1) \in Nat
      BY <2>2 DEF Capped
    <3>3. byRedis' <= count' /\ byRedis' <= Rpm
      BY <2>2, <3>1, <3>2
    <3> QED BY <1>1, <2>1, <3>3 DEF WindowInv, MiddlewareTypes
  <2> QED BY <2>3, <2>4
<1>3. CASE FailOpen(p, passes)
  BY <1>1, <1>3 DEF FailOpen, WindowInv, MiddlewareTypes
<1>4. CASE CountLocally(p, passes)
  <2> DEFINE n == LocalCount(p)
  <2>1. /\ localCount[p] \in 0..(Rpm + 1) /\ localAge[p] \in 0..Window /\ clock \in 0..(Window - 1)
        /\ byLocal[p] \in 0..(2 * Rpm + 1) /\ n \in 1..(Rpm + 2)
    BY DEF MiddlewareTypes, LocalCount
  <2>2. /\ localCount'[p] = Capped(n, Rpm + 1) /\ localAge'[p] = LocalStart(p)
        /\ byLocal'[p] = IF passes THEN Capped(byLocal[p] + 1, 2 * Rpm + 1) ELSE byLocal[p]
        /\ passes => n <= Rpm
    BY <1>4 DEF CountLocally, MiddlewareTypes
  <2>3. \A q \in Process \ {p} : /\ localCount'[q] = localCount[q] /\ localAge'[q] = localAge[q]
                                 /\ byLocal'[q] = byLocal[q]
    BY <1>4 DEF CountLocally, MiddlewareTypes
  <2>4. /\ localAge[p] > clock => byLocal[p] <= localCount[p] /\ byLocal[p] <= Rpm
        /\ localAge[p] <= clock => byLocal[p] <= Rpm + localCount[p] /\ byLocal[p] <= 2 * Rpm
    BY DEF WindowInv
  <2> DEFINE more == IF passes THEN byLocal[p] + 1 ELSE byLocal[p]
             total == Capped(n, Rpm + 1)
  <2>5. byLocal'[p] = more /\ total \in Nat
    BY <2>1, <2>2, <2>4 DEF Capped
  <2>6. /\ LocalStart(p) > clock => more <= total /\ more <= Rpm
        /\ LocalStart(p) <= clock => more <= Rpm + total /\ more <= 2 * Rpm
        /\ LocalStart(p) \in Nat
    BY <2>1, <2>2, <2>4 DEF Expired, LocalStart, LocalCount, Capped
  <2>7. /\ localAge'[p] > clock' => byLocal'[p] <= localCount'[p] /\ byLocal'[p] <= Rpm
        /\ localAge'[p] <= clock' => byLocal'[p] <= Rpm + localCount'[p] /\ byLocal'[p] <= 2 * Rpm
        /\ localAge'[p] >= quiet'
    BY <1>1, <2>2, <2>5, <2>6
  <2>8. byRedis' = byRedis /\ count' = count
    BY <1>4 DEF CountLocally
  <2> QED BY <1>1, <2>3, <2>7, <2>8 DEF WindowInv, MiddlewareTypes
<1> QED BY <1>2, <1>3, <1>4 DEF Admit

LEMMA WindowStep == MiddlewareTypes /\ WindowInv /\ [GNext]_gvars => WindowInv'
<1> SUFFICES ASSUME MiddlewareTypes, WindowInv, [GNext]_gvars PROVE WindowInv'
  OBVIOUS
<1> USE GatewayAssumption
<1>1. ASSUME NEW p \in Process, Post(p) \/ TooMany(p) \/ PollAnswered(p) \/ PollRefused(p)
      PROVE  WindowInv'
  BY <1>1, WindowAdmit DEF Post, TooMany, PollAnswered, PollRefused
<1>2. ASSUME GTick PROVE WindowInv'
  <2>1. /\ clock \in 0..(Window - 1) /\ quiet \in 0..Window /\ count \in Nat /\ byRedis \in Nat
        /\ \A p \in Process : /\ localAge[p] \in 0..Window /\ localCount[p] \in Nat
                              /\ byLocal[p] \in Nat
    BY DEF MiddlewareTypes
  <2>2. /\ \A p \in Process : localAge'[p] = Capped(localAge[p] + 1, Window)
        /\ quiet' = Capped(quiet + 1, Window) /\ localCount' = localCount
    BY <1>2 DEF GTick
  <2>3. \A p \in Process : Capped(localAge[p] + 1, Window) >= Capped(quiet + 1, Window)
    BY <2>1 DEF Capped, WindowInv
  <2>4. CASE clock + 1 = Window
    <3>1. clock' = 0 /\ count' = 0 /\ byRedis' = 0 /\ \A p \in Process : byLocal'[p] = 0
      BY <1>2, <2>4 DEF GTick
    <3> QED BY <2>1, <2>2, <2>3, <3>1 DEF WindowInv
  <2>5. CASE clock + 1 # Window
    <3>1. clock' = clock + 1 /\ UNCHANGED <<count, byRedis, byLocal>>
      BY <1>2, <2>5 DEF GTick
    <3>2. \A p \in Process : Capped(localAge[p] + 1, Window) > clock + 1 <=> localAge[p] > clock
      BY <2>1, <2>5 DEF Capped
    <3>3. Capped(quiet + 1, Window) > clock + 1 => quiet > clock
      BY <2>1, <2>5 DEF Capped
    <3> QED BY <2>1, <2>2, <2>3, <3>1, <3>2, <3>3 DEF WindowInv
  <2> QED BY <2>4, <2>5
<1>3. ASSUME NEW p \in Process, Restart(p) PROVE WindowInv'
  BY <1>3 DEF Restart, WindowInv, MiddlewareTypes
<1>4. ASSUME UNCHANGED <<clock, count, localCount, localAge, byRedis, byLocal, quiet>>
      PROVE  WindowInv'
  BY <1>4 DEF WindowInv
<1>5. ASSUME NEW a \in Attempt, Ingest(a) \/ IngestFails(a) \/ LoseAnswer(a) \/ Deliver(a)
      PROVE  WindowInv'
  BY <1>4, <1>5 DEF Ingest, IngestFails, LoseAnswer, Deliver, middleware
<1>6. ASSUME GiveUpOnAnswer \/ WakeUp \/ StartPolling \/ PollTimeout \/ Rerun \/ Work
             \/ RedisFlips \/ UNCHANGED gvars
      PROVE  WindowInv'
  BY <1>4, <1>6
     DEF GiveUpOnAnswer, WakeUp, StartPolling, PollTimeout, Rerun, Work, RedisFlips, gvars, middleware
<1> QED BY <1>1, <1>2, <1>3, <1>5, <1>6 DEF GNext, ClientStep

LEMMA WindowInvariant == GSpec => []WindowInv
  BY WindowInit, WindowStep, GatewayTypes, PTL DEF GSpec

\* In each window of the clock the Redis counter lets its limit through, over
\* all processes, and the counter of one process at most twice its limit
\* (RateLimitMiddleware, main.py).
THEOREM WindowsBounded == GSpec => []WindowBound
<1>1. MiddlewareTypes /\ WindowInv => WindowBound
  BY GatewayAssumption DEF WindowInv, WindowBound, MiddlewareTypes
<1> QED BY <1>1, WindowInvariant, GatewayTypes, PTL

\* "Retry after 60 seconds" (main.py:161) is good advice: who was quiet for a
\* window is not refused, by Redis or by any process that counts for itself.
THEOREM WaitingHelps == GSpec => RetryAfterHelps
<1> DEFINE Helps == step # "refused" /\ quiet = Window => step' # "refused"
<1>1. MiddlewareTypes /\ WindowInv /\ [GNext]_gvars => [Helps]_gvars
  <2> SUFFICES ASSUME MiddlewareTypes, WindowInv, GNext, step # "refused", quiet = Window
               PROVE  step' # "refused"
    OBVIOUS
  <2>1. ASSUME NEW p \in Process, TooMany(p) PROVE FALSE
    <3>1. count = 0 /\ localAge[p] = Window
      BY GatewayAssumption DEF WindowInv, MiddlewareTypes
    <3>2. RedisPasses /\ LocalCount(p) <= Rpm
      BY <3>1, GatewayAssumption DEF RedisPasses, LocalCount, Expired
    <3> QED BY <2>1, <3>2 DEF TooMany, Admit, CountInRedis, FailOpen, CountLocally
  <2>2. ASSUME NEW p \in Process, Post(p) \/ PollAnswered(p) \/ PollRefused(p) \/ Restart(p)
        PROVE  step' # "refused"
    BY <2>2 DEF Post, PollAnswered, PollRefused, Restart, client
  <2>3. ASSUME NEW a \in Attempt, Ingest(a) \/ IngestFails(a) \/ LoseAnswer(a) \/ Deliver(a)
        PROVE  step' # "refused"
    BY <2>3 DEF Ingest, IngestFails, LoseAnswer, Deliver, AfterFailure
  <2>4. ASSUME GiveUpOnAnswer \/ WakeUp \/ StartPolling \/ PollTimeout \/ Rerun \/ Work
               \/ GTick \/ RedisFlips
        PROVE  step' # "refused"
    BY <2>4 DEF GiveUpOnAnswer, WakeUp, StartPolling, PollTimeout, Rerun, Work, GTick, RedisFlips,
                AfterFailure, client
  <2> QED BY <2>1, <2>2, <2>3, <2>4 DEF GNext, ClientStep
<1> QED BY <1>1, WindowInvariant, GatewayTypes, PTL DEF GSpec, RetryAfterHelps
=============================================================================
