--------------------------- MODULE ServiceProofs ---------------------------
(***************************************************************************)
(* Theorems about the three small services.  Of UserAgent, for any set of  *)
(* calls: no block is left to an attempt that will not run it, and none    *)
(* runs twice.  Of RemoteLogs, for any records, sizes and limits: a record *)
(* is not lost without a cause, is in one place at a time unless a batch   *)
(* with it was pushed back twice, and the limit of the file bounds the     *)
(* number of queued records.  Of UrlOpening, for any set of clicks: a      *)
(* click opens one thing, and a store on screen is known.                  *)
(***************************************************************************)
EXTENDS UserAgent, RemoteLogs, UrlOpening, GrowthProofs, FiniteSetTheorems, SequenceTheorems,
        TLAPS

-----------------------------------------------------------------------------
(* UserAgent *)

\* An attempt is under way exactly while the flag says so; the blocks of the set are
\* those of calls that wait, and so are those still to run once it is enumerated.
AttemptInv ==
    /\ isLoadingUserAgent <=> loading # "none"
    /\ toRun # {} => loading = "running"
    /\ \A c \in toRun : pc[c] = "waiting"
    /\ loading # "running" => \A c \in completionBlocks : pc[c] = "waiting"

AgentInv == AgentTypeOK /\ AttemptInv /\ WaitingIsBacked /\ RunsOnce

LEMMA InitAgentInv == AgentInit => AgentInv
<1> SUFFICES ASSUME AgentInit PROVE AgentInv
  OBVIOUS
<1>1. AgentTypeOK
  BY DEF AgentInit, AgentTypeOK
<1>2. AttemptInv /\ WaitingIsBacked /\ RunsOnce
  BY DEF AgentInit, AttemptInv, WaitingIsBacked, RunsOnce
<1> QED
  BY <1>1, <1>2 DEF AgentInv

\* A block that runs on the thread of its call leaves the set alone.
LEMMA CheckWithoutLockKeeps ==
    ASSUME AgentInv, NEW c \in Callers, CheckWithoutLock(c)
    PROVE  AgentInv'
<1> USE DEF AgentInv, CheckWithoutLock, RunsAtOnce
<1>1. AgentTypeOK'
  BY DEF AgentTypeOK
<1>2. AttemptInv'
  BY DEF AgentTypeOK, AttemptInv
<1>3. WaitingIsBacked'
  BY DEF AgentTypeOK, WaitingIsBacked
<1>4. RunsOnce'
  BY DEF AgentTypeOK, RunsOnce
<1> QED
  BY <1>1, <1>2, <1>3, <1>4

\* A block added under the lock joins a set that is not being enumerated.
LEMMA CheckWithLockKeeps ==
    ASSUME AgentInv, NEW c \in Callers, CheckWithLock(c)
    PROVE  AgentInv'
<1> USE DEF AgentInv, CheckWithLock, RunsAtOnce, LockIsFree
<1>1. AgentTypeOK'
  <2>1. /\ userAgentSet' \in BOOLEAN
        /\ loading' \in {"none", "script", "value", "error", "running"}
        /\ isLoadingUserAgent' \in BOOLEAN
    BY DEF AgentTypeOK
  <2>2. completionBlocks' \subseteq Callers /\ toRun' \subseteq completionBlocks'
    BY DEF AgentTypeOK
  <2>3. pc' \in [Callers -> {"start", "unlocked", "waiting", "done"}] /\ runs' \in [Callers -> Nat]
    BY DEF AgentTypeOK
  <2> QED
    BY <2>1, <2>2, <2>3 DEF AgentTypeOK
<1>2. AttemptInv'
  BY DEF AgentTypeOK, AttemptInv
<1>3. WaitingIsBacked'
  BY DEF AgentTypeOK, AttemptInv, WaitingIsBacked
<1>4. RunsOnce'
  BY DEF AgentTypeOK, RunsOnce
<1> QED
  BY <1>1, <1>2, <1>3, <1>4

\* The attempt moves on; when it ends, every block of the set has run.
LEMMA AgentStepKeeps ==
    ASSUME AgentInv, AgentStep
    PROVE  AgentInv'
<1>1. CASE ScriptEvaluated
  BY <1>1 DEF AgentInv, ScriptEvaluated, AgentTypeOK, AttemptInv, WaitingIsBacked, RunsOnce
<1>2. CASE StoreUserAgent
  <2>1. AgentTypeOK' /\ RunsOnce'
    BY <1>2 DEF AgentInv, StoreUserAgent, AgentTypeOK, RunsOnce
  <2>2. WaitingIsBacked'
    BY <1>2 DEF AgentInv, StoreUserAgent, WaitingIsBacked
  <2>3. \A c \in completionBlocks : pc[c] = "waiting"
    BY <1>2 DEF AgentInv, StoreUserAgent, AttemptInv, AgentTypeOK
  <2> QED
    BY <1>2, <2>1, <2>2, <2>3 DEF AgentInv, StoreUserAgent, AttemptInv
<1>3. CASE BlocksDone
  <2>1. \A c \in Callers : pc[c] # "waiting"
    BY <1>3 DEF AgentInv, BlocksDone, WaitingIsBacked
  <2> QED
    BY <1>3, <2>1 DEF AgentInv, BlocksDone, AgentTypeOK, AttemptInv, WaitingIsBacked, RunsOnce
<1> QED
  BY <1>1, <1>2, <1>3 DEF AgentStep

\* A block that is run is one of a call that waits.
LEMMA RunBlockKeeps ==
    ASSUME AgentInv, NEW c \in Callers, RunBlock(c)
    PROVE  AgentInv'
<1> USE DEF AgentInv, RunBlock, RunsAtOnce
<1>1. AgentTypeOK'
  BY DEF AgentTypeOK
<1>2. AttemptInv'
  BY DEF AgentTypeOK, AttemptInv
<1>3. WaitingIsBacked'
  BY DEF AgentTypeOK, WaitingIsBacked
<1>4. RunsOnce'
  BY DEF AgentTypeOK, AttemptInv, RunsOnce
<1> QED
  BY <1>1, <1>2, <1>3, <1>4

\* The three facts above for every step and for a stutter.
LEMMA NextAgentInv == AgentInv /\ [AgentNext]_agentVars => AgentInv'
<1> SUFFICES ASSUME AgentInv, [AgentNext]_agentVars PROVE AgentInv'
  OBVIOUS
<1>1. CASE AgentStep
  BY <1>1, AgentStepKeeps
<1>2. CASE \E c \in Callers : CheckWithoutLock(c) \/ CheckWithLock(c) \/ RunBlock(c)
  BY <1>2, CheckWithoutLockKeeps, CheckWithLockKeeps, RunBlockKeeps
<1>3. CASE UNCHANGED agentVars
  BY <1>3 DEF agentVars, AgentInv, AgentTypeOK, AttemptInv, WaitingIsBacked, RunsOnce
<1> QED
  BY <1>1, <1>2, <1>3 DEF AgentNext

\* Every state of waitForUserAgent is well-formed, no block is lost to an attempt that
\* is over, and no block has run twice.
THEOREM AgentInductive == AgentSpec => []AgentInv
BY InitAgentInv, NextAgentInv, PTL DEF AgentSpec

\* The variables of the double-checked lock have their types.
THEOREM AgentTypeCorrect == AgentSpec => []AgentTypeOK
<1>1. AgentInv => AgentTypeOK
  BY DEF AgentInv
<1> QED
  BY <1>1, AgentInductive, PTL

\* No lost wake-up: a block that waits will be enumerated by an attempt under way.
THEOREM NoLostWakeUp == AgentSpec => []WaitingIsBacked
<1>1. AgentInv => WaitingIsBacked
  BY DEF AgentInv
<1> QED
  BY <1>1, AgentInductive, PTL

\* The block of a call runs once, on the thread of the call or in the enumeration.
THEOREM BlocksRunOnce == AgentSpec => []RunsOnce
<1>1. AgentInv => RunsOnce
  BY DEF AgentInv
<1> QED
  BY <1>1, AgentInductive, PTL

-----------------------------------------------------------------------------
(* RemoteLogs *)

\* A sequence holds r once at most.
Once(s, r) == \A i, j \in DOMAIN s : s[i] = r /\ s[j] = r => i = j

\* Only records that were logged wait anywhere.
LogSpaceInv ==
    /\ pushes \subseteq logged
    /\ logQueue \in Seq(logged)
    /\ posts \in [LogPosts -> Seq(logged)]
    /\ returning \in [LogPosts -> Seq(logged)]

\* The queue, the batches and the blocks do not share r, and none holds it twice.
Single(r) ==
    /\ Once(logQueue, r)
    /\ \A p \in LogPosts : Once(posts[p], r) /\ Once(returning[p], r)
    /\ \A p, q \in LogPosts : r \in InFlight(p) /\ r \in InFlight(q) => p = q
    /\ r \in pushes => r \notin Range(logQueue)
    /\ \A p \in LogPosts : r \in InFlight(p) => r \notin pushes /\ r \notin Range(logQueue)

\* A batch is on its way or back, and only what the code pushes back twice is in two places.
OnePlaceInv ==
    /\ \A p \in LogPosts : posts[p] = << >> \/ returning[p] = << >>
    /\ \A r \in logged : r \in doubled \/ Single(r)

\* A record that waits nowhere was delivered or has a cause.
KnownInv ==
    \A r \in logged :
        \/ r \in pushes \/ r \in Range(logQueue) \/ r \in delivered \/ r \in lost
        \/ \E p \in LogPosts : r \in InFlight(p)

LogInv == LogSpaceInv /\ OnePlaceInv /\ KnownInv

LEMMA EmptyRange ==
    Range(<< >>) = {} /\ \A r : Once(<< >>, r)
BY DEF Range, Once

\* A part of a sequence holds what the sequence does, and no more often.
LEMMA PartOf ==
    ASSUME NEW S, NEW s \in Seq(S), NEW m \in 1..Len(s), NEW n \in m..Len(s)
    PROVE  /\ SubSeq(s, m, n) \in Seq(S)
           /\ SubSeq(s, m, n) # << >>
           /\ \A r : Once(s, r) => Once(SubSeq(s, m, n), r)
           /\ Range(SubSeq(s, m, n)) = {s[i] : i \in m..n}
<1> DEFINE t == SubSeq(s, m, n)
<1>1. /\ Len(s) \in Nat /\ DOMAIN s = 1..Len(s)
      /\ m \in Int /\ n \in Int /\ m <= n
      /\ \A i \in m..n : s[i] \in S
  OBVIOUS
<1>2. /\ t \in Seq(S)
      /\ Len(t) = n - m + 1
      /\ \A i \in 1..n - m + 1 : t[i] = s[m + i - 1]
  BY <1>1, SubSeqProperties
<1> HIDE DEF t
<1>3. DOMAIN t = 1..n - m + 1
  BY <1>2
<1>4. t # << >>
  BY <1>1, <1>2
<1>5. ASSUME NEW r, Once(s, r) PROVE Once(t, r)
  <2>1. SUFFICES ASSUME NEW i \in DOMAIN t, NEW j \in DOMAIN t, t[i] = r, t[j] = r PROVE i = j
    BY DEF Once
  <2>2. m + i - 1 \in DOMAIN s /\ m + j - 1 \in DOMAIN s
    BY <1>1, <1>3
  <2>3. s[m + i - 1] = r /\ s[m + j - 1] = r
    BY <1>2, <1>3, <2>1
  <2>4. m + i - 1 = m + j - 1
    BY <1>5, <2>2, <2>3 DEF Once
  <2> QED
    BY <1>1, <1>3, <2>4
<1>6. Range(t) \subseteq {s[i] : i \in m..n}
  <2>1. SUFFICES ASSUME NEW i \in DOMAIN t PROVE t[i] \in {s[k] : k \in m..n}
    BY DEF Range
  <2>2. m + i - 1 \in m..n
    BY <1>1, <1>3
  <2> QED
    BY <1>2, <1>3, <2>2
<1>7. ASSUME NEW i \in m..n
      PROVE  s[i] \in Range(t)
  <2>1. i - m + 1 \in 1..n - m + 1 /\ t[i - m + 1] = s[i]
    <3>1. i - m + 1 \in 1..n - m + 1 /\ m + (i - m + 1) - 1 = i
      BY <1>1
    <3> QED
      BY <1>2, <3>1
  <2> QED
    BY <1>3, <2>1 DEF Range
<1> QED
  BY <1>2, <1>4, <1>5, <1>6, <1>7 DEF t

\* What is left of a queue of which n elements are popped.
LeftOf(s, n) == IF n < Len(s) THEN SubSeq(s, n + 1, Len(s)) ELSE << >>

LEMMA PopLeaves ==
    ASSUME NEW S, NEW s \in Seq(S), NEW n \in Nat
    PROVE  /\ LeftOf(s, n) \in Seq(S)
           /\ \A r : Once(s, r) => Once(LeftOf(s, n), r)
           /\ Range(LeftOf(s, n)) = {s[i] : i \in {k \in DOMAIN s : k > n}}
<1>1. Len(s) \in Nat /\ DOMAIN s = 1..Len(s)
  OBVIOUS
<1>2. CASE n < Len(s)
  <2>1. n + 1 \in 1..Len(s) /\ Len(s) \in (n + 1)..Len(s)
    BY <1>1, <1>2
  <2>2. (n + 1)..Len(s) = {k \in DOMAIN s : k > n}
    BY <1>1
  <2>3. /\ SubSeq(s, n + 1, Len(s)) \in Seq(S)
        /\ \A r : Once(s, r) => Once(SubSeq(s, n + 1, Len(s)), r)
        /\ Range(SubSeq(s, n + 1, Len(s))) = {s[i] : i \in (n + 1)..Len(s)}
    BY <2>1, PartOf
  <2> QED
    BY <1>2, <2>2, <2>3 DEF LeftOf
<1>3. CASE ~(n < Len(s))
  <2>1. {k \in DOMAIN s : k > n} = {}
    BY <1>1, <1>3
  <2>2. << >> \in Seq(S)
    OBVIOUS
  <2> QED
    BY <1>3, <2>1, <2>2, EmptyRange DEF LeftOf
<1> QED
  BY <1>2, <1>3

\* Adding a record to the queue, which may cost the oldest.
LEMMA AddKeeps ==
    ASSUME NEW r \in logged, logQueue \in Seq(logged), Add(r)
    PROVE  /\ logQueue' \in Seq(logged)
           /\ \A x : Once(logQueue, x) /\ (x = r => x \notin Range(logQueue))
                        => Once(logQueue', x)
           /\ Range(logQueue') \subseteq Range(logQueue) \cup {r}
           /\ lost \subseteq lost'
           /\ \A x \in Range(logQueue) \cup {r} : x \in Range(logQueue') \/ x \in lost'
<1> DEFINE q == Append(logQueue, r)
<1>1. /\ q \in Seq(logged)
      /\ Len(logQueue) \in Nat
      /\ Len(q) = Len(logQueue) + 1
      /\ DOMAIN logQueue = 1..Len(logQueue)
      /\ DOMAIN q = 1..Len(q)
      /\ \A i \in DOMAIN logQueue : q[i] = logQueue[i]
      /\ q[Len(q)] = r
  OBVIOUS
<1>2. \/ logQueue' = q /\ lost' = lost
      \/ logQueue' = LeftOf(q, 1) /\ lost' = lost \cup {Head(q)}
  BY Zenon DEF Add, Pop, LeftOf
<1> HIDE DEF q
<1>3. \A x : Once(logQueue, x) /\ (x = r => x \notin Range(logQueue)) => Once(q, x)
  BY <1>1 DEF Once, Range
<1>4. Range(q) = Range(logQueue) \cup {r}
  BY <1>1 DEF Range
<1>5. CASE logQueue' = q /\ lost' = lost
  BY <1>1, <1>3, <1>4, <1>5
<1>6. CASE logQueue' = LeftOf(q, 1) /\ lost' = lost \cup {Head(q)}
  <2>1. Head(q) = q[1]
    BY <1>1
  <2>2. /\ logQueue' \in Seq(logged)
        /\ \A x : Once(q, x) => Once(logQueue', x)
        /\ Range(logQueue') = {q[i] : i \in {k \in DOMAIN q : k > 1}}
    <3>1. q \in Seq(logged) /\ 1 \in Nat
      BY <1>1
    <3>2. /\ LeftOf(q, 1) \in Seq(logged)
          /\ \A x : Once(q, x) => Once(LeftOf(q, 1), x)
          /\ Range(LeftOf(q, 1)) = {q[i] : i \in {k \in DOMAIN q : k > 1}}
      BY <3>1, PopLeaves, Zenon
    <3> QED
      BY <1>6, <3>2
  <2>3. Range(logQueue') \subseteq Range(q)
    BY <2>2 DEF Range
  <2>4. ASSUME NEW i \in DOMAIN q
        PROVE  q[i] = q[1] \/ q[i] \in Range(logQueue')
    <3>1. i = 1 \/ i > 1
      BY <1>1
    <3> QED
      BY <2>2, <3>1
  <2>5. \A x \in Range(q) : x = q[1] \/ x \in Range(logQueue')
    BY <2>4 DEF Range
  <2>6. \A x : Once(logQueue, x) /\ (x = r => x \notin Range(logQueue)) => Once(logQueue', x)
    BY <1>3, <2>2
  <2> QED
    BY <1>4, <1>6, <2>1, <2>2, <2>3, <2>5, <2>6
<1> QED
  BY <1>2, <1>5, <1>6

\* What waits was logged.
LEMMA WaitingWasLogged ==
    ASSUME LogSpaceInv
    PROVE  /\ Range(logQueue) \subseteq logged
           /\ \A p \in LogPosts : /\ Range(posts[p]) \subseteq logged
                                  /\ Range(returning[p]) \subseteq logged
                                  /\ InFlight(p) \subseteq logged
<1>1. \A s \in Seq(logged) : Range(s) \subseteq logged
  BY DEF Range
<1> QED
  BY <1>1 DEF LogSpaceInv, InFlight

LEMMA InitLogInv == LogInit => LogInv
<1> SUFFICES ASSUME LogInit PROVE LogInv
  OBVIOUS
<1>1. LogSpaceInv
  <2>1. << >> \in Seq(logged)
    OBVIOUS
  <2> QED
    BY <2>1 DEF LogInit, LogSpaceInv
<1>2. OnePlaceInv /\ KnownInv
  BY DEF LogInit, OnePlaceInv, KnownInv
<1> QED
  BY <1>1, <1>2 DEF LogInv

LEMMA LogMessageKeeps ==
    ASSUME LogInv, NEW r \in LogRecords, LogMessage(r)
    PROVE  LogInv'
<1>1. /\ r \notin logged
      /\ logged' = logged \cup {r}
      /\ pushes' = pushes \cup {r}
      /\ UNCHANGED << logQueue, posts, returning, delivered, lost, doubled >>
  BY DEF LogMessage
<1>2. LogSpaceInv /\ OnePlaceInv /\ KnownInv
  BY DEF LogInv
<1>3. r \notin Range(logQueue) /\ \A p \in LogPosts : r \notin InFlight(p)
  BY <1>1, <1>2, WaitingWasLogged
<1>4. LogSpaceInv'
  <2>1. \A s \in Seq(logged) : s \in Seq(logged')
    BY <1>1
  <2> QED
    BY <1>1, <1>2, <2>1 DEF LogSpaceInv
<1>5. \A p \in LogPosts : InFlight(p)' = InFlight(p)
  BY <1>1 DEF InFlight
<1>6. OnePlaceInv'
  <2>1. Single(r)'
    <3>1. Once(logQueue, r) /\ \A p \in LogPosts : Once(posts[p], r) /\ Once(returning[p], r)
      BY <1>3 DEF InFlight, Once, Range
    <3> QED
      BY <1>1, <1>3, <1>5, <3>1 DEF Single
  <2>2. ASSUME NEW x \in logged, Single(x), x # r PROVE Single(x)'
    BY <1>1, <1>5, <2>2 DEF Single
  <2> QED
    BY <1>1, <1>2, <2>1, <2>2 DEF OnePlaceInv
<1>7. KnownInv'
  BY <1>1, <1>2, <1>5 DEF KnownInv
<1> QED
  BY <1>4, <1>6, <1>7 DEF LogInv

LEMMA PushRecordKeeps ==
    ASSUME LogInv, NEW r \in LogRecords, PushRecord(r)
    PROVE  LogInv'
<1>1. /\ r \in pushes
      /\ pushes' = pushes \ {r}
      /\ Add(r)
      /\ UNCHANGED << logged, posts, returning, delivered, doubled >>
  BY DEF PushRecord
<1>2. LogSpaceInv /\ OnePlaceInv /\ KnownInv
  BY DEF LogInv
<1>3. r \in logged
  BY <1>1, <1>2 DEF LogSpaceInv
<1>4. /\ logQueue' \in Seq(logged)
      /\ \A x : Once(logQueue, x) /\ (x = r => x \notin Range(logQueue)) => Once(logQueue', x)
      /\ Range(logQueue') \subseteq Range(logQueue) \cup {r}
      /\ lost \subseteq lost'
      /\ \A x \in Range(logQueue) \cup {r} : x \in Range(logQueue') \/ x \in lost'
  BY <1>1, <1>2, <1>3, AddKeeps DEF LogSpaceInv
<1>5. LogSpaceInv'
  BY <1>1, <1>2, <1>4 DEF LogSpaceInv
<1>6. \A p \in LogPosts : InFlight(p)' = InFlight(p)
  BY <1>1 DEF InFlight
<1>7. OnePlaceInv'
  <2>1. ASSUME NEW x \in logged, Single(x) PROVE Single(x)'
    BY <1>1, <1>4, <1>6, <2>1 DEF Single
  <2> QED
    BY <1>1, <1>2, <2>1 DEF OnePlaceInv
<1>8. KnownInv'
  BY <1>1, <1>2, <1>4, <1>6 DEF KnownInv
<1> QED
  BY <1>5, <1>7, <1>8 DEF LogInv

LEMMA SendBatchKeeps ==
    ASSUME LogInv, NEW p \in LogPosts, SendBatch(p)
    PROVE  LogInv'
<1> DEFINE n == IF BatchSize < Len(logQueue) THEN BatchSize ELSE Len(logQueue)
           records == SubSeq(logQueue, 1, n)
<1>1. /\ logQueue # << >>
      /\ posts[p] = << >> /\ returning[p] = << >>
      /\ logQueue' = LeftOf(logQueue, BatchSize)
      /\ \/ posts' = [posts EXCEPT ![p] = records] /\ lost' = lost
         \/ lost' = lost \cup Range(records) /\ posts' = posts
      /\ UNCHANGED << logged, pushes, returning, delivered, doubled >>
  BY Zenon DEF SendBatch, Pop, LeftOf
<1>2. LogSpaceInv /\ OnePlaceInv /\ KnownInv
  BY DEF LogInv
<1>3. logQueue \in Seq(logged)
  BY <1>2 DEF LogSpaceInv
<1>4. /\ Len(logQueue) \in Nat /\ Len(logQueue) > 0 /\ DOMAIN logQueue = 1..Len(logQueue)
      /\ BatchSize \in Nat /\ BatchSize > 0
  BY <1>1, <1>3, LogConstants
<1>5. 1 \in 1..Len(logQueue) /\ n \in 1..Len(logQueue)
  BY <1>4
<1>6. /\ records \in Seq(logged)
      /\ \A x : Once(logQueue, x) => Once(records, x)
      /\ Range(records) = {logQueue[i] : i \in 1..n}
  BY <1>3, <1>5, PartOf
<1>7. /\ logQueue' \in Seq(logged)
      /\ \A x : Once(logQueue, x) => Once(logQueue', x)
      /\ Range(logQueue') = {logQueue[i] : i \in {k \in DOMAIN logQueue : k > BatchSize}}
  <2>1. /\ LeftOf(logQueue, BatchSize) \in Seq(logged)
        /\ \A x : Once(logQueue, x) => Once(LeftOf(logQueue, BatchSize), x)
        /\ Range(LeftOf(logQueue, BatchSize))
              = {logQueue[i] : i \in {k \in DOMAIN logQueue : k > BatchSize}}
    BY <1>3, <1>4, PopLeaves, Zenon
  <2> QED
    BY <1>1, <2>1
<1>8. \A i \in DOMAIN logQueue : i \in 1..n \/ i > BatchSize
  BY <1>4
<1>9. \A i \in 1..n : i \in DOMAIN logQueue /\ ~(i > BatchSize)
  BY <1>4
<1> HIDE DEF n, records
<1>10. Range(logQueue) = Range(records) \cup Range(logQueue')
  BY <1>6, <1>7, <1>8, <1>9 DEF Range
<1>11. \A x : Once(logQueue, x) => ~(x \in Range(records) /\ x \in Range(logQueue'))
  BY <1>6, <1>7, <1>9 DEF Once
<1>12. LogSpaceInv'
  BY <1>1, <1>2, <1>6, <1>7 DEF LogSpaceInv
<1>13. CASE lost' = lost \cup Range(records) /\ posts' = posts
  <2>1. \A q \in LogPosts : InFlight(q)' = InFlight(q)
    BY <1>1, <1>13 DEF InFlight
  <2>2. OnePlaceInv'
    <3>1. ASSUME NEW x \in logged, Single(x) PROVE Single(x)'
      BY <1>1, <1>7, <1>10, <1>13, <2>1, <3>1 DEF Single
    <3> QED
      BY <1>1, <1>2, <1>13, <3>1 DEF OnePlaceInv
  <2>3. KnownInv'
    BY <1>1, <1>2, <1>10, <1>13, <2>1 DEF KnownInv
  <2> QED
    BY <1>12, <2>2, <2>3 DEF LogInv
<1>14. CASE posts' = [posts EXCEPT ![p] = records] /\ lost' = lost
  <2>1. /\ posts'[p] = records
        /\ \A q \in LogPosts : q # p => posts'[q] = posts[q]
    BY <1>2, <1>14 DEF LogSpaceInv
  <2>2. /\ InFlight(p) = {} /\ InFlight(p)' = Range(records)
        /\ \A q \in LogPosts : q # p => InFlight(q)' = InFlight(q)
    BY <1>1, <2>1, EmptyRange DEF InFlight
  <2>3. OnePlaceInv'
    <3>1. ASSUME NEW x \in logged, Single(x) PROVE Single(x)'
      <4>1. Once(logQueue', x) /\ Once(records, x)
        BY <1>6, <1>7, <3>1 DEF Single
      <4>2. \A q \in LogPosts : Once(posts'[q], x) /\ Once(returning'[q], x)
        BY <1>1, <2>1, <3>1, <4>1 DEF Single
      <4>3. x \in Range(records) => \A q \in LogPosts : x \notin InFlight(q)
        BY <1>10, <3>1 DEF Single
      <4>4. \A q, s \in LogPosts : x \in InFlight(q)' /\ x \in InFlight(s)' => q = s
        BY <2>2, <3>1, <4>3 DEF Single
      <4>5. x \in pushes' => x \notin Range(logQueue')
        BY <1>1, <1>10, <3>1 DEF Single
      <4>6. \A q \in LogPosts : x \in InFlight(q)' => x \notin pushes' /\ x \notin Range(logQueue')
        BY <1>1, <1>10, <1>11, <2>2, <3>1 DEF Single
      <4> QED
        BY <4>1, <4>2, <4>4, <4>5, <4>6 DEF Single
    <3> QED
      BY <1>1, <1>2, <2>1, <3>1 DEF OnePlaceInv
  <2>4. KnownInv'
    BY <1>1, <1>2, <1>10, <1>14, <2>2 DEF KnownInv
  <2> QED
    BY <1>12, <2>3, <2>4 DEF LogInv
<1> QED
  BY <1>1, <1>13, <1>14

\* A post that is over, of which nothing comes back: the backend has its records, or
\* they are given up.
LEMMA PostGone ==
    ASSUME LogInv, NEW p \in LogPosts,
           posts' = [posts EXCEPT ![p] = << >>],
           UNCHANGED << logged, pushes, logQueue, returning, doubled >>,
           delivered \subseteq delivered', lost \subseteq lost',
           Range(posts[p]) \subseteq delivered' \cup lost'
    PROVE  LogInv'
<1>1. LogSpaceInv /\ OnePlaceInv /\ KnownInv
  BY DEF LogInv
<1>2. posts'[p] = << >> /\ \A q \in LogPosts : q # p => posts'[q] = posts[q]
  BY <1>1 DEF LogSpaceInv
<1>3. /\ \A q \in LogPosts : InFlight(q)' \subseteq InFlight(q)
      /\ \A q \in LogPosts : InFlight(q) \subseteq InFlight(q)' \cup Range(posts[p])
  BY <1>2, EmptyRange DEF InFlight
<1>4. LogSpaceInv'
  <2>1. << >> \in Seq(logged)
    OBVIOUS
  <2> QED
    BY <1>1, <2>1 DEF LogSpaceInv
<1>5. OnePlaceInv'
  <2>1. ASSUME NEW x \in logged, Single(x) PROVE Single(x)'
    BY <1>2, <1>3, <2>1, EmptyRange DEF Single
  <2> QED
    BY <1>1, <1>2, <2>1 DEF OnePlaceInv
<1>6. KnownInv'
  BY <1>1, <1>3 DEF KnownInv
<1> QED
  BY <1>4, <1>5, <1>6 DEF LogInv

\* A post that is over, of which back is to be pushed back: its records, each of them
\* once unless it counts as doubled.
LEMMA PostBack ==
    ASSUME LogInv, NEW p \in LogPosts, NEW back \in Seq(logged),
           posts[p] # << >>,
           Range(back) = Range(posts[p]),
           \A x : x \notin doubled' /\ Once(posts[p], x) => Once(back, x),
           posts' = [posts EXCEPT ![p] = << >>],
           returning' = [returning EXCEPT ![p] = back],
           UNCHANGED << logged, pushes, logQueue, lost >>,
           delivered \subseteq delivered', doubled \subseteq doubled'
    PROVE  LogInv'
<1>1. LogSpaceInv /\ OnePlaceInv /\ KnownInv
  BY DEF LogInv
<1>2. /\ posts'[p] = << >> /\ \A q \in LogPosts : q # p => posts'[q] = posts[q]
      /\ returning'[p] = back /\ \A q \in LogPosts : q # p => returning'[q] = returning[q]
  BY <1>1 DEF LogSpaceInv
<1>3. returning[p] = << >>
  BY <1>1 DEF OnePlaceInv
<1>4. \A q \in LogPosts : InFlight(q)' = InFlight(q)
  BY <1>2, <1>3, EmptyRange DEF InFlight
<1>5. LogSpaceInv'
  <2>1. << >> \in Seq(logged)
    OBVIOUS
  <2> QED
    BY <1>1, <2>1 DEF LogSpaceInv
<1>6. OnePlaceInv'
  <2>1. ASSUME NEW x \in logged, x \notin doubled', Single(x) PROVE Single(x)'
    <3>1. \A q \in LogPosts : Once(posts'[q], x) /\ Once(returning'[q], x)
      BY <1>2, <2>1, EmptyRange DEF Single
    <3> QED
      BY <1>4, <2>1, <3>1 DEF Single
  <2> QED
    BY <1>1, <1>2, <2>1 DEF OnePlaceInv
<1>7. KnownInv'
  BY <1>1, <1>4 DEF KnownInv
<1> QED
  BY <1>5, <1>6, <1>7 DEF LogInv

LEMMA PostAnsweredKeeps ==
    ASSUME LogInv, NEW p \in LogPosts,
           PostSucceeds(p) \/ PostFails(p) \/ PostFailsTwice(p) \/ PostRefused(p)
    PROVE  LogInv'
<1>1. posts[p] \in Seq(logged)
  BY DEF LogInv, LogSpaceInv
<1>2. CASE PostSucceeds(p)
  BY <1>2, PostGone DEF PostSucceeds
<1>3. CASE PostRefused(p)
  BY <1>3, PostGone DEF PostRefused
<1>4. CASE PostFails(p)
  BY <1>1, <1>4, PostBack DEF PostFails, CalledOnce
<1>5. CASE PostFailsTwice(p)
  <2>1. PICK s \in Seq(logged) : s = posts[p]
    BY <1>1
  <2>2. PICK back \in Seq(logged) : back = s \o s
    BY <2>1, ConcatProperties
  <2>3. Range(back) = Range(s)
    <3>1. /\ Len(s) \in Nat /\ DOMAIN s = 1..Len(s)
          /\ DOMAIN back = 1..Len(s) + Len(s)
          /\ \A i \in 1..Len(s) : back[i] = s[i]
          /\ \A i \in 1..Len(s) + Len(s) : i > Len(s) =>
                 i - Len(s) \in 1..Len(s) /\ back[i] = s[i - Len(s)]
      BY <2>2
    <3>2. \A i \in DOMAIN back : i \in 1..Len(s) \/ i > Len(s)
      BY <3>1
    <3>3. \A i \in 1..Len(s) : i \in DOMAIN back
      BY <3>1
    <3>4. \A i \in DOMAIN back : back[i] \in Range(s)
      BY <3>1, <3>2 DEF Range
    <3>5. \A i \in DOMAIN s : s[i] \in Range(back)
      BY <3>1, <3>3 DEF Range
    <3> QED
      BY <3>4, <3>5 DEF Range
  <2>4. /\ posts[p] # << >>
        /\ posts' = [posts EXCEPT ![p] = << >>]
        /\ returning' = [returning EXCEPT ![p] = back]
        /\ delivered \subseteq delivered'
        /\ doubled' = doubled \cup Range(s)
        /\ UNCHANGED << logged, pushes, logQueue, lost >>
    BY <1>5, <2>1, <2>2 DEF PostFailsTwice, CalledTwice
  <2>5. \A x : x \notin doubled' => Once(back, x)
    BY <2>3, <2>4 DEF Once, Range
  <2> QED
    BY <2>1, <2>3, <2>4, <2>5, PostBack
<1> QED
  BY <1>2, <1>3, <1>4, <1>5

LEMMA PushBackKeeps ==
    ASSUME LogInv, NEW p \in LogPosts, PushBack(p)
    PROVE  LogInv'
<1>1. PICK s : s = returning[p]
  OBVIOUS
<1>2. PICK r : r = Head(s)
  OBVIOUS
<1>3. PICK rest : rest = Tail(s)
  OBVIOUS
<1>4. /\ s # << >>
      /\ returning' = [returning EXCEPT ![p] = rest]
      /\ Add(r)
      /\ UNCHANGED << logged, pushes, posts, delivered, doubled >>
  BY <1>1, <1>2, <1>3 DEF PushBack
<1>5. LogSpaceInv /\ OnePlaceInv /\ KnownInv
  BY DEF LogInv
<1>6. s \in Seq(logged) /\ posts[p] = << >>
  BY <1>1, <1>4, <1>5 DEF LogSpaceInv, OnePlaceInv
<1>7. /\ Len(s) \in Nat /\ Len(s) > 0 /\ DOMAIN s = 1..Len(s)
      /\ r = s[1] /\ r \in logged
      /\ rest \in Seq(logged) /\ Len(rest) = Len(s) - 1
      /\ DOMAIN rest = 1..Len(s) - 1
      /\ \A i \in 1..Len(s) - 1 : rest[i] = s[i + 1]
  BY <1>2, <1>3, <1>4, <1>6
<1>8. /\ logQueue' \in Seq(logged)
      /\ \A x : Once(logQueue, x) /\ (x = r => x \notin Range(logQueue)) => Once(logQueue', x)
      /\ Range(logQueue') \subseteq Range(logQueue) \cup {r}
      /\ lost \subseteq lost'
      /\ \A x \in Range(logQueue) \cup {r} : x \in Range(logQueue') \/ x \in lost'
  BY <1>4, <1>5, <1>7, AddKeeps DEF LogSpaceInv
<1>9. r \in Range(s) /\ Range(s) = Range(rest) \cup {r}
  <2>1. 1 \in DOMAIN s
    BY <1>7
  <2>2. \A i \in DOMAIN s : i = 1 \/ (i - 1 \in DOMAIN rest /\ rest[i - 1] = s[i])
    BY <1>7
  <2>3. \A i \in DOMAIN rest : i + 1 \in DOMAIN s /\ rest[i] = s[i + 1]
    BY <1>7
  <2>4. \A i \in DOMAIN s : s[i] \in Range(rest) \cup {r}
    BY <1>7, <2>2 DEF Range
  <2>5. \A i \in DOMAIN rest : rest[i] \in Range(s)
    BY <2>3 DEF Range
  <2>6. r \in Range(s)
    BY <1>7, <2>1 DEF Range
  <2>7. \A x \in Range(s) : x \in Range(rest) \cup {r}
    BY <2>4 DEF Range
  <2>8. \A x \in Range(rest) : x \in Range(s)
    BY <2>5 DEF Range
  <2> QED
    BY <2>6, <2>7, <2>8
<1>10. ASSUME NEW x, Once(s, x)
       PROVE  Once(rest, x) /\ (x = r => x \notin Range(rest))
  <2>1. \A i \in DOMAIN rest : i + 1 \in DOMAIN s /\ i + 1 # 1 /\ rest[i] = s[i + 1]
    BY <1>7
  <2>2. 1 \in DOMAIN s /\ \A i, j \in DOMAIN rest : i + 1 = j + 1 => i = j
    BY <1>7
  <2> QED
    BY <1>7, <1>10, <2>1, <2>2 DEF Once, Range
<1>11. /\ returning'[p] = rest
       /\ \A q \in LogPosts : q # p => returning'[q] = returning[q]
  BY <1>4, <1>5 DEF LogSpaceInv
<1>12. /\ InFlight(p) = Range(rest) \cup {r} /\ InFlight(p)' = Range(rest)
       /\ \A q \in LogPosts : q # p => InFlight(q)' = InFlight(q)
  BY <1>1, <1>4, <1>6, <1>9, <1>11, EmptyRange DEF InFlight
<1>13. LogSpaceInv'
  BY <1>4, <1>5, <1>7, <1>8 DEF LogSpaceInv
<1>14. OnePlaceInv'
  <2>1. ASSUME NEW x \in logged, Single(x) PROVE Single(x)'
    <3>1. Once(s, x)
      BY <1>1, <2>1 DEF Single
    <3>2. x = r => x \notin Range(logQueue) /\ x \notin pushes
      BY <1>12, <2>1 DEF Single
    <3>3. Once(logQueue', x)
      BY <1>8, <2>1, <3>2 DEF Single
    <3>4. \A q \in LogPosts : Once(posts'[q], x) /\ Once(returning'[q], x)
      BY <1>4, <1>10, <1>11, <2>1, <3>1 DEF Single
    <3>5. \A q \in LogPosts : x \in InFlight(q)' => x \in InFlight(q) /\ x # r
      <4>1. x \in Range(rest) => x # r
        BY <1>10, <3>1
      <4>2. x = r => \A q \in LogPosts : q # p => x \notin InFlight(q)
        BY <1>12, <2>1 DEF Single
      <4> QED
        BY <1>12, <4>1, <4>2
    <3>6. \A q, t \in LogPosts : x \in InFlight(q)' /\ x \in InFlight(t)' => q = t
      BY <2>1, <3>5 DEF Single
    <3>7. x \in pushes' => x \notin Range(logQueue')
      BY <1>4, <1>8, <2>1, <3>2 DEF Single
    <3>8. \A q \in LogPosts : x \in InFlight(q)' => x \notin pushes' /\ x \notin Range(logQueue')
      BY <1>4, <1>8, <2>1, <3>5 DEF Single
    <3> QED
      BY <3>3, <3>4, <3>6, <3>7, <3>8 DEF Single
  <2>2. \A q \in LogPosts : posts'[q] = << >> \/ returning'[q] = << >>
    BY <1>4, <1>5, <1>6, <1>11 DEF OnePlaceInv
  <2> QED
    BY <1>4, <1>5, <2>1, <2>2 DEF OnePlaceInv
<1>15. KnownInv'
  <2>1. SUFFICES ASSUME NEW x \in logged
                 PROVE  \/ x \in pushes \/ x \in Range(logQueue') \/ x \in delivered \/ x \in lost'
                        \/ \E q \in LogPosts : x \in InFlight(q)'
    BY <1>4 DEF KnownInv
  <2>2. CASE x \in Range(logQueue) \cup {r}
    BY <1>8, <2>2
  <2>3. CASE x \notin Range(logQueue) \cup {r}
    BY <1>5, <1>8, <1>12, <2>3 DEF KnownInv
  <2> QED
    BY <2>2, <2>3
<1> QED
  BY <1>13, <1>14, <1>15 DEF LogInv

LEMMA ProcessEndsKeeps == LogInv /\ ProcessEnds => LogInv'
<1> SUFFICES ASSUME LogInv, ProcessEnds PROVE LogInv'
  OBVIOUS
<1>1. /\ pushes' = {}
      /\ posts' = [p \in LogPosts |-> << >>] /\ returning' = [p \in LogPosts |-> << >>]
      /\ UNCHANGED << logged, logQueue, delivered, doubled >>
      /\ lost' = lost \cup InMemory
  BY DEF ProcessEnds
<1>2. LogSpaceInv /\ OnePlaceInv /\ KnownInv
  BY DEF LogInv
<1>3. \A p \in LogPosts : InFlight(p)' = {}
  BY <1>1, EmptyRange DEF InFlight
<1>4. LogSpaceInv'
  <2>1. << >> \in Seq(logged)
    OBVIOUS
  <2> QED
    BY <1>1, <1>2, <2>1 DEF LogSpaceInv
<1>5. OnePlaceInv'
  <2>1. ASSUME NEW x \in logged, Single(x) PROVE Single(x)'
    BY <1>1, <1>3, <2>1, EmptyRange DEF Single
  <2> QED
    BY <1>1, <1>2, <2>1 DEF OnePlaceInv
<1>6. KnownInv'
  BY <1>1, <1>2 DEF KnownInv, InMemory
<1> QED
  BY <1>4, <1>5, <1>6 DEF LogInv

LEMMA NextLogInv == LogInv /\ [LogNext]_logVars => LogInv'
<1>1. LogInv /\ UNCHANGED logVars => LogInv'
  BY DEF logVars, LogInv, LogSpaceInv, OnePlaceInv, KnownInv, Single, InFlight
<1> QED
  BY <1>1, LogMessageKeeps, PushRecordKeeps, SendBatchKeeps, PostAnsweredKeeps, PushBackKeeps,
     ProcessEndsKeeps DEF LogNext

\* Every behaviour of the remote logs satisfies the inductive invariant.
THEOREM LogInductive == LogSpec => []LogInv
BY InitLogInv, NextLogInv, PTL DEF LogSpec

LEMMA AtMostOne ==
    ASSUME NEW S, \A x, y \in S : x = y
    PROVE  S = {} \/ \E x : S = {x}
<1>1. CASE S # {}
  <2>1. PICK x : x \in S
    BY <1>1
  <2> QED
    BY <2>1
<1> QED
  BY <1>1

\* A record is nowhere only for a cause the code has, and in one place at a time as long
\* as no batch with it was pushed back twice, however batches fail, are pushed back and
\* meet a full file (RecordsAreKept).
THEOREM NoRecordForgotten == LogSpec => []RecordsAreKept
<1>1. LogInv => RecordsAreKept
  <2> SUFFICES ASSUME LogInv, NEW r \in logged
               PROVE  /\ r \notin doubled => Waiting(r) <= 1
                      /\ Waiting(r) = 0 => r \in delivered \cup lost
    BY DEF RecordsAreKept
  <2> DEFINE inBlock == IF r \in pushes THEN 1 ELSE 0
             inQueue == {i \in DOMAIN logQueue : logQueue[i] = r}
             inBatch == {p \in LogPosts : r \in InFlight(p)}
  <2>1. LogSpaceInv /\ OnePlaceInv /\ KnownInv
    BY DEF LogInv
  <2>2. Waiting(r) = inBlock + Cardinality(inQueue) + Cardinality(inBatch)
    BY DEF Waiting
  <2>3. /\ inBlock \in {0, 1}
        /\ inBlock = 1 <=> r \in pushes
    OBVIOUS
  <2>4. r \in Range(logQueue) <=> inQueue # {}
    BY DEF Range
  <2>5. (\E p \in LogPosts : r \in InFlight(p)) <=> inBatch # {}
    OBVIOUS
  <2>6. ASSUME r \notin doubled
        PROVE  Waiting(r) <= 1
    <3>1. Single(r)
      BY <2>1, <2>6 DEF OnePlaceInv
    <3>2. inQueue = {} \/ \E i : inQueue = {i}
      <4>1. \A i, j \in inQueue : i = j
        BY <3>1 DEF Single, Once
      <4> QED
        BY <4>1, AtMostOne
    <3>3. inBatch = {} \/ \E p : inBatch = {p}
      <4>1. \A p, q \in inBatch : p = q
        BY <3>1 DEF Single
      <4> QED
        BY <4>1, AtMostOne
    <3>4. /\ r \in pushes => inQueue = {} /\ inBatch = {}
          /\ inQueue # {} => inBatch = {}
      BY <2>4, <2>5, <3>1 DEF Single
    <3> HIDE DEF inBlock, inQueue, inBatch
    <3>5. /\ Cardinality(inQueue) = IF inQueue = {} THEN 0 ELSE 1
          /\ Cardinality(inBatch) = IF inBatch = {} THEN 0 ELSE 1
      BY <3>2, <3>3, FS_EmptySet, FS_Singleton
    <3> QED
      BY <2>2, <2>3, <3>4, <3>5
  <2>7. ASSUME Waiting(r) = 0
        PROVE  r \in delivered \cup lost
    <3>1. IsFiniteSet(inQueue) /\ IsFiniteSet(inBatch)
      <4>1. IsFiniteSet(DOMAIN logQueue)
        <5>1. PICK n \in Nat : n = Len(logQueue) /\ DOMAIN logQueue = 1..n
          BY <2>1 DEF LogSpaceInv
        <5>2. 1 \in Int /\ n \in Int
          OBVIOUS
        <5> QED
          BY <5>1, <5>2, FS_Interval, Zenon
      <4>2. inQueue \subseteq DOMAIN logQueue /\ inBatch \subseteq LogPosts
        OBVIOUS
      <4> QED
        BY <4>1, <4>2, FS_Subset, LogConstants, Zenon
    <3> HIDE DEF inBlock, inQueue, inBatch
    <3>2. Cardinality(inQueue) \in Nat /\ Cardinality(inBatch) \in Nat
      BY <3>1, FS_CardinalityType
    <3>3. inBlock = 0 /\ Cardinality(inQueue) = 0 /\ Cardinality(inBatch) = 0
      BY <2>2, <2>3, <2>7, <3>2
    <3>4. r \notin pushes /\ inQueue = {} /\ inBatch = {}
      BY <2>3, <3>1, <3>3, FS_EmptySet
    <3> QED
      BY <2>1, <2>4, <2>5, <3>4 DEF KnownInv
  <2> QED
    BY <2>6, <2>7
<1> QED
  BY <1>1, LogInductive, PTL

-----------------------------------------------------------------------------
(* The bound of the queue of RemoteLogs *)

\* The file doubles until the elements fit, and then they do.
LEMMA GrownFits ==
    ASSUME NEW q, Used(q) \in Nat, fileLength \in Nat \ {0}
    PROVE  /\ Grown(q) \in Nat \ {0}
           /\ Used(q) <= Grown(q)
<1>1. PICK u \in Nat : u = Used(q)
  OBVIOUS
<1>2. PICK L \in Nat \ {0} : L = fileLength
  OBVIOUS
<1>3. PICK S : S = {k \in Nat : u <= L * Doubling[k]}
  OBVIOUS
<1>4. u \in S
  <2>1. Doubling[u] \in Nat /\ Doubling[u] >= u
    BY DoublingDef, DoublingGrows
  <2>2. \A x \in Nat : L * x >= x
    OBVIOUS
  <2>3. \A x \in Nat : L * x \in Nat
    OBVIOUS
  <2> QED
    BY <1>3, <2>1, <2>2, <2>3
<1>5. PICK k \in S : \A j \in S : k <= j
  BY <1>3, <1>4, Least
<1>6. k \in 0..u
  BY <1>3, <1>4, <1>5
<1>7. PICK n : n = L * Doubling[k]
  OBVIOUS
<1>8. n \in Nat /\ u <= n
  <2>1. Doubling[k] \in Nat
    BY <1>3, DoublingDef
  <2> QED
    BY <1>3, <1>7, <2>1
<1>9. n = L \/ 2 * u > n
  <2>1. CASE k = 0
    BY <1>7, <2>1, DoublingDef
  <2>2. CASE k # 0
    <3>1. k - 1 \in Nat /\ k - 1 \notin S /\ (k - 1) + 1 = k
      BY <1>3, <1>5, <2>2
    <3>2. PICK d \in Nat : d = Doubling[k - 1] /\ Doubling[k] = 2 * d
      BY <3>1, DoublingDef
    <3>3. L * d \in Nat /\ n = 2 * (L * d)
      BY <1>7, <3>2
    <3>4. ~(u <= L * d)
      BY <1>3, <3>1, <3>2
    <3> QED
      BY <3>3, <3>4
  <2> QED
    BY <2>1, <2>2
<1>10. PICK G : G = {fileLength * Doubling[j] : j \in 0..Used(q)}
  OBVIOUS
<1>11. n \in G
  BY <1>1, <1>2, <1>6, <1>7, <1>10
<1>12. Grown(q) = CHOOSE m \in G : Used(q) <= m /\ (m = fileLength \/ 2 * Used(q) > m)
  BY <1>10 DEF Grown
<1>13. Grown(q) \in G /\ Used(q) <= Grown(q)
  BY <1>1, <1>2, <1>8, <1>9, <1>11, <1>12
<1>14. \A m \in G : m \in Nat \ {0}
  <2> SUFFICES ASSUME NEW j \in 0..u PROVE L * Doubling[j] \in Nat \ {0}
    BY <1>1, <1>2, <1>10
  <2>1. PICK d \in Nat : d = Doubling[j] /\ d # 0
    BY DoublingDef, DoublingGrows
  <2>2. \A x \in Nat : L * x \in Nat /\ L * x >= x
    OBVIOUS
  <2>3. L * d \in Nat /\ L * d >= d
    BY <2>2
  <2> QED
    BY <2>1, <2>3
<1> QED
  BY <1>13, <1>14

\* Every element takes a unit at least.
LEMMA ElementsTakeRoom ==
    ASSUME NEW q \in Seq(LogRecords)
    PROVE  Used(q) \in Nat /\ Len(q) <= Used(q)
<1>1. PICK n \in Nat : n = Len(q) /\ DOMAIN q = 1..n
  OBVIOUS
<1>2. PICK C : C = {{i} \X (1..SizeOf[q[i]]) : i \in DOMAIN q}
  OBVIOUS
<1>3. PICK U : U = UNION C
  OBVIOUS
<1>4. \A i \in 1..n : SizeOf[q[i]] \in Nat \ {0}
  BY <1>1, LogConstants
<1>5. IsFiniteSet(1..n) /\ Cardinality(1..n) = n
  <2>1. 1 \in Int /\ n \in Int
    OBVIOUS
  <2>2. IsFiniteSet(1..n) /\ Cardinality(1..n) = IF 1 > n THEN 0 ELSE n - 1 + 1
    BY <2>1, FS_Interval, Zenon
  <2> QED
    BY <2>2
<1>6. IsFiniteSet(C)
  <2>1. PICK f : f = [i \in 1..n |-> {i} \X (1..SizeOf[q[i]])]
    OBVIOUS
  <2>2. f \in Surjection(1..n, C)
    BY <1>1, <1>2, <2>1 DEF Surjection
  <2> QED
    BY <1>5, <2>2, FS_Surjection
<1>7. IsFiniteSet(U)
  <2>1. ASSUME NEW i \in 1..n PROVE IsFiniteSet({i} \X (1..SizeOf[q[i]]))
    <3>1. IsFiniteSet({i})
      BY FS_Singleton
    <3>2. IsFiniteSet(1..SizeOf[q[i]])
      <4>1. 1 \in Int /\ SizeOf[q[i]] \in Int
        BY <1>4
      <4> QED
        BY <4>1, FS_Interval, Zenon
    <3> QED
      BY <3>1, <3>2, FS_Product
  <2>2. \A T \in C : IsFiniteSet(T)
    BY <1>1, <1>2, <2>1
  <2> QED
    BY <1>3, <1>6, <2>2, FS_UNION
<1>8. n <= Cardinality(U)
  <2>1. PICK f : f = [i \in 1..n |-> << i, 1 >>]
    OBVIOUS
  <2>2. \A i \in 1..n : f[i] \in U
    <3> SUFFICES ASSUME NEW i \in 1..n PROVE << i, 1 >> \in U
      BY <2>1
    <3>1. << i, 1 >> \in {i} \X (1..SizeOf[q[i]])
      BY <1>4
    <3> QED
      BY <1>1, <1>2, <1>3, <3>1
  <2>3. f \in Injection(1..n, U)
    <3>1. f \in [1..n -> U]
      BY <2>1, <2>2
    <3>2. \A i, j \in 1..n : f[i] = f[j] => i = j
      BY <2>1
    <3> QED
      BY <3>1, <3>2 DEF Injection, IsInjective
  <2> QED
    BY <1>5, <1>7, <2>3, FS_Injection
<1>9. Used(q) = Cardinality(U)
  BY <1>2, <1>3 DEF Used
<1> QED
  BY <1>1, <1>7, <1>8, <1>9, FS_CardinalityType

\* The types of the remote logs, with a file that has a length.
LogBoundInv == LogTypeOK /\ fileLength # 0 /\ QueueIsBounded

\* Popping makes the queue shorter.
LEMMA PopShortens ==
    ASSUME NEW n \in Nat \ {0}, NEW q \in Seq(LogRecords), NEW length \in Nat \ {0},
           q # << >>, Pop(n, q, length)
    PROVE  /\ Len(logQueue') \in Nat
           /\ Len(logQueue') < Len(q)
           /\ fileLength' \in Nat \ {0}
<1>1. CASE n < Len(q)
  <2>1. logQueue' = SubSeq(q, n + 1, Len(q)) /\ fileLength' = length
    BY <1>1 DEF Pop
  <2> QED
    BY <1>1, <2>1, SubSeqProperties
<1>2. CASE ~(n < Len(q))
  BY <1>2, LogConstants DEF Pop
<1> QED
  BY <1>1, <1>2

LEMMA AddBounded ==
    ASSUME NEW r \in logged, LogInv, LogBoundInv, Add(r), UNCHANGED logged
    PROVE  /\ fileLength' \in Nat \ {0}
           /\ QueueIsBounded'
           /\ lost' \subseteq logged
<1>1. PICK q : q = Append(logQueue, r)
  OBVIOUS
<1>2. logQueue \in Seq(LogRecords) /\ r \in LogRecords
  BY DEF LogBoundInv, LogTypeOK
<1>3. /\ q \in Seq(LogRecords) /\ q # << >> /\ Len(q) = Len(logQueue) + 1
      /\ Len(logQueue) \in Nat /\ Head(q) = q[1] /\ q[1] \in logged
  <2>1. q \in Seq(LogRecords) /\ q # << >> /\ Len(q) = Len(logQueue) + 1
        /\ Len(logQueue) \in Nat /\ Head(q) = q[1]
    BY <1>1, <1>2
  <2>2. q \in Seq(logged)
    BY <1>1 DEF LogBoundInv, LogTypeOK
  <2> QED
    BY <2>1, <2>2
<1>4. Used(q) \in Nat /\ Len(q) <= Used(q)
  BY <1>3, ElementsTakeRoom
<1>5. Grown(q) \in Nat \ {0} /\ Used(q) <= Grown(q)
  BY <1>4, GrownFits DEF LogBoundInv, LogTypeOK
<1>6. CASE Grown(q) > MaxFileLength
  <2>1. Pop(1, q, Grown(q)) /\ lost' = lost \cup {Head(q)}
    BY <1>1, <1>6 DEF Add
  <2>2. PICK n \in Nat \ {0} : n = 1
    OBVIOUS
  <2>3. PICK length \in Nat \ {0} : length = Grown(q)
    BY <1>5
  <2>4. Pop(n, q, length)
    BY <2>1, <2>2, <2>3, Zenon
  <2>5. Len(logQueue') \in Nat /\ Len(logQueue') < Len(q) /\ fileLength' \in Nat \ {0}
    BY <1>3, <2>4, PopShortens
  <2>6. QueueIsBounded'
    BY <1>3, <2>5, LogConstants DEF QueueIsBounded, LogBoundInv
  <2>7. lost' \subseteq logged
    BY <1>3, <2>1 DEF LogBoundInv, LogTypeOK
  <2> QED
    BY <2>5, <2>6, <2>7
<1>7. CASE ~(Grown(q) > MaxFileLength)
  <2>1. logQueue' = q /\ fileLength' = Grown(q) /\ lost' = lost
    BY <1>1, <1>7 DEF Add
  <2> QED
    BY <1>3, <1>4, <1>5, <1>7, <2>1, LogConstants DEF QueueIsBounded, LogBoundInv, LogTypeOK
<1> QED
  BY <1>6, <1>7

LEMMA NextLogBound == LogInv /\ LogBoundInv /\ [LogNext]_logVars => LogBoundInv'
<1> SUFFICES ASSUME LogInv, LogBoundInv, [LogNext]_logVars PROVE LogBoundInv'
  OBVIOUS
<1>0. /\ pushes' \subseteq logged' /\ logQueue' \in Seq(logged')
      /\ posts' \in [LogPosts -> Seq(logged')] /\ returning' \in [LogPosts -> Seq(logged')]
  BY NextLogInv DEF LogInv, LogSpaceInv
<1>1. SUFFICES /\ logged' \subseteq LogRecords
               /\ fileLength' \in Nat \ {0}
               /\ delivered' \subseteq logged'
               /\ lost' \subseteq logged'
               /\ doubled' \subseteq logged'
               /\ QueueIsBounded'
  BY <1>0 DEF LogBoundInv, LogTypeOK
<1>2. /\ \A p \in LogPosts : Range(posts[p]) \subseteq logged
      /\ InMemory \subseteq logged
  BY WaitingWasLogged DEF LogInv, LogSpaceInv, InMemory
<1>3. ASSUME NEW r \in LogRecords, LogMessage(r) PROVE <1>1!1
  BY <1>3 DEF LogMessage, LogBoundInv, LogTypeOK, QueueIsBounded
<1>4. ASSUME NEW r \in LogRecords, PushRecord(r) PROVE <1>1!1
  <2>1. r \in logged /\ Add(r) /\ UNCHANGED << logged, delivered, doubled >>
    BY <1>4 DEF PushRecord, LogInv, LogSpaceInv
  <2> QED
    BY <2>1, AddBounded DEF LogBoundInv, LogTypeOK
<1>5. ASSUME NEW p \in LogPosts, SendBatch(p) PROVE <1>1!1
  <2>1. /\ logQueue # << >> /\ Pop(BatchSize, logQueue, fileLength)
        /\ UNCHANGED << logged, delivered, doubled >>
    BY <1>5 DEF SendBatch
  <2>2. logQueue \in Seq(LogRecords) /\ Len(logQueue) \in Nat
    BY DEF LogBoundInv, LogTypeOK
  <2>3. /\ Len(logQueue') \in Nat /\ Len(logQueue') < Len(logQueue)
        /\ fileLength' \in Nat \ {0}
    BY <2>1, <2>2, PopShortens, LogConstants DEF LogBoundInv, LogTypeOK
  <2>4. QueueIsBounded'
    BY <2>2, <2>3, LogConstants DEF LogBoundInv, QueueIsBounded
  <2>5. lost' \subseteq logged
    <3>1. PICK n : n = IF BatchSize < Len(logQueue) THEN BatchSize ELSE Len(logQueue)
      OBVIOUS
    <3>2. PICK records : records = SubSeq(logQueue, 1, n)
      OBVIOUS
    <3>3. n \in 1..Len(logQueue)
      BY <2>1, <2>2, <3>1, LogConstants
    <3>4. records \in Seq(logged)
      <4>1. logQueue \in Seq(logged) /\ \A i \in 1..n : logQueue[i] \in logged
        BY <2>2, <3>3 DEF LogBoundInv, LogTypeOK
      <4> QED
        BY <3>2, <3>3, <4>1, SubSeqProperties
    <3>5. lost' = lost \/ lost' = lost \cup Range(records)
      BY <1>5, <3>1, <3>2 DEF SendBatch
    <3>6. Range(records) \subseteq logged
      BY <3>4 DEF Range
    <3> QED
      BY <3>5, <3>6 DEF LogBoundInv, LogTypeOK
  <2> QED
    BY <2>1, <2>3, <2>4, <2>5 DEF LogBoundInv, LogTypeOK
<1>6. ASSUME NEW p \in LogPosts,
             PostSucceeds(p) \/ PostFails(p) \/ PostFailsTwice(p) \/ PostRefused(p)
      PROVE  <1>1!1
  <2>1. /\ UNCHANGED << logged, logQueue, fileLength >>
        /\ delivered' \in {delivered, delivered \cup Range(posts[p])}
        /\ lost' \in {lost, lost \cup Range(posts[p])}
        /\ doubled' \in {doubled, doubled \cup Range(posts[p])}
    BY <1>6 DEF PostSucceeds, PostFails, PostFailsTwice, PostRefused
  <2> QED
    BY <1>2, <2>1 DEF LogBoundInv, LogTypeOK, QueueIsBounded
<1>7. ASSUME NEW p \in LogPosts, PushBack(p) PROVE <1>1!1
  <2>1. PICK s : s = returning[p]
    OBVIOUS
  <2>2. PICK r : r = Head(s)
    OBVIOUS
  <2>3. /\ s # << >> /\ Add(r) /\ UNCHANGED << logged, delivered, doubled >>
    BY <1>7, <2>1, <2>2 DEF PushBack
  <2>4. r \in logged
    <3>1. s \in Seq(logged)
      BY <2>1 DEF LogInv, LogSpaceInv
    <3> QED
      BY <2>2, <2>3, <3>1
  <2> QED
    BY <2>3, <2>4, AddBounded DEF LogBoundInv, LogTypeOK
<1>8. ASSUME ProcessEnds PROVE <1>1!1
  BY <1>2, <1>8 DEF ProcessEnds, LogBoundInv, LogTypeOK, QueueIsBounded
<1>9. ASSUME UNCHANGED logVars PROVE <1>1!1
  BY <1>9 DEF logVars, LogBoundInv, LogTypeOK, QueueIsBounded
<1> QED
  BY <1>3, <1>4, <1>5, <1>6, <1>7, <1>8, <1>9 DEF LogNext

LEMMA LogBoundInductive == LogSpec => []LogBoundInv
<1>1. LogInit => LogBoundInv
  <2> SUFFICES ASSUME LogInit PROVE LogBoundInv
    OBVIOUS
  <2>1. logQueue \in Seq(logged) /\ Len(logQueue) = 0 /\ << >> \in Seq(logged)
    BY DEF LogInit
  <2> QED
    BY <2>1, LogConstants DEF LogInit, LogBoundInv, LogTypeOK, QueueIsBounded
<1> QED
  BY <1>1, NextLogBound, LogInductive, PTL DEF LogSpec

\* The state of the remote logs is well-formed: the file always has a length, whatever
\* the sizes of the records (Grown).
THEOREM LogTypeCorrect == LogSpec => []LogTypeOK
<1>1. LogBoundInv => LogTypeOK
  BY DEF LogBoundInv
<1> QED
  BY <1>1, LogBoundInductive, PTL

\* The limit of the file bounds the number of records in the queue, however large they
\* are and however often they are pushed back (QueueIsBounded).
THEOREM QueueStaysBounded == LogSpec => []QueueIsBounded
<1>1. LogBoundInv => QueueIsBounded
  BY DEF LogBoundInv
<1> QED
  BY <1>1, LogBoundInductive, PTL

-----------------------------------------------------------------------------
(* UrlOpening *)

\* What a click can have done by now: the resolver that has not resolved has opened
\* nothing, and one that was never started neither resolved nor opened.
ResolverInv ==
    \A c \in Clicks :
        /\ c \in presentBlocks => resolved[c] /\ opened[c] = 0
        /\ task[c] = "none" => ~resolved[c]
        /\ ~resolved[c] /\ task[c] # "over" => opened[c] = 0 /\ c \notin presentBlocks

UrlInv == UrlTypeOK /\ ResolverInv /\ OpenedOnce /\ StoreOnScreenIsKnown

LEMMA InitUrlInv == UrlInit => UrlInv
<1> SUFFICES ASSUME UrlInit PROVE UrlInv
  OBVIOUS
<1>1. UrlTypeOK
  BY DEF UrlInit, UrlTypeOK
<1>2. ResolverInv /\ OpenedOnce /\ StoreOnScreenIsKnown
  BY DEF UrlInit, ResolverInv, OpenedOnce, StoreOnScreenIsKnown
<1> QED
  BY <1>1, <1>2 DEF UrlInv

\* A click: opened outside, resolved at once, or resolved by a task.
LEMMA OpenKeeps ==
    ASSUME UrlInv, NEW c \in Clicks, OpenExternalURL(c)
    PROVE  UrlInv'
<1> USE DEF UrlInv, OpenExternalURL, OpenOutside, ResolveAppStore, FirstResolution
<1>1. UrlTypeOK'
  <2>1. /\ task' \in [Clicks -> {"none", "running", "over"}]
        /\ resolved' \in [Clicks -> BOOLEAN]
        /\ presentBlocks' \subseteq Clicks
    BY DEF UrlTypeOK
  <2>2. opened' \in [Clicks -> Nat] /\ answered' \subseteq Clicks
    BY DEF UrlTypeOK
  <2> QED
    BY <2>1, <2>2 DEF UrlTypeOK
<1>2. ResolverInv'
  BY DEF UrlTypeOK, ResolverInv
<1>3. OpenedOnce'
  BY DEF UrlTypeOK, ResolverInv, OpenedOnce
<1>4. StoreOnScreenIsKnown'
  BY DEF UrlTypeOK, StoreOnScreenIsKnown
<1> QED
  BY <1>1, <1>2, <1>3, <1>4

\* A redirection to the App Store.
LEMMA RedirectKeeps ==
    ASSUME UrlInv, NEW c \in Clicks, RedirectToAppStore(c)
    PROVE  UrlInv'
<1> USE DEF UrlInv, RedirectToAppStore, ResolveAppStore, FirstResolution
<1>1. UrlTypeOK'
  BY DEF UrlTypeOK
<1>2. ResolverInv'
  BY DEF UrlTypeOK, ResolverInv
<1>3. OpenedOnce'
  BY DEF UrlTypeOK, ResolverInv, OpenedOnce
<1>4. StoreOnScreenIsKnown'
  BY DEF UrlTypeOK, StoreOnScreenIsKnown
<1> QED
  BY <1>1, <1>2, <1>3, <1>4

\* The end of the task, heard only if no redirection led to the App Store before.
LEMMA TaskCompletesKeeps ==
    ASSUME UrlInv, NEW c \in Clicks, TaskCompletes(c)
    PROVE  UrlInv'
<1> USE DEF UrlInv, TaskCompletes, OpenOutside, FirstResolution
<1>1. UrlTypeOK'
  BY DEF UrlTypeOK
<1>2. ResolverInv'
  BY DEF UrlTypeOK, ResolverInv
<1>3. OpenedOnce'
  BY DEF UrlTypeOK, ResolverInv, OpenedOnce
<1>4. StoreOnScreenIsKnown'
  BY DEF UrlTypeOK, StoreOnScreenIsKnown
<1> QED
  BY <1>1, <1>2, <1>3, <1>4

\* The store is made, and presented unless another one is.
LEMMA PresentStoreKeeps ==
    ASSUME UrlInv, NEW c \in Clicks, PresentStore(c)
    PROVE  UrlInv'
<1> USE DEF UrlInv, PresentStore, StoreKept
<1>1. UrlTypeOK'
  BY DEF UrlTypeOK
<1>2. ResolverInv'
  BY DEF UrlTypeOK, ResolverInv
<1>3. OpenedOnce'
  BY DEF UrlTypeOK, ResolverInv, OpenedOnce
<1>4. StoreOnScreenIsKnown'
  BY NoClickIsNoClick DEF UrlTypeOK, StoreOnScreenIsKnown
<1> QED
  BY <1>1, <1>2, <1>3, <1>4

LEMMA NextUrlInv == UrlInv /\ [UrlNext]_urlVars => UrlInv'
<1> SUFFICES ASSUME UrlInv, [UrlNext]_urlVars PROVE UrlInv'
  OBVIOUS
<1>1. CASE StoreDidFinish
  BY <1>1 DEF StoreDidFinish, UrlInv, UrlTypeOK, ResolverInv, OpenedOnce, StoreOnScreenIsKnown
<1>2. CASE UNCHANGED urlVars
  BY <1>2 DEF urlVars, UrlInv, UrlTypeOK, ResolverInv, OpenedOnce, StoreOnScreenIsKnown
<1> QED
  BY <1>1, <1>2, OpenKeeps, RedirectKeeps, TaskCompletesKeeps, PresentStoreKeeps DEF UrlNext

\* What a resolver may still do, and the two properties it implies.
THEOREM UrlInductive == UrlSpec => []UrlInv
BY InitUrlInv, NextUrlInv, PTL DEF UrlSpec

\* The variables of the opener and its resolvers have their types.
THEOREM UrlTypeCorrect == UrlSpec => []UrlTypeOK
<1>1. UrlInv => UrlTypeOK
  BY DEF UrlInv
<1> QED
  BY <1>1, UrlInductive, PTL

\* A click opens its URL or its store, and nothing twice.
THEOREM ClickOpensOnce == UrlSpec => []OpenedOnce
<1>1. UrlInv => OpenedOnce
  BY DEF UrlInv
<1> QED
  BY <1>1, UrlInductive, PTL

\* storeKitController is set whenever a store is on screen.
THEOREM StoreIsKnown == UrlSpec => []StoreOnScreenIsKnown
<1>1. UrlInv => StoreOnScreenIsKnown
  BY DEF UrlInv
<1> QED
  BY <1>1, UrlInductive, PTL
=============================================================================
