----------------------------- MODULE RemoteLogs -----------------------------
(***************************************************************************)
(* CR_RemoteLogHandler over CR_RemoteLogStorage: log records pushed into a   *)
(* bounded queue file by blocks on the global queue, popped in batches that  *)
(* are posted, and pushed back one by one when the post fails: twice, when   *)
(* the network manager tells of an error and of a 2xx response.  The queue   *)
(* is locked for one push and for one pop, not longer; the file survives the *)
(* process, the rest does not.                                               *)
(*                                                                         *)
(* Lengths are in units, a record taking SizeOf of them.  QueueFile has the  *)
(* file itself, and the failures of its calls.                               *)
(***************************************************************************)
EXTENDS Growth, Sequences, FiniteSets, SequencesExt

CONSTANTS
    LogRecords,     \* records, each logged once
    LogPosts,       \* names of the batches that may be on their way, or back (bound)
    SizeOf,         \* [LogRecords -> sizes]
    InitialLength,  \* QueueFileInitialLength
    MaxFileLength,  \* maxFileLength of the queue
    BatchSize       \* CR_RemoteLogHandlerLogBatchSize

ASSUME LogConstants ==
    /\ SizeOf \in [LogRecords -> Nat \ {0}]
    /\ InitialLength \in Nat \ {0}
    /\ MaxFileLength \in Nat
    /\ MaxFileLength >= InitialLength
    /\ BatchSize \in Nat \ {0}
    /\ IsFiniteSet(LogPosts)

VARIABLES
    logged,      \* records the handler accepted
    pushes,      \* blocks posted to push a record
    logQueue,    \* the elements of the file
    fileLength,  \* its length
    posts,       \* per name: the batch posted and not answered, << >> if there is none
    returning,   \* per name: what is left to push back of a batch whose post failed
    delivered,   \* records the backend has got
    lost,        \* history: records given up for a cause the code has: no room in the
                 \* file, an element that cannot be read, a refused post, the process ended
    doubled      \* history: records of a batch the code pushes back twice

logVars == << logged, pushes, logQueue, fileLength, posts, returning, delivered, lost,
              doubled >>

LogTypeOK ==
    /\ logged \subseteq LogRecords
    /\ pushes \subseteq logged
    /\ logQueue \in Seq(logged)
    /\ fileLength \in Nat
    /\ posts \in [LogPosts -> Seq(logged)]
    /\ returning \in [LogPosts -> Seq(logged)]
    /\ delivered \subseteq logged
    /\ lost \subseteq logged
    /\ doubled \subseteq logged

LogInit ==
    /\ logged = {}
    /\ pushes = {}
    /\ logQueue = << >>
    /\ fileLength = InitialLength
    /\ posts = [p \in LogPosts |-> << >>]
    /\ returning = [p \in LogPosts |-> << >>]
    /\ delivered = {}
    /\ lost = {}
    /\ doubled = {}

\* The units that the elements of q take.
Used(q) == Cardinality(UNION {{i} \X (1..SizeOf[q[i]]) : i \in DOMAIN q})

\* The file doubles until they fit.
Grown(q) == CHOOSE n \in {fileLength * Doubling[k] : k \in 0..Used(q)} :
                /\ Used(q) <= n
                /\ n = fileLength \/ 2 * Used(q) > n

\* CR_CASQueueFile.pop: popping everything clears the file.
Peek(n, q, length) == UNCHANGED << logQueue, fileLength >>
Pop(n, q, length) ==
    /\ logQueue' = IF n < Len(q) THEN SubSeq(q, n + 1, Len(q)) ELSE << >>
    /\ fileLength' = IF n < Len(q) THEN length ELSE InitialLength

\* CR_CASBoundedFileObjectQueue.add: an element that makes the file too long, or comes
\* while it is too long, costs the oldest.
AddAnyway(r) ==
    /\ logQueue' = Append(logQueue, r)
    /\ fileLength' = Grown(Append(logQueue, r))
    /\ UNCHANGED lost

Add(r) ==
    LET q == Append(logQueue, r) IN
    IF Grown(q) > MaxFileLength
    THEN /\ Pop(1, q, Grown(q))
         /\ lost' = lost \cup {Head(q)}
    ELSE /\ logQueue' = q
         /\ fileLength' = Grown(q)
         /\ UNCHANGED lost

\* logMessage: a message without consent, or below the level, is not accepted.
LogMessage(r) ==
    /\ r \notin logged
    /\ logged' = logged \cup {r}
    /\ pushes' = pushes \cup {r}
    /\ UNCHANGED << logQueue, fileLength, posts, returning, delivered, lost, doubled >>

PushRecord(r) ==
    /\ r \in pushes
    /\ pushes' = pushes \ {r}
    /\ Add(r)
    /\ UNCHANGED << logged, posts, returning, delivered, doubled >>

\* sendRemoteLogBatch: nothing is posted for an empty queue.  One element that cannot
\* be read makes peek return nothing, and the batch is popped all the same.
SendBatch(p) ==
    LET n == IF BatchSize < Len(logQueue) THEN BatchSize ELSE Len(logQueue)
        records == SubSeq(logQueue, 1, n)
    IN
    /\ logQueue # << >>
    /\ posts[p] = << >> /\ returning[p] = << >>
    /\ Pop(BatchSize, logQueue, fileLength)
    /\ \/ posts' = [posts EXCEPT ![p] = records] /\ UNCHANGED lost
       \/ lost' = lost \cup Range(records) /\ UNCHANGED posts
    /\ UNCHANGED << logged, pushes, returning, delivered, doubled >>

\* What the loops of the completion handler push back, over all its calls.
CalledTwice(records) == records \o records
CalledOnce(records) == records

\* A success.
PostSucceeds(p) ==
    /\ posts[p] # << >>
    /\ posts' = [posts EXCEPT ![p] = << >>]
    /\ delivered' = delivered \cup Range(posts[p])
    /\ UNCHANGED << logged, pushes, logQueue, fileLength, returning, lost, doubled >>

\* An error, before or after the backend got the records.
PostFails(p) ==
    /\ posts[p] # << >>
    /\ posts' = [posts EXCEPT ![p] = << >>]
    /\ returning' = [returning EXCEPT ![p] = CalledOnce(posts[p])]
    /\ delivered' \in {delivered, delivered \cup Range(posts[p])}
    /\ UNCHANGED << logged, pushes, logQueue, fileLength, lost, doubled >>

\* An error that comes with a 2xx response (the backend has the records): postToUrl
\* calls the handler for the one and then, with the same error, for the other.
PostFailsTwice(p) ==
    /\ posts[p] # << >>
    /\ posts' = [posts EXCEPT ![p] = << >>]
    /\ returning' = [returning EXCEPT ![p] = CalledTwice(posts[p])]
    /\ delivered' = delivered \cup Range(posts[p])
    /\ doubled' = doubled \cup Range(posts[p])
    /\ UNCHANGED << logged, pushes, logQueue, fileLength, lost >>

\* A status outside 200..299 without an error: postToUrl calls nobody.
PostRefused(p) ==
    /\ posts[p] # << >>
    /\ posts' = [posts EXCEPT ![p] = << >>]
    /\ lost' = lost \cup Range(posts[p])
    /\ UNCHANGED << logged, pushes, logQueue, fileLength, returning, delivered, doubled >>

\* A turn of the loop of the completion handler, one lock per record.
PushBack(p) ==
    /\ returning[p] # << >>
    /\ returning' = [returning EXCEPT ![p] = Tail(returning[p])]
    /\ Add(Head(returning[p]))
    /\ UNCHANGED << logged, pushes, posts, delivered, doubled >>

InFlight(p) == Range(posts[p]) \cup Range(returning[p])

InMemory == pushes \cup UNION {InFlight(p) : p \in LogPosts}

\* The process ends and starts again: the file is what is left.
ProcessEnds ==
    /\ InMemory # {}
    /\ lost' = lost \cup InMemory
    /\ pushes' = {}
    /\ posts' = [p \in LogPosts |-> << >>]
    /\ returning' = [p \in LogPosts |-> << >>]
    /\ UNCHANGED << logged, logQueue, fileLength, delivered, doubled >>

LogNext ==
    \/ \E r \in LogRecords : LogMessage(r) \/ PushRecord(r)
    \/ \E p \in LogPosts :
          \/ SendBatch(p)
          \/ PostSucceeds(p) \/ PostFails(p) \/ PostFailsTwice(p) \/ PostRefused(p)
          \/ PushBack(p)
    \/ ProcessEnds

LogSpec == LogInit /\ [][LogNext]_logVars

(***************************************************************************)
(* Properties.                                                             *)
(***************************************************************************)

\* The places in which a record waits: a block, the queue, a batch on its way or back.
Waiting(r) ==
    (IF r \in pushes THEN 1 ELSE 0)
      + Cardinality({i \in DOMAIN logQueue : logQueue[i] = r})
      + Cardinality({p \in LogPosts : r \in InFlight(p)})

\* A record the handler accepted is nowhere only if the backend has it or for one of the
\* causes; and it is in one place at a time, so that no two requests carry it at once,
\* unless a batch with it came back with an error and a 2xx response both: then the code
\* pushes it back twice, and each copy goes on by itself.
RecordsAreKept ==
    \A r \in logged :
        /\ r \notin doubled => Waiting(r) <= 1
        /\ Waiting(r) = 0 => r \in delivered \cup lost

\* However large the records and however often they are pushed back, the queue never
\* holds more of them than the file's limit could hold small ones.
QueueIsBounded == Len(logQueue) <= MaxFileLength
=============================================================================
