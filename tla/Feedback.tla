------------------------------ MODULE Feedback ------------------------------
(***************************************************************************)
(* The feedback feature: CR_FeedbackFeatureGuard, CR_FeedbackController,   *)
(* CR_FeedbackStorage and CR_FeedbackFileManager, with the bounded queue   *)
(* file they send from.                                                    *)
(*                                                                         *)
(* The bid manager reports the life of each impression from several        *)
(* threads.  A report takes the lock of the storage and updates the file   *)
(* of the impression; once the metric is complete it moves from its file   *)
(* to the sending queue, which are two writes.  Each call to CDB pops the  *)
(* whole queue and posts it, one post per profile; a post that ends with   *)
(* an error puts its messages back, one that is answered with a status     *)
(* outside 200..299 drops them.  The process may end between any two       *)
(* writes; the next one moves every file it finds to the queue.            *)
(***************************************************************************)
EXTENDS Naturals, Sequences, FiniteSets

CONSTANTS
    Ids,       \* impressions
    Requests,  \* CDB requests
    RequestOf, \* the request each impression belongs to
    Profiles,  \* the profile ids of CR_IntegrationRegistry
    ProfileOf, \* the profile of each request
    Fallback,  \* CR_IntegrationFallback
    Posts,     \* names of the posts to the backend that may be in flight
    None,      \* no impression
    MaxQueue,  \* messages the queue file holds before it passes maxFileLength
    MaxFiles,  \* files that reach activeMetricsMaxFileSize
    MaxCrashes,\* bound on the ends of the process
    CrashWhileClosing, \* may the process end between the two writes of a move?
    TwoCallbacks, \* may a call to CDB end with an error and a 2xx response?
    MaxLost    \* bound on the posts that fail although the backend took them

ASSUME ConstantsAssumption ==
    /\ RequestOf \in [Ids -> Requests]
    /\ ProfileOf \in [Requests -> Profiles]
    /\ Fallback \in Profiles
    /\ None \notin Ids
    /\ MaxQueue \in Nat \ {0}
    /\ MaxFiles \in Nat
    /\ MaxCrashes \in Nat
    /\ CrashWhileClosing \in BOOLEAN
    /\ TwoCallbacks \in BOOLEAN
    /\ MaxLost \in Nat

VARIABLES
    process, \* starting, running or ended
    toMove,  \* the files the starting storage has listed and not moved yet
    enabled, \* CR_FeedbackFeatureGuard.controller is not nil
    call,    \* per request: how far CDB and the bid manager are
    bid,     \* per impression: the bid it got
    cached,  \* per impression: was onBidCached called?
    reports, \* the updates that wait for the lock of the storage
    files,   \* per impression: the fields set in its file, {} when there is none
    closing, \* the impression whose message is queued and file not removed yet
    queue,   \* the sending queue
    post,    \* the batches in flight
    received,\* per impression: how often the backend was given its metric
    crashes, \* how many times the process ended
    lost     \* how many posts failed although the backend took them

vars == << process, toMove, enabled, call, bid, cached, reports, files, closing, queue,
           post, received, crashes, lost >>
storageVars == << files, closing, queue >>
bidVars == << call, bid, cached >>
boundVars == << crashes, lost >>

Flag == {"start", "end", "cached", "elapsed", "expired", "timeout"}

\* A message without "start" has neither impression id nor profile id: they are
\* set together with it.
Message == [id : Ids, fields : SUBSET Flag]

\* A batch in flight: its messages by their place in the queue they were popped
\* from.  sent: on its way; taken: received by the backend, the answer is on its way;
\* pushing: the storage puts back the messages that are left; again: the handler is
\* about to be called a second time with the same error.
Places == 1 .. MaxQueue
Batch == UNION {[S -> Message] : S \in SUBSET Places}
Post == {x \in [at : {"idle", "sent", "taken", "pushing", "again"}, messages : Batch,
                left : SUBSET Places, again : BOOLEAN] :
             /\ x.left \subseteq DOMAIN x.messages
             /\ x.at # "pushing" => x.left = {}}
NoPost == [at |-> "idle", messages |-> << >>, left |-> {}, again |-> FALSE]

TypeOK ==
    /\ process \in {"starting", "running", "ended"}
    /\ toMove \in SUBSET Ids
    /\ enabled \in BOOLEAN
    /\ call \in [Requests -> {"new", "sent", "failing", "answered", "dead"}]
    /\ bid \in [Ids -> {"none", "live", "used"}]
    /\ cached \in [Ids -> BOOLEAN]
    /\ reports \in SUBSET Message
    /\ files \in [Ids -> SUBSET Flag]
    /\ closing \in Ids \cup {None}
    /\ queue \in Seq(Message)
    /\ Len(queue) <= MaxQueue
    /\ post \in [Posts -> Post]
    /\ received \in [Ids -> Nat]
    /\ crashes \in Nat
    /\ lost \in Nat

Init ==
    /\ process = "running"
    /\ toMove = {}
    /\ enabled \in BOOLEAN
    /\ call = [r \in Requests |-> "new"]
    /\ bid = [id \in Ids |-> "none"]
    /\ cached = [id \in Ids |-> FALSE]
    /\ reports = {}
    /\ files = [id \in Ids |-> {}]
    /\ closing = None
    /\ queue = << >>
    /\ post = [p \in Posts |-> NoPost]
    /\ received = [id \in Ids |-> 0]
    /\ crashes = 0
    /\ lost = 0

-----------------------------------------------------------------------------
(* The reports of the bid manager, through the feature guard *)

Impressions(r) == {id \in Ids : RequestOf[id] = r}

\* A guard without a controller drops the report.
Tell(fields) ==
    reports' = IF enabled
                 THEN reports \cup {[id |-> id, fields |-> fields[id]]
                                     : id \in {i \in Ids : fields[i] # {}}}
                 ELSE reports

\* The loop of an earlier callback over the impressions of r is still running.
Reporting(r) ==
    \E m \in reports : /\ RequestOf[m.id] = r
                       /\ bid[m.id] # "used"
                       /\ m.fields # {"cached"}

OnCdbCallStarted(r) ==
    /\ process = "running"
    /\ call[r] = "new"
    /\ call' = [call EXCEPT ![r] = "sent"]
    /\ Tell([id \in Ids |-> IF RequestOf[id] = r THEN {"start"} ELSE {}])
    /\ UNCHANGED << process, toMove, enabled, bid, cached, storageVars, post, received,
                    boundVars >>

\* No bid, an invalid bid or a valid one for each impression of the request.
OnCdbCallResponse(r) ==
    /\ process = "running"
    /\ call[r] = "sent"
    /\ ~Reporting(r)
    /\ call' = [call EXCEPT ![r] = "answered"]
    /\ \E offer \in [Impressions(r) -> {"no bid", "invalid", "valid"}] :
          /\ bid' = [id \in Ids |-> IF RequestOf[id] = r /\ offer[id] = "valid"
                                      THEN "live" ELSE bid[id]]
          /\ Tell([id \in Ids |->
                      IF RequestOf[id] # r THEN {}
                      ELSE CASE offer[id] = "no bid"  -> {"end", "expired"}
                             [] offer[id] = "invalid" -> {"expired"}
                             [] offer[id] = "valid"   -> {"end"}])
    /\ UNCHANGED << process, toMove, enabled, cached, storageVars, post, received,
                    boundVars >>

\* With a 2xx response besides the error the handler is called a second time.
OnCdbCallFailure(r) ==
    /\ process = "running"
    /\ call[r] \in {"sent", "failing"}
    /\ ~Reporting(r)
    /\ \E next \in {"answered", "failing"} :
          /\ next = "failing" => TwoCallbacks /\ call[r] = "sent"
          /\ call' = [call EXCEPT ![r] = next]
    /\ \E failure \in {{"expired"}, {"timeout", "expired"}} :
          Tell([id \in Ids |-> IF RequestOf[id] = r THEN failure ELSE {}])
    /\ UNCHANGED << process, toMove, enabled, bid, cached, storageVars, post, received,
                    boundVars >>

\* The bid may be consumed by another thread before the one that cached it says so.
OnBidCached(id) ==
    /\ process = "running"
    /\ bid[id] \in {"live", "used"}
    /\ ~cached[id]
    /\ ~Reporting(RequestOf[id])
    /\ cached' = [cached EXCEPT ![id] = TRUE]
    /\ Tell([i \in Ids |-> IF i = id THEN {"cached"} ELSE {}])
    /\ UNCHANGED << process, toMove, enabled, call, bid, storageVars, post, received,
                    boundVars >>

OnBidConsumed(id) ==
    /\ process = "running"
    /\ bid[id] = "live"
    /\ ~Reporting(RequestOf[id])
    /\ bid' = [bid EXCEPT ![id] = "used"]
    /\ \E outcome \in {{"elapsed"}, {"expired"}} :
          Tell([i \in Ids |-> IF i = id THEN outcome ELSE {}])
    /\ UNCHANGED << process, toMove, enabled, call, cached, storageVars, post, received,
                    boundVars >>

\* csmEnabled or consentGiven changes.
UpdateController ==
    /\ process = "running"
    /\ enabled' = ~enabled
    /\ UNCHANGED << process, toMove, bidVars, reports, storageVars, post, received,
                    boundVars >>

-----------------------------------------------------------------------------
(* The storage, under its lock *)

Started(m) == "start" \in m.fields

IsReadyToSend(fields) == fields \cap {"elapsed", "expired", "timeout"} # {}

\* A full queue that takes no more.
Accepted(m) == IF Len(queue) < MaxQueue THEN Append(queue, m) ELSE queue

\* An add that leaves the file too long pops the oldest message.
Enqueued(m) ==
    LET longer == Append(queue, m)
    IN  IF Len(longer) > MaxQueue THEN Tail(longer) ELSE longer

\* No move and no roll-back holds the lock.
Unlocked == closing = None /\ \A p \in Posts : post[p].at # "pushing"

\* The fields of a message that is updated, or created.
Created(m) == m.fields
Updated(m) == files[m.id] \cup m.fields

\* writeFeedback: an existing file is written over; a new one needs room.
RoomFor(id) == files[id] # {} \/ Cardinality({i \in Ids : files[i] # {}}) < MaxFiles

UpdateMessage(m) ==
    /\ process = "running"
    /\ Unlocked
    /\ m \in reports
    /\ reports' = reports \ {m}
    /\ IF IsReadyToSend(Updated(m))
         THEN /\ queue' = Enqueued([m EXCEPT !.fields = Updated(m)])
              /\ closing' = m.id
              /\ UNCHANGED files
         ELSE /\ files' = IF RoomFor(m.id)
                            THEN [files EXCEPT ![m.id] = Updated(m)] ELSE files
              /\ UNCHANGED << queue, closing >>
    /\ UNCHANGED << process, toMove, enabled, bidVars, post, received, boundVars >>

\* removeFileForFilename.
KeyRemoved(id) == [i \in Ids \ {id} |-> files[i]]
WithoutFile(id) == [files EXCEPT ![id] = {}]

\* The second write of a move.
RemoveFile ==
    /\ closing # None
    /\ files' = WithoutFile(closing)
    /\ closing' = None
    /\ UNCHANGED << process, toMove, enabled, bidVars, reports, queue, post, received,
                    boundVars >>

\* initWithFileManager moves the files it lists, one by one, complete or not.
MoveFile(id) ==
    /\ process = "starting"
    /\ Unlocked
    /\ id \in toMove
    /\ toMove' = toMove \ {id}
    /\ queue' = Enqueued([id |-> id, fields |-> files[id]])
    /\ closing' = id
    /\ UNCHANGED << process, enabled, bidVars, reports, files, post, received, boundVars >>

StartupDone ==
    /\ process = "starting"
    /\ Unlocked
    /\ toMove = {}
    /\ process' = "running"
    /\ UNCHANGED << toMove, enabled, bidVars, reports, storageVars, post, received,
                    boundVars >>

-----------------------------------------------------------------------------
(* Sending *)

ProfileIn(m) == IF Started(m) THEN ProfileOf[RequestOf[m.id]] ELSE Fallback

Queued == {queue[i] : i \in DOMAIN queue}

\* What pop:size leaves of the queue.
Peeked == queue
PoppedOne == Tail(queue)
Popped == << >>

\* sendFeedbackBatch: pop everything, then one post per profile.
SendFeedbackBatch ==
    /\ process = "running"
    /\ enabled
    /\ Unlocked
    /\ queue # << >>
    /\ queue' = Popped
    /\ \E via \in [{ProfileIn(m) : m \in Queued} -> {p \in Posts : post[p] = NoPost}] :
          LET Mine(p) == {i \in DOMAIN queue : via[ProfileIn(queue[i])] = p}
          IN  /\ \A k, n \in DOMAIN via : via[k] = via[n] => k = n
              /\ post' = [p \in Posts |->
                             IF Mine(p) = {} THEN post[p]
                             ELSE [NoPost EXCEPT !.at = "sent",
                                                 !.messages = [i \in Mine(p) |-> queue[i]]]]
    /\ UNCHANGED << process, toMove, enabled, bidVars, reports, files, closing, received,
                    boundVars >>

\* The metrics among the messages ms, by impression id: how many of each.
Copies(id, ms) == Cardinality({i \in DOMAIN ms : ms[i].id = id /\ Started(ms[i])})

BackendTakes(p) ==
    /\ process # "ended"
    /\ post[p].at = "sent"
    /\ post' = [post EXCEPT ![p].at = "taken"]
    /\ received' = [id \in Ids |-> received[id] + Copies(id, post[p].messages)]
    /\ UNCHANGED << process, toMove, enabled, bidVars, reports, storageVars, boundVars >>

\* A status of 200..299 without an error: the handler has nothing to do.
PostIsOver(p) ==
    /\ process # "ended"
    /\ post[p].at = "taken"
    /\ post' = [post EXCEPT ![p] = NoPost]
    /\ UNCHANGED << process, toMove, enabled, bidVars, reports, storageVars, received,
                    boundVars >>

\* Any other status without an error: the network manager calls no handler, so nothing
\* pushes back a batch the backend did not take.
PostRefused(p) ==
    /\ process # "ended"
    /\ post[p].at \in {"sent", "taken"}
    /\ post' = [post EXCEPT ![p] = NoPost]
    /\ UNCHANGED << process, toMove, enabled, bidVars, reports, storageVars, received,
                    boundVars >>

\* An error: the handler takes the lock to push the messages back.  If the answer is
\* lost the backend has them already, and with a 2xx response besides the error the
\* handler is called, and pushes them, once more.
PostFails(p) ==
    /\ process = "running"
    /\ Unlocked
    /\ \E again \in BOOLEAN :
          /\ \/ /\ post[p].at \in {"sent", "again"}
                /\ ~again
                /\ UNCHANGED lost
             \/ /\ post[p].at = "taken"
                /\ lost < MaxLost
                /\ lost' = lost + 1
          /\ post' = [post EXCEPT ![p] = [@ EXCEPT !.at = "pushing", !.again = again,
                                                   !.left = DOMAIN post[p].messages]]
    /\ UNCHANGED << process, toMove, enabled, bidVars, reports, storageVars, received,
                    crashes >>

\* pushMessagesToSend adds them one by one.
PushMessage(p) ==
    /\ post[p].at = "pushing"
    /\ \E i \in post[p].left :
          /\ \A j \in post[p].left : i <= j
          /\ queue' = Enqueued(post[p].messages[i])
          /\ post' = [post EXCEPT ![p] =
                         IF post[p].left # {i} THEN [@ EXCEPT !.left = post[p].left \ {i}]
                         ELSE IF post[p].again THEN [@ EXCEPT !.at = "again", !.left = {}]
                         ELSE NoPost]
    /\ UNCHANGED << process, toMove, enabled, bidVars, reports, files, closing, received,
                    boundVars >>

-----------------------------------------------------------------------------
(* The process ends and starts again *)

Crash ==
    /\ process # "ended"
    /\ crashes < MaxCrashes
    /\ CrashWhileClosing \/ closing = None
    /\ crashes' = crashes + 1
    /\ process' = "ended"
    /\ toMove' = {}
    /\ call' = [r \in Requests |-> IF call[r] = "new" THEN "new" ELSE "dead"]
    /\ bid' = [id \in Ids |-> "none"]
    /\ reports' = {}
    /\ closing' = None
    /\ post' = [p \in Posts |-> NoPost]
    /\ UNCHANGED << enabled, cached, files, queue, received, lost >>

\* The files initWithFileManager finds.
CompleteFiles == {id \in Ids : IsReadyToSend(files[id])}
ActiveFiles == {id \in Ids : files[id] # {}}

\* A queue file that cannot be opened is deleted and created anew.
Restart ==
    /\ process = "ended"
    /\ process' = "starting"
    /\ toMove' = ActiveFiles
    /\ queue' \in {queue, << >>}
    /\ UNCHANGED << enabled, bidVars, reports, files, closing, post, received, boundVars >>

-----------------------------------------------------------------------------
Report ==
    \/ \E r \in Requests : \/ OnCdbCallStarted(r)
                           \/ OnCdbCallResponse(r)
                           \/ OnCdbCallFailure(r)
    \/ \E id \in Ids : OnBidCached(id) \/ OnBidConsumed(id)
    \/ UpdateController

Store ==
    \/ \E m \in reports : UpdateMessage(m)
    \/ RemoveFile
    \/ \E id \in Ids : MoveFile(id)
    \/ StartupDone

Send ==
    \/ SendFeedbackBatch
    \/ \E p \in Posts : \/ BackendTakes(p)
                        \/ PostIsOver(p)
                        \/ PostRefused(p)
                        \/ PostFails(p)
                        \/ PushMessage(p)

Next == Report \/ Store \/ Send \/ Crash \/ Restart

Spec == Init /\ [][Next]_vars

-----------------------------------------------------------------------------
(* Properties *)

\* The same metric is never sent to the CSM backend twice (the promise of
\* sendFeedbackBatch, which pops its batch instead of peeking for this reason).
SentAtMostOnce == \A id \in Ids : received[id] <= 1

\* No metric is in the sending queue twice: the assertion of addFeedbackMessage.
NoExistingElement ==
    \A i, j \in DOMAIN queue :
        Started(queue[i]) /\ Started(queue[j]) /\ queue[i].id = queue[j].id => i = j

\* Where a metric is, as long as the backend does not have it.
InMessages(id, ms) == \E i \in DOMAIN ms : ms[i].id = id /\ Started(ms[i])
InPost(id, p) ==
    \/ post[p].at = "sent" /\ InMessages(id, post[p].messages)
    \/ \E i \in post[p].left : /\ post[p].messages[i].id = id
                               /\ Started(post[p].messages[i])
Held(id) ==
    \/ "start" \in files[id]
    \/ InMessages(id, queue)
    \/ \E p \in Posts : InPost(id, p)

Awaited(id) ==
    \/ call[RequestOf[id]] = "new"
    \/ \E m \in reports : m.id = id /\ Started(m)

Promise == INSTANCE Outbox WITH
    state    <- [id \in Ids |-> IF Held(id) THEN "held"
                                ELSE IF Awaited(id) THEN "new" ELSE "over"],
    receipts <- received

\* Each metric is tracked once, then sent once or given up, and never comes back:
\* Outbox, through toggles of the feature, failed posts, full queues, restarts.
KeepsPromise == Promise!Spec

\* The metrics of a batch the backend refuses with a status outside 200..299.
Refused(id) == \E p \in Posts : InMessages(id, post[p].messages) /\ PostRefused(p)

\* A metric that is held leaves the device for the backend, with the end of the process
\* or from a full queue, which the code accepts, and in one more way, which it does not:
\* sendFeedbackBatch promises that metrics "are pushed back in the sending queue" if an
\* error occurs, but CR_NetworkManager reports no error for a status outside 200..299,
\* and the batch is gone (Refused).
NeverForgotten ==
    [][\A id \in Ids :
          Held(id) /\ ~Held(id)' /\ received'[id] = received[id]
              => \/ process' = "ended" \/ process = "ended"
                 \/ queue' # queue /\ Len(queue') = MaxQueue
                 \/ Refused(id)]_vars

\* What was reported of an impression stays with it: its file only gains fields
\* until the message that holds all of them is in the queue.
ReportsAddUp ==
    [][\A id \in Ids :
          files'[id] # files[id]
              => \/ files[id] \subseteq files'[id]
                 \/ \E i \in DOMAIN queue' :
                       queue'[i].id = id /\ files[id] \subseteq queue'[i].fields]_vars

\* Once the storage has started, nothing is left of the processes before it: the
\* files that remain belong to calls of this one.
StartupSweeps ==
    process = "running"
        => \A id \in Ids : call[RequestOf[id]] = "dead" => files[id] = {}

=============================================================================
