--------------------------- MODULE FeedbackProofs ---------------------------
(***************************************************************************)
(* Theorems about Feedback, for any sets of impressions, requests and      *)
(* posts and any bounds: its type invariant, and, as long as the process   *)
(* does not end between the two writes of a move and no post fails whose   *)
(* messages the backend took, that no metric is in the queue twice and     *)
(* that the feature implements Outbox.                                     *)
(***************************************************************************)
EXTENDS Feedback, FiniteSetTheorems, TLAPS

-----------------------------------------------------------------------------
(* The inductive invariant *)

\* The two hazards that defeat the promise of sendFeedbackBatch are absent.
Honest == ~CrashWhileClosing /\ MaxLost = 0

Same(m, n) == Started(m) /\ Started(n) /\ m.id = n.id

\* The places of the messages that a post carries and the queue does not hold.
Carry(p) == IF post[p].at = "pushing" THEN post[p].left ELSE DOMAIN post[p].messages

Carried(id, p) ==
    \E i \in Carry(p) : post[p].messages[i].id = id /\ Started(post[p].messages[i])

\* No handler is called a second time, and only a roll-back has messages left to push.
PostInv ==
    \A p \in Posts :
        /\ post[p].at # "again"
        /\ ~post[p].again
        /\ post[p].at = "idle" => post[p] = NoPost
        /\ post[p].at # "pushing" => post[p].left = {}

\* The start of an impression is reported once, when its request is sent.
StartInv ==
    \A m \in reports : Started(m) => m.fields = {"start"} /\ call[RequestOf[m.id]] # "new"

\* A metric that is still to come is nowhere yet.
NewInv ==
    \A id \in Ids : Awaited(id) =>
        /\ "start" \notin files[id]
        /\ ~InMessages(id, queue)
        /\ \A p \in Posts : ~Carried(id, p)

\* A metric with a file is in no batch, and in the queue only until its file is removed.
FileInv ==
    \A id \in Ids : "start" \in files[id] =>
        /\ InMessages(id, queue) => closing = id
        /\ \A p \in Posts : ~Carried(id, p)

\* No metric is carried by two posts, nor by a post and the queue, nor twice by either.
OnceInv ==
    /\ NoExistingElement
    /\ \A p \in Posts : \A i, j \in Carry(p) :
          Same(post[p].messages[i], post[p].messages[j]) => i = j
    /\ \A id \in Ids, p \in Posts : Carried(id, p) => ~InMessages(id, queue)
    /\ \A id \in Ids, p, q \in Posts : Carried(id, p) /\ Carried(id, q) => p = q

IInv == PostInv /\ StartInv /\ NewInv /\ FileInv /\ OnceInv

-----------------------------------------------------------------------------
(* The queue *)

\* An add puts the message last; what is before it was in the queue, one place
\* further when the oldest message was popped.
LEMMA EnqueuedIs ==
    ASSUME queue \in Seq(Message), Len(queue) <= MaxQueue, MaxQueue \in Nat \ {0},
           NEW m \in Message
    PROVE  /\ Enqueued(m) \in Seq(Message)
           /\ Len(Enqueued(m)) \in 1 .. MaxQueue
           /\ Enqueued(m)[Len(Enqueued(m))] = m
           /\ \E shift \in {0, 1} : \A i \in DOMAIN Enqueued(m) :
                 i # Len(Enqueued(m)) => /\ i + shift \in DOMAIN queue
                                         /\ Enqueued(m)[i] = queue[i + shift]
<1> DEFINE longer == Append(queue, m)
<1>1. /\ longer \in Seq(Message)
      /\ Len(longer) = Len(queue) + 1
      /\ Len(longer) \in Nat
      /\ \A i \in 1 .. Len(queue) : longer[i] = queue[i]
      /\ longer[Len(queue) + 1] = m
  OBVIOUS
<1>2. CASE Len(longer) > MaxQueue
  <2>1. Enqueued(m) = Tail(longer)
    BY <1>2 DEF Enqueued
  <2>2. /\ Tail(longer) \in Seq(Message)
        /\ Len(Tail(longer)) = Len(queue)
        /\ \A i \in 1 .. Len(queue) : Tail(longer)[i] = longer[i + 1]
    BY <1>1, <1>2
  <2>3. \A i \in DOMAIN Tail(longer) :
           i # Len(Tail(longer)) => /\ i + 1 \in DOMAIN queue
                                    /\ Tail(longer)[i] = queue[i + 1]
    BY <1>1, <2>2
  <2>4. Len(queue) \in 1 .. MaxQueue
    BY <1>1, <1>2
  <2> HIDE DEF longer
  <2>5. Tail(longer)[Len(queue)] = m
    BY <1>1, <2>2, <2>4
  <2> QED BY <2>1, <2>2, <2>3, <2>4, <2>5
<1>3. CASE ~(Len(longer) > MaxQueue)
  <2>1. Enqueued(m) = longer
    BY <1>3 DEF Enqueued
  <2>2. \A i \in DOMAIN longer :
           i # Len(longer) => i + 0 \in DOMAIN queue /\ longer[i] = queue[i + 0]
    BY <1>1
  <2> HIDE DEF longer
  <2> QED BY <1>1, <1>3, <2>1, <2>2
<1> QED BY <1>2, <1>3

-----------------------------------------------------------------------------
(* Types *)

LEMMA EmptyQueueFits == << >> \in Seq(Message) /\ Len(<< >>) <= MaxQueue
<1>1. << >> \in Seq(Message)
  OBVIOUS
<1>2. Len(<< >>) = 0
  OBVIOUS
<1> QED BY <1>1, <1>2, ConstantsAssumption

LEMMA NoPostIsAPost == NoPost \in Post
<1>1. << >> \in [{} -> Message]
  OBVIOUS
<1>2. << >> \in Batch
  BY <1>1 DEF Batch
<1> QED BY <1>2 DEF NoPost, Post

\* The reports that a callback makes are messages.
LEMMA TellType ==
    ASSUME reports \in SUBSET Message, NEW fields \in [Ids -> SUBSET Flag], Tell(fields)
    PROVE  reports' \in SUBSET Message
BY DEF Tell, Message

\* Batches are popped from a queue that fits.
LEMMA BatchIs ==
    ASSUME TypeOK, NEW S \in SUBSET DOMAIN queue
    PROVE  [i \in S |-> queue[i]] \in Batch
<1>1. DOMAIN queue \subseteq Places
  BY ConstantsAssumption DEF TypeOK, Places
<1>2. S \in SUBSET Places
  BY <1>1
<1>3. \A i \in S : queue[i] \in Message
  BY DEF TypeOK
<1>4. [i \in S |-> queue[i]] \in [S -> Message]
  BY <1>3
<1> QED BY <1>2, <1>4 DEF Batch

LEMMA SomeBatch ==
    ASSUME NEW ms \in Batch
    PROVE  /\ DOMAIN ms \in SUBSET Places
           /\ \A i \in DOMAIN ms : ms[i] \in Message
BY DEF Batch

\* Every metric has a whole number of copies in a batch.
LEMMA CopiesType ==
    ASSUME NEW ms \in Batch, NEW id \in Ids
    PROVE  Copies(id, ms) \in Nat
<1> DEFINE S == {i \in DOMAIN ms : ms[i].id = id /\ Started(ms[i])}
<1>1. S \subseteq 1 .. MaxQueue
  BY SomeBatch DEF Places
<1>2. IsFiniteSet(1 .. MaxQueue)
  BY FS_Interval, ConstantsAssumption
<1>3. IsFiniteSet(S)
  BY <1>1, <1>2, FS_Subset
<1> QED BY <1>3, FS_CardinalityType DEF Copies

LEMMA InitType == Init => TypeOK
BY NoPostIsAPost, ConstantsAssumption DEF Init, TypeOK

\* What a step that leaves the storage and the posts alone preserves.
LEMMA ReportType ==
    ASSUME TypeOK, Report
    PROVE  TypeOK'
<1> USE DEF storageVars, bidVars, boundVars
<1>1. ASSUME NEW r \in Requests, OnCdbCallStarted(r)
      PROVE  TypeOK'
  <2> DEFINE fields == [id \in Ids |-> IF RequestOf[id] = r THEN {"start"} ELSE {}]
  <2>1. fields \in [Ids -> SUBSET Flag] /\ Tell(fields)
    BY <1>1 DEF OnCdbCallStarted, Flag
  <2> HIDE DEF fields
  <2>2. reports' \in SUBSET Message
    BY <2>1, TellType DEF TypeOK
  <2> QED BY <1>1, <2>2 DEF TypeOK, OnCdbCallStarted
<1>2. ASSUME NEW r \in Requests, OnCdbCallResponse(r)
      PROVE  TypeOK'
  <2> PICK offer \in [Impressions(r) -> {"no bid", "invalid", "valid"}] :
          /\ bid' = [id \in Ids |-> IF RequestOf[id] = r /\ offer[id] = "valid"
                                      THEN "live" ELSE bid[id]]
          /\ Tell([id \in Ids |->
                      IF RequestOf[id] # r THEN {}
                      ELSE CASE offer[id] = "no bid"  -> {"end", "expired"}
                             [] offer[id] = "invalid" -> {"expired"}
                             [] offer[id] = "valid"   -> {"end"}])
    BY <1>2 DEF OnCdbCallResponse
  <2> DEFINE fields == [id \in Ids |->
                      IF RequestOf[id] # r THEN {}
                      ELSE CASE offer[id] = "no bid"  -> {"end", "expired"}
                             [] offer[id] = "invalid" -> {"expired"}
                             [] offer[id] = "valid"   -> {"end"}]
  <2>1. \A id \in Ids : RequestOf[id] = r => offer[id] \in {"no bid", "invalid", "valid"}
    BY DEF Impressions
  <2>2. fields \in [Ids -> SUBSET Flag] /\ Tell(fields)
    BY <2>1 DEF Flag
  <2> HIDE DEF fields
  <2>3. reports' \in SUBSET Message
    BY <2>2, TellType DEF TypeOK
  <2>4. bid' \in [Ids -> {"none", "live", "used"}]
    BY DEF TypeOK
  <2> QED BY <1>2, <2>3, <2>4 DEF TypeOK, OnCdbCallResponse
<1>3. ASSUME NEW r \in Requests, OnCdbCallFailure(r)
      PROVE  TypeOK'
  <2> PICK failure \in {{"expired"}, {"timeout", "expired"}} :
          Tell([id \in Ids |-> IF RequestOf[id] = r THEN failure ELSE {}])
    BY <1>3 DEF OnCdbCallFailure
  <2> DEFINE fields == [id \in Ids |-> IF RequestOf[id] = r THEN failure ELSE {}]
  <2>1. fields \in [Ids -> SUBSET Flag] /\ Tell(fields)
    BY DEF Flag
  <2> HIDE DEF fields
  <2>2. reports' \in SUBSET Message
    BY <2>1, TellType DEF TypeOK
  <2> QED BY <1>3, <2>2 DEF TypeOK, OnCdbCallFailure
<1>4. ASSUME NEW id \in Ids, OnBidCached(id)
      PROVE  TypeOK'
  <2> DEFINE fields == [i \in Ids |-> IF i = id THEN {"cached"} ELSE {}]
  <2>1. fields \in [Ids -> SUBSET Flag] /\ Tell(fields)
    BY <1>4 DEF OnBidCached, Flag
  <2> HIDE DEF fields
  <2>2. reports' \in SUBSET Message
    BY <2>1, TellType DEF TypeOK
  <2> QED BY <1>4, <2>2 DEF TypeOK, OnBidCached
<1>5. ASSUME NEW id \in Ids, OnBidConsumed(id)
      PROVE  TypeOK'
  <2> PICK outcome \in {{"elapsed"}, {"expired"}} :
          Tell([i \in Ids |-> IF i = id THEN outcome ELSE {}])
    BY <1>5 DEF OnBidConsumed
  <2> DEFINE fields == [i \in Ids |-> IF i = id THEN outcome ELSE {}]
  <2>1. fields \in [Ids -> SUBSET Flag] /\ Tell(fields)
    BY DEF Flag
  <2> HIDE DEF fields
  <2>2. reports' \in SUBSET Message
    BY <2>1, TellType DEF TypeOK
  <2> QED BY <1>5, <2>2 DEF TypeOK, OnBidConsumed
<1>6. ASSUME UpdateController
      PROVE  TypeOK'
  BY <1>6 DEF TypeOK, UpdateController
<1> QED BY <1>1, <1>2, <1>3, <1>4, <1>5, <1>6 DEF Report

LEMMA StoreType ==
    ASSUME TypeOK, Store
    PROVE  TypeOK'
<1> USE DEF storageVars, bidVars, boundVars
<1>1. ASSUME NEW m \in reports, UpdateMessage(m)
      PROVE  TypeOK'
  <2>1. m \in Message /\ m.id \in Ids /\ Updated(m) \in SUBSET Flag
    BY DEF TypeOK, Message, Updated
  <2>2. [m EXCEPT !.fields = Updated(m)] \in Message
    BY <2>1 DEF Message
  <2> DEFINE e == Enqueued([m EXCEPT !.fields = Updated(m)])
  <2>7. e \in Seq(Message) /\ Len(e) <= MaxQueue
    BY <2>2, EnqueuedIs, ConstantsAssumption DEF TypeOK
  <2>8. queue' = e \/ queue' = queue
    BY <1>1 DEF UpdateMessage
  <2> HIDE DEF e
  <2>3. queue' \in Seq(Message) /\ Len(queue') <= MaxQueue
    BY <2>7, <2>8 DEF TypeOK
  <2>4. closing' \in Ids \cup {None}
    BY <1>1, <2>1 DEF UpdateMessage, TypeOK
  <2>5. files' \in [Ids -> SUBSET Flag]
    BY <1>1, <2>1 DEF UpdateMessage, TypeOK
  <2>6. reports' \in SUBSET Message
    BY <1>1 DEF UpdateMessage, TypeOK
  <2> QED BY <1>1, <2>3, <2>4, <2>5, <2>6 DEF TypeOK, UpdateMessage
<1>2. ASSUME RemoveFile
      PROVE  TypeOK'
  BY <1>2 DEF TypeOK, RemoveFile, WithoutFile
<1>3. ASSUME NEW id \in Ids, MoveFile(id)
      PROVE  TypeOK'
  <2>1. [id |-> id, fields |-> files[id]] \in Message
    BY DEF TypeOK, Message
  <2>2. queue' \in Seq(Message) /\ Len(queue') <= MaxQueue
    BY <1>3, <2>1, EnqueuedIs, ConstantsAssumption DEF TypeOK, MoveFile
  <2> QED BY <1>3, <2>2 DEF TypeOK, MoveFile
<1>4. ASSUME StartupDone
      PROVE  TypeOK'
  BY <1>4 DEF TypeOK, StartupDone
<1> QED BY <1>1, <1>2, <1>3, <1>4 DEF Store

LEMMA SendType ==
    ASSUME TypeOK, Send
    PROVE  TypeOK'
<1> USE DEF storageVars, bidVars, boundVars
<1>1. ASSUME SendFeedbackBatch
      PROVE  TypeOK'
  <2> PICK via \in [{ProfileIn(m) : m \in Queued} -> {p \in Posts : post[p] = NoPost}] :
          LET Mine(p) == {i \in DOMAIN queue : via[ProfileIn(queue[i])] = p}
          IN  post' = [p \in Posts |->
                             IF Mine(p) = {} THEN post[p]
                             ELSE [NoPost EXCEPT !.at = "sent",
                                                 !.messages = [i \in Mine(p) |-> queue[i]]]]
    BY <1>1 DEF SendFeedbackBatch
  <2>6. post \in [Posts -> Post]
    BY DEF TypeOK
  <2> DEFINE Mine(p) == {i \in DOMAIN queue : via[ProfileIn(queue[i])] = p}
             Batched(p) == [i \in Mine(p) |-> queue[i]]
  <2>1. \A p \in Posts : Batched(p) \in Batch
    BY BatchIs
  <2>2. post' = [p \in Posts |->
                   IF Mine(p) = {} THEN post[p]
                   ELSE [NoPost EXCEPT !.at = "sent", !.messages = Batched(p)]]
    OBVIOUS
  <2> HIDE DEF Mine, Batched
  <2>3. \A p \in Posts : [NoPost EXCEPT !.at = "sent", !.messages = Batched(p)] \in Post
    BY <2>1 DEF NoPost, Post
  <2>4. post' \in [Posts -> Post]
    BY <2>2, <2>3, <2>6
  <2>5. queue' = << >>
    BY <1>1 DEF SendFeedbackBatch, Popped
  <2>7. queue' \in Seq(Message) /\ Len(queue') <= MaxQueue
    BY <2>5, EmptyQueueFits
  <2> QED BY <1>1, <2>4, <2>7 DEF TypeOK, SendFeedbackBatch
<1>2. ASSUME NEW p \in Posts, BackendTakes(p)
      PROVE  TypeOK'
  <2>1. post[p].messages \in Batch
    BY DEF TypeOK, Post
  <2>2. \A id \in Ids : Copies(id, post[p].messages) \in Nat
    BY <2>1, CopiesType
  <2>3. received' \in [Ids -> Nat]
    BY <1>2, <2>2 DEF TypeOK, BackendTakes
  <2>4. post' \in [Posts -> Post]
    BY <1>2 DEF TypeOK, BackendTakes, Post
  <2> QED BY <1>2, <2>3, <2>4 DEF TypeOK, BackendTakes
<1>3. ASSUME NEW p \in Posts, PostIsOver(p) \/ PostRefused(p)
      PROVE  TypeOK'
  BY <1>3, NoPostIsAPost DEF TypeOK, PostIsOver, PostRefused
<1>4. ASSUME NEW p \in Posts, PostFails(p)
      PROVE  TypeOK'
  <2> PICK again \in BOOLEAN :
          post' = [post EXCEPT ![p] = [@ EXCEPT !.at = "pushing", !.again = again,
                                                !.left = DOMAIN post[p].messages]]
    BY <1>4 DEF PostFails
  <2>1. DOMAIN post[p].messages \in SUBSET Places
    BY SomeBatch DEF TypeOK, Post
  <2>2. [post[p] EXCEPT !.at = "pushing", !.again = again,
                        !.left = DOMAIN post[p].messages] \in Post
    BY <2>1 DEF TypeOK, Post
  <2>3. post' \in [Posts -> Post]
    BY <2>2 DEF TypeOK
  <2>4. lost' \in Nat
    BY <1>4 DEF PostFails, TypeOK
  <2> QED BY <1>4, <2>3, <2>4 DEF TypeOK, PostFails
<1>5. ASSUME NEW p \in Posts, PushMessage(p)
      PROVE  TypeOK'
  <2> PICK i \in post[p].left :
          /\ queue' = Enqueued(post[p].messages[i])
          /\ post' = [post EXCEPT ![p] =
                         IF post[p].left # {i} THEN [@ EXCEPT !.left = post[p].left \ {i}]
                         ELSE IF post[p].again THEN [@ EXCEPT !.at = "again", !.left = {}]
                         ELSE NoPost]
    BY <1>5 DEF PushMessage
  <2>1. post[p].messages[i] \in Message
    BY <1>5, SomeBatch DEF TypeOK, Post
  <2>2. queue' \in Seq(Message) /\ Len(queue') <= MaxQueue
    BY <2>1, EnqueuedIs, ConstantsAssumption DEF TypeOK
  <2>3. [post[p] EXCEPT !.left = post[p].left \ {i}] \in Post
    BY DEF TypeOK, Post
  <2>4. [post[p] EXCEPT !.at = "again", !.left = {}] \in Post
    BY DEF TypeOK, Post
  <2>5. post' \in [Posts -> Post]
    BY <2>3, <2>4, NoPostIsAPost DEF TypeOK
  <2> QED BY <1>5, <2>2, <2>5 DEF TypeOK, PushMessage
<1> QED BY <1>1, <1>2, <1>3, <1>4, <1>5 DEF Send

LEMMA ProcessType ==
    ASSUME TypeOK, Crash \/ Restart
    PROVE  TypeOK'
<1> USE DEF bidVars, boundVars
<1>1. CASE Crash
  <2>1. post' \in [Posts -> Post]
    BY <1>1, NoPostIsAPost DEF Crash
  <2>2. call' \in [Requests -> {"new", "sent", "failing", "answered", "dead"}]
    BY <1>1 DEF Crash
  <2> QED BY <1>1, <2>1, <2>2 DEF TypeOK, Crash
<1>2. CASE Restart
  <2>1. queue' = queue \/ queue' = << >>
    BY <1>2 DEF Restart
  <2>2. queue' \in Seq(Message) /\ Len(queue') <= MaxQueue
    BY <2>1, EmptyQueueFits DEF TypeOK
  <2> QED BY <1>2, <2>2 DEF TypeOK, Restart, ActiveFiles
<1> QED BY <1>1, <1>2

LEMMA NextType ==
    ASSUME TypeOK, [Next]_vars
    PROVE  TypeOK'
<1>1. CASE Next
  BY <1>1, ReportType, StoreType, SendType, ProcessType DEF Next
<1>2. CASE UNCHANGED vars
  BY <1>2 DEF TypeOK, vars
<1> QED BY <1>1, <1>2

\* The state of the feature is always of the expected shape: the queue within its
\* bound, and what a roll-back has left to push within its batch.
THEOREM TypeCorrect == Spec => []TypeOK
<1>1. Init => TypeOK
  BY InitType
<1>2. TypeOK /\ [Next]_vars => TypeOK'
  BY NextType
<1> QED BY <1>1, <1>2, PTL DEF Spec

-----------------------------------------------------------------------------
(* Metrics are in one place at a time *)

\* An add brings one metric to the queue, and no second copy of it.
LEMMA EnqueuedOnce ==
    ASSUME TypeOK, NoExistingElement, NEW m \in Message, queue' = Enqueued(m),
           Started(m) => ~InMessages(m.id, queue)
    PROVE  /\ NoExistingElement'
           /\ \A id \in Ids : InMessages(id, queue')
                                 => InMessages(id, queue) \/ (Started(m) /\ m.id = id)
<1>1. /\ queue' \in Seq(Message)
      /\ Len(queue') \in 1 .. MaxQueue
      /\ queue'[Len(queue')] = m
  BY EnqueuedIs, ConstantsAssumption DEF TypeOK
<1>2. PICK shift \in {0, 1} : \A i \in DOMAIN queue' :
          i # Len(queue') => /\ i + shift \in DOMAIN queue
                             /\ queue'[i] = queue[i + shift]
  <2>1. queue \in Seq(Message) /\ Len(queue) <= MaxQueue /\ MaxQueue \in Nat \ {0}
    BY ConstantsAssumption DEF TypeOK
  <2>2. \E shift \in {0, 1} : \A i \in DOMAIN Enqueued(m) :
           i # Len(Enqueued(m)) => /\ i + shift \in DOMAIN queue
                                   /\ Enqueued(m)[i] = queue[i + shift]
    BY <2>1, EnqueuedIs
  <2> QED BY <2>2
<1>3. DOMAIN queue' \subseteq Nat /\ DOMAIN queue \subseteq Nat
  BY <1>1 DEF TypeOK
<1>4. ASSUME NEW i \in DOMAIN queue', NEW j \in DOMAIN queue',
             Started(queue'[i]), Started(queue'[j]), queue'[i].id = queue'[j].id
      PROVE  i = j
  <2>1. ASSUME NEW k \in DOMAIN queue', k # Len(queue'), Started(queue'[k]), Started(m)
        PROVE  queue'[k].id # m.id
    BY <1>2, <2>1 DEF InMessages
  <2>2. CASE i # Len(queue') /\ j # Len(queue')
    <3>1. i + shift = j + shift
      BY <1>2, <1>4, <2>2 DEF NoExistingElement
    <3> QED BY <1>3, <3>1
  <2> QED BY <1>1, <1>4, <2>1, <2>2
<1>5. NoExistingElement'
  BY <1>4 DEF NoExistingElement
<1>6. ASSUME NEW id \in Ids, NEW i \in DOMAIN queue', queue'[i].id = id, Started(queue'[i])
      PROVE  InMessages(id, queue) \/ (Started(m) /\ m.id = id)
  BY <1>1, <1>2, <1>6 DEF InMessages
<1> QED BY <1>5, <1>6 DEF InMessages

\* A metric that is awaited, or has a file while no move is under way, may be queued.
LEMMA NotYetElsewhere ==
    ASSUME TypeOK, IInv, closing = None, NEW id \in Ids,
           Awaited(id) \/ "start" \in files[id]
    PROVE  ~InMessages(id, queue) /\ \A p \in Posts : ~Carried(id, p)
<1>1. closing # id
  BY ConstantsAssumption
<1> QED BY <1>1 DEF IInv, NewInv, FileInv

LEMMA InitInv == Init => IInv
<1> SUFFICES ASSUME Init PROVE IInv
  OBVIOUS
<1>1. \A p \in Posts : post[p] = NoPost
  BY DEF Init
<1>2. \A p \in Posts : Carry(p) = {}
  BY <1>1 DEF NoPost, Carry
<1>3. \A id \in Ids, p \in Posts : ~Carried(id, p)
  BY <1>2 DEF Carried
<1>4. \A id \in Ids : ~InMessages(id, queue) /\ files[id] = {}
  BY DEF Init, InMessages
<1>5. PostInv
  BY <1>1 DEF PostInv, NoPost
<1>6. StartInv /\ NewInv /\ FileInv
  BY <1>3, <1>4 DEF StartInv, NewInv, FileInv, Init
<1>7. NoExistingElement
  BY DEF Init, NoExistingElement
<1>8. OnceInv
  BY <1>2, <1>3, <1>7 DEF OnceInv
<1> QED BY <1>5, <1>6, <1>8 DEF IInv

-----------------------------------------------------------------------------
(* Reports *)

\* A callback adds only reports of the start of impressions nobody awaits elsewhere.
LEMMA TellKeeps ==
    ASSUME TypeOK, NEW fields \in [Ids -> SUBSET Flag], Tell(fields),
           call' \in [Requests -> {"new", "sent", "failing", "answered", "dead"}],
           \A r \in Requests : call'[r] = "new" => call[r] = "new",
           \A id \in Ids : "start" \in fields[id] =>
              /\ fields[id] = {"start"}
              /\ call[RequestOf[id]] = "new"
              /\ call'[RequestOf[id]] # "new",
           StartInv
    PROVE  StartInv' /\ \A id \in Ids : Awaited(id)' => Awaited(id)
<1>1. \A m \in reports' : \/ m \in reports
                          \/ m.id \in Ids /\ m.fields = fields[m.id]
  BY DEF Tell
<1>2. \A m \in reports' : m.id \in Ids /\ RequestOf[m.id] \in Requests
  BY <1>1, ConstantsAssumption DEF TypeOK, Message
<1>3. StartInv'
  BY <1>1, <1>2 DEF StartInv, Started
<1>4. \A id \in Ids : RequestOf[id] \in Requests
  BY ConstantsAssumption
<1>5. ASSUME NEW id \in Ids, Awaited(id)'
      PROVE  Awaited(id)
  BY <1>1, <1>4, <1>5 DEF Awaited, Started
<1> QED BY <1>3, <1>5

LEMMA ReportKeeps ==
    ASSUME TypeOK, IInv, UNCHANGED << files, closing, queue, post >>, StartInv',
           \A id \in Ids : Awaited(id)' => Awaited(id)
    PROVE  IInv'
<1>1. PostInv' /\ FileInv' /\ OnceInv'
  BY DEF IInv, PostInv, FileInv, OnceInv, NoExistingElement, Carry, Carried, InMessages
<1>2. NewInv'
  BY DEF IInv, NewInv, InMessages, Carried, Carry
<1> QED BY <1>1, <1>2 DEF IInv

\* The reports of the bid manager move no metric, and start only new ones.
LEMMA ReportStep ==
    ASSUME TypeOK, IInv, Report
    PROVE  /\ UNCHANGED << files, closing, queue, post, received >>
           /\ StartInv'
           /\ \A id \in Ids : Awaited(id)' => Awaited(id)
<1> USE DEF storageVars, IInv
<1>1. ASSUME NEW r \in Requests, OnCdbCallStarted(r)
      PROVE  StartInv' /\ \A id \in Ids : Awaited(id)' => Awaited(id)
  <2> DEFINE fields == [id \in Ids |-> IF RequestOf[id] = r THEN {"start"} ELSE {}]
  <2>1. fields \in [Ids -> SUBSET Flag] /\ Tell(fields)
    BY <1>1 DEF OnCdbCallStarted, Flag
  <2>2. \A id \in Ids : "start" \in fields[id] =>
            fields[id] = {"start"} /\ RequestOf[id] = r
    OBVIOUS
  <2> HIDE DEF fields
  <2>3. /\ call[r] = "new" /\ call'[r] # "new"
        /\ call' \in [Requests -> {"new", "sent", "failing", "answered", "dead"}]
        /\ \A q \in Requests : call'[q] = "new" => call[q] = "new"
    BY <1>1 DEF OnCdbCallStarted, TypeOK
  <2> QED BY <2>1, <2>2, <2>3, TellKeeps
<1>2. ASSUME NEW r \in Requests, OnCdbCallResponse(r)
      PROVE  StartInv' /\ \A id \in Ids : Awaited(id)' => Awaited(id)
  <2> PICK offer \in [Impressions(r) -> {"no bid", "invalid", "valid"}] :
          Tell([id \in Ids |->
                      IF RequestOf[id] # r THEN {}
                      ELSE CASE offer[id] = "no bid"  -> {"end", "expired"}
                             [] offer[id] = "invalid" -> {"expired"}
                             [] offer[id] = "valid"   -> {"end"}])
    BY <1>2 DEF OnCdbCallResponse
  <2> DEFINE fields == [id \in Ids |->
                      IF RequestOf[id] # r THEN {}
                      ELSE CASE offer[id] = "no bid"  -> {"end", "expired"}
                             [] offer[id] = "invalid" -> {"expired"}
                             [] offer[id] = "valid"   -> {"end"}]
  <2>1. \A id \in Ids : RequestOf[id] = r => offer[id] \in {"no bid", "invalid", "valid"}
    BY DEF Impressions
  <2>2. fields \in [Ids -> SUBSET Flag] /\ Tell(fields)
    BY <2>1 DEF Flag
  <2>3. \A id \in Ids : "start" \notin fields[id]
    BY <2>1
  <2> HIDE DEF fields
  <2>4. /\ call' \in [Requests -> {"new", "sent", "failing", "answered", "dead"}]
        /\ \A q \in Requests : call'[q] = "new" => call[q] = "new"
    BY <1>2 DEF OnCdbCallResponse, TypeOK
  <2> QED BY <2>2, <2>3, <2>4, TellKeeps
<1>3. ASSUME NEW r \in Requests, OnCdbCallFailure(r)
      PROVE  StartInv' /\ \A id \in Ids : Awaited(id)' => Awaited(id)
  <2> PICK failure \in {{"expired"}, {"timeout", "expired"}} :
          Tell([id \in Ids |-> IF RequestOf[id] = r THEN failure ELSE {}])
    BY <1>3 DEF OnCdbCallFailure
  <2> DEFINE fields == [id \in Ids |-> IF RequestOf[id] = r THEN failure ELSE {}]
  <2>1. fields \in [Ids -> SUBSET Flag] /\ Tell(fields)
    BY DEF Flag
  <2>2. \A id \in Ids : "start" \notin fields[id]
    OBVIOUS
  <2> HIDE DEF fields
  <2>3. /\ call' \in [Requests -> {"new", "sent", "failing", "answered", "dead"}]
        /\ \A q \in Requests : call'[q] = "new" => call[q] = "new"
    BY <1>3 DEF OnCdbCallFailure, TypeOK
  <2> QED BY <2>1, <2>2, <2>3, TellKeeps
<1>4. ASSUME NEW id \in Ids, OnBidCached(id)
      PROVE  StartInv' /\ \A i \in Ids : Awaited(i)' => Awaited(i)
  <2> DEFINE fields == [i \in Ids |-> IF i = id THEN {"cached"} ELSE {}]
  <2>1. fields \in [Ids -> SUBSET Flag] /\ Tell(fields)
    BY <1>4 DEF OnBidCached, Flag
  <2>2. \A i \in Ids : "start" \notin fields[i]
    OBVIOUS
  <2> HIDE DEF fields
  <2>3. call' = call
    BY <1>4 DEF OnBidCached
  <2> QED BY <2>1, <2>2, <2>3, TellKeeps DEF TypeOK
<1>5. ASSUME NEW id \in Ids, OnBidConsumed(id)
      PROVE  StartInv' /\ \A i \in Ids : Awaited(i)' => Awaited(i)
  <2> PICK outcome \in {{"elapsed"}, {"expired"}} :
          Tell([i \in Ids |-> IF i = id THEN outcome ELSE {}])
    BY <1>5 DEF OnBidConsumed
  <2> DEFINE fields == [i \in Ids |-> IF i = id THEN outcome ELSE {}]
  <2>1. fields \in [Ids -> SUBSET Flag] /\ Tell(fields)
    BY DEF Flag
  <2>2. \A i \in Ids : "start" \notin fields[i]
    OBVIOUS
  <2> HIDE DEF fields
  <2>3. call' = call
    BY <1>5 DEF OnBidConsumed
  <2> QED BY <2>1, <2>2, <2>3, TellKeeps DEF TypeOK
<1>6. ASSUME UpdateController
      PROVE  StartInv' /\ \A id \in Ids : Awaited(id)' => Awaited(id)
  BY <1>6 DEF UpdateController, bidVars, StartInv, Awaited
<1>7. UNCHANGED << files, closing, queue, post, received >>
  BY DEF Report, OnCdbCallStarted, OnCdbCallResponse, OnCdbCallFailure, OnBidCached,
         OnBidConsumed, UpdateController
<1> QED BY <1>1, <1>2, <1>3, <1>4, <1>5, <1>6, <1>7 DEF Report

-----------------------------------------------------------------------------
(* The storage *)

\* While no batch moves, a metric is held afterwards only if it was held or awaited.
NothingComesBack ==
    \A id \in Ids : /\ Awaited(id)' => Awaited(id)
                    /\ Held(id)' => Held(id) \/ Awaited(id)

\* The posts look the same when they are.
LEMMA SamePosts ==
    ASSUME UNCHANGED post
    PROVE  /\ \A p \in Posts : Carry(p)' = Carry(p)
           /\ \A p \in Posts, id \in Ids : Carried(id, p)' <=> Carried(id, p)
           /\ \A p \in Posts, id \in Ids : InPost(id, p)' <=> InPost(id, p)
BY DEF Carry, Carried, InPost, InMessages

LEMMA UpdateStep ==
    ASSUME TypeOK, IInv, NEW m \in reports, UpdateMessage(m)
    PROVE  IInv' /\ NothingComesBack
<1> USE DEF storageVars, bidVars, boundVars
<1>1. /\ closing = None
      /\ reports' = reports \ {m}
      /\ UNCHANGED << call, post >>
  BY DEF UpdateMessage, Unlocked
<1>2. m \in Message /\ m.id \in Ids /\ m.fields \in SUBSET Flag
  BY DEF TypeOK, Message
<1>3. Started(m) => Awaited(m.id) /\ m.fields = {"start"}
  BY <1>2 DEF Awaited, IInv, StartInv
<1>4. "start" \in Updated(m) => Awaited(m.id) \/ "start" \in files[m.id]
  BY <1>3 DEF Updated, Started
<1>5. "start" \in Updated(m)
         => ~InMessages(m.id, queue) /\ \A p \in Posts : ~Carried(m.id, p)
  BY <1>1, <1>2, <1>4, NotYetElsewhere
<1>6. \A id \in Ids : Awaited(id)' => Awaited(id)
  BY <1>1 DEF Awaited
<1>7. Started(m) => ~Awaited(m.id)'
  <2> SUFFICES ASSUME Started(m), Awaited(m.id)' PROVE FALSE
    OBVIOUS
  <2>1. call[RequestOf[m.id]] # "new"
    BY DEF IInv, StartInv
  <2>2. PICK n \in reports : n # m /\ n.id = m.id /\ Started(n)
    BY <1>1, <2>1 DEF Awaited
  <2>3. n \in Message /\ n.fields = {"start"}
    BY <2>2 DEF IInv, StartInv, TypeOK
  <2> QED BY <1>2, <1>3, <2>2, <2>3 DEF Message
<1>8. StartInv' /\ PostInv'
  BY <1>1 DEF IInv, StartInv, PostInv
<1>9. CASE IsReadyToSend(Updated(m))
  <2> DEFINE n == [m EXCEPT !.fields = Updated(m)]
  <2>1. n \in Message /\ n.id = m.id /\ n.fields = Updated(m)
    BY <1>2 DEF Message, Updated, TypeOK
  <2>2. queue' = Enqueued(n) /\ closing' = m.id /\ files' = files
    BY <1>9 DEF UpdateMessage
  <2> HIDE DEF n
  <2>3. Started(n) => ~InMessages(n.id, queue)
    BY <1>5, <2>1 DEF Started
  <2>4. /\ NoExistingElement'
        /\ \A id \in Ids : InMessages(id, queue')
                              => InMessages(id, queue) \/ (Started(n) /\ n.id = id)
    BY <2>1, <2>2, <2>3, EnqueuedOnce DEF IInv, OnceInv
  <2>5. \A id \in Ids : InMessages(id, queue') =>
            \/ InMessages(id, queue)
            \/ /\ id = m.id
               /\ Awaited(id) \/ "start" \in files[id]
               /\ \A p \in Posts : ~Carried(id, p)
    BY <1>4, <1>5, <2>1, <2>4 DEF Started
  <2>6. FileInv'
    BY <1>1, <2>2, <2>5, SamePosts, ConstantsAssumption DEF FileInv, IInv
  <2>7. \A id \in Ids : Awaited(id)' => ~InMessages(id, queue')
    <3> SUFFICES ASSUME NEW id \in Ids, Awaited(id)', InMessages(id, queue') PROVE FALSE
      OBVIOUS
    <3>1. "start" \notin files[id] /\ ~InMessages(id, queue)
      BY <1>6 DEF IInv, NewInv
    <3>2. id = m.id /\ "start" \in Updated(m)
      BY <2>1, <2>4, <3>1 DEF Started
    <3>3. Started(m)
      BY <3>1, <3>2 DEF Updated, Started
    <3> QED BY <1>7, <3>2, <3>3
  <2>8. NewInv'
    BY <1>1, <1>6, <2>2, <2>7, SamePosts DEF NewInv, IInv
  <2>9. OnceInv'
    BY <1>1, <2>4, <2>5, SamePosts DEF OnceInv, IInv
  <2>10. NothingComesBack
    BY <1>1, <1>6, <2>2, <2>5, SamePosts DEF NothingComesBack, Held
  <2> QED BY <1>8, <2>6, <2>8, <2>9, <2>10 DEF IInv
<1>10. CASE ~IsReadyToSend(Updated(m))
  <2>1. /\ queue' = queue /\ closing' = closing
        /\ files' = files \/ files' = [files EXCEPT ![m.id] = Updated(m)]
    BY <1>10 DEF UpdateMessage
  <2>2. files \in [Ids -> SUBSET Flag]
    BY DEF TypeOK
  <2>3. \A id \in Ids : "start" \in files'[id] =>
            \/ "start" \in files[id]
            \/ /\ id = m.id
               /\ Started(m)
               /\ Awaited(id)
               /\ ~InMessages(id, queue)
               /\ \A p \in Posts : ~Carried(id, p)
    BY <1>2, <1>3, <1>5, <2>1, <2>2 DEF Updated, Started
  <2>4. FileInv'
    BY <1>1, <2>1, <2>3, SamePosts DEF FileInv, IInv
  <2>5. NewInv'
    BY <1>1, <1>6, <1>7, <2>1, <2>3, SamePosts DEF NewInv, IInv
  <2>6. OnceInv'
    BY <1>1, <2>1, SamePosts DEF OnceInv, IInv, NoExistingElement
  <2>7. NothingComesBack
    BY <1>1, <1>6, <2>1, <2>3, SamePosts DEF NothingComesBack, Held
  <2> QED BY <1>8, <2>4, <2>5, <2>6, <2>7 DEF IInv
<1> QED BY <1>9, <1>10

LEMMA RemoveStep ==
    ASSUME TypeOK, IInv, RemoveFile
    PROVE  IInv' /\ NothingComesBack
<1>1. /\ UNCHANGED << call, reports, queue, post >>
      /\ closing' = None
      /\ closing \in Ids
  BY DEF RemoveFile, bidVars, TypeOK
<1>2. files' = [files EXCEPT ![closing] = {}]
  BY DEF RemoveFile, WithoutFile
<1>3. files \in [Ids -> SUBSET Flag]
  BY DEF TypeOK
<1>4. \A id \in Ids : "start" \in files'[id] => "start" \in files[id] /\ id # closing
  BY <1>1, <1>2, <1>3
<1>5. \A id \in Ids : Awaited(id)' <=> Awaited(id)
  BY <1>1 DEF Awaited
<1>6. StartInv' /\ PostInv'
  BY <1>1 DEF IInv, StartInv, PostInv
<1>7. FileInv'
  BY <1>1, <1>4, SamePosts DEF FileInv, IInv
<1>8. NewInv'
  BY <1>1, <1>4, <1>5, SamePosts DEF NewInv, IInv
<1>9. OnceInv'
  BY <1>1, SamePosts DEF OnceInv, IInv, NoExistingElement
<1>10. NothingComesBack
  BY <1>1, <1>4, <1>5, SamePosts DEF NothingComesBack, Held
<1> QED BY <1>6, <1>7, <1>8, <1>9, <1>10 DEF IInv

LEMMA MoveStep ==
    ASSUME TypeOK, IInv, NEW id \in Ids, MoveFile(id)
    PROVE  IInv' /\ NothingComesBack
<1> DEFINE n == [id |-> id, fields |-> files[id]]
<1>1. /\ UNCHANGED << call, reports, files, post >>
      /\ closing = None
      /\ closing' = id
      /\ queue' = Enqueued(n)
  BY DEF MoveFile, Unlocked, bidVars
<1>2. n \in Message /\ n.id = id /\ n.fields = files[id]
  BY DEF Message, TypeOK
<1> HIDE DEF n
<1>3. Started(n) => ~InMessages(id, queue) /\ \A p \in Posts : ~Carried(id, p)
  BY <1>1, <1>2, NotYetElsewhere DEF Started
<1>4. /\ NoExistingElement'
      /\ \A i \in Ids : InMessages(i, queue')
                           => InMessages(i, queue) \/ (Started(n) /\ n.id = i)
  BY <1>1, <1>2, <1>3, EnqueuedOnce DEF IInv, OnceInv
<1>5. \A i \in Ids : InMessages(i, queue') =>
          \/ InMessages(i, queue)
          \/ i = id /\ "start" \in files[i] /\ \A p \in Posts : ~Carried(i, p)
  BY <1>2, <1>3, <1>4 DEF Started
<1>6. \A i \in Ids : Awaited(i)' <=> Awaited(i)
  BY <1>1 DEF Awaited
<1>7. StartInv' /\ PostInv'
  BY <1>1 DEF IInv, StartInv, PostInv
<1>8. FileInv'
  BY <1>1, <1>5, SamePosts, ConstantsAssumption DEF FileInv, IInv
<1>9. NewInv'
  BY <1>1, <1>5, <1>6, SamePosts DEF NewInv, IInv
<1>10. OnceInv'
  BY <1>1, <1>4, <1>5, SamePosts DEF OnceInv, IInv
<1>11. NothingComesBack
  BY <1>1, <1>5, <1>6, SamePosts DEF NothingComesBack, Held
<1> QED BY <1>7, <1>8, <1>9, <1>10, <1>11 DEF IInv

-----------------------------------------------------------------------------
(* Sending *)

\* Only the file keeps a metric back when neither the queue nor the batches gain it.
LEMMA SendKeeps ==
    ASSUME IInv, UNCHANGED << call, reports, files, closing >>,
           PostInv', NoExistingElement',
           \A id \in Ids : InMessages(id, queue)' =>
              InMessages(id, queue) \/ \E p \in Posts : Carried(id, p),
           \A id \in Ids, p \in Posts : Carried(id, p)' =>
              \/ Carried(id, p)
              \/ InMessages(id, queue) /\ closing = None,
           None \notin Ids
    PROVE  StartInv' /\ NewInv' /\ FileInv'
<1>1. \A id \in Ids : Awaited(id)' <=> Awaited(id)
  BY DEF Awaited
<1>2. StartInv'
  BY DEF IInv, StartInv
<1>3. NewInv'
  BY <1>1 DEF IInv, NewInv
<1>4. FileInv'
  BY DEF IInv, FileInv
<1> QED BY <1>2, <1>3, <1>4

\* A metric is in a post on its way when the post carries it and was not taken.
LEMMA InPostIs ==
    ASSUME TypeOK, PostInv, NEW p \in Posts, NEW id \in Ids
    PROVE  InPost(id, p) <=> Carried(id, p) /\ post[p].at # "taken"
<1>1. CASE post[p].at = "sent"
  BY <1>1 DEF InPost, Carried, Carry, InMessages, PostInv
<1>2. CASE post[p].at = "pushing"
  BY <1>2 DEF InPost, Carried, Carry, InMessages, PostInv
<1>3. CASE post[p].at \notin {"sent", "pushing"}
  <2>1. ~InPost(id, p)
    BY <1>3 DEF InPost, PostInv
  <2>2. post[p].at \in {"idle", "taken"}
    BY <1>3 DEF PostInv, TypeOK, Post
  <2>3. post[p].at = "idle" => ~Carried(id, p)
    <3>1. DOMAIN NoPost.messages = {}
      BY DEF NoPost
    <3> QED BY <3>1 DEF Carried, Carry, PostInv
  <2> QED BY <2>1, <2>2, <2>3
<1> QED BY <1>1, <1>2, <1>3

\* What a step of the network or of a roll-back does to the metrics: it gives none
\* back to the device, and those the backend is given leave it, one copy of each.
OneCopyLeaves ==
    \A id \in Ids :
        /\ Awaited(id)' => Awaited(id)
        /\ Held(id)' => Held(id)
        /\ \/ received'[id] = received[id]
           \/ Held(id) /\ ~Held(id)' /\ received'[id] = received[id] + 1

\* Each place of the queue goes to one post, which was free.
LEMMA BatchSplits ==
    ASSUME TypeOK, SendFeedbackBatch
    PROVE  \E mine \in [Posts -> SUBSET DOMAIN queue] :
              /\ \A i \in DOMAIN queue : \E p \in Posts : i \in mine[p]
              /\ \A p, q \in Posts : \A i \in mine[p] : i \in mine[q] => p = q
              /\ \A p \in Posts :
                    \/ mine[p] = {} /\ post'[p] = post[p]
                    \/ /\ mine[p] # {}
                       /\ post[p] = NoPost
                       /\ post'[p].at = "sent"
                       /\ post'[p].messages = [i \in mine[p] |-> queue[i]]
                       /\ post'[p].left = {}
                       /\ post'[p].again = FALSE
<1> PICK via \in [{ProfileIn(m) : m \in Queued} -> {p \in Posts : post[p] = NoPost}] :
        LET Mine(p) == {i \in DOMAIN queue : via[ProfileIn(queue[i])] = p}
        IN  post' = [p \in Posts |->
                           IF Mine(p) = {} THEN post[p]
                           ELSE [NoPost EXCEPT !.at = "sent",
                                               !.messages = [i \in Mine(p) |-> queue[i]]]]
  BY DEF SendFeedbackBatch
<1> DEFINE Mine(p) == {i \in DOMAIN queue : via[ProfileIn(queue[i])] = p}
           Batched(p) == [i \in Mine(p) |-> queue[i]]
           Sent(p) == [NoPost EXCEPT !.at = "sent", !.messages = Batched(p)]
           mine == [p \in Posts |-> Mine(p)]
<1>1. post' = [p \in Posts |-> IF Mine(p) = {} THEN post[p] ELSE Sent(p)]
  OBVIOUS
<1>2. \A p \in Posts : Mine(p) # {} => post[p] = NoPost
  <2> SUFFICES ASSUME NEW p \in Posts, NEW i \in DOMAIN queue, via[ProfileIn(queue[i])] = p
               PROVE  post[p] = NoPost
    OBVIOUS
  <2>1. ProfileIn(queue[i]) \in {ProfileIn(m) : m \in Queued}
    BY DEF Queued
  <2> QED BY <2>1
<1>3. /\ \A p \in Posts : Mine(p) \in SUBSET DOMAIN queue
      /\ \A p, q \in Posts : \A i \in Mine(p) : i \in Mine(q) => p = q
  OBVIOUS
<1>4. ASSUME NEW i \in DOMAIN queue
       PROVE  \E p \in Posts : i \in Mine(p)
  <2>1. ProfileIn(queue[i]) \in {ProfileIn(m) : m \in Queued}
    BY DEF Queued
  <2>2. via[ProfileIn(queue[i])] \in Posts
    BY <2>1
  <2> QED BY <2>2
<1> HIDE DEF Mine
<1>5. \A p \in Posts : /\ Sent(p).at = "sent"
                       /\ Sent(p).messages = Batched(p)
                       /\ Sent(p).left = {}
                       /\ Sent(p).again = FALSE
  BY DEF NoPost
<1> HIDE DEF Sent, Batched
<1>6. \A p \in Posts : post'[p] = IF Mine(p) = {} THEN post[p] ELSE Sent(p)
  BY <1>1
<1>7. mine \in [Posts -> SUBSET DOMAIN queue] /\ \A p \in Posts : mine[p] = Mine(p)
  BY <1>3
<1>8. \A p \in Posts : Batched(p) = [i \in mine[p] |-> queue[i]]
  BY <1>7 DEF Batched
<1> HIDE DEF mine
<1>9. ASSUME NEW p \in Posts, NEW q \in Posts, NEW i \in mine[p], i \in mine[q]
      PROVE  p = q
  <2>1. i \in Mine(p) /\ i \in Mine(q)
    BY <1>7, <1>9
  <2> QED BY <1>3, <2>1
<1>10. ASSUME NEW p \in Posts
      PROVE  \/ mine[p] = {} /\ post'[p] = post[p]
             \/ /\ mine[p] # {}
                /\ post[p] = NoPost
                /\ post'[p].at = "sent"
                /\ post'[p].messages = [i \in mine[p] |-> queue[i]]
                /\ post'[p].left = {}
                /\ post'[p].again = FALSE
  <2>1. CASE Mine(p) = {}
    BY <1>6, <1>7, <2>1
  <2>2. CASE Mine(p) # {}
    <3>1. post'[p] = Sent(p) /\ post[p] = NoPost /\ mine[p] # {}
      BY <1>2, <1>6, <1>7, <2>2
    <3> QED BY <1>5, <1>8, <3>1
  <2> QED BY <2>1, <2>2
<1>11. \A i \in DOMAIN queue : \E p \in Posts : i \in mine[p]
  BY <1>4, <1>7
<1> QED BY <1>7, <1>9, <1>10, <1>11

LEMMA NoPostCarriesNothing ==
    ASSUME NEW p \in Posts, post[p] = NoPost
    PROVE  Carry(p) = {} /\ \A id \in Ids : ~Carried(id, p)
<1>1. DOMAIN NoPost.messages = {} /\ NoPost.at = "idle"
  BY DEF NoPost
<1> QED BY <1>1 DEF Carry, Carried

LEMMA EmptyQueueHasNothing ==
    ASSUME queue' = << >>
    PROVE  NoExistingElement' /\ \A id \in Ids : ~InMessages(id, queue)'
<1>1. DOMAIN queue' = {}
  OBVIOUS
<1> QED BY <1>1 DEF NoExistingElement, InMessages

LEMMA BatchStep ==
    ASSUME TypeOK, IInv, SendFeedbackBatch
    PROVE  IInv' /\ OneCopyLeaves
<1>1. /\ UNCHANGED << call, reports, files, closing, received >>
      /\ closing = None
      /\ queue' = << >>
  BY DEF SendFeedbackBatch, Unlocked, Popped, bidVars
<1> PICK mine \in [Posts -> SUBSET DOMAIN queue] :
        /\ \A p, q \in Posts : \A i \in mine[p] : i \in mine[q] => p = q
        /\ \A p \in Posts :
              \/ mine[p] = {} /\ post'[p] = post[p]
              \/ /\ mine[p] # {}
                 /\ post[p] = NoPost
                 /\ post'[p].at = "sent"
                 /\ post'[p].messages = [i \in mine[p] |-> queue[i]]
                 /\ post'[p].left = {}
                 /\ post'[p].again = FALSE
  BY BatchSplits
<1>2. ASSUME NEW p \in Posts, mine[p] # {}
      PROVE  /\ Carry(p)' = mine[p]
             /\ \A i \in mine[p] : post'[p].messages[i] = queue[i]
             /\ \A id \in Ids : ~Carried(id, p)
             /\ \A id \in Ids : Carried(id, p)'
                   => \E i \in mine[p] : queue[i].id = id /\ Started(queue[i])
  <2>1. post'[p].at = "sent" /\ post'[p].messages = [i \in mine[p] |-> queue[i]]
    BY <1>2
  <2>2. Carry(p)' = mine[p]
    BY <2>1 DEF Carry
  <2>3. \A i \in mine[p] : post'[p].messages[i] = queue[i]
    BY <2>1
  <2>4. \A id \in Ids : ~Carried(id, p)
    BY <1>2, NoPostCarriesNothing
  <2> QED BY <2>2, <2>3, <2>4 DEF Carried
<1>3. ASSUME NEW p \in Posts, mine[p] = {}
      PROVE  /\ post'[p] = post[p]
             /\ Carry(p)' = Carry(p)
             /\ \A id \in Ids : Carried(id, p)' <=> Carried(id, p)
  BY <1>3 DEF Carry, Carried
<1>4. ASSUME NEW id \in Ids, NEW p \in Posts, Carried(id, p)'
      PROVE  Carried(id, p) \/ InMessages(id, queue)
  <2>1. mine[p] \subseteq DOMAIN queue
    OBVIOUS
  <2> QED BY <1>2, <1>3, <1>4, <2>1 DEF InMessages
<1>5. PostInv'
  BY <1>1 DEF PostInv, IInv
<1>6. NoExistingElement' /\ \A id \in Ids : ~InMessages(id, queue)'
  BY <1>1, EmptyQueueHasNothing
<1>7. \A p \in Posts : \A i, j \in Carry(p)' :
          Same(post'[p].messages[i], post'[p].messages[j]) => i = j
  <2>1. ASSUME NEW p \in Posts, mine[p] # {}, NEW i \in mine[p], NEW j \in mine[p],
               Same(post'[p].messages[i], post'[p].messages[j])
        PROVE  i = j
    BY <1>2, <2>1 DEF IInv, OnceInv, NoExistingElement, Same
  <2>2. ASSUME NEW p \in Posts, mine[p] = {}, NEW i \in Carry(p), NEW j \in Carry(p),
               Same(post'[p].messages[i], post'[p].messages[j])
        PROVE  i = j
    BY <1>3, <2>2 DEF IInv, OnceInv
  <2> QED BY <1>2, <1>3, <2>1, <2>2
<1>8. ASSUME NEW id \in Ids, NEW p \in Posts, NEW q \in Posts,
             Carried(id, p)', Carried(id, q)'
      PROVE  p = q
  <2>1. CASE mine[p] # {} /\ mine[q] # {}
    <3>1. PICK i \in mine[p] : queue[i].id = id /\ Started(queue[i])
      BY <1>2, <1>8, <2>1
    <3>2. PICK j \in mine[q] : queue[j].id = id /\ Started(queue[j])
      BY <1>2, <1>8, <2>1
    <3>3. i = j
      BY <3>1, <3>2 DEF IInv, OnceInv, NoExistingElement
    <3> QED BY <3>3
  <2>2. CASE mine[p] = {} /\ mine[q] = {}
    BY <1>3, <1>8, <2>2 DEF IInv, OnceInv
  <2>3. CASE mine[p] # {} /\ mine[q] = {}
    <3>1. PICK i \in mine[p] : queue[i].id = id /\ Started(queue[i])
      BY <1>2, <1>8, <2>3
    <3>2. InMessages(id, queue) /\ Carried(id, q)
      BY <1>3, <1>8, <2>3, <3>1 DEF InMessages
    <3> QED BY <3>2 DEF IInv, OnceInv
  <2>4. CASE mine[p] = {} /\ mine[q] # {}
    <3>1. PICK i \in mine[q] : queue[i].id = id /\ Started(queue[i])
      BY <1>2, <1>8, <2>4
    <3>2. InMessages(id, queue) /\ Carried(id, p)
      BY <1>3, <1>8, <2>4, <3>1 DEF InMessages
    <3> QED BY <3>2 DEF IInv, OnceInv
  <2> QED BY <2>1, <2>2, <2>3, <2>4
<1>9. OnceInv'
  BY <1>6, <1>7, <1>8 DEF OnceInv
<1>10. StartInv' /\ NewInv' /\ FileInv'
  BY <1>1, <1>4, <1>5, <1>6, SendKeeps, ConstantsAssumption
<1>11. ASSUME NEW id \in Ids, NEW p \in Posts, InPost(id, p)'
       PROVE  Held(id)
  <2>1. CASE mine[p] = {}
    <3>1. InPost(id, p)
      BY <1>3, <1>11, <2>1 DEF InPost, InMessages
    <3> QED BY <3>1 DEF Held
  <2>2. CASE mine[p] # {}
    <3>1. Carried(id, p)'
      BY <1>2, <1>11, <2>2 DEF InPost, Carried, Carry, InMessages
    <3>2. InMessages(id, queue)
      BY <1>2, <2>2, <3>1 DEF InMessages
    <3> QED BY <3>2 DEF Held
  <2> QED BY <2>1, <2>2
<1>12. OneCopyLeaves
  BY <1>1, <1>6, <1>11 DEF OneCopyLeaves, Held, Awaited
<1> QED BY <1>5, <1>9, <1>10, <1>12 DEF IInv

\* A step that only takes messages out of one batch, at most into the queue.
LEMMA PostKeeps ==
    ASSUME TypeOK, IInv, NEW p \in Posts,
           UNCHANGED << call, reports, files, closing >>,
           \A q \in Posts : q # p => post'[q] = post[q],
           PostInv', NoExistingElement',
           \A i \in Carry(p)' : /\ i \in Carry(p)
                                /\ post'[p].messages[i] = post[p].messages[i],
           \A id \in Ids : InMessages(id, queue)' =>
              InMessages(id, queue) \/ (Carried(id, p) /\ ~Carried(id, p)')
    PROVE  IInv' /\ \A id \in Ids, q \in Posts : Carried(id, q)' => Carried(id, q)
<1>1. ASSUME NEW q \in Posts, q # p
      PROVE  Carry(q)' = Carry(q) /\ post'[q] = post[q]
  BY <1>1 DEF Carry
<1>2. ASSUME NEW id \in Ids, NEW q \in Posts, Carried(id, q)'
      PROVE  Carried(id, q)
  <2>1. CASE q = p
    BY <1>2, <2>1 DEF Carried
  <2>2. CASE q # p
    BY <1>1, <1>2, <2>2 DEF Carried
  <2> QED BY <2>1, <2>2
<1>3. \A q \in Posts : \A i, j \in Carry(q)' :
          Same(post'[q].messages[i], post'[q].messages[j]) => i = j
  <2>1. \A i, j \in Carry(p)' : Same(post'[p].messages[i], post'[p].messages[j]) => i = j
    BY DEF IInv, OnceInv
  <2>2. ASSUME NEW q \in Posts, q # p
        PROVE  \A i, j \in Carry(q)' :
                  Same(post'[q].messages[i], post'[q].messages[j]) => i = j
    BY <1>1, <2>2 DEF IInv, OnceInv
  <2> QED BY <2>1, <2>2
<1>4. ASSUME NEW id \in Ids, NEW q \in Posts, Carried(id, q)', InMessages(id, queue)'
      PROVE  FALSE
  <2>1. Carried(id, q)
    BY <1>2, <1>4
  <2>2. ~InMessages(id, queue)
    BY <2>1 DEF IInv, OnceInv
  <2>3. Carried(id, p) /\ ~Carried(id, p)'
    BY <1>4, <2>2
  <2>4. p = q
    BY <2>1, <2>3 DEF IInv, OnceInv
  <2> QED BY <1>4, <2>3, <2>4
<1>5. \A id \in Ids, q, r \in Posts : Carried(id, q)' /\ Carried(id, r)' => q = r
  BY <1>2 DEF IInv, OnceInv
<1>6. OnceInv'
  BY <1>3, <1>4, <1>5 DEF OnceInv
<1>7. StartInv' /\ NewInv' /\ FileInv'
  BY <1>2, SendKeeps, ConstantsAssumption
<1> QED BY <1>2, <1>6, <1>7 DEF IInv

\* A post on its way holds one copy of each metric it carries.
LEMMA CopiesIs ==
    ASSUME TypeOK, IInv, NEW p \in Posts, post[p].at = "sent", NEW id \in Ids
    PROVE  Copies(id, post[p].messages) = IF Carried(id, p) THEN 1 ELSE 0
<1> DEFINE ms == post[p].messages
           S == {i \in DOMAIN ms : ms[i].id = id /\ Started(ms[i])}
<1>1. Carry(p) = DOMAIN ms
  BY DEF Carry
<1>2. \A i, j \in S : i = j
  BY <1>1 DEF IInv, OnceInv, Same
<1>3. Carried(id, p) <=> S # {}
  BY <1>1 DEF Carried
<1>4. CASE S = {}
  BY <1>3, <1>4, FS_EmptySet DEF Copies
<1>5. CASE S # {}
  <2>1. PICK i \in S : S = {i}
    BY <1>2, <1>5
  <2>2. Cardinality({i}) = 1
    BY FS_Singleton
  <2> QED BY <1>3, <1>5, <2>1, <2>2 DEF Copies
<1> QED BY <1>4, <1>5

LEMMA TakesStep ==
    ASSUME TypeOK, IInv, NEW p \in Posts, BackendTakes(p)
    PROVE  IInv' /\ OneCopyLeaves
<1>1. /\ UNCHANGED << call, reports, files, closing, queue >>
      /\ post[p].at = "sent"
      /\ \A id \in Ids : received'[id] = received[id] + Copies(id, post[p].messages)
  BY DEF BackendTakes, bidVars, storageVars
<1>2. /\ post'[p] = [post[p] EXCEPT !.at = "taken"]
      /\ \A q \in Posts : q # p => post'[q] = post[q]
  BY DEF BackendTakes, TypeOK
<1>3. /\ post'[p].at = "taken"
      /\ post'[p].messages = post[p].messages
      /\ post'[p].left = post[p].left
      /\ post'[p].again = post[p].again
  BY <1>2 DEF TypeOK, Post
<1>4. PostInv'
  BY <1>1, <1>2, <1>3 DEF PostInv, IInv
<1>5. Carry(p)' = Carry(p)
  BY <1>1, <1>3 DEF Carry
<1>6. NoExistingElement' /\ \A id \in Ids : InMessages(id, queue)' <=> InMessages(id, queue)
  BY <1>1 DEF NoExistingElement, IInv, OnceInv
<1>7. IInv' /\ \A id \in Ids, q \in Posts : Carried(id, q)' => Carried(id, q)
  BY <1>1, <1>2, <1>3, <1>4, <1>5, <1>6, PostKeeps
<1>8. ASSUME NEW id \in Ids, NEW q \in Posts, InPost(id, q)'
      PROVE  InPost(id, q) /\ q # p
  BY <1>2, <1>3, <1>4, <1>8 DEF InPost, InMessages, PostInv
<1>9. ASSUME NEW id \in Ids, Held(id)'
      PROVE  Held(id) /\ ~Carried(id, p)
  <2>1. Held(id)
    BY <1>1, <1>6, <1>8, <1>9 DEF Held
  <2>2. CASE "start" \in files[id]
    BY <2>1, <2>2 DEF IInv, FileInv
  <2>3. CASE InMessages(id, queue)
    BY <2>1, <2>3 DEF IInv, OnceInv
  <2>4. CASE \E q \in Posts : InPost(id, q)'
    <3>1. PICK q \in Posts : InPost(id, q) /\ q # p
      BY <1>8, <2>4
    <3>2. Carried(id, q)
      BY <3>1, InPostIs DEF IInv
    <3> QED BY <2>1, <3>1, <3>2 DEF IInv, OnceInv
  <2> QED BY <1>1, <1>6, <1>9, <2>2, <2>3, <2>4 DEF Held
<1>10. ASSUME NEW id \in Ids
       PROVE  /\ Awaited(id)' => Awaited(id)
              /\ Held(id)' => Held(id)
              /\ \/ received'[id] = received[id]
                 \/ Held(id) /\ ~Held(id)' /\ received'[id] = received[id] + 1
  <2>1. Awaited(id)' <=> Awaited(id)
    BY <1>1 DEF Awaited
  <2>2. received[id] \in Nat
    BY DEF TypeOK
  <2>3. CASE Carried(id, p)
    <3>1. InPost(id, p)
      BY <1>1, <2>3, InPostIs DEF IInv
    <3>2. Held(id)
      BY <3>1 DEF Held
    <3>3. Copies(id, post[p].messages) = 1
      BY <1>1, <2>3, CopiesIs
    <3> QED BY <1>1, <1>9, <2>1, <2>3, <3>2, <3>3
  <2>4. CASE ~Carried(id, p)
    <3>1. Copies(id, post[p].messages) = 0
      BY <1>1, <2>4, CopiesIs
    <3> QED BY <1>1, <1>9, <2>1, <2>2, <3>1
  <2> QED BY <2>3, <2>4
<1> QED BY <1>7, <1>10 DEF OneCopyLeaves

\* Neither the queue nor the storage notices a step of the network.
LEMMA QueueKeeps ==
    ASSUME IInv, UNCHANGED queue
    PROVE  NoExistingElement' /\ \A id \in Ids : InMessages(id, queue)' <=> InMessages(id, queue)
BY DEF NoExistingElement, IInv, OnceInv

\* A metric that a step takes from the batches only, and that the backend is not given.
LEMMA NothingGained ==
    ASSUME IInv, IInv',
           UNCHANGED << call, reports, files, received >>,
           \A id \in Ids : InMessages(id, queue)' => Held(id),
           \A id \in Ids, q \in Posts : InPost(id, q)' => Held(id)
    PROVE  OneCopyLeaves
<1>1. \A id \in Ids : Awaited(id)' <=> Awaited(id)
  BY DEF Awaited
<1>2. \A id \in Ids : Held(id)' => Held(id)
  BY DEF Held
<1> QED BY <1>1, <1>2 DEF OneCopyLeaves

LEMMA OverStep ==
    ASSUME TypeOK, IInv, NEW p \in Posts, PostIsOver(p) \/ PostRefused(p)
    PROVE  IInv' /\ OneCopyLeaves
<1>1. UNCHANGED << call, reports, files, closing, queue, received >>
  BY DEF PostIsOver, PostRefused, bidVars, storageVars
<1>2. post'[p] = NoPost /\ \A q \in Posts : q # p => post'[q] = post[q]
  BY DEF PostIsOver, PostRefused, TypeOK
<1>3. Carry(p)' = {}
  <2>1. DOMAIN NoPost.messages = {} /\ NoPost.at = "idle"
    BY DEF NoPost
  <2> QED BY <1>2, <2>1 DEF Carry
<1>4. PostInv'
  <2>1. /\ NoPost.at = "idle"
        /\ NoPost.again = FALSE
        /\ NoPost.left = {}
    BY DEF NoPost
  <2> QED BY <1>1, <1>2, <2>1 DEF PostInv, IInv
<1>5. IInv' /\ \A id \in Ids, q \in Posts : Carried(id, q)' => Carried(id, q)
  BY <1>1, <1>2, <1>3, <1>4, QueueKeeps, PostKeeps
<1>6. ASSUME NEW id \in Ids, NEW q \in Posts, InPost(id, q)'
      PROVE  Held(id)
  <2>1. q # p
    <3>1. NoPost.at = "idle" /\ NoPost.left = {}
      BY DEF NoPost
    <3> QED BY <1>2, <1>6, <3>1 DEF InPost
  <2>2. InPost(id, q)
    BY <1>2, <1>6, <2>1 DEF InPost, InMessages
  <2> QED BY <2>2 DEF Held
<1>7. \A id \in Ids : InMessages(id, queue)' => Held(id)
  BY <1>1, QueueKeeps DEF Held
<1> QED BY <1>1, <1>5, <1>6, <1>7, NothingGained

LEMMA FailsStep ==
    ASSUME TypeOK, Honest, IInv, NEW p \in Posts, PostFails(p)
    PROVE  IInv' /\ OneCopyLeaves
<1>1. UNCHANGED << call, reports, files, closing, queue, received >>
  BY DEF PostFails, bidVars, storageVars
<1>2. /\ post[p].at = "sent"
      /\ post' = [post EXCEPT ![p] = [@ EXCEPT !.at = "pushing", !.again = FALSE,
                                               !.left = DOMAIN post[p].messages]]
  <2>1. ~(lost < MaxLost)
    BY DEF Honest, TypeOK
  <2> QED BY <2>1 DEF PostFails, IInv, PostInv
<1>3. \A q \in Posts : q # p => post'[q] = post[q]
  BY <1>2 DEF TypeOK
<1>4. /\ post'[p].at = "pushing"
      /\ post'[p].messages = post[p].messages
      /\ post'[p].left = DOMAIN post[p].messages
      /\ post'[p].again = FALSE
  BY <1>2 DEF TypeOK, Post
<1>5. Carry(p)' = Carry(p)
  BY <1>2, <1>4 DEF Carry
<1>6. PostInv'
  BY <1>3, <1>4 DEF PostInv, IInv
<1>7. IInv' /\ \A id \in Ids, q \in Posts : Carried(id, q)' => Carried(id, q)
  BY <1>1, <1>3, <1>4, <1>5, <1>6, QueueKeeps, PostKeeps
<1>8. ASSUME NEW id \in Ids, NEW q \in Posts, InPost(id, q)'
      PROVE  Held(id)
  <2>1. CASE q = p
    <3>1. Carried(id, p)'
      BY <1>4, <1>8, <2>1 DEF InPost, Carried, Carry
    <3>2. InPost(id, p)
      BY <1>2, <1>7, <3>1, InPostIs DEF IInv
    <3> QED BY <3>2 DEF Held
  <2>2. CASE q # p
    <3>1. InPost(id, q)
      BY <1>3, <1>8, <2>2 DEF InPost, InMessages
    <3> QED BY <3>1 DEF Held
  <2> QED BY <2>1, <2>2
<1>9. \A id \in Ids : InMessages(id, queue)' => Held(id)
  BY <1>1, QueueKeeps DEF Held
<1> QED BY <1>1, <1>7, <1>8, <1>9, NothingGained

LEMMA PushStep ==
    ASSUME TypeOK, IInv, NEW p \in Posts, PushMessage(p)
    PROVE  IInv' /\ OneCopyLeaves
<1>1. UNCHANGED << call, reports, files, closing, received >> /\ post[p].at = "pushing"
  BY DEF PushMessage, bidVars
<1> PICK i \in post[p].left :
        /\ queue' = Enqueued(post[p].messages[i])
        /\ post' = [post EXCEPT ![p] =
                       IF post[p].left # {i} THEN [@ EXCEPT !.left = post[p].left \ {i}]
                       ELSE IF post[p].again THEN [@ EXCEPT !.at = "again", !.left = {}]
                       ELSE NoPost]
  BY DEF PushMessage
<1> DEFINE m == post[p].messages[i]
<1>2. /\ m \in Message
      /\ i \in Carry(p)
      /\ post[p].again = FALSE
  BY <1>1, SomeBatch DEF TypeOK, Post, Carry, IInv, PostInv
<1>3. \A q \in Posts : q # p => post'[q] = post[q]
  BY DEF TypeOK
<1> DEFINE fewer == [post[p] EXCEPT !.left = post[p].left \ {i}]
<1>4. /\ fewer.at = "pushing"
      /\ fewer.messages = post[p].messages
      /\ fewer.left = post[p].left \ {i}
      /\ fewer.again = FALSE
  BY <1>1, <1>2 DEF TypeOK, Post
<1>5. post'[p] = IF post[p].left # {i} THEN fewer ELSE NoPost
  BY <1>2 DEF TypeOK
<1> HIDE DEF fewer
<1>6. /\ NoPost.at = "idle"
      /\ NoPost.again = FALSE
      /\ NoPost.left = {}
      /\ DOMAIN NoPost.messages = {}
  BY DEF NoPost
<1>7. Carry(p) = post[p].left /\ Carry(p)' = post[p].left \ {i}
  <2>1. Carry(p) = post[p].left
    BY <1>1 DEF Carry
  <2>2. CASE post[p].left # {i}
    BY <1>4, <1>5, <2>1, <2>2 DEF Carry
  <2>3. CASE post[p].left = {i}
    BY <1>5, <1>6, <2>1, <2>3 DEF Carry
  <2> QED BY <2>1, <2>2, <2>3
<1>8. \A j \in Carry(p)' : j \in Carry(p) /\ post'[p].messages[j] = post[p].messages[j]
  BY <1>4, <1>5, <1>7
<1>9. PostInv'
  BY <1>3, <1>4, <1>5, <1>6 DEF PostInv, IInv
<1>10. ASSUME NEW id \in Ids, Started(m), m.id = id
       PROVE  Carried(id, p) /\ ~Carried(id, p)' /\ ~InMessages(id, queue)
  <2>1. Carried(id, p)
    BY <1>2, <1>10 DEF Carried
  <2>2. ~InMessages(id, queue)
    BY <2>1 DEF IInv, OnceInv
  <2>3. \A j \in Carry(p) : Same(post[p].messages[j], m) => j = i
    BY <1>2 DEF IInv, OnceInv
  <2>4. ~Carried(id, p)'
    BY <1>7, <1>8, <1>10, <2>3 DEF Carried, Same
  <2> QED BY <2>1, <2>2, <2>4
<1>11. /\ NoExistingElement'
       /\ \A id \in Ids : InMessages(id, queue')
                             => InMessages(id, queue) \/ (Started(m) /\ m.id = id)
  <2>1. m.id \in Ids
    BY <1>2 DEF Message
  <2> QED BY <1>2, <1>10, <2>1, EnqueuedOnce DEF IInv, OnceInv
<1> HIDE DEF m
<1>12. IInv' /\ \A id \in Ids, q \in Posts : Carried(id, q)' => Carried(id, q)
  BY <1>1, <1>3, <1>8, <1>9, <1>10, <1>11, PostKeeps
<1>13. \A id \in Ids : Carried(id, p) => Held(id)
  BY <1>1, InPostIs DEF IInv, Held
<1>14. ASSUME NEW id \in Ids, NEW q \in Posts, InPost(id, q)'
       PROVE  Held(id)
  <2>1. CASE q = p
    <3>1. Carried(id, p)'
      BY <1>4, <1>5, <1>6, <1>14, <2>1 DEF InPost, Carried, Carry
    <3> QED BY <1>12, <1>13, <3>1
  <2>2. CASE q # p
    <3>1. InPost(id, q)
      BY <1>3, <1>14, <2>2 DEF InPost, InMessages
    <3> QED BY <3>1 DEF Held
  <2> QED BY <2>1, <2>2
<1>15. \A id \in Ids : InMessages(id, queue)' => Held(id)
  BY <1>10, <1>11, <1>13 DEF Held
<1> QED BY <1>1, <1>12, <1>14, <1>15, NothingGained

-----------------------------------------------------------------------------
(* The process *)

LEMMA CrashStep ==
    ASSUME TypeOK, Honest, IInv, Crash
    PROVE  IInv' /\ NothingComesBack
<1>1. /\ UNCHANGED << files, queue >>
      /\ closing = None /\ closing' = None
      /\ reports' = {}
      /\ call' = [r \in Requests |-> IF call[r] = "new" THEN "new" ELSE "dead"]
      /\ \A p \in Posts : post'[p] = NoPost
  BY DEF Crash, Honest
<1>2. ASSUME NEW p \in Posts
      PROVE  Carry(p)' = {} /\ (\A id \in Ids : ~Carried(id, p)' /\ ~InPost(id, p)')
  <2>1. DOMAIN NoPost.messages = {} /\ NoPost.at = "idle" /\ NoPost.left = {}
    BY DEF NoPost
  <2> QED BY <1>1, <2>1 DEF Carry, Carried, InPost
<1>3. \A id \in Ids : Awaited(id)' => Awaited(id)
  <2>1. \A id \in Ids : RequestOf[id] \in Requests
    BY ConstantsAssumption
  <2> QED BY <1>1, <2>1 DEF Awaited
<1>4. \A id \in Ids : InMessages(id, queue)' <=> InMessages(id, queue)
  BY <1>1
<1>5. PostInv'
  BY <1>1 DEF PostInv, NoPost
<1>6. StartInv'
  BY <1>1 DEF StartInv
<1>7. NewInv'
  BY <1>1, <1>2, <1>3, <1>4 DEF NewInv, IInv
<1>8. FileInv'
  BY <1>1, <1>2, <1>4 DEF FileInv, IInv
<1>9. OnceInv'
  BY <1>1, <1>2 DEF OnceInv, IInv, NoExistingElement
<1>10. NothingComesBack
  BY <1>1, <1>2, <1>3, <1>4 DEF NothingComesBack, Held
<1> QED BY <1>5, <1>6, <1>7, <1>8, <1>9, <1>10 DEF IInv

LEMMA RestartStep ==
    ASSUME TypeOK, IInv, Restart
    PROVE  IInv' /\ NothingComesBack
<1>1. /\ UNCHANGED << call, reports, files, closing, post >>
      /\ queue' = queue \/ queue' = << >>
  BY DEF Restart, bidVars
<1>2. NoExistingElement' /\ \A id \in Ids : InMessages(id, queue)' => InMessages(id, queue)
  <2>1. CASE queue' = queue
    BY <2>1, QueueKeeps
  <2>2. CASE queue' = << >>
    BY <2>2, EmptyQueueHasNothing
  <2> QED BY <1>1, <2>1, <2>2
<1>3. \A id \in Ids : Awaited(id)' <=> Awaited(id)
  BY <1>1 DEF Awaited
<1>4. PostInv' /\ StartInv'
  BY <1>1 DEF PostInv, StartInv, IInv
<1>5. NewInv' /\ FileInv'
  BY <1>1, <1>2, <1>3, SamePosts DEF NewInv, FileInv, IInv
<1>6. OnceInv'
  BY <1>1, <1>2, SamePosts DEF OnceInv, IInv
<1>7. NothingComesBack
  BY <1>1, <1>2, <1>3, SamePosts DEF NothingComesBack, Held
<1> QED BY <1>4, <1>5, <1>6, <1>7 DEF IInv

-----------------------------------------------------------------------------
(* Every step *)

\* What any step may do to a metric.
MetricStep ==
    \A id \in Ids :
        /\ Awaited(id)' => Awaited(id)
        /\ Held(id)' => Held(id) \/ Awaited(id)
        /\ \/ received'[id] = received[id]
           \/ Held(id) /\ ~Held(id)' /\ received'[id] = received[id] + 1

LEMMA StoreStep ==
    ASSUME TypeOK, IInv, Store
    PROVE  IInv' /\ MetricStep
<1>1. received' = received
  BY DEF Store, UpdateMessage, RemoveFile, MoveFile, StartupDone
<1>2. CASE StartupDone
  <2>1. UNCHANGED << call, reports, files, closing, queue, post, received >>
    BY <1>2 DEF StartupDone, bidVars, storageVars
  <2>2. StartInv' /\ \A id \in Ids : Awaited(id)' <=> Awaited(id)
    BY <2>1 DEF StartInv, IInv, Awaited
  <2>3. IInv'
    BY <2>1, <2>2, ReportKeeps
  <2>4. \A id \in Ids : Held(id)' => Held(id)
    BY <2>1, SamePosts DEF Held
  <2> QED BY <1>1, <2>2, <2>3, <2>4 DEF MetricStep
<1>3. CASE ~StartupDone
  <2>1. IInv' /\ NothingComesBack
    BY <1>3, UpdateStep, RemoveStep, MoveStep DEF Store
  <2> QED BY <1>1, <2>1 DEF NothingComesBack, MetricStep
<1> QED BY <1>2, <1>3

LEMMA SendStep ==
    ASSUME TypeOK, Honest, IInv, Send
    PROVE  IInv' /\ MetricStep
<1>1. IInv' /\ OneCopyLeaves
  BY BatchStep, TakesStep, OverStep, FailsStep, PushStep DEF Send
<1> QED BY <1>1 DEF OneCopyLeaves, MetricStep

LEMMA NextStep ==
    ASSUME TypeOK, Honest, IInv, [Next]_vars
    PROVE  IInv' /\ MetricStep
<1>1. ASSUME UNCHANGED << files, closing, queue, post, received >>, StartInv',
             \A id \in Ids : Awaited(id)' => Awaited(id)
      PROVE  IInv' /\ MetricStep
  <2>1. IInv'
    BY <1>1, ReportKeeps
  <2>2. \A id \in Ids : Held(id)' => Held(id)
    BY <1>1, SamePosts DEF Held
  <2> QED BY <1>1, <2>1, <2>2 DEF MetricStep
<1>2. CASE Report
  BY <1>1, <1>2, ReportStep
<1>3. CASE Store
  BY <1>3, StoreStep
<1>4. CASE Send
  BY <1>4, SendStep
<1>5. CASE Crash \/ Restart
  <2>1. received' = received
    BY <1>5 DEF Crash, Restart
  <2>2. IInv' /\ NothingComesBack
    BY <1>5, CrashStep, RestartStep
  <2> QED BY <2>1, <2>2 DEF NothingComesBack, MetricStep
<1>6. CASE UNCHANGED vars
  <2>1. UNCHANGED << call, reports, files, closing, queue, post, received >>
    BY <1>6 DEF vars
  <2>2. StartInv' /\ \A id \in Ids : Awaited(id)' => Awaited(id)
    BY <2>1 DEF StartInv, IInv, Awaited
  <2> QED BY <1>1, <2>1, <2>2
<1> QED BY <1>2, <1>3, <1>4, <1>5, <1>6 DEF Next

LEMMA IInvHolds ==
    ASSUME Honest
    PROVE  Spec => []IInv
<1>1. Init => IInv
  BY InitInv
<1>2. TypeOK /\ IInv /\ [Next]_vars => IInv'
  BY NextStep
<1> QED BY <1>1, <1>2, TypeCorrect, PTL DEF Spec

\* If the process never ends between the two writes of a move, and no post fails whose
\* messages the backend took, the assertion of addFeedbackMessage never fires: no metric
\* is in the sending queue twice.
THEOREM NothingQueuedTwice ==
    ASSUME Honest
    PROVE  Spec => []NoExistingElement
<1>1. IInv => NoExistingElement
  BY DEF IInv, OnceInv
<1> QED BY <1>1, IInvHolds, PTL

\* A metric that the device holds is no longer awaited.
LEMMA HeldIsNotAwaited ==
    ASSUME TypeOK, IInv, NEW id \in Ids, Held(id)
    PROVE  ~Awaited(id)
<1>1. \A p \in Posts : InPost(id, p) => Carried(id, p)
  BY InPostIs DEF IInv
<1> QED BY <1>1 DEF Held, IInv, NewInv

\* A metric that was sent is neither held nor awaited.
ReceivedInv ==
    \A id \in Ids : /\ received[id] <= 1
                    /\ Held(id) \/ Awaited(id) => received[id] = 0

\* Under the same conditions the promise of sendFeedbackBatch holds: the same metric is
\* never sent to the backend twice.
THEOREM SentOnce ==
    ASSUME Honest
    PROVE  Spec => []SentAtMostOnce
<1>1. Init => ReceivedInv
  BY DEF Init, ReceivedInv
<1>2. TypeOK /\ IInv /\ [Next]_vars /\ ReceivedInv => ReceivedInv'
  <2> SUFFICES ASSUME TypeOK, MetricStep, TypeOK', IInv, IInv', ReceivedInv, NEW id \in Ids
               PROVE  /\ received'[id] <= 1
                      /\ Held(id)' \/ Awaited(id)' => received'[id] = 0
    BY NextStep, NextType DEF ReceivedInv
  <2>1. CASE received'[id] = received[id]
    BY <2>1 DEF MetricStep, ReceivedInv
  <2>2. CASE Held(id) /\ ~Held(id)' /\ received'[id] = received[id] + 1
    <3>1. ~Awaited(id)'
      BY <2>2, HeldIsNotAwaited DEF MetricStep
    <3>2. received[id] = 0
      BY <2>2 DEF ReceivedInv
    <3> QED BY <2>2, <3>1, <3>2
  <2> QED BY <2>1, <2>2 DEF MetricStep
<1>3. ReceivedInv => SentAtMostOnce
  BY DEF ReceivedInv, SentAtMostOnce
<1> QED BY <1>1, <1>2, <1>3, IInvHolds, TypeCorrect, PTL DEF Spec

-----------------------------------------------------------------------------
(* The feature implements Outbox *)

LEMMA PromiseInit == Init => Promise!Init
<1> SUFFICES ASSUME Init PROVE Promise!Init
  OBVIOUS
<1>1. TypeOK /\ IInv
  BY InitType, InitInv
<1>2. \A id \in Ids : Awaited(id)
  BY ConstantsAssumption DEF Init, Awaited
<1>3. \A id \in Ids : ~Held(id)
  BY <1>1, <1>2, HeldIsNotAwaited
<1>4. received = [id \in Ids |-> 0]
  BY DEF Init
<1> QED BY <1>2, <1>3, <1>4 DEF Promise!Init

LEMMA PromiseStep ==
    ASSUME TypeOK, TypeOK', IInv, MetricStep
    PROVE  Promise!Next
<1> DEFINE state == [id \in Ids |-> IF Held(id) THEN "held"
                                    ELSE IF Awaited(id) THEN "new" ELSE "over"]
<1>1. /\ \A id \in Ids : state[id] = IF Held(id) THEN "held"
                                     ELSE IF Awaited(id) THEN "new" ELSE "over"
      /\ \A id \in Ids : state'[id] = IF Held(id)' THEN "held"
                                      ELSE IF Awaited(id)' THEN "new" ELSE "over"
      /\ state' \in [Ids -> {"new", "held", "over"}]
  OBVIOUS
<1>2. Promise!Next <=>
         /\ state' \in [Ids -> {"new", "held", "over"}]
         /\ received' \in [Ids -> Nat]
         /\ \A id \in Ids : Promise!Begin(id) \/ Promise!End(id) \/ Promise!Stay(id)
  BY DEF Promise!Next
<1>3. ASSUME NEW id \in Ids
      PROVE  /\ Promise!Begin(id) <=> /\ state[id] = "new"
                                      /\ state'[id] \in {"held", "over"}
                                      /\ received'[id] = received[id]
             /\ Promise!End(id) <=> /\ state[id] = "held"
                                    /\ state'[id] = "over"
                                    /\ received'[id] \in {received[id], received[id] + 1}
             /\ Promise!Stay(id) <=> /\ state'[id] = state[id]
                                     /\ received'[id] = received[id]
  BY DEF Promise!Begin, Promise!End, Promise!Stay
<1> HIDE DEF state
<1>4. ASSUME NEW id \in Ids
      PROVE  Promise!Begin(id) \/ Promise!End(id) \/ Promise!Stay(id)
  <2>1. /\ Awaited(id)' => Awaited(id)
        /\ Held(id)' => Held(id) \/ Awaited(id)
        /\ \/ received'[id] = received[id]
           \/ Held(id) /\ ~Held(id)' /\ received'[id] = received[id] + 1
    BY DEF MetricStep
  <2>2. CASE Held(id)
    <3>1. ~Awaited(id)'
      BY <2>1, <2>2, HeldIsNotAwaited
    <3> QED BY <1>1, <1>3, <2>1, <2>2, <3>1
  <2>3. CASE ~Held(id)
    BY <1>1, <1>3, <2>1, <2>3
  <2> QED BY <2>2, <2>3
<1> QED BY <1>1, <1>2, <1>4 DEF TypeOK

\* Under the same conditions the feature implements Outbox: every metric is tracked
\* once, sent once or given up, and never comes back.
THEOREM ImplementsOutbox ==
    ASSUME Honest
    PROVE  Spec => KeepsPromise
<1>1. TypeOK /\ TypeOK' /\ IInv /\ [Next]_vars => Promise!Next
  BY NextStep, PromiseStep
<1> QED BY <1>1, PromiseInit, IInvHolds, TypeCorrect, PTL DEF Spec, KeepsPromise, Promise!Spec

=============================================================================
