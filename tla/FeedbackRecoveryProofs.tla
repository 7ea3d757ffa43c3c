----------------------- MODULE FeedbackRecoveryProofs -----------------------
(***************************************************************************)
(* What Feedback guarantees whatever happens: with a process that ends     *)
(* between any two writes and posts that fail although the backend took    *)
(* them, a start leaves nothing of the processes before it, a file only    *)
(* gains fields until they are all in the queue, and a metric leaves the   *)
(* device only for the reasons NeverForgotten names.                       *)
(***************************************************************************)
EXTENDS FeedbackProofs

-----------------------------------------------------------------------------
(* A start sweeps the folder *)

Dead(id) == call[RequestOf[id]] = "dead"

\* Nobody works for the impressions of an earlier process, so that no step writes
\* their files again; the start has listed those it still has to move.
SweepInv ==
    /\ \A m \in reports : ~Dead(m.id)
    /\ \A id \in Ids : bid[id] # "none" => ~Dead(id)
    /\ process = "starting"
          => \A id \in Ids : Dead(id) /\ files[id] # {} => id \in toMove \/ closing = id
    /\ StartupSweeps

\* A callback reports only impressions of calls that this process made.
LEMMA TellSweeps ==
    ASSUME TypeOK, SweepInv, NEW fields \in [Ids -> SUBSET Flag], Tell(fields),
           \A id \in Ids : fields[id] # {} => ~Dead(id)',
           \A id \in Ids : Dead(id)' => Dead(id)
    PROVE  \A m \in reports' : ~Dead(m.id)'
<1>1. \A m \in reports' : m \in reports \/ (m.id \in Ids /\ fields[m.id] # {})
  BY DEF Tell
<1>2. \A m \in reports : m.id \in Ids
  BY DEF TypeOK, Message
<1> QED BY <1>1, <1>2 DEF SweepInv

LEMMA ReportSweeps ==
    ASSUME TypeOK, SweepInv, Report
    PROVE  SweepInv'
<1> USE DEF storageVars
<1>1. process = "running" /\ UNCHANGED << process, toMove, files, closing >>
  BY DEF Report, OnCdbCallStarted, OnCdbCallResponse, OnCdbCallFailure, OnBidCached,
         OnBidConsumed, UpdateController
<1>2. \A id \in Ids : RequestOf[id] \in Requests
  BY ConstantsAssumption
<1>3. ASSUME \A id \in Ids : Dead(id)' => Dead(id),
             \A m \in reports' : ~Dead(m.id)',
             \A id \in Ids : bid'[id] # "none" => ~Dead(id)'
      PROVE  SweepInv'
  BY <1>1, <1>3 DEF SweepInv, StartupSweeps, Dead
<1>4. ASSUME NEW r \in Requests, OnCdbCallStarted(r)
      PROVE  SweepInv'
  <2> DEFINE fields == [id \in Ids |-> IF RequestOf[id] = r THEN {"start"} ELSE {}]
  <2>1. fields \in [Ids -> SUBSET Flag] /\ Tell(fields)
    BY <1>4 DEF OnCdbCallStarted, Flag
  <2>2. \A id \in Ids : fields[id] # {} => RequestOf[id] = r
    OBVIOUS
  <2> HIDE DEF fields
  <2>3. call' = [call EXCEPT ![r] = "sent"] /\ bid' = bid
    BY <1>4 DEF OnCdbCallStarted
  <2>4. \A id \in Ids : /\ Dead(id)' => Dead(id)
                        /\ RequestOf[id] = r => ~Dead(id)'
    BY <1>2, <2>3 DEF Dead, TypeOK
  <2>5. \A m \in reports' : ~Dead(m.id)'
    BY <2>1, <2>2, <2>4, TellSweeps
  <2> QED BY <1>3, <2>3, <2>4, <2>5 DEF SweepInv
<1>5. ASSUME NEW r \in Requests, OnCdbCallResponse(r)
      PROVE  SweepInv'
  <2> PICK offer \in [Impressions(r) -> {"no bid", "invalid", "valid"}] :
          /\ bid' = [id \in Ids |-> IF RequestOf[id] = r /\ offer[id] = "valid"
                                      THEN "live" ELSE bid[id]]
          /\ Tell([id \in Ids |->
                      IF RequestOf[id] # r THEN {}
                      ELSE CASE offer[id] = "no bid"  -> {"end", "expired"}
                             [] offer[id] = "invalid" -> {"expired"}
                             [] offer[id] = "valid"   -> {"end"}])
    BY <1>5 DEF OnCdbCallResponse
  <2> DEFINE fields == [id \in Ids |->
                      IF RequestOf[id] # r THEN {}
                      ELSE CASE offer[id] = "no bid"  -> {"end", "expired"}
                             [] offer[id] = "invalid" -> {"expired"}
                             [] offer[id] = "valid"   -> {"end"}]
  <2>1. \A id \in Ids : RequestOf[id] = r => offer[id] \in {"no bid", "invalid", "valid"}
    BY DEF Impressions
  <2>2. fields \in [Ids -> SUBSET Flag] /\ Tell(fields)
    BY <2>1 DEF Flag
  <2>3. \A id \in Ids : fields[id] # {} => RequestOf[id] = r
    OBVIOUS
  <2> HIDE DEF fields
  <2>4. call' = [call EXCEPT ![r] = "answered"] /\ call[r] = "sent"
    BY <1>5 DEF OnCdbCallResponse
  <2>5. \A id \in Ids : /\ Dead(id)' => Dead(id)
                        /\ RequestOf[id] = r => ~Dead(id)'
    BY <1>2, <2>4 DEF Dead, TypeOK
  <2>6. \A m \in reports' : ~Dead(m.id)'
    BY <2>2, <2>3, <2>5, TellSweeps
  <2>7. \A id \in Ids : bid'[id] # "none" => ~Dead(id)'
    BY <2>5 DEF SweepInv
  <2> QED BY <1>3, <2>5, <2>6, <2>7
<1>6. ASSUME NEW r \in Requests, OnCdbCallFailure(r)
      PROVE  SweepInv'
  <2> PICK failure \in {{"expired"}, {"timeout", "expired"}} :
          Tell([id \in Ids |-> IF RequestOf[id] = r THEN failure ELSE {}])
    BY <1>6 DEF OnCdbCallFailure
  <2> DEFINE fields == [id \in Ids |-> IF RequestOf[id] = r THEN failure ELSE {}]
  <2>1. fields \in [Ids -> SUBSET Flag] /\ Tell(fields)
    BY DEF Flag
  <2>2. \A id \in Ids : fields[id] # {} => RequestOf[id] = r
    OBVIOUS
  <2> HIDE DEF fields
  <2> PICK next \in {"failing", "answered"} : call' = [call EXCEPT ![r] = next]
    BY <1>6 DEF OnCdbCallFailure
  <2>3. call'[r] # "dead" /\ bid' = bid
    BY <1>6 DEF OnCdbCallFailure, TypeOK
  <2>4. \A id \in Ids : /\ Dead(id)' => Dead(id)
                        /\ RequestOf[id] = r => ~Dead(id)'
    BY <1>2, <2>3 DEF Dead, TypeOK
  <2>5. \A m \in reports' : ~Dead(m.id)'
    BY <2>1, <2>2, <2>4, TellSweeps
  <2> QED BY <1>3, <2>3, <2>4, <2>5 DEF SweepInv
<1>7. ASSUME NEW id \in Ids, OnBidCached(id) \/ OnBidConsumed(id)
      PROVE  SweepInv'
  <2>1. /\ call' = call
        /\ bid[id] # "none"
        /\ \A i \in Ids : bid'[i] # "none" => bid[i] # "none"
    BY <1>7 DEF OnBidCached, OnBidConsumed, TypeOK
  <2>2. PICK outcome \in {{"cached"}, {"elapsed"}, {"expired"}} :
            Tell([i \in Ids |-> IF i = id THEN outcome ELSE {}])
    BY <1>7 DEF OnBidCached, OnBidConsumed
  <2> DEFINE fields == [i \in Ids |-> IF i = id THEN outcome ELSE {}]
  <2>3. fields \in [Ids -> SUBSET Flag] /\ Tell(fields)
    BY <2>2 DEF Flag
  <2>4. \A i \in Ids : fields[i] # {} => i = id
    OBVIOUS
  <2> HIDE DEF fields
  <2>5. \A i \in Ids : Dead(i)' <=> Dead(i)
    BY <2>1 DEF Dead
  <2>6. \A m \in reports' : ~Dead(m.id)'
    BY <2>1, <2>3, <2>4, <2>5, TellSweeps DEF SweepInv
  <2> QED BY <1>3, <2>1, <2>5, <2>6 DEF SweepInv
<1>8. ASSUME UpdateController
      PROVE  SweepInv'
  <2>1. UNCHANGED << call, bid, reports >>
    BY <1>8 DEF UpdateController, bidVars
  <2> QED BY <1>3, <2>1 DEF SweepInv, Dead
<1> QED BY <1>4, <1>5, <1>6, <1>7, <1>8 DEF Report

LEMMA StoreSweeps ==
    ASSUME TypeOK, SweepInv, Store
    PROVE  SweepInv'
<1> USE DEF storageVars, bidVars
<1>1. UNCHANGED << call, bid >> /\ \A id \in Ids : Dead(id)' <=> Dead(id)
  BY DEF Store, UpdateMessage, RemoveFile, MoveFile, StartupDone, Dead
<1>2. ASSUME NEW m \in reports, UpdateMessage(m)
      PROVE  SweepInv'
  <2>1. /\ process = "running" /\ process' = "running"
        /\ reports' \subseteq reports
        /\ m.id \in Ids /\ ~Dead(m.id)
    BY <1>2 DEF UpdateMessage, TypeOK, Message, SweepInv
  <2>2. files' = files \/ files' = [files EXCEPT ![m.id] = Updated(m)]
    BY <1>2 DEF UpdateMessage
  <2>3. \A id \in Ids : id # m.id => files'[id] = files[id]
    BY <2>2 DEF TypeOK
  <2>4. StartupSweeps'
    BY <1>1, <2>1, <2>3 DEF SweepInv, StartupSweeps, Dead
  <2> QED BY <1>1, <2>1, <2>4 DEF SweepInv, Dead
<1>3. ASSUME RemoveFile
      PROVE  SweepInv'
  <2>1. /\ UNCHANGED << process, toMove, reports >>
        /\ \A id \in Ids : /\ files'[id] # {} => files[id] # {}
                           /\ files'[id] # {} => id # closing
    BY <1>3 DEF RemoveFile, WithoutFile, TypeOK
  <2>2. StartupSweeps'
    BY <1>1, <2>1 DEF SweepInv, StartupSweeps, Dead
  <2> QED BY <1>1, <2>1, <2>2 DEF SweepInv, Dead
<1>4. ASSUME NEW id \in Ids, MoveFile(id)
      PROVE  SweepInv'
  <2>1. /\ UNCHANGED << process, reports, files >>
        /\ process = "starting"
        /\ closing = None
        /\ closing' = id
        /\ toMove' = toMove \ {id}
    BY <1>4 DEF MoveFile, Unlocked
  <2> QED BY <1>1, <2>1, ConstantsAssumption DEF SweepInv, StartupSweeps, Dead
<1>5. ASSUME StartupDone
      PROVE  SweepInv'
  <2>1. /\ UNCHANGED << reports, files >>
        /\ process = "starting" /\ process' = "running"
        /\ closing = None
        /\ toMove = {}
    BY <1>5 DEF StartupDone, Unlocked
  <2>2. StartupSweeps'
    BY <1>1, <2>1, ConstantsAssumption DEF SweepInv, StartupSweeps, Dead
  <2> QED BY <1>1, <2>1, <2>2 DEF SweepInv, Dead
<1> QED BY <1>2, <1>3, <1>4, <1>5 DEF Store

LEMMA SendSweeps ==
    ASSUME SweepInv, Send
    PROVE  SweepInv'
<1>1. UNCHANGED << process, toMove, call, bid, reports, files, closing >>
  BY DEF Send, SendFeedbackBatch, BackendTakes, PostIsOver, PostRefused, PostFails,
         PushMessage, storageVars, bidVars
<1> QED BY <1>1 DEF SweepInv, StartupSweeps, Dead

LEMMA ProcessSweeps ==
    ASSUME TypeOK, SweepInv, Crash \/ Restart
    PROVE  SweepInv'
<1>1. CASE Crash
  <2>1. /\ process' = "ended"
        /\ reports' = {}
        /\ \A id \in Ids : bid'[id] = "none"
    BY <1>1 DEF Crash
  <2> QED BY <2>1 DEF SweepInv, StartupSweeps
<1>2. CASE Restart
  <2>1. /\ process' = "starting"
        /\ toMove' = {id \in Ids : files[id] # {}}
        /\ UNCHANGED << call, bid, reports, files >>
    BY <1>2 DEF Restart, ActiveFiles, bidVars
  <2> QED BY <2>1 DEF SweepInv, StartupSweeps, Dead
<1> QED BY <1>1, <1>2

\* Once the storage has started, the folder holds no file of a call of an earlier
\* process, whatever writes the end of that process cut off.
THEOREM StartIsClean == Spec => []StartupSweeps
<1>1. Init => SweepInv
  BY ConstantsAssumption DEF Init, SweepInv, StartupSweeps, Dead
<1>2. TypeOK /\ SweepInv /\ [Next]_vars => SweepInv'
  <2> SUFFICES ASSUME TypeOK, SweepInv, [Next]_vars PROVE SweepInv'
    OBVIOUS
  <2>1. CASE UNCHANGED vars
    <3>1. UNCHANGED << process, toMove, call, bid, reports, files, closing >>
      BY <2>1 DEF vars
    <3> QED BY <3>1 DEF SweepInv, StartupSweeps, Dead
  <2> QED BY <2>1, ReportSweeps, StoreSweeps, SendSweeps, ProcessSweeps DEF Next
<1>3. SweepInv => StartupSweeps
  BY DEF SweepInv
<1> QED BY <1>1, <1>2, <1>3, TypeCorrect, PTL DEF Spec

-----------------------------------------------------------------------------
(* Between the two writes of a move *)

\* The message that is being moved, with every field of its file, is in the queue,
\* and nobody touches the queue before the file is gone.
MoveInv ==
    closing # None =>
        /\ process # "ended"
        /\ \A p \in Posts : post[p].at # "pushing"
        /\ \E i \in DOMAIN queue : /\ queue[i].id = closing
                                   /\ files[closing] \subseteq queue[i].fields

\* An add loses a message only when it leaves the queue full.
LEMMA EnqueuedKeeps ==
    ASSUME TypeOK, NEW m \in Message, queue' = Enqueued(m), Len(queue') # MaxQueue,
           NEW i \in DOMAIN queue
    PROVE  i \in DOMAIN queue' /\ queue'[i] = queue[i]
<1>1. /\ queue \in Seq(Message)
      /\ Len(queue) <= MaxQueue
      /\ MaxQueue \in Nat \ {0}
      /\ Len(queue) \in Nat
      /\ i \in 1 .. Len(queue)
  BY ConstantsAssumption DEF TypeOK
<1> DEFINE longer == Append(queue, m)
<1>2. Len(longer) = Len(queue) + 1 /\ longer[i] = queue[i] /\ i \in DOMAIN longer
  BY <1>1
<1>3. CASE Len(longer) > MaxQueue
  <2>1. queue' = Tail(longer)
    BY <1>3 DEF Enqueued
  <2>2. Len(Tail(longer)) = Len(queue)
    BY <1>1
  <2> QED BY <1>1, <1>2, <1>3, <2>1, <2>2
<1>4. CASE ~(Len(longer) > MaxQueue)
  <2>1. queue' = longer
    BY <1>4 DEF Enqueued
  <2> QED BY <1>2, <2>1
<1> QED BY <1>3, <1>4

LEMMA EnqueuedLast ==
    ASSUME TypeOK, NEW m \in Message, queue' = Enqueued(m)
    PROVE  \E i \in DOMAIN queue' : queue'[i] = m
<1>1. Len(queue') \in 1 .. MaxQueue /\ queue'[Len(queue')] = m /\ queue' \in Seq(Message)
  BY EnqueuedIs, ConstantsAssumption DEF TypeOK
<1>2. Len(queue') \in DOMAIN queue'
  BY <1>1, ConstantsAssumption
<1> QED BY <1>1, <1>2

\* A message on its way to the queue arrives with the fields of its file.
LEMMA MoveBegins ==
    ASSUME TypeOK, NEW n \in Message, queue' = Enqueued(n), closing' = n.id,
           files' = files, files[n.id] \subseteq n.fields
    PROVE  \E i \in DOMAIN queue' : /\ queue'[i].id = closing'
                                    /\ files'[closing'] \subseteq queue'[i].fields
BY EnqueuedLast

LEMMA StoreMoves ==
    ASSUME TypeOK, MoveInv, Store
    PROVE  MoveInv'
<1>1. post' = post
  BY DEF Store, UpdateMessage, RemoveFile, MoveFile, StartupDone, storageVars
<1>2. ASSUME NEW m \in reports, UpdateMessage(m)
      PROVE  MoveInv'
  <2>1. /\ process = "running" /\ process' = process
        /\ closing = None
        /\ \A p \in Posts : post[p].at # "pushing"
    BY <1>2 DEF UpdateMessage, Unlocked
  <2>2. CASE IsReadyToSend(Updated(m))
    <3> DEFINE n == [m EXCEPT !.fields = Updated(m)]
    <3>1. n \in Message /\ n.id = m.id /\ files[m.id] \subseteq n.fields
      BY DEF TypeOK, Message, Updated
    <3>2. queue' = Enqueued(n) /\ closing' = m.id /\ files' = files
      BY <1>2, <2>2 DEF UpdateMessage
    <3> HIDE DEF n
    <3>3. \E i \in DOMAIN queue' : /\ queue'[i].id = closing'
                                   /\ files'[closing'] \subseteq queue'[i].fields
      BY <3>1, <3>2, MoveBegins
    <3> QED BY <1>1, <2>1, <3>3 DEF MoveInv
  <2>3. CASE ~IsReadyToSend(Updated(m))
    <3>1. closing' = None
      BY <1>2, <2>1, <2>3 DEF UpdateMessage
    <3> QED BY <3>1 DEF MoveInv
  <2> QED BY <2>2, <2>3
<1>3. ASSUME RemoveFile
      PROVE  MoveInv'
  BY <1>3 DEF RemoveFile, MoveInv
<1>4. ASSUME NEW id \in Ids, MoveFile(id)
      PROVE  MoveInv'
  <2>1. /\ process = "starting" /\ process' = process
        /\ \A p \in Posts : post[p].at # "pushing"
        /\ queue' = Enqueued([id |-> id, fields |-> files[id]])
        /\ closing' = id
        /\ files' = files
    BY <1>4 DEF MoveFile, Unlocked
  <2>2. [id |-> id, fields |-> files[id]] \in Message
    BY DEF TypeOK, Message
  <2>3. \E i \in DOMAIN queue' : /\ queue'[i].id = closing'
                                 /\ files'[closing'] \subseteq queue'[i].fields
    BY <2>1, <2>2, MoveBegins
  <2> QED BY <1>1, <2>1, <2>3 DEF MoveInv
<1>5. ASSUME StartupDone
      PROVE  MoveInv'
  BY <1>5 DEF StartupDone, MoveInv, Unlocked, storageVars
<1> QED BY <1>2, <1>3, <1>4, <1>5 DEF Store

LEMMA SendMoves ==
    ASSUME TypeOK, MoveInv, Send
    PROVE  MoveInv'
<1>1. CASE closing = None
  <2>1. closing' = None
    BY <1>1 DEF Send, SendFeedbackBatch, BackendTakes, PostIsOver, PostRefused, PostFails,
                PushMessage, storageVars
  <2> QED BY <2>1 DEF MoveInv
<1>2. CASE closing # None
  <2>1. PICK p \in Posts : BackendTakes(p) \/ PostIsOver(p) \/ PostRefused(p)
    BY <1>2 DEF Send, SendFeedbackBatch, PostFails, PushMessage, Unlocked, MoveInv
  <2>2. UNCHANGED << process, files, closing, queue >>
    BY <2>1 DEF BackendTakes, PostIsOver, PostRefused, storageVars
  <2>3. post' = [post EXCEPT ![p].at = "taken"] \/ post' = [post EXCEPT ![p] = NoPost]
    BY <2>1 DEF BackendTakes, PostIsOver, PostRefused
  <2>4. post'[p].at # "pushing"
    <3> DEFINE taken == [post[p] EXCEPT !.at = "taken"]
    <3>1. taken.at = "taken"
      BY DEF TypeOK, Post
    <3>2. post' = [post EXCEPT ![p] = taken] \/ post' = [post EXCEPT ![p] = NoPost]
      BY <2>3
    <3> HIDE DEF taken
    <3>3. post'[p] = taken \/ post'[p] = NoPost
      BY <3>2 DEF TypeOK
    <3> QED BY <3>1, <3>3 DEF NoPost
  <2>5. \A q \in Posts : q # p => post'[q] = post[q]
    BY <2>3 DEF TypeOK
  <2> QED BY <1>2, <2>2, <2>4, <2>5 DEF MoveInv
<1> QED BY <1>1, <1>2

LEMMA MoveHolds == Spec => []MoveInv
<1>1. Init => MoveInv
  BY DEF Init, MoveInv
<1>2. TypeOK /\ MoveInv /\ [Next]_vars => MoveInv'
  <2> SUFFICES ASSUME TypeOK, MoveInv, [Next]_vars PROVE MoveInv'
    OBVIOUS
  <2>1. CASE Report
    <3>1. UNCHANGED << process, files, closing, queue, post >>
      BY <2>1 DEF Report, OnCdbCallStarted, OnCdbCallResponse, OnCdbCallFailure,
                  OnBidCached, OnBidConsumed, UpdateController, storageVars
    <3> QED BY <3>1 DEF MoveInv
  <2>2. CASE Crash \/ Restart
    <3>1. closing' = None
      BY <2>2 DEF Crash, Restart, MoveInv
    <3> QED BY <3>1 DEF MoveInv
  <2>3. CASE UNCHANGED vars
    <3>1. UNCHANGED << process, files, closing, queue, post >>
      BY <2>3 DEF vars
    <3> QED BY <3>1 DEF MoveInv
  <2> QED BY <2>1, <2>2, <2>3, StoreMoves, SendMoves DEF Next
<1> QED BY <1>1, <1>2, TypeCorrect, PTL DEF Spec

\* The fields of a file are never lost: whatever write the process ends after, they
\* are in the file or in a message of the queue.
THEOREM NothingReportedIsLost == Spec => ReportsAddUp
<1>1. ASSUME TypeOK, MoveInv, [Next]_vars, NEW id \in Ids, files'[id] # files[id]
      PROVE  \/ files[id] \subseteq files'[id]
             \/ \E i \in DOMAIN queue' : /\ queue'[i].id = id
                                         /\ files[id] \subseteq queue'[i].fields
  <2>1. Store
    BY <1>1 DEF Next, Report, OnCdbCallStarted, OnCdbCallResponse, OnCdbCallFailure,
                OnBidCached, OnBidConsumed, UpdateController, Send, SendFeedbackBatch,
                BackendTakes, PostIsOver, PostRefused, PostFails, PushMessage, Crash,
                Restart, storageVars, vars
  <2>2. ASSUME NEW m \in reports, UpdateMessage(m)
        PROVE  files[id] \subseteq files'[id]
    <3>1. files' = [files EXCEPT ![m.id] = Updated(m)]
      BY <1>1, <2>2 DEF UpdateMessage
    <3> QED BY <1>1, <3>1 DEF TypeOK, Updated
  <2>3. ASSUME RemoveFile
        PROVE  \E i \in DOMAIN queue' : /\ queue'[i].id = id
                                        /\ files[id] \subseteq queue'[i].fields
    <3>1. id = closing /\ closing # None /\ queue' = queue
      BY <1>1, <2>3 DEF RemoveFile, WithoutFile, TypeOK
    <3> QED BY <1>1, <3>1 DEF MoveInv
  <2>4. ASSUME (\E i \in Ids : MoveFile(i)) \/ StartupDone
        PROVE  FALSE
    BY <1>1, <2>4 DEF MoveFile, StartupDone, storageVars
  <2> QED BY <2>1, <2>2, <2>3, <2>4 DEF Store
<1>2. TypeOK /\ MoveInv /\ [Next]_vars
         => [\A id \in Ids :
               files'[id] # files[id]
                 => \/ files[id] \subseteq files'[id]
                    \/ \E i \in DOMAIN queue' :
                          queue'[i].id = id /\ files[id] \subseteq queue'[i].fields]_vars
  BY <1>1
<1> QED BY <1>2, TypeCorrect, MoveHolds, PTL DEF Spec, ReportsAddUp

-----------------------------------------------------------------------------
(* Where a metric may leave the device *)

\* The reasons NeverForgotten names.
Excused(id) ==
    \/ received'[id] # received[id]
    \/ process' = "ended" \/ process = "ended"
    \/ queue' # queue /\ Len(queue') = MaxQueue
    \/ Refused(id)

\* An add keeps the metrics of the queue, unless it leaves it full.
LEMMA EnqueuedHolds ==
    ASSUME TypeOK, NEW m \in Message, queue' = Enqueued(m), NEW id \in Ids,
           InMessages(id, queue)
    PROVE  InMessages(id, queue') \/ (queue' # queue /\ Len(queue') = MaxQueue)
<1>1. CASE queue' = queue
  BY <1>1
<1>2. CASE queue' # queue /\ Len(queue') # MaxQueue
  BY <1>2, EnqueuedKeeps DEF InMessages
<1> QED BY <1>1, <1>2

LEMMA StoreHolds ==
    ASSUME TypeOK, MoveInv, Store, NEW id \in Ids, Held(id)
    PROVE  Held(id)' \/ Excused(id)
<1>1. post' = post
  BY DEF Store, UpdateMessage, RemoveFile, MoveFile, StartupDone, storageVars
<1>2. CASE \E p \in Posts : InPost(id, p)
  BY <1>1, <1>2, SamePosts DEF Held
<1>3. ASSUME NEW m \in reports, UpdateMessage(m),
             "start" \in files[id] \/ InMessages(id, queue)
      PROVE  Held(id)' \/ Excused(id)
  <2>1. CASE "start" \in files[id]
    <3>1. files' = files \/ files' = [files EXCEPT ![m.id] = Updated(m)]
      BY <1>3 DEF UpdateMessage
    <3>2. "start" \in files'[id]
      BY <2>1, <3>1 DEF TypeOK, Updated
    <3> QED BY <3>2 DEF Held
  <2>2. CASE InMessages(id, queue)
    <3> DEFINE n == [m EXCEPT !.fields = Updated(m)]
    <3>1. n \in Message
      BY DEF TypeOK, Message, Updated
    <3>2. queue' = queue \/ queue' = Enqueued(n)
      BY <1>3 DEF UpdateMessage
    <3> HIDE DEF n
    <3>3. InMessages(id, queue') \/ (queue' # queue /\ Len(queue') = MaxQueue)
      BY <2>2, <3>1, <3>2, EnqueuedHolds
    <3> QED BY <3>3 DEF Held, Excused
  <2> QED BY <1>3, <2>1, <2>2
<1>4. ASSUME RemoveFile, "start" \in files[id] \/ InMessages(id, queue)
      PROVE  Held(id)'
  <2>1. /\ queue' = queue
        /\ closing # None
        /\ files' = [files EXCEPT ![closing] = {}]
    BY <1>4 DEF RemoveFile, WithoutFile
  <2>2. CASE InMessages(id, queue)
    BY <2>1, <2>2 DEF Held
  <2>3. CASE "start" \in files[id] /\ id # closing
    BY <2>1, <2>3 DEF Held, TypeOK
  <2>4. CASE "start" \in files[id] /\ id = closing
    <3>1. InMessages(id, queue)
      BY <2>1, <2>4 DEF MoveInv, InMessages, Started
    <3> QED BY <2>2, <3>1
  <2> QED BY <1>4, <2>2, <2>3, <2>4
<1>5. ASSUME NEW i \in Ids, MoveFile(i), "start" \in files[id] \/ InMessages(id, queue)
      PROVE  Held(id)' \/ Excused(id)
  <2>1. files' = files /\ queue' = Enqueued([id |-> i, fields |-> files[i]])
    BY <1>5 DEF MoveFile
  <2>2. [id |-> i, fields |-> files[i]] \in Message
    BY DEF TypeOK, Message
  <2>3. CASE "start" \in files[id]
    BY <2>1, <2>3 DEF Held
  <2>4. CASE InMessages(id, queue)
    BY <2>1, <2>2, <2>4, EnqueuedHolds DEF Held, Excused
  <2> QED BY <1>5, <2>3, <2>4
<1>6. ASSUME StartupDone, "start" \in files[id] \/ InMessages(id, queue)
      PROVE  Held(id)'
  BY <1>6 DEF StartupDone, storageVars, Held
<1> QED BY <1>2, <1>3, <1>4, <1>5, <1>6 DEF Store, Held

LEMMA BatchHolds ==
    ASSUME TypeOK, SendFeedbackBatch, NEW id \in Ids, Held(id)
    PROVE  Held(id)'
<1>1. files' = files
  BY DEF SendFeedbackBatch
<1> PICK mine \in [Posts -> SUBSET DOMAIN queue] :
        /\ \A i \in DOMAIN queue : \E p \in Posts : i \in mine[p]
        /\ \A p \in Posts :
              \/ mine[p] = {} /\ post'[p] = post[p]
              \/ /\ mine[p] # {}
                 /\ post[p] = NoPost
                 /\ post'[p].at = "sent"
                 /\ post'[p].messages = [i \in mine[p] |-> queue[i]]
  BY BatchSplits
<1>2. CASE "start" \in files[id]
  BY <1>1, <1>2 DEF Held
<1>3. CASE InMessages(id, queue)
  <2>1. PICK i \in DOMAIN queue : queue[i].id = id /\ Started(queue[i])
    BY <1>3 DEF InMessages
  <2>2. PICK p \in Posts : i \in mine[p]
    OBVIOUS
  <2>3. post'[p].at = "sent" /\ post'[p].messages = [j \in mine[p] |-> queue[j]]
    BY <2>2
  <2>4. i \in DOMAIN post'[p].messages /\ post'[p].messages[i] = queue[i]
    BY <2>2, <2>3
  <2>5. InPost(id, p)'
    BY <2>1, <2>3, <2>4 DEF InPost, InMessages
  <2> QED BY <2>5 DEF Held
<1>4. ASSUME NEW p \in Posts, InPost(id, p)
      PROVE  Held(id)'
  <2>1. post[p] # NoPost
    BY <1>4 DEF InPost, NoPost
  <2>2. post'[p] = post[p]
    BY <2>1
  <2>3. InPost(id, p)'
    BY <1>4, <2>2 DEF InPost, InMessages
  <2> QED BY <2>3 DEF Held
<1> QED BY <1>2, <1>3, <1>4 DEF Held

\* A batch that holds a metric counts a copy of it.
LEMMA CopiesPositive ==
    ASSUME NEW ms \in Batch, NEW id \in Ids, InMessages(id, ms)
    PROVE  Copies(id, ms) \in Nat /\ Copies(id, ms) # 0
<1> DEFINE S == {i \in DOMAIN ms : ms[i].id = id /\ Started(ms[i])}
<1>1. S \subseteq 1 .. MaxQueue
  BY SomeBatch DEF Places
<1>2. IsFiniteSet(1 .. MaxQueue)
  BY FS_Interval, ConstantsAssumption
<1>3. IsFiniteSet(S)
  BY <1>1, <1>2, FS_Subset
<1>4. S # {}
  BY DEF InMessages
<1>5. Cardinality(S) # 0
  BY <1>3, <1>4, FS_EmptySet
<1> QED BY <1>5, CopiesType DEF Copies

LEMMA TakesHolds ==
    ASSUME TypeOK, NEW p \in Posts, BackendTakes(p), NEW id \in Ids, Held(id)
    PROVE  Held(id)' \/ Excused(id)
<1>1. /\ UNCHANGED << files, queue >>
      /\ post[p].at = "sent"
      /\ received'[id] = received[id] + Copies(id, post[p].messages)
  BY DEF BackendTakes, storageVars
<1>2. /\ post'[p].messages = post[p].messages
      /\ post'[p].left = post[p].left
      /\ \A q \in Posts : q # p => post'[q] = post[q]
  BY DEF BackendTakes, TypeOK, Post
<1>3. post[p].messages \in Batch
  BY DEF TypeOK, Post
<1>4. CASE InMessages(id, post[p].messages)
  <2>1. Copies(id, post[p].messages) \in Nat /\ Copies(id, post[p].messages) # 0
    BY <1>3, <1>4, CopiesPositive
  <2>2. received'[id] # received[id]
    BY <1>1, <2>1 DEF TypeOK
  <2> QED BY <2>2 DEF Excused
<1>5. CASE ~InMessages(id, post[p].messages)
  <2>1. ASSUME NEW q \in Posts, InPost(id, q)
        PROVE  InPost(id, q)'
    BY <1>2, <1>5, <2>1 DEF InPost, InMessages
  <2> QED BY <1>1, <2>1 DEF Held
<1> QED BY <1>4, <1>5

LEMMA OverHolds ==
    ASSUME TypeOK, NEW p \in Posts, PostIsOver(p) \/ PostRefused(p), NEW id \in Ids,
           Held(id)
    PROVE  Held(id)' \/ Excused(id)
<1>1. UNCHANGED << files, queue >>
  BY DEF PostIsOver, PostRefused, storageVars
<1>2. post'[p] = NoPost /\ \A q \in Posts : q # p => post'[q] = post[q]
  BY DEF PostIsOver, PostRefused, TypeOK
<1>3. CASE InPost(id, p)
  <2>1. post[p].at # "pushing"
    BY DEF PostIsOver, PostRefused
  <2>2. post[p].left = {}
    BY <2>1 DEF TypeOK, Post
  <2>3. post[p].at = "sent" /\ InMessages(id, post[p].messages)
    BY <1>3, <2>2 DEF InPost
  <2>4. PostRefused(p)
    BY <2>3 DEF PostIsOver
  <2> QED BY <2>3, <2>4 DEF Excused, Refused
<1>4. CASE ~InPost(id, p)
  <2>1. ASSUME NEW q \in Posts, InPost(id, q)
        PROVE  InPost(id, q)'
    BY <1>2, <1>4, <2>1 DEF InPost, InMessages
  <2> QED BY <1>1, <2>1 DEF Held
<1> QED BY <1>3, <1>4

LEMMA FailsHolds ==
    ASSUME TypeOK, NEW p \in Posts, PostFails(p), NEW id \in Ids, Held(id)
    PROVE  Held(id)'
<1>1. UNCHANGED << files, queue >>
  BY DEF PostFails, storageVars
<1> PICK again \in BOOLEAN :
        post' = [post EXCEPT ![p] = [@ EXCEPT !.at = "pushing", !.again = again,
                                              !.left = DOMAIN post[p].messages]]
  BY DEF PostFails
<1>2. /\ post'[p].messages = post[p].messages
      /\ post'[p].left = DOMAIN post[p].messages
      /\ \A q \in Posts : q # p => post'[q] = post[q]
  BY DEF TypeOK, Post
<1>3. post[p].left \subseteq DOMAIN post[p].messages
  BY DEF TypeOK, Post
<1>4. ASSUME NEW q \in Posts, InPost(id, q)
      PROVE  InPost(id, q)'
  BY <1>2, <1>3, <1>4 DEF InPost, InMessages
<1> QED BY <1>1, <1>4 DEF Held

LEMMA PushHolds ==
    ASSUME TypeOK, NEW p \in Posts, PushMessage(p), NEW id \in Ids, Held(id)
    PROVE  Held(id)' \/ Excused(id)
<1>1. files' = files /\ post[p].at = "pushing"
  BY DEF PushMessage
<1> PICK i \in post[p].left :
        /\ queue' = Enqueued(post[p].messages[i])
        /\ post' = [post EXCEPT ![p] =
                       IF post[p].left # {i} THEN [@ EXCEPT !.left = post[p].left \ {i}]
                       ELSE IF post[p].again THEN [@ EXCEPT !.at = "again", !.left = {}]
                       ELSE NoPost]
  BY DEF PushMessage
<1>2. post[p].messages[i] \in Message
  BY <1>1, SomeBatch DEF TypeOK, Post
<1>3. \A q \in Posts : q # p => post'[q] = post[q]
  BY DEF TypeOK
<1> DEFINE fewer == [post[p] EXCEPT !.left = post[p].left \ {i}]
<1>4. fewer.messages = post[p].messages /\ fewer.left = post[p].left \ {i}
  BY DEF TypeOK, Post
<1>5. post[p].left # {i} => post'[p] = fewer
  BY DEF TypeOK
<1> HIDE DEF fewer
<1>6. CASE "start" \in files[id]
  BY <1>1, <1>6 DEF Held
<1>7. CASE InMessages(id, queue)
  BY <1>2, <1>7, EnqueuedHolds DEF Held, Excused
<1>8. ASSUME NEW q \in Posts, q # p, InPost(id, q)
      PROVE  Held(id)'
  <2>1. InPost(id, q)'
    BY <1>3, <1>8 DEF InPost, InMessages
  <2> QED BY <2>1 DEF Held
<1>9. CASE InPost(id, p)
  <2>1. PICK j \in post[p].left : /\ post[p].messages[j].id = id
                                  /\ Started(post[p].messages[j])
    BY <1>1, <1>9 DEF InPost
  <2>2. CASE j = i
    <3>1. \E k \in DOMAIN queue' : queue'[k] = post[p].messages[i]
      BY <1>2, EnqueuedLast
    <3>2. InMessages(id, queue')
      BY <2>1, <2>2, <3>1 DEF InMessages
    <3> QED BY <3>2 DEF Held
  <2>3. CASE j # i
    <3>1. post'[p] = fewer
      BY <1>5, <2>1, <2>3
    <3>2. InPost(id, p)'
      BY <1>4, <2>1, <2>3, <3>1 DEF InPost
    <3> QED BY <3>2 DEF Held
  <2> QED BY <2>2, <2>3
<1> QED BY <1>6, <1>7, <1>8, <1>9 DEF Held

\* A metric on the device leaves it for the backend, with the end of the process, from
\* a full queue, or because the backend refused its batch with a status outside 200..299:
\* never otherwise.
THEOREM NothingForgotten == Spec => NeverForgotten
<1>1. ASSUME TypeOK, MoveInv, [Next]_vars, NEW id \in Ids, Held(id)
      PROVE  Held(id)' \/ Excused(id)
  <2>1. ASSUME UNCHANGED << files, queue, post >>
        PROVE  Held(id)'
    BY <1>1, <2>1, SamePosts DEF Held
  <2>2. CASE Report
    BY <2>1, <2>2 DEF Report, OnCdbCallStarted, OnCdbCallResponse, OnCdbCallFailure,
                      OnBidCached, OnBidConsumed, UpdateController, storageVars
  <2>3. CASE Store
    BY <1>1, <2>3, StoreHolds
  <2>4. CASE Send
    BY <1>1, <2>4, BatchHolds, TakesHolds, OverHolds, FailsHolds, PushHolds DEF Send
  <2>5. CASE Crash \/ Restart
    BY <2>5 DEF Crash, Restart, Excused
  <2>6. CASE UNCHANGED vars
    BY <2>1, <2>6 DEF vars
  <2> QED BY <1>1, <2>2, <2>3, <2>4, <2>5, <2>6 DEF Next
<1>2. TypeOK /\ MoveInv /\ [Next]_vars
         => [\A id \in Ids :
                Held(id) /\ ~Held(id)' /\ received'[id] = received[id]
                    => \/ process' = "ended" \/ process = "ended"
                       \/ queue' # queue /\ Len(queue') = MaxQueue
                       \/ Refused(id)]_vars
  BY <1>1 DEF Excused
<1> QED BY <1>2, TypeCorrect, MoveHolds, PTL DEF Spec, NeverForgotten

=============================================================================
