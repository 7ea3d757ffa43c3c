----------------------------- MODULE UserAgent -----------------------------
(***************************************************************************)
(* CR_DeviceInfo.waitForUserAgent: a double-checked lock in front of a value *)
(* that a web view computes on the main queue.  Calls come from any thread   *)
(* (CR_NetworkManager before every GET, CR_BidManager before every CDB call) *)
(* and each brings a block to run once the user agent is known, or once the  *)
(* attempt to know it has failed.                                            *)
(*                                                                         *)
(* A call is a member of Callers.  A section under @synchronized is one step *)
(* unless it does something a thread without the lock can see; the section   *)
(* that runs the blocks does, and holds the lock meanwhile.                  *)
(***************************************************************************)
EXTENDS Naturals

CONSTANT Callers  \* calls of waitForUserAgent

VARIABLES
    userAgentSet,        \* userAgent is not nil
    isLoadingUserAgent,
    completionBlocks,    \* _loadUserAgentCompletionBlocks
    toRun,               \* those the enumeration under the lock has not run yet
    loading,             \* the attempt: the script posted, its answer posted, the blocks run
    pc,                  \* of each call
    runs                 \* history: times the block of the call ran

agentVars == << userAgentSet, isLoadingUserAgent, completionBlocks, toRun, loading, pc, runs >>

AgentTypeOK ==
    /\ userAgentSet \in BOOLEAN
    /\ isLoadingUserAgent \in BOOLEAN
    /\ completionBlocks \subseteq Callers
    /\ toRun \subseteq completionBlocks
    /\ loading \in {"none", "script", "value", "error", "running"}
    /\ pc \in [Callers -> {"start", "unlocked", "waiting", "done"}]
    /\ runs \in [Callers -> Nat]

AgentInit ==
    /\ userAgentSet = FALSE
    /\ isLoadingUserAgent = FALSE
    /\ completionBlocks = {}
    /\ toRun = {}
    /\ loading = "none"
    /\ pc = [c \in Callers |-> "start"]
    /\ runs = [c \in Callers |-> 0]

\* The completion block of the call runs, on the thread of the call.
RunsAtOnce(c) ==
    /\ pc' = [pc EXCEPT ![c] = "done"]
    /\ runs' = [runs EXCEPT ![c] = runs[c] + 1]

\* The check before the lock.
CheckWithoutLock(c) ==
    /\ pc[c] = "start"
    /\ IF userAgentSet THEN RunsAtOnce(c)
       ELSE pc' = [pc EXCEPT ![c] = "unlocked"] /\ UNCHANGED runs
    /\ UNCHANGED << userAgentSet, isLoadingUserAgent, completionBlocks, toRun, loading >>

\* @synchronized(self): not while the blocks run.
NoLock == TRUE
LockIsFree == loading # "running"

\* The check under the lock, the block added, the attempt started if none is under way.
CheckWithLock(c) ==
    /\ pc[c] = "unlocked"
    /\ LockIsFree
    /\ \/ /\ userAgentSet
          /\ RunsAtOnce(c)
          /\ UNCHANGED << isLoadingUserAgent, completionBlocks, loading >>
       \/ /\ ~userAgentSet
          /\ pc' = [pc EXCEPT ![c] = "waiting"]
          /\ completionBlocks' = completionBlocks \cup {c}
          /\ isLoadingUserAgent' = TRUE
          /\ loading' = IF isLoadingUserAgent THEN loading ELSE "script"
          /\ UNCHANGED runs
    /\ UNCHANGED << userAgentSet, toRun >>

\* The web view evaluates the script and its answer is posted to the global queue.
ScriptEvaluated ==
    /\ loading = "script"
    /\ loading' \in {"value", "error"}
    /\ UNCHANGED << userAgentSet, isLoadingUserAgent, completionBlocks, toRun, pc, runs >>

\* The block takes the lock and stores the value, which a caller without the lock sees.
StoreAndEmpty ==
    /\ loading \in {"value", "error"}
    /\ userAgentSet' = (userAgentSet \/ loading = "value")
    /\ toRun' = completionBlocks
    /\ completionBlocks' = {}
    /\ loading' = "running"
    /\ UNCHANGED << isLoadingUserAgent, pc, runs >>

StoreValueOnly ==
    /\ loading \in {"value", "error"}
    /\ userAgentSet' = (loading = "value")
    /\ toRun' = IF loading = "value" THEN completionBlocks ELSE {}
    /\ loading' = "running"
    /\ UNCHANGED << isLoadingUserAgent, completionBlocks, pc, runs >>

StoreUserAgent ==
    /\ loading \in {"value", "error"}
    /\ userAgentSet' = (userAgentSet \/ loading = "value")
    /\ toRun' = completionBlocks
    /\ loading' = "running"
    /\ UNCHANGED << isLoadingUserAgent, completionBlocks, pc, runs >>

\* for (completionBlock in _loadUserAgentCompletionBlocks), in no order.
RunBlock(c) ==
    /\ loading = "running"
    /\ c \in toRun
    /\ toRun' = toRun \ {c}
    /\ RunsAtOnce(c)
    /\ UNCHANGED << userAgentSet, isLoadingUserAgent, completionBlocks, loading >>

\* removeAllObjects, the flag, and the lock is released.
BlocksKept ==
    /\ loading = "running"
    /\ toRun = {}
    /\ isLoadingUserAgent' = FALSE
    /\ loading' = "none"
    /\ UNCHANGED << userAgentSet, completionBlocks, toRun, pc, runs >>

BlocksDone ==
    /\ loading = "running"
    /\ toRun = {}
    /\ completionBlocks' = {}
    /\ isLoadingUserAgent' = FALSE
    /\ loading' = "none"
    /\ UNCHANGED << userAgentSet, toRun, pc, runs >>

AgentStep == ScriptEvaluated \/ StoreUserAgent \/ BlocksDone

AgentNext ==
    \/ AgentStep
    \/ \E c \in Callers : CheckWithoutLock(c) \/ CheckWithLock(c) \/ RunBlock(c)

AgentSpec == AgentInit /\ [][AgentNext]_agentVars

\* Threads and queues run; the calls themselves need not come.
AgentFairness ==
    /\ WF_agentVars(AgentStep)
    /\ \A c \in Callers : WF_agentVars(CheckWithLock(c)) /\ WF_agentVars(RunBlock(c))

(***************************************************************************)
(* Properties.                                                             *)
(***************************************************************************)

\* No lost wake-up: a block that waits is in the set of an attempt under way, and, once
\* that attempt runs its blocks, among those it still has to run.
WaitingIsBacked ==
    \A c \in Callers : pc[c] = "waiting" =>
        /\ c \in completionBlocks
        /\ isLoadingUserAgent
        /\ loading # "none"
        /\ loading = "running" => c \in toRun

\* A block runs once, whichever of the three places runs it.
RunsOnce == \A c \in Callers : runs[c] = (IF pc[c] = "done" THEN 1 ELSE 0)

\* Every call that found no user agent gets its block run, even if the attempts fail.
EveryBlockRuns == \A c \in Callers : pc[c] = "unlocked" ~> pc[c] = "done"
=============================================================================
