----------------------------- MODULE SyncWorker -----------------------------
(***************************************************************************)
(* The two programs that call sync() again: the worker, which repeats it   *)
(* for ever and retries a cycle that found SQLite busy, and the resync     *)
(* script, which goes once through the devices of the registry.  What      *)
(* sync() does is the module SourceSync; here it returns or throws one of  *)
(* a few outcomes.                                                         *)
(***************************************************************************)
EXTENDS Naturals

CONSTANTS
    Delays,      \* length of SQLITE_BUSY_BACKOFF_MS
    MaxAttempts, \* --retries of the resync script
    ResyncCount  \* devices the resync script goes through

ASSUME WorkerAssumption ==
    /\ Delays \in Nat
    /\ MaxAttempts \in Nat \ {0}
    /\ ResyncCount \in Nat

VARIABLES
    phase,          \* "syncing", "backoff", "waiting", "ended", "exited" or "killed"
    attempt,        \* of withSqliteBusyRetry
    stopped,
    timer,          \* the timer of waitForNextCycle is pending
    startsSinceStop,\* calls of sync() since stop(), counted up to Delays + 1
    resync          \* the resync script: device, attempt, last outcomes

workerVars == <<phase, attempt, stopped, timer, startsSinceStop>>
loopVars == <<workerVars, resync>>

\* How a call of sync() ends.  A failed result is busy by its code only; the
\* BusyResultError made of it has no code and is busy by its message only.
Outcomes == [how : {"completed", "failed", "thrown"},
             busyCode : BOOLEAN, busyMessage : BOOLEAN]

\* A slip the properties must notice: one attempt more than there are delays.
RetriedOnceMore(o) ==
    /\ attempt <= Delays
    /\ CASE o.how = "completed" -> FALSE
         [] o.how = "failed"    -> o.busyCode /\ o.busyMessage
         [] o.how = "thrown"    -> o.busyCode \/ o.busyMessage

Retried(o) ==
    /\ attempt < Delays
    /\ CASE o.how = "completed" -> FALSE
         [] o.how = "failed"    -> o.busyCode /\ o.busyMessage
         [] o.how = "thrown"    -> o.busyCode \/ o.busyMessage

-----------------------------------------------------------------------------
(* The worker.                                                             *)

BeginSync ==
    /\ phase' = "syncing"
    /\ startsSinceStop' = IF stopped /\ startsSinceStop <= Delays
                          THEN startsSinceStop + 1 ELSE startsSinceStop

SyncBusy(o) ==
    /\ phase = "syncing"
    /\ Retried(o)
    /\ phase' = "backoff"
    /\ UNCHANGED <<attempt, stopped, timer, startsSinceStop, resync>>

BackoffOver ==
    /\ phase = "backoff"
    /\ attempt' = attempt + 1
    /\ BeginSync
    /\ UNCHANGED <<stopped, timer, resync>>

\* A slip the properties must notice: an error leaves the loop.
CycleEndsUncaught(o) ==
    /\ phase = "syncing"
    /\ ~ Retried(o)
    /\ phase' = IF stopped \/ o.how = "thrown" THEN "ended" ELSE "waiting"
    /\ timer' = ~ (stopped \/ o.how = "thrown")
    /\ UNCHANGED <<attempt, stopped, startsSinceStop, resync>>

\* A slip the properties must notice: it waits for another cycle regardless.
CycleEndsDeaf(o) ==
    /\ phase = "syncing"
    /\ ~ Retried(o)
    /\ phase' = "waiting"
    /\ timer' = TRUE
    /\ UNCHANGED <<attempt, stopped, startsSinceStop, resync>>

\* The cycle is over, whatever became of it; wait, unless stopped meanwhile.
CycleEnds(o) ==
    /\ phase = "syncing"
    /\ ~ Retried(o)
    /\ phase' = IF stopped THEN "ended" ELSE "waiting"
    /\ timer' = ~ stopped
    /\ UNCHANGED <<attempt, stopped, startsSinceStop, resync>>

\* The timer fires; after stop() it finds nobody waiting.
TimerFires ==
    /\ timer
    /\ timer' = FALSE
    /\ IF phase = "waiting" THEN attempt' = 0 /\ BeginSync
                            ELSE UNCHANGED <<phase, attempt, startsSinceStop>>
    /\ UNCHANGED <<stopped, resync>>

\* A slip the properties must notice: stop() does not wake the loop and the
\* loop does not look at the flag after its wait.
StopUnseen ==
    /\ ~ stopped /\ phase \notin {"exited", "killed"}
    /\ stopped' = TRUE
    /\ startsSinceStop' = 0
    /\ UNCHANGED <<phase, attempt, timer, resync>>

\* SIGINT or SIGTERM: stop() sets the flag and wakes the loop.
Stop ==
    /\ ~ stopped /\ phase \notin {"exited", "killed"}
    /\ stopped' = TRUE
    /\ startsSinceStop' = 0
    /\ phase' = IF phase = "waiting" THEN "ended" ELSE phase
    /\ UNCHANGED <<attempt, timer, resync>>

\* A second signal meets no listener, and a crash asks nobody.
Die ==
    /\ phase \notin {"exited", "killed"}
    /\ phase' = "killed"
    /\ timer' = FALSE
    /\ UNCHANGED <<attempt, stopped, startsSinceStop, resync>>

\* The process ends once the loop is done and no timer is left.
Exit ==
    /\ phase = "ended" /\ ~ timer
    /\ phase' = "exited"
    /\ UNCHANGED <<attempt, stopped, timer, startsSinceStop, resync>>

\* It is started again by hand or by the container.
Restart ==
    /\ phase \in {"exited", "killed"}
    /\ phase' = "syncing"
    /\ attempt' = 0
    /\ stopped' = FALSE
    /\ timer' = FALSE
    /\ startsSinceStop' = 0
    /\ UNCHANGED resync

-----------------------------------------------------------------------------
(* The resync script: every device of the registry, each up to MaxAttempts *)
(* times.                                                                  *)

\* A slip the properties must notice: the outcome of a device's first attempt
\* is the one reported.
ResyncFirstCounts(ok, retryable) ==
    LET again == ~ ok /\ resync.attempt < MaxAttempts /\ retryable
    IN  /\ resync.device <= ResyncCount
        /\ resync' = [device |-> IF again THEN resync.device ELSE resync.device + 1,
                      attempt |-> IF again THEN resync.attempt + 1 ELSE 1,
                      settled |-> IF ok THEN resync.settled \cup {resync.device}
                                        ELSE resync.settled,
                      failed |-> IF ~ ok THEN resync.failed \cup {resync.device}
                                 ELSE resync.failed]
        /\ UNCHANGED workerVars

\* One attempt for the current device.  A failed result is tried again; a
\* thrown error only if it looks like a lost connection (retryable).
ResyncAttempt(ok, retryable) ==
    LET again == ~ ok /\ resync.attempt < MaxAttempts /\ retryable
    IN  /\ resync.device <= ResyncCount
        /\ resync' = [device |-> IF again THEN resync.device ELSE resync.device + 1,
                      attempt |-> IF again THEN resync.attempt + 1 ELSE 1,
                      settled |-> IF ok THEN resync.settled \cup {resync.device}
                                        ELSE resync.settled,
                      failed |-> IF ~ ok /\ ~ again
                                 THEN resync.failed \cup {resync.device}
                                 ELSE resync.failed]
        /\ UNCHANGED workerVars

-----------------------------------------------------------------------------

WorkerInit ==
    /\ phase = "syncing"
    /\ attempt = 0
    /\ stopped = FALSE
    /\ timer = FALSE
    /\ startsSinceStop = 0
    /\ resync = [device |-> 1, attempt |-> 1, settled |-> {}, failed |-> {}]

WorkerNext ==
    \/ \E o \in Outcomes : SyncBusy(o) \/ CycleEnds(o)
    \/ BackoffOver
    \/ TimerFires
    \/ Stop
    \/ Die
    \/ Exit
    \/ Restart
    \/ \E ok, retryable \in BOOLEAN : ResyncAttempt(ok, retryable)

\* sync() returns, timers fire, a process that is done ends.  Nothing makes a
\* signal arrive or a dead worker start again.
WorkerFairness ==
    /\ WF_loopVars(\E o \in Outcomes : SyncBusy(o) \/ CycleEnds(o))
    /\ WF_loopVars(BackoffOver)
    /\ WF_loopVars(TimerFires)
    /\ WF_loopVars(Exit)

\* The worker and the script by themselves, without the fairness.
WorkerSpec == WorkerInit /\ [][WorkerNext]_loopVars

-----------------------------------------------------------------------------
(* Properties.                                                             *)

\* Types of the worker's loop and of the resync script.
WorkerTypeOK ==
    /\ phase \in {"syncing", "backoff", "waiting", "ended", "exited", "killed"}
    /\ attempt \in 0..Delays
    /\ stopped \in BOOLEAN
    /\ timer \in BOOLEAN
    /\ startsSinceStop \in 0..(Delays + 1)
    /\ resync \in [device : 1..(ResyncCount + 1), attempt : 1..MaxAttempts,
                   settled : SUBSET (1..ResyncCount), failed : SUBSET (1..ResyncCount)]

\* stop() lets the current cycle finish and nothing more: it begins at most
\* the retries that the cycle's back-off still has, and none if the worker
\* was waiting.
StopEndsWithTheCycle ==
    stopped => startsSinceStop <= attempt

\* A stopped worker leaves in the end, although its last timer may outlive
\* the loop.
StopIsObeyed == stopped ~> (phase \in {"exited", "killed"} \/ ~ stopped)

\* A worker that is neither stopped nor killed syncs again and again, whatever
\* its calls of sync() return or throw.
WorkerKeepsSyncing == []<>(phase \in {"syncing", "killed"} \/ stopped)

\* The summary of the resync script, and with it the exit code, tells what
\* each device came to: a device counts as failed exactly if no attempt of
\* its own succeeded.
ResyncTellsFailures ==
    \A d \in 1..(resync.device - 1) : d \in resync.failed <=> d \notin resync.settled
=============================================================================
