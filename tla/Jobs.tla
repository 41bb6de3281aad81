-------------------------------- MODULE Jobs --------------------------------
(***************************************************************************)
(* Background jobs: JobsService.enqueue writes a row and then adds the job *)
(* to a BullMQ queue under the row's id; JobsProcessor.process, run by a   *)
(* worker, moves the row along.  The queue (external) retries failed       *)
(* executions with a backoff and hands the job of a worker that lost its   *)
(* lock to another one: an execution may run more than once, and two at a  *)
(* time, while the row is written by id alone.                             *)
(***************************************************************************)
EXTENDS Naturals, FiniteSets

CONSTANTS Jobs,         \* row ids, used as BullMQ job ids
          Failing,      \* the jobs whose payload says fail
          Workers,      \* processing slots of all instances
          MaxAttempts,  \* attempts of queue.add
          MaxStalls,    \* maxStalledCount of BullMQ
          NoWorker, NoJob,
          Faults        \* what may go wrong in a run

AllFaults == {"addFails", "dbFails", "crash", "lockLost"}

ASSUME JobsAssumption == Failing \subseteq Jobs
ASSUME AttemptsAssumption == MaxAttempts \in Nat \ {0} /\ MaxStalls \in Nat
ASSUME NoneAssumption == NoWorker \notin Workers /\ NoJob \notin Jobs
ASSUME FaultsAssumption == Faults \subseteq AllFaults

VARIABLES
  \* the jobs table
  status,    \* JobStatus, "NONE" for no row
  attempts,
  \* BullMQ
  queue,     \* state of the job in the queue
  made,      \* attemptsMade
  stalls,    \* how often it was found stalled
  lock,      \* the worker that holds its lock
  \* processes
  adding,    \* jobs whose enqueue has inserted the row and not yet reached the queue
  worker,    \* what each worker is doing
  \* history, read by no action
  runs,      \* executions started
  abandoned, \* jobs an execution without the lock died on
  unheard    \* jobs one of whose COMPLETED updates took effect and threw all the same

table == <<status, attempts>>
bull == <<queue, made, stalls, lock>>
vars == <<table, bull, adding, worker, runs, abandoned, unheard>>

Statuses == {"NONE", "PENDING", "RUNNING", "COMPLETED", "FAILED", "RETRYING"}
QueueStates == {"absent", "wait", "active", "delayed", "completed", "failed"}
Idle == [pc |-> "idle", job |-> NoJob, made |-> 0]

TypeOK ==
  /\ status \in [Jobs -> Statuses]
  /\ attempts \in [Jobs -> 0 .. MaxAttempts]
  /\ queue \in [Jobs -> QueueStates]
  /\ made \in [Jobs -> 0 .. MaxAttempts]
  /\ stalls \in [Jobs -> 0 .. MaxStalls]
  /\ lock \in [Jobs -> Workers \cup {NoWorker}]
  /\ adding \in SUBSET Jobs
  /\ worker \in [Workers -> [pc : {"idle", "start", "work", "done", "throw"},
                             job : Jobs \cup {NoJob}, made : 0 .. MaxAttempts]]
  /\ runs \in [Jobs -> Nat]
  /\ abandoned \in SUBSET Jobs
  /\ unheard \in SUBSET Jobs

Init ==
  /\ status = [j \in Jobs |-> "NONE"]
  /\ attempts = [j \in Jobs |-> 0]
  /\ queue = [j \in Jobs |-> "absent"]
  /\ made = [j \in Jobs |-> 0]
  /\ stalls = [j \in Jobs |-> 0]
  /\ lock = [j \in Jobs |-> NoWorker]
  /\ adding = {}
  /\ worker = [w \in Workers |-> Idle]
  /\ runs = [j \in Jobs |-> 0]
  /\ abandoned = {}
  /\ unheard = {}

Goto(w, pc) == worker' = [worker EXCEPT ![w].pc = pc]
Runs(w, j) == worker[w].job = j
HasLock(w) == lock[worker[w].job] = w
-----------------------------------------------------------------------------
(* enqueue *)

EnqueueRow(j) ==
  /\ status[j] = "NONE"
  /\ status' = [status EXCEPT ![j] = "PENDING"]
  /\ adding' = adding \cup {j}
  /\ UNCHANGED <<attempts, bull, worker, runs, abandoned, unheard>>

\* Mutant: the add is repeated after a time-out, and no job id tells the queue so.
EnqueueAddRepeated(j) ==
  /\ j \in adding
  /\ queue' = [queue EXCEPT ![j] = "wait"]
  /\ UNCHANGED <<table, adding, made, stalls, lock, worker, runs, abandoned, unheard>>

EnqueueAdd(j) ==
  /\ j \in adding
  /\ adding' = adding \ {j}
  /\ queue' = [queue EXCEPT ![j] = "wait"]
  /\ UNCHANGED <<table, made, stalls, lock, worker, runs, abandoned, unheard>>

\* Redis refuses or the instance dies: the row stays, nothing takes it up again.
EnqueueAddFails(j) ==
  /\ "addFails" \in Faults
  /\ j \in adding
  /\ adding' = adding \ {j}
  /\ UNCHANGED <<table, bull, worker, runs, abandoned, unheard>>
-----------------------------------------------------------------------------
(* process, one await at a time *)

Take(w, j) ==
  /\ queue[j] = "wait"
  /\ worker[w] = Idle
  /\ queue' = [queue EXCEPT ![j] = "active"]
  /\ lock' = [lock EXCEPT ![j] = w]
  /\ worker' = [worker EXCEPT ![w] = [pc |-> "start", job |-> j, made |-> made[j]]]
  /\ runs' = [runs EXCEPT ![j] = @ + 1]
  /\ UNCHANGED <<table, made, stalls, adding, abandoned, unheard>>

\* What the two updates write, by the row's id alone.
WriteRunning(w) ==
  LET j == worker[w].job IN
  /\ status' = [status EXCEPT ![j] = "RUNNING"]
  /\ attempts' = [attempts EXCEPT ![j] = worker[w].made + 1]
WriteCompleted(w) ==
  /\ status' = [status EXCEPT ![worker[w].job] = "COMPLETED"]
  /\ UNCHANGED attempts

\* The first update; then the demo work, which throws for a failing payload.
MarkRunning(w) ==
  LET j == worker[w].job IN
  /\ worker[w].pc = "start"
  /\ WriteRunning(w)
  /\ Goto(w, IF j \in Failing THEN "throw" ELSE "work")
  /\ UNCHANGED <<bull, adding, runs, abandoned, unheard>>

\* Mutant: the job is finished without its last update.
MarkNothing(w) ==
  /\ worker[w].pc = "work"
  /\ Goto(w, "done")
  /\ UNCHANGED <<table, bull, adding, runs, abandoned, unheard>>

\* Mutant: what process awaits here is never settled.
WorkForever(w) ==
  /\ worker[w].pc = "work"
  /\ UNCHANGED vars

MarkCompleted(w) ==
  /\ worker[w].pc = "work"
  /\ WriteCompleted(w)
  /\ Goto(w, "done")
  /\ UNCHANGED <<bull, adding, runs, abandoned, unheard>>

\* Mutant: something after the last update may throw as well.
ThrowsLate(w) ==
  /\ "dbFails" \in Faults
  /\ worker[w].pc \in {"start", "work", "done"}
  /\ Goto(w, "throw")
  /\ UNCHANGED <<table, bull, adding, runs, abandoned, unheard>>

\* One of the two updates throws and has not taken effect ...
UpdateThrows(w) ==
  /\ "dbFails" \in Faults
  /\ worker[w].pc \in {"start", "work"}
  /\ Goto(w, "throw")
  /\ UNCHANGED <<table, bull, adding, runs, abandoned, unheard>>

\* ... or has: the row was written and the answer lost on the way.
UpdateUnheard(w) ==
  LET j == worker[w].job IN
  /\ "dbFails" \in Faults
  /\ \/ worker[w].pc = "start" /\ WriteRunning(w) /\ UNCHANGED unheard
     \/ worker[w].pc = "work" /\ WriteCompleted(w) /\ unheard' = unheard \cup {j}
  /\ Goto(w, "throw")
  /\ UNCHANGED <<bull, adding, runs, abandoned>>

\* process has returned: BullMQ completes the job if this worker still has its lock.
Finish(w) ==
  LET j == worker[w].job IN
  /\ worker[w].pc = "done"
  /\ IF HasLock(w)
     THEN /\ queue' = [queue EXCEPT ![j] = "completed"]
          /\ made' = [made EXCEPT ![j] = @ + 1]
          /\ lock' = [lock EXCEPT ![j] = NoWorker]
     ELSE UNCHANGED <<queue, made, lock>>
  /\ worker' = [worker EXCEPT ![w] = Idle]
  /\ UNCHANGED <<table, stalls, adding, runs, abandoned, unheard>>

\* Mutant: one retry too many.
FinishThrownOnceMore(w) ==
  LET j == worker[w].job IN
  /\ worker[w].pc = "throw"
  /\ IF HasLock(w)
     THEN /\ made' = [made EXCEPT ![j] = @ + 1]
          /\ queue' = [queue EXCEPT ![j] = IF made[j] < MaxAttempts THEN "delayed" ELSE "failed"]
          /\ lock' = [lock EXCEPT ![j] = NoWorker]
          /\ UNCHANGED abandoned
     ELSE /\ abandoned' = abandoned \cup {j}
          /\ UNCHANGED <<made, queue, lock>>
  /\ worker' = [worker EXCEPT ![w] = Idle]
  /\ UNCHANGED <<table, stalls, adding, runs, unheard>>

\* process has thrown: BullMQ schedules a retry while attempts are left.  onFailed is
\* not registered with the worker (it bears no @OnWorkerEvent), so the row is left as
\* it is.
FinishThrown(w) ==
  LET j == worker[w].job IN
  /\ worker[w].pc = "throw"
  /\ IF HasLock(w)
     THEN /\ made' = [made EXCEPT ![j] = @ + 1]
          /\ queue' = [queue EXCEPT ![j] = IF made[j] + 1 < MaxAttempts THEN "delayed" ELSE "failed"]
          /\ lock' = [lock EXCEPT ![j] = NoWorker]
          /\ UNCHANGED abandoned
     ELSE /\ abandoned' = abandoned \cup {j}
          /\ UNCHANGED <<made, queue, lock>>
  /\ worker' = [worker EXCEPT ![w] = Idle]
  /\ UNCHANGED <<table, stalls, adding, runs, unheard>>
-----------------------------------------------------------------------------
(* The queue's own steps, and what happens to workers. *)

\* The backoff is over.
Promote(j) ==
  /\ queue[j] = "delayed"
  /\ queue' = [queue EXCEPT ![j] = "wait"]
  /\ UNCHANGED <<table, made, stalls, lock, adding, worker, runs, abandoned, unheard>>

\* A worker's process dies; what it was doing is forgotten, its lock is not renewed.
Crash(w) ==
  /\ "crash" \in Faults
  /\ worker[w] # Idle
  /\ abandoned' = IF HasLock(w) THEN abandoned ELSE abandoned \cup {worker[w].job}
  /\ worker' = [worker EXCEPT ![w] = Idle]
  /\ UNCHANGED <<table, bull, adding, runs, unheard>>

\* The lock of an active job has run out: its worker is gone or cannot reach Redis.
Stalled(j) ==
  /\ queue[j] = "active"
  /\ Runs(lock[j], j) => "lockLost" \in Faults
  /\ IF stalls[j] < MaxStalls
     THEN /\ queue' = [queue EXCEPT ![j] = "wait"]
          /\ stalls' = [stalls EXCEPT ![j] = @ + 1]
     ELSE /\ queue' = [queue EXCEPT ![j] = "failed"]
          /\ UNCHANGED stalls
  /\ lock' = [lock EXCEPT ![j] = NoWorker]
  /\ UNCHANGED <<table, made, adding, worker, runs, abandoned, unheard>>

\* The stalled checker finds a job no worker is at.
Orphaned(j) ==
  /\ queue[j] = "active"
  /\ ~Runs(lock[j], j)
  /\ Stalled(j)

Work(w) == MarkRunning(w) \/ MarkCompleted(w) \/ Finish(w) \/ FinishThrown(w)

Next ==
  \/ \E j \in Jobs : EnqueueRow(j) \/ EnqueueAdd(j) \/ EnqueueAddFails(j) \/ Promote(j) \/ Stalled(j)
  \/ \E w \in Workers, j \in Jobs : Take(w, j)
  \/ \E w \in Workers : Work(w) \/ UpdateThrows(w) \/ UpdateUnheard(w) \/ Crash(w)

Spec == Init /\ [][Next]_vars

\* Workers run what they took and idle ones fetch; the queue promotes delayed jobs and
\* its stalled checker finds jobs without a worker.
FairSpec ==
  /\ Spec
  /\ \A w \in Workers : WF_vars(Work(w))
  /\ \A j \in Jobs : /\ WF_vars(\E w \in Workers : Take(w, j))
                     /\ WF_vars(Promote(j))
                     /\ WF_vars(Orphaned(j))
                     /\ WF_vars(EnqueueAdd(j))
-----------------------------------------------------------------------------
(* Properties. *)

Executing(j) == {w \in Workers : Runs(w, j)}

\* A job is executed at most once per attempt and once more per stall.
ExecutionsAreBounded ==
  \A j \in Jobs : /\ runs[j] <= made[j] + stalls[j] + 1
                  /\ runs[j] <= MaxAttempts + MaxStalls

\* Whatever the queue has finished and no worker still touches reads COMPLETED, unless
\* an execution that had lost its lock died on it after the one that counted.
CompletedRowsAgree ==
  \A j \in Jobs : queue[j] = "completed" /\ Executing(j) = {} =>
                    status[j] = "COMPLETED" \/ j \in abandoned

\* A row that reads COMPLETED is taken back to RUNNING only where the queue could not hear
\* of the completion: the job was found stalled, or its COMPLETED update threw although it
\* had taken effect.  Retries repeat no work that process knew to be recorded as done.
CompletedRowsReopenUnheard ==
  [][\A j \in Jobs : status[j] = "COMPLETED" /\ status'[j] # "COMPLETED" =>
                       stalls[j] > 0 \/ j \in unheard]_vars

\* Retries, crashes and lost locks do not go on for ever: a queued job is done with.
QueuedJobsSettle ==
  \A j \in Jobs : queue[j] = "wait" ~> queue[j] \in {"completed", "failed"}

\* "Called when BullMQ exhausts all retries": the row of such a job becomes FAILED.
ExhaustedJobsAreMarkedFailed ==
  \A j \in Jobs : queue[j] = "failed" ~> status[j] = "FAILED"
=============================================================================
