----------------------------- MODULE JobsProofs -----------------------------
(***************************************************************************)
(* What holds of the queue and its rows for any jobs, workers, numbers of  *)
(* attempts and stalls, and any faults.                                    *)
(***************************************************************************)
EXTENDS Jobs, TLAPS

\* A worker is idle or runs a job that had attempts left when it was taken.
WorkersHaveJobs ==
  \A w \in Workers : worker[w] = Idle \/ (worker[w].pc # "idle" /\ worker[w].job \in Jobs /\ worker[w].made < MaxAttempts)

\* An active job is locked, and no other job is.
LocksAreActive == \A j \in Jobs : queue[j] = "active" <=> lock[j] # NoWorker

\* The queue takes a job up only while it has attempts left.
AttemptsAreLeft == \A j \in Jobs : queue[j] \notin {"completed", "failed"} => made[j] < MaxAttempts

\* A job comes to the queue once, after its row.
AddedOnce ==
  \A j \in Jobs :
    /\ status[j] = "NONE" => queue[j] = "absent" /\ j \notin adding
    /\ j \in adding => queue[j] = "absent"
    /\ queue[j] = "absent" => \A w \in Workers : ~Runs(w, j)

\* What has been started has been counted as an attempt or a stall, but for the execution
\* under way, or the one whose stall was too many.
RunsAreCounted ==
  \A j \in Jobs :
    /\ queue[j] \notin {"active", "failed"} => runs[j] <= made[j] + stalls[j]
    /\ runs[j] <= made[j] + stalls[j] + 1
    /\ runs[j] <= MaxAttempts + MaxStalls

\* The row says so, or an execution without the lock is at it, or died on it.
Settled(j) ==
  \/ status[j] = "COMPLETED" \/ j \in abandoned
  \/ \E w \in Workers : Runs(w, j) /\ worker[w].pc \in {"work", "throw"} /\ lock[j] # w

\* What the queue has completed, or is about to, is settled.
CompletedIsSettled ==
  /\ \A j \in Jobs : queue[j] = "completed" => Settled(j)
  /\ \A w \in Workers : worker[w].pc = "done" /\ HasLock(w) => Settled(worker[w].job)

\* A job that has not stalled has one execution at most, and none goes on once its row
\* reads COMPLETED, if process has heard of that.
OneExecution ==
  \A j \in Jobs : stalls[j] = 0 =>
    /\ \A w \in Workers : Runs(w, j) => queue[j] \in {"active", "failed"}
    /\ \A v, w \in Workers : Runs(v, j) /\ Runs(w, j) => v = w
    /\ status[j] = "COMPLETED" /\ j \notin unheard =>
         /\ queue[j] \in {"active", "completed", "failed"}
         /\ \A w \in Workers : Runs(w, j) => worker[w].pc = "done"

JobsInv ==
  /\ TypeOK /\ WorkersHaveJobs /\ LocksAreActive /\ AttemptsAreLeft
  /\ AddedOnce /\ RunsAreCounted /\ CompletedIsSettled /\ OneExecution
-----------------------------------------------------------------------------
\* At first there are no rows, no jobs and no work.
LEMMA InitHolds == Init => JobsInv
  <1> SUFFICES ASSUME Init PROVE JobsInv
    OBVIOUS
  <1> USE JobsAssumption, AttemptsAssumption, NoneAssumption DEF Init
  <1>1. TypeOK
    BY DEF TypeOK, Statuses, QueueStates, Idle
  <1>2. WorkersHaveJobs /\ LocksAreActive /\ AttemptsAreLeft /\ AddedOnce /\ OneExecution
    BY DEF WorkersHaveJobs, LocksAreActive, AttemptsAreLeft, AddedOnce, OneExecution, Runs, Idle
  <1>3. RunsAreCounted /\ CompletedIsSettled
    BY DEF RunsAreCounted, CompletedIsSettled, Idle
  <1> QED BY <1>1, <1>2, <1>3 DEF JobsInv

\* Who works, works at a job.
LEMMA BusyWorkers ==
  ASSUME JobsInv, NEW w \in Workers, worker[w].pc # "idle"
  PROVE  worker[w].job \in Jobs /\ worker[w].made \in 0 .. MaxAttempts /\ worker[w].made < MaxAttempts
  BY DEF JobsInv, WorkersHaveJobs, TypeOK, Idle

\* A worker goes on with its job.
LEMMA GotoWorkers ==
  ASSUME JobsInv, NEW w \in Workers, NEW pc \in {"work", "done", "throw"}, Goto(w, pc), worker[w].pc # "idle"
  PROVE  /\ worker' \in [Workers -> [pc : {"idle", "start", "work", "done", "throw"},
                                    job : Jobs \cup {NoJob}, made : 0 .. MaxAttempts]]
         /\ worker'[w].pc = pc /\ worker'[w].job = worker[w].job
         /\ \A v \in Workers \ {w} : worker'[v] = worker[v]
         /\ WorkersHaveJobs'
  <1> DEFINE r == [pc |-> pc, job |-> worker[w].job, made |-> worker[w].made]
  <1>1. worker[w].job \in Jobs /\ worker[w].made \in 0 .. MaxAttempts /\ worker[w].made < MaxAttempts
    BY BusyWorkers
  <1>2. worker[w] \in [pc : {"idle", "start", "work", "done", "throw"}, job : Jobs \cup {NoJob}, made : 0 .. MaxAttempts]
    BY DEF JobsInv, TypeOK
  <1>3. [worker[w] EXCEPT !.pc = pc] = r
    BY <1>2
  <1>4. worker' = [worker EXCEPT ![w] = r]
    BY <1>3 DEF Goto
  <1>5. r \in [pc : {"idle", "start", "work", "done", "throw"}, job : Jobs \cup {NoJob}, made : 0 .. MaxAttempts]
    BY <1>1
  <1>6. r.pc = pc /\ r.job = worker[w].job /\ r.made = worker[w].made
    OBVIOUS
  <1> HIDE DEF r
  <1>7. worker' \in [Workers -> [pc : {"idle", "start", "work", "done", "throw"}, job : Jobs \cup {NoJob}, made : 0 .. MaxAttempts]]
    BY <1>4, <1>5 DEF JobsInv, TypeOK
  <1>8. worker'[w] = r /\ \A v \in Workers \ {w} : worker'[v] = worker[v]
    BY <1>4 DEF JobsInv, TypeOK
  <1>9. WorkersHaveJobs'
    BY <1>1, <1>6, <1>8 DEF JobsInv, WorkersHaveJobs
  <1> QED BY <1>6, <1>7, <1>8, <1>9

\* A worker is done with its job, one way or another.
LEMMA IdleWorkers ==
  ASSUME JobsInv, NEW w \in Workers, worker' = [worker EXCEPT ![w] = Idle]
  PROVE  /\ worker' \in [Workers -> [pc : {"idle", "start", "work", "done", "throw"},
                                    job : Jobs \cup {NoJob}, made : 0 .. MaxAttempts]]
         /\ worker'[w] = Idle /\ Idle.pc = "idle" /\ Idle.job \notin Jobs
         /\ \A v \in Workers \ {w} : worker'[v] = worker[v]
         /\ WorkersHaveJobs'
  <1>1. Idle \in [pc : {"idle", "start", "work", "done", "throw"}, job : Jobs \cup {NoJob}, made : 0 .. MaxAttempts]
    BY AttemptsAssumption DEF Idle
  <1>2. Idle.pc = "idle" /\ Idle.job \notin Jobs
    BY NoneAssumption DEF Idle
  <1>3. worker'[w] = Idle /\ \A v \in Workers \ {w} : worker'[v] = worker[v]
    BY DEF JobsInv, TypeOK
  <1>4. WorkersHaveJobs'
    BY <1>3 DEF JobsInv, WorkersHaveJobs
  <1> QED BY <1>1, <1>2, <1>3, <1>4 DEF JobsInv, TypeOK

\* What was settled stays so, if all are.
LEMMA SettledStays ==
  ASSUME JobsInv,
         \A i \in Jobs : Settled(i) => Settled(i)',
         \A i \in Jobs : queue'[i] = "completed" => queue[i] = "completed",
         \A v \in Workers : worker'[v].pc = "done" /\ HasLock(v)' => worker'[v] = worker[v] /\ HasLock(v)
  PROVE  CompletedIsSettled'
  <1>1. ASSUME NEW v \in Workers, worker'[v].pc = "done", HasLock(v)' PROVE Settled(worker[v].job)'
    <2>1. worker'[v] = worker[v] /\ HasLock(v)
      BY <1>1
    <2>2. worker[v].job \in Jobs /\ Settled(worker[v].job)
      BY <1>1, <2>1, BusyWorkers DEF JobsInv, CompletedIsSettled
    <2> QED BY <2>1, <2>2
  <1> QED BY <1>1 DEF JobsInv, CompletedIsSettled

\* The row of a new job.
LEMMA EnqueueRowKeeps == ASSUME JobsInv, NEW j \in Jobs, EnqueueRow(j) PROVE JobsInv'
  <1> USE DEF JobsInv, EnqueueRow, table, bull
  <1>1. TypeOK'
    BY DEF TypeOK, Statuses
  <1>2. \A i \in Jobs : status'[i] = IF i = j THEN "PENDING" ELSE status[i]
    BY DEF TypeOK
  <1>3. WorkersHaveJobs' /\ LocksAreActive' /\ AttemptsAreLeft' /\ RunsAreCounted'
    BY DEF WorkersHaveJobs, LocksAreActive, AttemptsAreLeft, RunsAreCounted
  <1>4. AddedOnce'
    BY <1>2 DEF AddedOnce, Runs
  <1>5. \A i \in Jobs : Settled(i) => Settled(i)'
    BY <1>2 DEF Settled, Runs
  <1>6. CompletedIsSettled'
    BY <1>5, BusyWorkers DEF CompletedIsSettled, HasLock
  <1>7. OneExecution'
    BY <1>2 DEF OneExecution, Runs
  <1> QED BY <1>1, <1>3, <1>4, <1>6, <1>7

\* A job that waits in the queue, because it is new or its backoff is over.
LEMMA WaitingKeeps ==
  ASSUME JobsInv, NEW j \in Jobs, queue[j] \in {"absent", "delayed"}, status[j] # "NONE",
         queue' = [queue EXCEPT ![j] = "wait"], adding' \in SUBSET adding, j \notin adding',
         UNCHANGED <<table, made, stalls, lock, worker, runs, abandoned, unheard>>
  PROVE  JobsInv'
  <1> USE DEF JobsInv, table
  <1>1. TypeOK'
    BY DEF TypeOK, QueueStates
  <1>2. \A i \in Jobs : queue'[i] = IF i = j THEN "wait" ELSE queue[i]
    BY DEF TypeOK
  <1>3. WorkersHaveJobs' /\ LocksAreActive' /\ AttemptsAreLeft' /\ RunsAreCounted'
    BY <1>2 DEF WorkersHaveJobs, LocksAreActive, AttemptsAreLeft, RunsAreCounted
  <1>4. AddedOnce'
    BY <1>2 DEF AddedOnce, Runs
  <1>5. \A i \in Jobs : Settled(i) => Settled(i)'
    BY DEF Settled, Runs
  <1>6. CompletedIsSettled'
    BY <1>2, <1>5, BusyWorkers DEF CompletedIsSettled, HasLock
  <1>7. OneExecution'
    BY <1>2 DEF OneExecution, Runs
  <1> QED BY <1>1, <1>3, <1>4, <1>6, <1>7

\* A worker takes up a job that waits.
LEMMA TakeKeeps == ASSUME JobsInv, NEW w \in Workers, NEW j \in Jobs, Take(w, j) PROVE JobsInv'
  <1> DEFINE r == [pc |-> "start", job |-> j, made |-> made[j]]
  <1> USE DEF JobsInv, Take, table
  <1>1. made[j] \in 0 .. MaxAttempts /\ made[j] < MaxAttempts /\ runs[j] \in Nat /\ stalls[j] \in 0 .. MaxStalls
    BY DEF TypeOK, AttemptsAreLeft
  <1>2. r \in [pc : {"idle", "start", "work", "done", "throw"}, job : Jobs \cup {NoJob}, made : 0 .. MaxAttempts]
    BY <1>1
  <1>3. r.pc = "start" /\ r.job = j /\ r.made = made[j]
    OBVIOUS
  <1>4. worker' = [worker EXCEPT ![w] = r]
    OBVIOUS
  <1> HIDE DEF r
  <1>5. worker'[w] = r /\ \A v \in Workers \ {w} : worker'[v] = worker[v]
    BY <1>4 DEF TypeOK
  <1>6. /\ \A i \in Jobs : queue'[i] = IF i = j THEN "active" ELSE queue[i]
        /\ \A i \in Jobs : lock'[i] = IF i = j THEN w ELSE lock[i]
        /\ \A i \in Jobs : runs'[i] = IF i = j THEN runs[i] + 1 ELSE runs[i]
    BY DEF TypeOK
  <1>7. TypeOK'
    BY <1>1, <1>2, <1>4 DEF TypeOK, QueueStates
  <1>8. WorkersHaveJobs'
    BY <1>1, <1>3, <1>5 DEF WorkersHaveJobs
  <1>9. LocksAreActive' /\ AttemptsAreLeft'
    BY <1>6, NoneAssumption DEF LocksAreActive, AttemptsAreLeft
  <1>10. AddedOnce'
    BY <1>3, <1>5, <1>6 DEF AddedOnce, Runs
  <1>11. RunsAreCounted'
    BY <1>1, <1>6, AttemptsAssumption DEF RunsAreCounted, TypeOK
  <1>12. ASSUME NEW i \in Jobs, Settled(i) PROVE Settled(i)'
    <2>1. worker[w].pc = "idle"
      BY DEF Idle
    <2> QED BY <1>5, <1>6, <1>12, <2>1 DEF Settled, Runs
  <1>13. ASSUME NEW v \in Workers, worker'[v].pc = "done", HasLock(v)'
         PROVE  worker'[v] = worker[v] /\ HasLock(v)
    <2>1. v # w /\ worker'[v] = worker[v] /\ worker[v].job \in Jobs
      BY <1>3, <1>5, <1>13, BusyWorkers
    <2> QED BY <1>6, <1>13, <2>1 DEF HasLock
  <1>15. CompletedIsSettled'
    BY <1>6, <1>12, <1>13, SettledStays
  <1>14. OneExecution'
    BY <1>3, <1>5, <1>6 DEF OneExecution, Runs
  <1> QED BY <1>7, <1>8, <1>9, <1>10, <1>11, <1>14, <1>15

\* The first update: the row is taken back to RUNNING, and the execution is at it.
LEMMA RunningKeeps ==
  ASSUME JobsInv, NEW w \in Workers, worker[w].pc = "start", WriteRunning(w),
         NEW pc \in {"work", "throw"}, Goto(w, pc), UNCHANGED <<bull, adding, runs, abandoned, unheard>>
  PROVE  JobsInv'
  <1> USE DEF JobsInv, bull
  <1>1. PICK j \in Jobs : j = worker[w].job /\ worker[w].made \in 0 .. MaxAttempts /\ worker[w].made < MaxAttempts /\ worker[w].pc = "start"
    BY BusyWorkers
  <1>2. Goto(w, pc)
    OBVIOUS
  <1>3. /\ worker' \in [Workers -> [pc : {"idle", "start", "work", "done", "throw"},
                                  job : Jobs \cup {NoJob}, made : 0 .. MaxAttempts]]
        /\ worker'[w].pc = pc /\ worker'[w].job = j
        /\ \A v \in Workers \ {w} : worker'[v] = worker[v]
        /\ WorkersHaveJobs'
    BY <1>1, <1>2, GotoWorkers
  <1>4. \A i \in Jobs : status'[i] = IF i = j THEN "RUNNING" ELSE status[i]
    BY <1>1 DEF WriteRunning, TypeOK
  <1>5. TypeOK'
    <2>1. worker[w].made + 1 \in 0 .. MaxAttempts
      BY <1>1, AttemptsAssumption
    <2> QED BY <1>1, <1>3, <2>1 DEF WriteRunning, TypeOK, Statuses
  <1>6. LocksAreActive' /\ AttemptsAreLeft' /\ RunsAreCounted'
    BY DEF LocksAreActive, AttemptsAreLeft, RunsAreCounted
  <1>7. AddedOnce'
    BY <1>1, <1>3, <1>4 DEF AddedOnce, Runs
  <1>8. UNCHANGED <<queue, lock, stalls, abandoned, unheard>>
    OBVIOUS
  <1>9. \A i \in Jobs \ {j} : Settled(i) => Settled(i)'
    BY <1>1, <1>3, <1>4, <1>8 DEF Settled, Runs
  <1>10. lock[j] # w => Settled(j)'
    BY <1>2, <1>3, <1>8 DEF Settled, Runs
  <1>11. CompletedIsSettled'
    <2>1. ASSUME NEW i \in Jobs, queue'[i] = "completed" PROVE Settled(i)'
      BY <1>1, <1>8, <1>9, <1>10, <2>1, NoneAssumption DEF CompletedIsSettled, LocksAreActive
    <2>2. ASSUME NEW v \in Workers, worker'[v].pc = "done", HasLock(v)' PROVE Settled(worker[v].job)'
      <3>1. v # w /\ worker'[v] = worker[v] /\ worker[v].job \in Jobs /\ HasLock(v)
        BY <1>2, <1>3, <1>8, <2>2, BusyWorkers DEF HasLock
      <3>2. CASE worker[v].job = j
        BY <1>10, <3>1, <3>2 DEF HasLock
      <3>3. CASE worker[v].job # j
        BY <1>9, <2>2, <3>1, <3>3 DEF CompletedIsSettled
      <3> QED BY <3>2, <3>3
    <2> QED BY <2>1, <2>2 DEF CompletedIsSettled
  <1>12. OneExecution'
    BY <1>1, <1>3, <1>4, <1>8 DEF OneExecution, Runs
  <1> QED BY <1>3, <1>5, <1>6, <1>7, <1>11, <1>12

\* The last update settles the job.
LEMMA MarkCompletedKeeps == ASSUME JobsInv, NEW w \in Workers, MarkCompleted(w) PROVE JobsInv'
  <1> USE DEF JobsInv, bull
  <1>1. PICK j \in Jobs : j = worker[w].job /\ worker[w].pc = "work"
    BY BusyWorkers DEF MarkCompleted
  <1>2. Goto(w, "done")
    BY DEF MarkCompleted
  <1>3. /\ worker' \in [Workers -> [pc : {"idle", "start", "work", "done", "throw"},
                                  job : Jobs \cup {NoJob}, made : 0 .. MaxAttempts]]
        /\ worker'[w].pc = "done" /\ worker'[w].job = j
        /\ \A v \in Workers \ {w} : worker'[v] = worker[v]
        /\ WorkersHaveJobs'
    BY <1>1, <1>2, GotoWorkers
  <1>4. \A i \in Jobs : status'[i] = IF i = j THEN "COMPLETED" ELSE status[i]
    BY <1>1 DEF MarkCompleted, WriteCompleted, TypeOK
  <1>5. TypeOK'
    BY <1>3 DEF MarkCompleted, WriteCompleted, TypeOK, Statuses
  <1>6. LocksAreActive' /\ AttemptsAreLeft' /\ RunsAreCounted'
    BY DEF MarkCompleted, LocksAreActive, AttemptsAreLeft, RunsAreCounted
  <1>7. AddedOnce'
    BY <1>1, <1>3, <1>4 DEF MarkCompleted, AddedOnce, Runs
  <1>8. UNCHANGED <<queue, lock, stalls, abandoned, unheard>>
    BY DEF MarkCompleted
  <1>9. \A i \in Jobs : i = j \/ Settled(i) => Settled(i)'
    BY <1>1, <1>3, <1>4, <1>8 DEF Settled, Runs
  <1>10. CompletedIsSettled'
    <2>1. ASSUME NEW v \in Workers, worker'[v].pc = "done", HasLock(v)' PROVE Settled(worker[v].job)'
      <3>1. CASE v = w
        BY <1>1, <1>3, <1>9, <3>1
      <3>2. CASE v # w
        <4>1. worker'[v] = worker[v] /\ HasLock(v)
          BY <1>3, <1>8, <2>1, <3>2 DEF HasLock
        <4>2. worker[v].job \in Jobs /\ Settled(worker[v].job)
          BY <2>1, <4>1, BusyWorkers DEF CompletedIsSettled
        <4> QED BY <1>9, <4>1, <4>2
      <3> QED BY <3>1, <3>2
    <2> QED BY <1>8, <1>9, <2>1 DEF CompletedIsSettled
  <1>11. OneExecution'
    <2>1. ASSUME NEW i \in Jobs, stalls[i] = 0
          PROVE  /\ \A v \in Workers : Runs(v, i)' => queue[i] \in {"active", "failed"}
                 /\ \A u, v \in Workers : Runs(u, i)' /\ Runs(v, i)' => u = v
      BY <1>1, <1>3, <2>1 DEF OneExecution, Runs
    <2>2. ASSUME NEW i \in Jobs, stalls[i] = 0, status'[i] = "COMPLETED", i \notin unheard
          PROVE  /\ queue[i] \in {"active", "completed", "failed"}
                 /\ \A v \in Workers : Runs(v, i)' => worker'[v].pc = "done"
      BY <1>1, <1>3, <1>4, <2>1, <2>2 DEF OneExecution, Runs
    <2> QED BY <1>8, <2>1, <2>2 DEF OneExecution
  <1> QED BY <1>3, <1>5, <1>6, <1>7, <1>10, <1>11

\* An update throws: what no lock protected is still at its job.
LEMMA UpdateThrowsKeeps == ASSUME JobsInv, NEW w \in Workers, UpdateThrows(w) PROVE JobsInv'
  <1> USE DEF JobsInv, table, bull
  <1>1. PICK j \in Jobs : j = worker[w].job /\ worker[w].pc \in {"start", "work"}
    BY BusyWorkers DEF UpdateThrows
  <1>2. Goto(w, "throw") /\ UNCHANGED <<status, attempts, queue, made, stalls, lock, adding, runs, abandoned, unheard>>
    BY DEF UpdateThrows
  <1>3. /\ worker' \in [Workers -> [pc : {"idle", "start", "work", "done", "throw"},
                                  job : Jobs \cup {NoJob}, made : 0 .. MaxAttempts]]
        /\ worker'[w].pc = "throw" /\ worker'[w].job = j
        /\ \A v \in Workers \ {w} : worker'[v] = worker[v]
        /\ WorkersHaveJobs'
    BY <1>1, <1>2, GotoWorkers
  <1>4. TypeOK'
    BY <1>2, <1>3 DEF TypeOK
  <1>5. LocksAreActive' /\ AttemptsAreLeft' /\ RunsAreCounted'
    BY <1>2 DEF LocksAreActive, AttemptsAreLeft, RunsAreCounted
  <1>6. AddedOnce'
    BY <1>1, <1>2, <1>3 DEF AddedOnce, Runs
  <1>7. \A i \in Jobs : Settled(i) => Settled(i)'
    BY <1>1, <1>2, <1>3 DEF Settled, Runs
  <1>8. CompletedIsSettled'
    <2>1. \A v \in Workers : worker'[v].pc = "done" /\ HasLock(v)' => worker'[v] = worker[v] /\ HasLock(v)
      BY <1>2, <1>3 DEF HasLock
    <2> QED BY <1>2, <1>7, <2>1, SettledStays
  <1>9. OneExecution'
    BY <1>1, <1>2, <1>3 DEF OneExecution, Runs
  <1> QED BY <1>3, <1>4, <1>5, <1>6, <1>8, <1>9

\* The last update throws after it has taken effect: the row settles the job.
LEMMA CompletedUnheardKeeps ==
  ASSUME JobsInv, NEW w \in Workers, worker[w].pc = "work", WriteCompleted(w), Goto(w, "throw"),
         unheard' = unheard \cup {worker[w].job}, UNCHANGED <<bull, adding, runs, abandoned>>
  PROVE  JobsInv'
  <1> USE DEF JobsInv, bull
  <1>1. PICK j \in Jobs : j = worker[w].job
    BY BusyWorkers
  <1>2. /\ worker' \in [Workers -> [pc : {"idle", "start", "work", "done", "throw"},
                                  job : Jobs \cup {NoJob}, made : 0 .. MaxAttempts]]
        /\ worker'[w].pc = "throw" /\ worker'[w].job = j
        /\ \A v \in Workers \ {w} : worker'[v] = worker[v]
        /\ WorkersHaveJobs'
    BY <1>1, GotoWorkers
  <1>3. \A i \in Jobs : status'[i] = IF i = j THEN "COMPLETED" ELSE status[i]
    BY <1>1 DEF WriteCompleted, TypeOK
  <1>4. UNCHANGED <<attempts, queue, made, stalls, lock, adding, runs, abandoned>> /\ unheard' = unheard \cup {j}
    BY <1>1 DEF WriteCompleted
  <1>5. TypeOK'
    BY <1>2, <1>4 DEF WriteCompleted, TypeOK, Statuses
  <1>6. LocksAreActive' /\ AttemptsAreLeft' /\ RunsAreCounted'
    BY <1>4 DEF LocksAreActive, AttemptsAreLeft, RunsAreCounted
  <1>7. AddedOnce'
    BY <1>1, <1>2, <1>3, <1>4 DEF AddedOnce, Runs
  <1>8. \A i \in Jobs : Settled(i) => Settled(i)'
    BY <1>1, <1>2, <1>3, <1>4 DEF Settled, Runs
  <1>9. CompletedIsSettled'
    <2>1. \A v \in Workers : worker'[v].pc = "done" /\ HasLock(v)' => worker'[v] = worker[v] /\ HasLock(v)
      BY <1>2, <1>4 DEF HasLock
    <2> QED BY <1>4, <1>8, <2>1, SettledStays
  <1>10. OneExecution'
    BY <1>1, <1>2, <1>3, <1>4 DEF OneExecution, Runs
  <1> QED BY <1>2, <1>5, <1>6, <1>7, <1>9, <1>10

\* Both updates, heard or not.
LEMMA UpdatesKeep ==
  ASSUME JobsInv, NEW w \in Workers, MarkRunning(w) \/ UpdateUnheard(w)
  PROVE  JobsInv'
  <1>1. CASE MarkRunning(w)
    <2>1. PICK pc \in {"work", "throw"} : Goto(w, pc)
      BY <1>1 DEF MarkRunning
    <2> QED BY <1>1, <2>1, RunningKeeps DEF MarkRunning
  <1>2. CASE UpdateUnheard(w) /\ worker[w].pc = "start"
    BY <1>2, RunningKeeps DEF UpdateUnheard
  <1>3. CASE UpdateUnheard(w) /\ worker[w].pc = "work"
    BY <1>3, CompletedUnheardKeeps DEF UpdateUnheard
  <1> QED BY <1>1, <1>2, <1>3 DEF UpdateUnheard

\* process has returned: the queue completes a job that is settled.
LEMMA FinishKeeps == ASSUME JobsInv, NEW w \in Workers, Finish(w) PROVE JobsInv'
  <1> USE DEF JobsInv, table
  <1>1. PICK j \in Jobs : j = worker[w].job
    BY BusyWorkers DEF Finish
  <1>2. /\ worker' \in [Workers -> [pc : {"idle", "start", "work", "done", "throw"},
                                  job : Jobs \cup {NoJob}, made : 0 .. MaxAttempts]]
        /\ worker'[w] = Idle /\ Idle.pc = "idle" /\ Idle.job \notin Jobs
        /\ \A v \in Workers \ {w} : worker'[v] = worker[v]
        /\ WorkersHaveJobs'
    BY IdleWorkers DEF Finish
  <1>3. UNCHANGED <<status, attempts, stalls, adding, runs, abandoned, unheard>> /\ worker[w].pc = "done"
    BY DEF Finish
  <1>4. \A i \in Jobs : lock[i] = lock'[i] \/ lock'[i] = NoWorker
    BY <1>1 DEF Finish, TypeOK
  <1>5. \A i \in Jobs : Settled(i) => Settled(i)'
    BY <1>2, <1>3, <1>4, NoneAssumption DEF Settled, Runs
  <1>6. \A v \in Workers : worker'[v].pc = "done" /\ HasLock(v)' => worker'[v] = worker[v] /\ HasLock(v)
    <2>1. ASSUME NEW v \in Workers, worker'[v].pc = "done", HasLock(v)' PROVE worker'[v] = worker[v] /\ HasLock(v)
      <3>1. worker'[v] = worker[v] /\ worker[v].job \in Jobs
        BY <1>2, <2>1, BusyWorkers
      <3> QED BY <1>4, <2>1, <3>1, NoneAssumption DEF HasLock
    <2> QED BY <2>1
  <1>7. CASE ~HasLock(w)
    <2>1. UNCHANGED <<queue, made, lock>>
      BY <1>7 DEF Finish
    <2>2. TypeOK'
      BY <1>2, <1>3, <2>1 DEF TypeOK
    <2>3. LocksAreActive' /\ AttemptsAreLeft' /\ RunsAreCounted'
      BY <1>3, <2>1 DEF LocksAreActive, AttemptsAreLeft, RunsAreCounted
    <2>4. AddedOnce' /\ OneExecution'
      BY <1>2, <1>3, <2>1 DEF AddedOnce, OneExecution, Runs
    <2>5. CompletedIsSettled'
      BY <1>5, <1>6, <2>1, SettledStays
    <2> QED BY <1>2, <2>2, <2>3, <2>4, <2>5
  <1>8. CASE HasLock(w)
    <2>1. lock[j] = w /\ queue[j] = "active"
      BY <1>1, <1>8, NoneAssumption DEF HasLock, LocksAreActive
    <2>2. /\ made[j] \in 0 .. MaxAttempts /\ made[j] < MaxAttempts
          /\ runs[j] \in Nat /\ stalls[j] \in 0 .. MaxStalls
      BY <2>1 DEF TypeOK, AttemptsAreLeft
    <2>3. /\ queue' = [queue EXCEPT ![j] = "completed"]
          /\ made' = [made EXCEPT ![j] = made[j] + 1]
          /\ lock' = [lock EXCEPT ![j] = NoWorker]
      BY <1>1, <1>8 DEF Finish
    <2>4. /\ \A i \in Jobs : queue'[i] = IF i = j THEN "completed" ELSE queue[i]
          /\ \A i \in Jobs : made'[i] = IF i = j THEN made[i] + 1 ELSE made[i]
          /\ \A i \in Jobs : lock'[i] = IF i = j THEN NoWorker ELSE lock[i]
      BY <2>3 DEF TypeOK
    <2>5. TypeOK'
      <3>1. made[j] + 1 \in 0 .. MaxAttempts
        BY <2>2, AttemptsAssumption
      <3> QED BY <1>2, <1>3, <2>3, <3>1 DEF TypeOK, QueueStates
    <2>6. LocksAreActive' /\ AttemptsAreLeft'
      BY <2>4 DEF LocksAreActive, AttemptsAreLeft
    <2>7. RunsAreCounted'
      BY <1>3, <2>2, <2>4, AttemptsAssumption DEF RunsAreCounted, TypeOK
    <2>8. AddedOnce'
      BY <1>2, <1>3, <2>1, <2>4 DEF AddedOnce, Runs
    <2>9. Settled(j)
      BY <1>1, <1>3, <1>8 DEF CompletedIsSettled
    <2>10. CompletedIsSettled'
      <3>1. ASSUME NEW i \in Jobs, queue'[i] = "completed" PROVE Settled(i)'
        BY <1>5, <2>4, <2>9, <3>1 DEF CompletedIsSettled
      <3>2. ASSUME NEW v \in Workers, worker'[v].pc = "done", HasLock(v)' PROVE Settled(worker[v].job)'
        <4>1. worker'[v] = worker[v] /\ HasLock(v)
          BY <1>6, <3>2
        <4>2. worker[v].job \in Jobs /\ Settled(worker[v].job)
          BY <3>2, <4>1, BusyWorkers DEF CompletedIsSettled
        <4> QED BY <1>5, <4>1, <4>2
      <3> QED BY <3>1, <3>2 DEF CompletedIsSettled
    <2>11. OneExecution'
      <3>1. ASSUME NEW v \in Workers, Runs(v, j), stalls[j] = 0 PROVE v = w
        BY <1>1, <3>1 DEF OneExecution, Runs
      <3> QED BY <1>1, <1>2, <1>3, <2>4, <3>1 DEF OneExecution, Runs
    <2> QED BY <1>2, <2>5, <2>6, <2>7, <2>8, <2>10, <2>11
  <1> QED BY <1>7, <1>8

\* process has thrown, or its worker has died: without the lock the job is noted, with it the
\* queue retries the job while attempts are left.
LEMMA GivenUpKeeps ==
  ASSUME JobsInv, NEW w \in Workers, NEW j \in Jobs, j = worker[w].job, worker[w].pc # "idle",
         worker' = [worker EXCEPT ![w] = Idle],
         UNCHANGED <<status, attempts, queue, made, stalls, lock, adding, runs, unheard>>,
         abandoned' \in SUBSET Jobs, abandoned \subseteq abandoned', lock[j] # w => j \in abandoned'
  PROVE  JobsInv'
  <1> USE DEF JobsInv
  <1>1. /\ worker' \in [Workers -> [pc : {"idle", "start", "work", "done", "throw"},
                                  job : Jobs \cup {NoJob}, made : 0 .. MaxAttempts]]
        /\ worker'[w] = Idle /\ Idle.pc = "idle" /\ Idle.job \notin Jobs
        /\ \A v \in Workers \ {w} : worker'[v] = worker[v]
        /\ WorkersHaveJobs'
    BY IdleWorkers
  <1>2. TypeOK' /\ LocksAreActive' /\ AttemptsAreLeft' /\ RunsAreCounted'
    BY <1>1 DEF TypeOK, LocksAreActive, AttemptsAreLeft, RunsAreCounted
  <1>3. AddedOnce' /\ OneExecution'
    BY <1>1 DEF AddedOnce, OneExecution, Runs
  <1>4. ASSUME NEW i \in Jobs, Settled(i) PROVE Settled(i)'
    <2>1. CASE i = j /\ lock[j] # w
      BY <2>1 DEF Settled
    <2>2. CASE i # j \/ lock[j] = w
      BY <1>1, <1>4, <2>2 DEF Settled, Runs
    <2> QED BY <2>1, <2>2
  <1>5. \A v \in Workers : worker'[v].pc = "done" /\ HasLock(v)' => worker'[v] = worker[v] /\ HasLock(v)
    BY <1>1 DEF HasLock
  <1>6. CompletedIsSettled'
    BY <1>4, <1>5, SettledStays
  <1> QED BY <1>1, <1>2, <1>3, <1>6

\* process has thrown.
LEMMA FinishThrownKeeps == ASSUME JobsInv, NEW w \in Workers, FinishThrown(w) PROVE JobsInv'
  <1> USE DEF JobsInv, table
  <1>1. PICK j \in Jobs : j = worker[w].job
    BY BusyWorkers DEF FinishThrown
  <1>2. UNCHANGED <<status, attempts, stalls, adding, runs, unheard>> /\ worker[w].pc = "throw"
    BY DEF FinishThrown
  <1>3. CASE ~HasLock(w)
    BY <1>1, <1>2, <1>3, GivenUpKeeps DEF FinishThrown, HasLock, TypeOK
  <1>4. CASE HasLock(w)
    <2>1. /\ worker' \in [Workers -> [pc : {"idle", "start", "work", "done", "throw"},
                                    job : Jobs \cup {NoJob}, made : 0 .. MaxAttempts]]
          /\ worker'[w] = Idle /\ Idle.pc = "idle" /\ Idle.job \notin Jobs
          /\ \A v \in Workers \ {w} : worker'[v] = worker[v]
          /\ WorkersHaveJobs'
      BY IdleWorkers DEF FinishThrown
    <2>2. lock[j] = w /\ queue[j] = "active"
      BY <1>1, <1>4, NoneAssumption DEF HasLock, LocksAreActive
    <2>3. /\ made[j] \in 0 .. MaxAttempts /\ made[j] < MaxAttempts
          /\ runs[j] \in Nat /\ stalls[j] \in 0 .. MaxStalls
      BY <2>2 DEF TypeOK, AttemptsAreLeft
    <2>4. PICK next \in {"delayed", "failed"} :
            /\ next = "delayed" => made[j] + 1 < MaxAttempts
            /\ queue' = [queue EXCEPT ![j] = next]
      <3>1. CASE made[j] + 1 < MaxAttempts
        BY <1>1, <1>4, <3>1 DEF FinishThrown
      <3>2. CASE ~(made[j] + 1 < MaxAttempts)
        BY <1>1, <1>4, <3>2 DEF FinishThrown
      <3> QED BY <3>1, <3>2
    <2>5. /\ made' = [made EXCEPT ![j] = made[j] + 1]
          /\ lock' = [lock EXCEPT ![j] = NoWorker] /\ UNCHANGED abandoned
      BY <1>1, <1>4 DEF FinishThrown
    <2>6. /\ \A i \in Jobs : queue'[i] = IF i = j THEN next ELSE queue[i]
          /\ \A i \in Jobs : made'[i] = IF i = j THEN made[i] + 1 ELSE made[i]
          /\ \A i \in Jobs : lock'[i] = IF i = j THEN NoWorker ELSE lock[i]
      BY <2>4, <2>5 DEF TypeOK
    <2>7. TypeOK'
      <3>1. made[j] + 1 \in 0 .. MaxAttempts
        BY <2>3, AttemptsAssumption
      <3> QED BY <1>2, <2>1, <2>4, <2>5, <3>1 DEF TypeOK, QueueStates
    <2>8. LocksAreActive'
      BY <2>4, <2>6 DEF LocksAreActive
    <2>9. AttemptsAreLeft'
      BY <2>4, <2>6 DEF AttemptsAreLeft
    <2>10. RunsAreCounted'
      BY <1>2, <2>3, <2>6, AttemptsAssumption DEF RunsAreCounted, TypeOK
    <2>11. AddedOnce'
      BY <1>2, <2>1, <2>2, <2>4, <2>6 DEF AddedOnce, Runs
    <2>12. ASSUME NEW i \in Jobs \ {j}, Settled(i) PROVE Settled(i)'
      BY <1>1, <1>2, <2>1, <2>5, <2>6, <2>12 DEF Settled, Runs
    <2>13. CompletedIsSettled'
      <3>1. ASSUME NEW i \in Jobs, queue'[i] = "completed" PROVE Settled(i)'
        BY <2>4, <2>6, <2>12, <3>1 DEF CompletedIsSettled
      <3>2. ASSUME NEW v \in Workers, worker'[v].pc = "done", HasLock(v)' PROVE Settled(worker[v].job)'
        <4>1. worker'[v] = worker[v] /\ worker[v].job \in Jobs
          BY <2>1, <3>2, BusyWorkers
        <4>2. worker[v].job # j /\ HasLock(v)
          BY <2>6, <3>2, <4>1, NoneAssumption DEF HasLock
        <4> QED BY <2>12, <3>2, <4>1, <4>2 DEF CompletedIsSettled
      <3> QED BY <3>1, <3>2 DEF CompletedIsSettled
    <2>14. OneExecution'
      <3>1. ASSUME NEW v \in Workers, Runs(v, j), stalls[j] = 0 PROVE v = w
        BY <1>1, <3>1 DEF OneExecution, Runs
      <3>2. stalls[j] = 0 /\ j \notin unheard => status[j] # "COMPLETED"
        BY <1>1, <1>2 DEF OneExecution, Runs
      <3> QED BY <1>1, <1>2, <2>1, <2>6, <3>1, <3>2 DEF OneExecution, Runs
    <2> QED BY <2>1, <2>7, <2>8, <2>9, <2>10, <2>11, <2>13, <2>14
  <1> QED BY <1>3, <1>4

\* A worker dies.
LEMMA CrashKeeps == ASSUME JobsInv, NEW w \in Workers, Crash(w) PROVE JobsInv'
  <1>1. worker[w].pc # "idle"
    BY DEF JobsInv, WorkersHaveJobs, Crash
  <1>2. PICK j \in Jobs : j = worker[w].job
    BY <1>1, BusyWorkers
  <1>3. /\ abandoned' \in SUBSET Jobs /\ abandoned \subseteq abandoned' /\ (lock[j] # w => j \in abandoned')
        /\ worker' = [worker EXCEPT ![w] = Idle]
        /\ UNCHANGED <<status, attempts, queue, made, stalls, lock, adding, runs, unheard>>
    BY <1>2 DEF Crash, HasLock, JobsInv, TypeOK, table, bull
  <1> QED BY <1>1, <1>2, <1>3, GivenUpKeeps

\* The lock of a job has run out: it waits once more, or that was once too often.
LEMMA StalledKeeps == ASSUME JobsInv, NEW j \in Jobs, Stalled(j) PROVE JobsInv'
  <1> USE DEF JobsInv, table
  <1>1. UNCHANGED <<status, attempts, made, adding, worker, runs, abandoned, unheard>> /\ queue[j] = "active"
    BY DEF Stalled
  <1>2. stalls[j] \in 0 .. MaxStalls /\ runs[j] \in Nat /\ made[j] \in 0 .. MaxAttempts /\ made[j] < MaxAttempts
    BY <1>1 DEF TypeOK, AttemptsAreLeft
  <1>3. \A i \in Jobs : lock'[i] = IF i = j THEN NoWorker ELSE lock[i]
    BY DEF Stalled, TypeOK
  <1>4. lock' \in [Jobs -> Workers \cup {NoWorker}]
    BY DEF Stalled, TypeOK
  <1>5. PICK next \in {"wait", "failed"}, n \in 0 .. MaxStalls :
          /\ next = "wait" => n = stalls[j] + 1
          /\ next = "failed" => n = stalls[j]
          /\ queue' = [queue EXCEPT ![j] = next]
          /\ stalls' = [stalls EXCEPT ![j] = n]
    <2>1. CASE stalls[j] < MaxStalls
      <3>1. stalls[j] + 1 \in 0 .. MaxStalls
        BY <1>2, <2>1, AttemptsAssumption
      <3> QED BY <2>1, <3>1 DEF Stalled
    <2>2. CASE ~(stalls[j] < MaxStalls)
      <3>1. stalls = [stalls EXCEPT ![j] = stalls[j]]
        BY DEF TypeOK
      <3> QED BY <1>2, <2>2, <3>1 DEF Stalled
    <2> QED BY <2>1, <2>2
  <1>6. /\ \A i \in Jobs : queue'[i] = IF i = j THEN next ELSE queue[i]
        /\ \A i \in Jobs : stalls'[i] = IF i = j THEN n ELSE stalls[i]
    BY <1>5 DEF TypeOK
  <1>7. TypeOK'
    BY <1>1, <1>4, <1>5 DEF TypeOK, QueueStates
  <1>8. WorkersHaveJobs'
    BY <1>1 DEF WorkersHaveJobs
  <1>9. LocksAreActive' /\ AttemptsAreLeft'
    BY <1>1, <1>3, <1>5, <1>6 DEF LocksAreActive, AttemptsAreLeft
  <1>10. AddedOnce'
    BY <1>1, <1>6 DEF AddedOnce, Runs
  <1>11. RunsAreCounted'
    BY <1>1, <1>2, <1>5, <1>6, AttemptsAssumption DEF RunsAreCounted, TypeOK
  <1>12. \A i \in Jobs : Settled(i) => Settled(i)'
    BY <1>1, <1>3, NoneAssumption DEF Settled, Runs
  <1>13. ASSUME NEW v \in Workers, worker'[v].pc = "done", HasLock(v)' PROVE worker'[v] = worker[v] /\ HasLock(v)
    <2>1. worker'[v] = worker[v] /\ worker[v].job \in Jobs
      BY <1>1, <1>13, BusyWorkers
    <2> QED BY <1>3, <1>13, <2>1, NoneAssumption DEF HasLock
  <1>14. CompletedIsSettled'
    BY <1>5, <1>6, <1>12, <1>13, SettledStays
  <1>15. OneExecution'
    BY <1>1, <1>2, <1>5, <1>6 DEF OneExecution, Runs
  <1> QED BY <1>7, <1>8, <1>9, <1>10, <1>11, <1>14, <1>15

\* One case for every action.
LEMMA StepHolds == JobsInv /\ [Next]_vars => JobsInv'
  <1> SUFFICES ASSUME JobsInv, [Next]_vars PROVE JobsInv'
    OBVIOUS
  <1>1. ASSUME NEW j \in Jobs, EnqueueRow(j) PROVE JobsInv'
    BY <1>1, EnqueueRowKeeps
  <1>2. ASSUME NEW j \in Jobs, EnqueueAdd(j) PROVE JobsInv'
    BY <1>2, WaitingKeeps DEF EnqueueAdd, JobsInv, AddedOnce
  <1>3. ASSUME NEW j \in Jobs, Promote(j) PROVE JobsInv'
    BY <1>3, WaitingKeeps DEF Promote, JobsInv, AddedOnce
  <1>4. ASSUME NEW j \in Jobs, EnqueueAddFails(j) PROVE JobsInv'
    <2>1. UNCHANGED <<status, attempts, queue, made, stalls, lock, worker, runs, abandoned, unheard>> /\ adding' \subseteq adding
      BY <1>4 DEF EnqueueAddFails, table, bull
    <2>2. \A i \in Jobs : Settled(i) => Settled(i)'
      BY <2>1 DEF Settled, Runs
    <2>3. CompletedIsSettled'
      BY <2>1, <2>2, SettledStays DEF HasLock
    <2> QED BY <2>1, <2>3 DEF JobsInv, TypeOK, WorkersHaveJobs, LocksAreActive, AttemptsAreLeft, AddedOnce,
                              RunsAreCounted, OneExecution, Runs
  <1>5. ASSUME NEW j \in Jobs, Stalled(j) PROVE JobsInv'
    BY <1>5, StalledKeeps
  <1>6. ASSUME NEW w \in Workers, NEW j \in Jobs, Take(w, j) PROVE JobsInv'
    BY <1>6, TakeKeeps
  <1>7. ASSUME NEW w \in Workers, Work(w) \/ UpdateThrows(w) \/ UpdateUnheard(w) \/ Crash(w) PROVE JobsInv'
    BY <1>7, UpdatesKeep, MarkCompletedKeeps, FinishKeeps, FinishThrownKeeps, UpdateThrowsKeeps, CrashKeeps DEF Work
  <1>8. CASE UNCHANGED vars
    <2>1. \A i \in Jobs : Settled(i) => Settled(i)'
      BY <1>8 DEF vars, table, bull, Settled, Runs
    <2>2. CompletedIsSettled'
      BY <1>8, <2>1, SettledStays DEF vars, table, bull, HasLock
    <2> QED BY <1>8, <2>2 DEF vars, table, bull, JobsInv, TypeOK, WorkersHaveJobs, LocksAreActive, AttemptsAreLeft,
                              AddedOnce, RunsAreCounted, OneExecution, Runs
  <1> QED BY <1>1, <1>2, <1>3, <1>4, <1>5, <1>6, <1>7, <1>8 DEF Next
-----------------------------------------------------------------------------
\* The rows, the queue, its locks and what the workers are at agree, whatever fails.
THEOREM InvariantHolds == Spec => []JobsInv
  BY InitHolds, StepHolds, PTL DEF Spec

\* Rows, queue, locks and workers keep their types: no job is attempted or found stalled more
\* often than it may be.
THEOREM TypesHold == Spec => []TypeOK
  <1>1. JobsInv => TypeOK
    BY DEF JobsInv
  <1> QED BY <1>1, InvariantHolds, PTL

\* However often workers crash, lose their locks or fail, a job is executed at most once per
\* attempt and once more per stall.
THEOREM ExecutionsStayBounded == Spec => []ExecutionsAreBounded
  <1>1. JobsInv => ExecutionsAreBounded
    BY DEF JobsInv, RunsAreCounted, ExecutionsAreBounded
  <1> QED BY <1>1, InvariantHolds, PTL

\* A job that the queue has completed and nobody is at any more has a row that says so, unless
\* an execution without the lock died on it.
THEOREM CompletedRowsStayRight == Spec => []CompletedRowsAgree
  <1>1. JobsInv => CompletedRowsAgree
    BY DEF JobsInv, CompletedIsSettled, Settled, CompletedRowsAgree, Executing
  <1> QED BY <1>1, InvariantHolds, PTL

\* However often an execution is repeated, a row that reads COMPLETED is taken back only if
\* the job has stalled or a COMPLETED update of it threw after it had taken effect.
THEOREM OnlyUnheardReopen == Spec => CompletedRowsReopenUnheard
  <1>1. ASSUME JobsInv, [Next]_vars, NEW j \in Jobs, status[j] = "COMPLETED", status'[j] # "COMPLETED"
        PROVE  stalls[j] > 0 \/ j \in unheard
    <2>1. PICK w \in Workers : worker[w].pc = "start" /\ worker[w].job = j
      <3>1. ASSUME NEW i \in Jobs, EnqueueRow(i) PROVE FALSE
        BY <1>1, <3>1 DEF EnqueueRow, JobsInv, TypeOK
      <3>2. ASSUME NEW w \in Workers, WriteRunning(w), worker[w].pc = "start" PROVE worker[w].job = j
        BY <1>1, <3>2, BusyWorkers DEF WriteRunning, JobsInv, TypeOK
      <3>3. ASSUME NEW w \in Workers, WriteCompleted(w), worker[w].pc = "work" PROVE FALSE
        BY <1>1, <3>3, BusyWorkers DEF WriteCompleted, JobsInv, TypeOK
      <3>4. \/ UNCHANGED status
            \/ \E i \in Jobs : EnqueueRow(i)
            \/ \E w \in Workers : \/ worker[w].pc = "start" /\ WriteRunning(w)
                                  \/ worker[w].pc = "work" /\ WriteCompleted(w)
        BY <1>1 DEF Next, Work, vars, table, EnqueueAdd, EnqueueAddFails, Promote, Stalled, Take, Finish,
                    FinishThrown, UpdateThrows, UpdateUnheard, MarkRunning, MarkCompleted, Crash
      <3> QED BY <1>1, <3>1, <3>2, <3>3, <3>4
    <2>2. stalls[j] \in Nat
      BY <1>1 DEF JobsInv, TypeOK
    <2> QED BY <1>1, <2>1, <2>2 DEF JobsInv, OneExecution, Runs
  <1>2. JobsInv /\ [Next]_vars =>
          [\A j \in Jobs : status[j] = "COMPLETED" /\ status'[j] # "COMPLETED" =>
                           stalls[j] > 0 \/ j \in unheard]_vars
    BY <1>1
  <1> QED BY <1>2, InvariantHolds, PTL DEF Spec, CompletedRowsReopenUnheard
=============================================================================
