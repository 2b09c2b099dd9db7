------------------------- MODULE AsyncOrchestrator --------------------------
(***************************************************************************)
(* The task orchestrator and worker pool of                                *)
(* src/aws_api/cleaner/cleaner.go.                                         *)
(*                                                                         *)
(* Processes: the owner (AsyncOrchestratorNew, AddTask, Wait), the         *)
(* goroutine TaskStarter, and one goroutine Work per worker.  They share   *)
(* the map Tasks and the counter TaskId, both guarded by SyncSemaphore (a  *)
(* channel of capacity 1), the buffered channel WorkerPool.Tasks, and the  *)
(* flags Started and Finished of every task, which no lock guards.         *)
(*                                                                         *)
(* A task's Work function is arbitrary code: it adds any tasks that were   *)
(* not added before, one AddTask call at a time, and returns, with or      *)
(* without an error (nothing reads Task.Error).                            *)
(***************************************************************************)
EXTENDS Naturals, Sequences, FiniteSets

CONSTANTS
  Task,      \* the Task values the program may ever allocate
  Workers,   \* the worker goroutines, NumWorkers of them
  Owner,     \* the goroutine that builds the orchestrator and calls Wait
  Starter,   \* the goroutine TaskStarter
  None       \* no task, no process

ASSUME ProcessAssumption ==
  /\ Owner # Starter
  /\ Owner \notin Workers
  /\ Starter \notin Workers
  /\ None \notin Task \cup Workers \cup {Owner, Starter}

ASSUME FinitePool == IsFiniteSet(Workers)

Adders == Workers \cup {Owner}
Procs == Adders \cup {Starter}

VARIABLES
  pc,         \* where each goroutine is
  sem,        \* SyncSemaphore: the goroutine whose token is in it, or None
  tasks,      \* Tasks: the map from IDs to tasks
  taskId,     \* *TaskId
  created,    \* the Task values allocated so far
  arg,        \* the task an AddTask call, or TaskStarter, has in hand
  started,    \* tasks with Started = TRUE
  finished,   \* tasks with Finished = TRUE
  chanMade,   \* the field WorkerPool.Tasks is no longer nil
  chan,       \* the buffer of WorkerPool.Tasks
  job,        \* the task each worker is running
  toVisit,    \* Wait: the IDs its range loop has not visited yet
  counted,    \* Wait: the IDs counted in finishedTasks
  cancelled   \* WorkerContext is done

vars == <<pc, sem, tasks, taskId, created, arg, started, finished, chanMade,
          chan, job, toVisit, counted, cancelled>>

taskVars == <<tasks, taskId, created>>
flagVars == <<started, finished>>
poolVars == <<chanMade, chan, job>>
waitVars == <<toVisit, counted>>

NumWorkers == Cardinality(Workers)

IDs == DOMAIN tasks

(* The tasks of the map. *)
Known == {tasks[i] : i \in IDs}

(* The pc values between SyncSemaphore <- true and <-SyncSemaphore. *)
Critical == {"addStore", "addRelease", "visit", "scan"}

OwnerPC == {"new", "ready", "addLock", "addStore", "addRelease",
            "waitLock", "visit", "waitSleep", "returned"}
StarterPC == {"unborn", "lock", "scan", "mark", "send", "sleep", "stopped"}
WorkerPC == {"boot", "blocked", "select", "working",
             "addLock", "addStore", "addRelease", "stopped"}

Init ==
  /\ pc = [p \in Procs |-> IF p = Owner THEN "new"
                           ELSE IF p = Starter THEN "unborn" ELSE "boot"]
  /\ sem = None
  /\ tasks = <<>>
  /\ taskId = 0
  /\ created = {}
  /\ arg = [p \in Procs |-> None]
  /\ started = {}
  /\ finished = {}
  /\ chanMade = FALSE
  /\ chan = <<>>
  /\ job = [w \in Workers |-> None]
  /\ toVisit = {}
  /\ counted = {}
  /\ cancelled = FALSE

Goto(p, from, to) ==
  /\ pc[p] = from
  /\ pc' = [pc EXCEPT ![p] = to]

Acquire(p) == sem = None /\ sem' = p
Release == sem' = None

-----------------------------------------------------------------------------
(* Construction.  WorkerPoolNew launches the workers and only then assigns *)
(* the channel; AsyncOrchestratorNew then launches TaskStarter.  The field *)
(* is read by the workers without synchronisation, so a worker whose first *)
(* select is evaluated too early waits on a nil channel for ever.          *)

New ==
  /\ Goto(Owner, "new", "ready")
  /\ chanMade' = TRUE
  /\ UNCHANGED <<sem, taskVars, arg, flagVars, chan, job, waitVars, cancelled>>

LaunchStarter ==
  /\ chanMade
  /\ Goto(Starter, "unborn", "lock")
  /\ UNCHANGED <<sem, taskVars, arg, flagVars, poolVars, waitVars, cancelled>>

FirstSelect(w) ==
  /\ Goto(w, "boot", IF chanMade THEN "select" ELSE "blocked")
  /\ UNCHANGED <<sem, taskVars, arg, flagVars, poolVars, waitVars, cancelled>>

-----------------------------------------------------------------------------
(* AddTask(task), called by the owner or from inside a task's Work.        *)

AddIdle(p) == IF p = Owner THEN "ready" ELSE "working"

(* &Task{Work: work} allocates a value that is none of the earlier ones;   *)
(* which one makes no difference.                                          *)
FreshTask == CHOOSE t \in Task : t \notin created

AddTask(p) ==
  /\ created # Task
  /\ Goto(p, AddIdle(p), "addLock")
  /\ created' = created \cup {FreshTask}
  /\ arg' = [arg EXCEPT ![p] = FreshTask]
  /\ UNCHANGED <<sem, tasks, taskId, flagVars, poolVars, waitVars, cancelled>>

(* Mutation: AddTask without SyncSemaphore.                                *)
AddLockFree(p) ==
  /\ Goto(p, "addLock", "addStore")
  /\ sem' = p
  /\ UNCHANGED <<taskVars, arg, flagVars, poolVars, waitVars, cancelled>>

(* Mutation: TaskStarter has the semaphore until its send is done.         *)
AddLockAfterSend(p) ==
  /\ Goto(p, "addLock", "addStore")
  /\ Acquire(p)
  /\ pc[Starter] \notin {"mark", "send"}
  /\ UNCHANGED <<taskVars, arg, flagVars, poolVars, waitVars, cancelled>>

AddLock(p) ==
  /\ Goto(p, "addLock", "addStore")
  /\ Acquire(p)
  /\ UNCHANGED <<taskVars, arg, flagVars, poolVars, waitVars, cancelled>>

AddStore(p) ==
  /\ Goto(p, "addStore", "addRelease")
  /\ tasks' = [i \in IDs \cup {taskId} |->
                 IF i = taskId THEN arg[p] ELSE tasks[i]]
  /\ UNCHANGED <<sem, taskId, created, arg, flagVars, poolVars, waitVars,
                 cancelled>>

AddRelease(p) ==
  /\ Goto(p, "addRelease", AddIdle(p))
  /\ taskId' = taskId + 1
  /\ arg' = [arg EXCEPT ![p] = None]
  /\ Release
  /\ UNCHANGED <<tasks, created, flagVars, poolVars, waitVars, cancelled>>

-----------------------------------------------------------------------------
(* Wait().  The loop over the map reads one Finished flag at a time while  *)
(* the workers go on setting them.                                         *)

WaitCall ==
  /\ Goto(Owner, "ready", "waitLock")
  /\ UNCHANGED <<sem, taskVars, arg, flagVars, poolVars, waitVars, cancelled>>

WaitLock ==
  /\ Goto(Owner, "waitLock", "visit")
  /\ Acquire(Owner)
  /\ toVisit' = IDs
  /\ counted' = {}
  /\ UNCHANGED <<taskVars, arg, flagVars, poolVars, cancelled>>

(* Mutation: Wait counts the tasks that are Started.                       *)
WaitVisitStarted(i) ==
  /\ pc[Owner] = "visit"
  /\ i \in toVisit
  /\ toVisit' = toVisit \ {i}
  /\ counted' = IF tasks[i] \in started THEN counted \cup {i} ELSE counted
  /\ UNCHANGED <<pc, sem, taskVars, arg, flagVars, poolVars, cancelled>>

WaitVisit(i) ==
  /\ pc[Owner] = "visit"
  /\ i \in toVisit
  /\ toVisit' = toVisit \ {i}
  /\ counted' = IF tasks[i] \in finished THEN counted \cup {i} ELSE counted
  /\ UNCHANGED <<pc, sem, taskVars, arg, flagVars, poolVars, cancelled>>

WaitDecide ==
  /\ toVisit = {}
  /\ Goto(Owner, "visit", IF counted = IDs THEN "returned" ELSE "waitSleep")
  /\ Release
  /\ UNCHANGED <<taskVars, arg, flagVars, poolVars, waitVars, cancelled>>

(* time.After(5s) or WorkerContext.Done() *)
WaitTimer ==
  /\ Goto(Owner, "waitSleep", "waitLock")
  /\ UNCHANGED <<sem, taskVars, arg, flagVars, poolVars, waitVars, cancelled>>

WaitCancelled ==
  /\ cancelled
  /\ Goto(Owner, "waitSleep", "returned")
  /\ UNCHANGED <<sem, taskVars, arg, flagVars, poolVars, waitVars, cancelled>>

-----------------------------------------------------------------------------
(* TaskStarter().  It picks any task that is not Started under the         *)
(* semaphore, and hands it to the pool after releasing it.                 *)

StarterLock ==
  /\ Goto(Starter, "lock", "scan")
  /\ Acquire(Starter)
  /\ UNCHANGED <<taskVars, arg, flagVars, poolVars, waitVars, cancelled>>

ScanFound ==
  /\ \E t \in Known \ started : arg' = [arg EXCEPT ![Starter] = t]
  /\ Goto(Starter, "scan", "mark")
  /\ Release
  /\ UNCHANGED <<taskVars, flagVars, poolVars, waitVars, cancelled>>

ScanNothing ==
  /\ Known \subseteq started
  /\ Goto(Starter, "scan", "sleep")
  /\ Release
  /\ UNCHANGED <<taskVars, arg, flagVars, poolVars, waitVars, cancelled>>

(* Mutation: Started is not set.                                           *)
PoolMarkForgets ==
  /\ Goto(Starter, "mark", "send")
  /\ UNCHANGED <<sem, taskVars, arg, flagVars, poolVars, waitVars, cancelled>>

(* WorkerPool.AddTask: Started = true, then a send that blocks while the   *)
(* buffer is full.                                                         *)
PoolMark ==
  /\ Goto(Starter, "mark", "send")
  /\ started' = started \cup {arg[Starter]}
  /\ UNCHANGED <<sem, taskVars, arg, finished, poolVars, waitVars, cancelled>>

(* Mutation: one slot too many in the channel.                             *)
PoolSendOneMore ==
  /\ Len(chan) <= NumWorkers
  /\ Goto(Starter, "send", "sleep")
  /\ chan' = Append(chan, arg[Starter])
  /\ arg' = [arg EXCEPT ![Starter] = None]
  /\ UNCHANGED <<sem, taskVars, flagVars, chanMade, job, waitVars, cancelled>>

PoolSend ==
  /\ Len(chan) < NumWorkers
  /\ Goto(Starter, "send", "sleep")
  /\ chan' = Append(chan, arg[Starter])
  /\ arg' = [arg EXCEPT ![Starter] = None]
  /\ UNCHANGED <<sem, taskVars, flagVars, chanMade, job, waitVars, cancelled>>

(* time.After(10ms) or WorkerContext.Done() *)
StarterTimer ==
  /\ Goto(Starter, "sleep", "lock")
  /\ UNCHANGED <<sem, taskVars, arg, flagVars, poolVars, waitVars, cancelled>>

(* Mutation: break instead of return leaves the select, not the loop.      *)
StarterStopBreaks ==
  /\ cancelled
  /\ Goto(Starter, "sleep", "lock")
  /\ UNCHANGED <<sem, taskVars, arg, flagVars, poolVars, waitVars, cancelled>>

StarterStop ==
  /\ cancelled
  /\ Goto(Starter, "sleep", "stopped")
  /\ UNCHANGED <<sem, taskVars, arg, flagVars, poolVars, waitVars, cancelled>>

-----------------------------------------------------------------------------
(* Work(wid).                                                              *)

(* Mutation: Finished is set when the task is taken.                       *)
ReceiveFinishes(w) ==
  /\ chan # <<>>
  /\ Goto(w, "select", "working")
  /\ job' = [job EXCEPT ![w] = Head(chan)]
  /\ finished' = finished \cup {Head(chan)}
  /\ chan' = Tail(chan)
  /\ UNCHANGED <<sem, taskVars, arg, started, chanMade, waitVars, cancelled>>

Receive(w) ==
  /\ chan # <<>>
  /\ Goto(w, "select", "working")
  /\ job' = [job EXCEPT ![w] = Head(chan)]
  /\ chan' = Tail(chan)
  /\ UNCHANGED <<sem, taskVars, arg, flagVars, chanMade, waitVars, cancelled>>

(* Mutation: Finished is not set when Work returned an error.              *)
FinishUnlessError(w) ==
  /\ Goto(w, "working", "select")
  /\ \E failed \in BOOLEAN :
       finished' = IF failed THEN finished ELSE finished \cup {job[w]}
  /\ job' = [job EXCEPT ![w] = None]
  /\ UNCHANGED <<sem, taskVars, arg, started, chanMade, chan, waitVars,
                 cancelled>>

(* Mutation: the task is dropped before its flag is written.               *)
FinishSwapped(w) ==
  /\ Goto(w, "working", "select")
  /\ job' = [job EXCEPT ![w] = None]
  /\ finished' = finished \cup {job'[w]}
  /\ UNCHANGED <<sem, taskVars, arg, started, chanMade, chan, waitVars,
                 cancelled>>

(* task.Work() returned; its Result and Error are stored and never read.   *)
Finish(w) ==
  /\ Goto(w, "working", "select")
  /\ finished' = finished \cup {job[w]}
  /\ job' = [job EXCEPT ![w] = None]
  /\ UNCHANGED <<sem, taskVars, arg, started, chanMade, chan, waitVars,
                 cancelled>>

WorkerStop(w) ==
  /\ cancelled
  /\ \/ Goto(w, "select", "stopped")
     \/ Goto(w, "blocked", "stopped")
  /\ UNCHANGED <<sem, taskVars, arg, flagVars, poolVars, waitVars, cancelled>>

-----------------------------------------------------------------------------
AddStep(p) ==
  \/ AddTask(p)
  \/ AddLock(p)
  \/ AddStore(p)
  \/ AddRelease(p)

WaitStep ==
  \/ WaitCall
  \/ WaitLock
  \/ \E i \in toVisit : WaitVisit(i)
  \/ WaitDecide
  \/ WaitTimer
  \/ WaitCancelled

StarterStep ==
  \/ LaunchStarter
  \/ StarterLock
  \/ ScanFound
  \/ ScanNothing
  \/ PoolMark
  \/ PoolSend
  \/ StarterTimer
  \/ StarterStop

WorkerStep(w) ==
  \/ FirstSelect(w)
  \/ Receive(w)
  \/ Finish(w)
  \/ WorkerStop(w)

Next ==
  \/ New
  \/ \E p \in Adders : AddStep(p)
  \/ WaitStep
  \/ StarterStep
  \/ \E w \in Workers : WorkerStep(w)

(* WorkerPool.CancelFunc is exported; nothing in the repository calls it.  *)
Cancel ==
  /\ ~cancelled
  /\ pc[Owner] # "new"
  /\ cancelled' = TRUE
  /\ UNCHANGED <<pc, sem, taskVars, arg, flagVars, poolVars, waitVars>>

NextOrCancel == Next \/ Cancel

Spec == Init /\ [][Next]_vars

CancelSpec == Init /\ [][NextOrCancel]_vars

(***************************************************************************)
(* Fairness: goroutines that can run do run (WF); the goroutines blocked   *)
(* on a channel are served in FIFO order, so nobody is overtaken for ever  *)
(* at the semaphore (SF); a select with two ready cases picks one at       *)
(* random, so no case that is ready again and again is ignored for ever    *)
(* (SF); the work of every task returns, and Wait is called.               *)
(***************************************************************************)
Fairness ==
  /\ WF_vars(New)
  /\ \A p \in Adders : /\ SF_vars(AddLock(p))
                       /\ WF_vars(AddStore(p) \/ AddRelease(p))
  /\ WF_vars(WaitCall \/ (\E i \in toVisit : WaitVisit(i)) \/ WaitDecide
             \/ WaitTimer)
  /\ SF_vars(WaitLock)
  /\ WF_vars(LaunchStarter \/ ScanFound \/ ScanNothing \/ PoolMark
             \/ PoolSend \/ StarterTimer)
  /\ SF_vars(StarterLock)
  /\ \A w \in Workers : WF_vars(FirstSelect(w) \/ Receive(w) \/ Finish(w))

CancelFairness ==
  /\ SF_vars(WaitCancelled)
  /\ SF_vars(StarterStop)
  /\ \A w \in Workers : SF_vars(WorkerStop(w))

FairSpec == Spec /\ Fairness

FairCancelSpec == CancelSpec /\ Fairness /\ CancelFairness

-----------------------------------------------------------------------------
(* Type invariant of the orchestrator's state.                             *)
TypeOK ==
  /\ pc \in [Procs -> OwnerPC \cup StarterPC \cup WorkerPC]
  /\ pc[Owner] \in OwnerPC
  /\ pc[Starter] \in StarterPC
  /\ \A w \in Workers : pc[w] \in WorkerPC
  /\ sem \in Procs \cup {None}
  /\ taskId \in Nat
  /\ IDs \subseteq Nat
  /\ tasks \in [IDs -> Task]
  /\ created \subseteq Task
  /\ arg \in [Procs -> Task \cup {None}]
  /\ started \subseteq Task
  /\ finished \subseteq Task
  /\ chanMade \in BOOLEAN
  /\ chan \in Seq(Task)
  /\ job \in [Workers -> Task \cup {None}]
  /\ toVisit \subseteq IDs
  /\ counted \subseteq IDs
  /\ cancelled \in BOOLEAN

(* The tasks of AddTask calls that have not stored them in the map yet.    *)
Arriving == {arg[p] : p \in {q \in Adders : pc[q] \in {"addLock", "addStore"}}}

Running == {job[w] : w \in {v \in Workers : job[v] # None}}

InBuffer == {chan[k] : k \in DOMAIN chan}

InHand == {arg[Starter]} \ {None}

(* When Wait returns, every task that was ever allocated, the ones added   *)
(* by other tasks while Wait was looping included, has really finished:    *)
(* nothing is queued, running, or still on its way into the map.           *)
WaitSound ==
  pc[Owner] = "returned" /\ ~cancelled =>
    /\ created \subseteq finished
    /\ InBuffer \cup Running \cup InHand \cup Arriving = {}

(* Concurrent AddTask calls never give two tasks one ID: no entry of the   *)
(* map is overwritten, so no task is lost before TaskStarter sees it.      *)
NoTaskLost ==
  /\ created = Known \cup Arriving
  /\ \A i, j \in IDs : tasks[i] = tasks[j] => i = j

(* A task is in one place at a time (in TaskStarter's hand, in the         *)
(* channel, at one worker, or finished) although Started is written        *)
(* outside the semaphore: no task is sent twice or run by two workers.     *)
HandedOnce ==
  /\ \A k, l \in DOMAIN chan : chan[k] = chan[l] => k = l
  /\ \A v, w \in Workers : job[v] = job[w] /\ job[v] # None => v = w
  /\ InHand \cap (InBuffer \cup Running \cup finished) = {}
  /\ InBuffer \cap (Running \cup finished) = {}
  /\ Running \cap finished = {}

(* Back-pressure: however many tasks are added, the ones TaskStarter has   *)
(* under way are bounded by what the pool really has: NumWorkers slots of  *)
(* the channel, one task in hand, and one per worker that is not blocked   *)
(* on the nil channel.                                                     *)
Backpressure ==
  Cardinality(started \ finished) <=
    NumWorkers + 1 + Cardinality({w \in Workers : pc[w] # "blocked"})

(* The orchestrator implements TaskForest.                                 *)
StageOf(t) ==
  IF t \in finished THEN "done"
  ELSE IF t \in Running THEN "running"
  ELSE IF t \in Known THEN "queued" ELSE "unborn"

Closed == pc[Owner] \in {"waitLock", "visit", "waitSleep", "returned"}

Forest == INSTANCE TaskForest
            WITH stage <- [t \in Task |-> StageOf(t)],
                 closed <- Closed,
                 joined <- pc[Owner] = "returned"

(* Every behaviour of the code, with its channel, semaphore and racing     *)
(* flags, is a behaviour of the abstract forest of tasks.                  *)
ImplementsForest == Forest!Spec

(* Wait returns, unless every worker lost the race with the assignment of  *)
(* WorkerPool.Tasks in WorkerPoolNew and waits on a nil channel for ever.  *)
WaitReturns ==
  \/ <>(pc[Owner] = "returned")
  \/ <>[](\A w \in Workers : pc[w] = "blocked")

(* AddTask called from inside a task returns, also while TaskStarter is    *)
(* blocked in its send to a full channel that only this worker can empty:  *)
(* the semaphore is given back before the send.                            *)
AddReturns ==
  \A w \in Workers : pc[w] = "addLock" ~> pc[w] = "working"

(* After CancelFunc the workers and Wait stop; TaskStarter stops too or    *)
(* stays for ever in the send to a channel that nobody empties any more.   *)
CancelQuiesces ==
  cancelled ~> /\ pc[Owner] \in {"ready", "returned"}
               /\ \A w \in Workers : pc[w] = "stopped"
               /\ \/ pc[Starter] = "stopped"
                  \/ pc[Starter] = "send" /\ Len(chan) = NumWorkers

=============================================================================
