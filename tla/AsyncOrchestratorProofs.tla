---------------------- MODULE AsyncOrchestratorProofs -----------------------
(***************************************************************************)
(* Proofs about AsyncOrchestrator, for any set of workers and any set of   *)
(* tasks, with or without a call of CancelFunc (CancelSpec).               *)
(***************************************************************************)
EXTENDS AsyncOrchestrator, FiniteSetTheorems, TLAPS

(***************************************************************************)
(* Facts about the channel's buffer.                                       *)
(***************************************************************************)
Elements(s) == {s[k] : k \in DOMAIN s}

NoDuplicates(s) == \A k, l \in DOMAIN s : s[k] = s[l] => k = l

(* Appending a task that is not in the buffer keeps it free of duplicates. *)
LEMMA AppendElements ==
  ASSUME NEW S, NEW s \in Seq(S), NEW e \in S
  PROVE  /\ Append(s, e) \in Seq(S)
         /\ Elements(Append(s, e)) = Elements(s) \cup {e}
         /\ NoDuplicates(s) /\ e \notin Elements(s)
              => NoDuplicates(Append(s, e))
<1>1. Append(s, e) \in Seq(S)
  OBVIOUS
<1>2. /\ DOMAIN s = 1..Len(s)
      /\ Len(s) \in Nat
      /\ DOMAIN Append(s, e) = 1..(Len(s) + 1)
      /\ \A k \in 1..Len(s) : Append(s, e)[k] = s[k]
      /\ Append(s, e)[Len(s) + 1] = e
  OBVIOUS
<1>3. Elements(Append(s, e)) = Elements(s) \cup {e}
  <2>1. \A k \in DOMAIN Append(s, e) : k \in DOMAIN s \/ k = Len(s) + 1
    BY <1>2
  <2>2. \A k \in DOMAIN s : k \in DOMAIN Append(s, e)
    BY <1>2
  <2>3. Len(s) + 1 \in DOMAIN Append(s, e)
    BY <1>2
  <2> QED
    BY <1>2, <2>1, <2>2, <2>3 DEF Elements
<1>4. ASSUME NoDuplicates(s), e \notin Elements(s)
      PROVE  NoDuplicates(Append(s, e))
  <2>1. \A k \in 1..Len(s) : s[k] # e
    BY <1>2, <1>4 DEF Elements
  <2> QED
    BY <1>2, <1>4, <2>1 DEF NoDuplicates
<1> QED
  BY <1>1, <1>3, <1>4

(* Receiving from the buffer removes its head and nothing else.            *)
LEMMA TailElements ==
  ASSUME NEW S, NEW s \in Seq(S), s # <<>>, NoDuplicates(s)
  PROVE  /\ Tail(s) \in Seq(S)
         /\ Head(s) \in S
         /\ Head(s) \in Elements(s)
         /\ Elements(Tail(s)) = Elements(s) \ {Head(s)}
         /\ NoDuplicates(Tail(s))
<1>1. /\ Tail(s) \in Seq(S)
      /\ Head(s) \in S
      /\ Head(s) = s[1]
      /\ Len(s) \in Nat \ {0}
      /\ DOMAIN s = 1..Len(s)
      /\ DOMAIN Tail(s) = 1..(Len(s) - 1)
      /\ \A k \in 1..(Len(s) - 1) : Tail(s)[k] = s[k + 1]
  OBVIOUS
<1>2. \A k \in DOMAIN Tail(s) : k + 1 \in DOMAIN s /\ k + 1 # 1
  BY <1>1
<1>3. \A k \in DOMAIN s : k # 1 => k - 1 \in DOMAIN Tail(s)
                                   /\ Tail(s)[k - 1] = s[k]
  BY <1>1
<1>4. NoDuplicates(Tail(s))
  BY <1>1, <1>2 DEF NoDuplicates
<1>5. Head(s) \in Elements(s)
  BY <1>1 DEF Elements
<1>6. Elements(Tail(s)) \subseteq Elements(s) \ {Head(s)}
  BY <1>1, <1>2 DEF Elements, NoDuplicates
<1>7. Elements(s) \ {Head(s)} \subseteq Elements(Tail(s))
  <2> SUFFICES ASSUME NEW k \in DOMAIN s, s[k] # Head(s)
               PROVE  s[k] \in Elements(Tail(s))
    BY DEF Elements
  <2>1. k # 1
    BY <1>1
  <2> QED
    BY <1>3, <2>1 DEF Elements
<1> QED
  BY <1>1, <1>4, <1>5, <1>6, <1>7

(***************************************************************************)
(* The inductive invariant.                                                *)
(***************************************************************************)

(* The semaphore holds the token of exactly the goroutine that is between  *)
(* its send and its receive.                                               *)
Mutex == \A p \in Procs : pc[p] \in Critical <=> sem = p

(* The IDs in use are below TaskId, but for the one being stored now.      *)
UsedIDs ==
  \A i \in IDs : \/ i < taskId
                 \/ i = taskId /\ \E p \in Adders : pc[p] = "addRelease"

(* What an AddTask call has in hand.                                       *)
Adding ==
  /\ \A p \in Adders :
       /\ arg[p] # None <=> pc[p] \in {"addLock", "addStore", "addRelease"}
       /\ pc[p] \in {"addLock", "addStore"} => arg[p] \notin Known
       /\ arg[p] # None => arg[p] \in created
  /\ \A p, q \in Adders : arg[p] = arg[q] /\ arg[p] # None => p = q

(* What TaskStarter has in hand, and which tasks are Started.              *)
Starting ==
  /\ arg[Starter] # None <=> pc[Starter] \in {"mark", "send"}
  /\ pc[Starter] = "mark" => arg[Starter] \in Known \ started
  /\ pc[Starter] = "send" => arg[Starter] \in started
  /\ InBuffer \cup Running \cup finished \subseteq started
  /\ started \subseteq Known

(* A worker has a job exactly while its Work function runs.                *)
Working ==
  \A w \in Workers :
    job[w] # None <=>
      pc[w] \in {"working", "addLock", "addStore", "addRelease"}

(* finishedTasks counts tasks that are finished.                           *)
Counting == \A i \in counted : i \in IDs => tasks[i] \in finished

(* After Wait has returned of its own accord every task is finished.       *)
AllDone == pc[Owner] = "returned" /\ ~cancelled => created \subseteq finished

Inv ==
  /\ TypeOK
  /\ Mutex
  /\ UsedIDs
  /\ Adding
  /\ NoTaskLost
  /\ Starting
  /\ HandedOnce
  /\ Working
  /\ Counting
  /\ AllDone

LEMMA InitInv == Init => Inv
<1> SUFFICES ASSUME Init PROVE Inv
  OBVIOUS
<1> USE ProcessAssumption DEF Init, Procs, Adders
<1>1. IDs = {} /\ Known = {}
  BY DEF IDs, Known
<1>2. Arriving = {}
  BY DEF Arriving
<1>3. InBuffer = {}
  BY DEF InBuffer
<1>4. Running = {} /\ InHand = {}
  BY DEF Running, InHand
<1>5. TypeOK
  <2>1. pc \in [Procs -> OwnerPC \cup StarterPC \cup WorkerPC]
    BY DEF OwnerPC, StarterPC, WorkerPC
  <2>2. /\ pc[Owner] \in OwnerPC
        /\ pc[Starter] \in StarterPC
        /\ \A w \in Workers : pc[w] \in WorkerPC
    BY DEF OwnerPC, StarterPC, WorkerPC
  <2>3. tasks \in [IDs -> Task]
    BY <1>1
  <2>4. chan \in Seq(Task)
    OBVIOUS
  <2> QED
    BY <1>1, <2>1, <2>2, <2>3, <2>4 DEF TypeOK
<1>6. Mutex /\ UsedIDs /\ NoTaskLost
  BY <1>1, <1>2 DEF Mutex, Critical, UsedIDs, NoTaskLost
<1>7. Adding /\ Starting /\ Working
  BY <1>1, <1>3, <1>4 DEF Adding, Starting, Working
<1>8. HandedOnce /\ Counting /\ AllDone
  BY <1>1, <1>3, <1>4 DEF HandedOnce, Counting, AllDone
<1> QED
  BY <1>5, <1>6, <1>7, <1>8 DEF Inv

-----------------------------------------------------------------------------
(* The derived sets change only with the variables they are derived from.  *)
LEMMA DerivedStable ==
  /\ tasks' = tasks => IDs' = IDs /\ Known' = Known
  /\ chan' = chan => InBuffer' = InBuffer
  /\ job' = job => Running' = Running
  /\ arg'[Starter] = arg[Starter] => InHand' = InHand
<1>1. tasks' = tasks => IDs' = IDs /\ Known' = Known
  BY DEF IDs, Known
<1>2. chan' = chan => InBuffer' = InBuffer
  BY DEF InBuffer
<1>3. job' = job => Running' = Running
  BY DEF Running
<1>4. arg'[Starter] = arg[Starter] => InHand' = InHand
  BY DEF InHand
<1> QED
  BY <1>1, <1>2, <1>3, <1>4

(* A step that hands no task on keeps HandedOnce.                          *)
LEMMA HandedStable ==
  ASSUME HandedOnce, chan' = chan, job' = job, finished' = finished,
         arg'[Starter] = arg[Starter]
  PROVE  HandedOnce'
<1>1. InBuffer' = InBuffer /\ Running' = Running /\ InHand' = InHand
  BY DerivedStable
<1> QED
  BY <1>1 DEF HandedOnce

(* The pc values at which a goroutine holds neither the semaphore nor a    *)
(* task.                                                                   *)
QuietPC == {"new", "ready", "waitLock", "waitSleep", "returned", "unborn",
            "lock", "sleep", "stopped", "boot", "blocked", "select"}

(* Timers, the first select, cancellation and stuttering move goroutines   *)
(* between such points and change nothing the invariant speaks of.         *)
LEMMA QuietStep ==
  ASSUME Inv, TypeOK',
         UNCHANGED <<sem, taskVars, arg, flagVars, chan, job, counted>>,
         \A p \in Procs : pc'[p] # pc[p] => {pc[p], pc'[p]} \subseteq QuietPC,
         pc'[Owner] = "returned" /\ ~cancelled' =>
           pc[Owner] = "returned" /\ ~cancelled
  PROVE  Inv'
<1> USE DEF QuietPC, taskVars, flagVars
<1> DEFINE ArrivingPC == {"addLock", "addStore"}
<1>0. /\ IDs' = IDs /\ Known' = Known
      /\ InBuffer' = InBuffer /\ Running' = Running
  BY DerivedStable
<1>1. Mutex'
  BY DEF Inv, Mutex, Critical
<1>2. UsedIDs'
  BY <1>0 DEF Inv, UsedIDs, Procs
<1>3. Adding'
  BY <1>0 DEF Inv, Adding, Procs
<1>4. NoTaskLost'
  <2>1. \A p \in Adders : pc'[p] \in ArrivingPC <=> pc[p] \in ArrivingPC
    BY DEF Procs
  <2>2. Arriving' = Arriving
    BY <2>1 DEF Arriving
  <2> QED
    BY <1>0, <2>2 DEF Inv, NoTaskLost
<1>5. Starting'
  BY <1>0 DEF Inv, Starting, Procs
<1>6. HandedOnce'
  BY HandedStable DEF Inv
<1>7. Working'
  BY DEF Inv, Working, Procs, Adders
<1>8. Counting'
  BY <1>0 DEF Inv, Counting
<1>9. AllDone'
  BY DEF Inv, AllDone
<1> QED
  BY <1>1, <1>2, <1>3, <1>4, <1>5, <1>6, <1>7, <1>8, <1>9 DEF Inv

(* Acquiring and releasing the semaphore, and moving tasks: one lemma per  *)
(* action, one step per conjunct of the invariant.                         *)

(* AddTask takes a task that was never allocated before.                   *)
LEMMA AddTaskStep ==
  ASSUME Inv, NEW p \in Adders, AddTask(p)
  PROVE  Inv'
<1> USE ProcessAssumption
        DEF AddTask, Goto, flagVars, poolVars, waitVars, AddIdle, Procs,
            Adders
<1>0. FreshTask \in Task \ created
  BY DEF Inv, TypeOK, FreshTask
<1>1. TypeOK'
  BY <1>0 DEF Inv, TypeOK, IDs, OwnerPC, StarterPC, WorkerPC
<1>2. Mutex'
  BY DEF Inv, TypeOK, Mutex, Critical
<1>3. UsedIDs'
  BY DEF Inv, TypeOK, UsedIDs, Mutex, Critical, IDs
<1>4. Adding'
  <2>1. Known' = Known /\ Known \subseteq created
    BY DerivedStable DEF Inv, NoTaskLost
  <2> QED
    BY <1>0, <2>1 DEF Inv, TypeOK, Adding
<1>5. NoTaskLost'
  BY <1>0 DEF Inv, TypeOK, Adding, NoTaskLost, Arriving, IDs, Known
<1>6. Starting'
  BY DEF Inv, TypeOK, Starting, InBuffer, Running, IDs, Known
<1>7. HandedOnce'
  BY HandedStable DEF Inv, TypeOK
<1>8. Working'
  BY DEF Inv, TypeOK, Working
<1>9. Counting'
  BY DEF Inv, TypeOK, Counting, IDs
<1>10. AllDone'
  <2> SUFFICES ASSUME pc[Owner] = "returned", ~cancelled, p \in Workers
               PROVE  FALSE
    BY DEF Inv, TypeOK, AllDone
  <2>1. job[p] \in Running
    BY DEF Inv, Working, Running
  <2>2. job[p] \in finished
    BY <2>1 DEF Inv, AllDone, Starting, NoTaskLost
  <2> QED
    BY <2>1, <2>2 DEF Inv, HandedOnce
<1> QED
  BY <1>1, <1>2, <1>3, <1>4, <1>5, <1>6, <1>7, <1>8, <1>9, <1>10
     DEF Inv

(* AddTask enters the critical section.                                    *)
LEMMA AddLockStep ==
  ASSUME Inv, NEW p \in Adders, AddLock(p)
  PROVE  Inv'
<1> USE ProcessAssumption
        DEF AddLock, Goto, Acquire, taskVars, flagVars, poolVars, waitVars, Procs,
            Adders
<1>1. TypeOK'
  BY DEF Inv, TypeOK, Adding, Starting, Working, IDs, Known, OwnerPC, StarterPC,
               WorkerPC
<1>2. Mutex'
  BY DEF Inv, TypeOK, Mutex, Critical
<1>3. UsedIDs'
  BY DEF Inv, TypeOK, UsedIDs, Mutex, Critical, IDs
<1>4. Adding'
  BY DEF Inv, TypeOK, Adding, IDs, Known
<1>5. NoTaskLost'
  BY DEF Inv, TypeOK, NoTaskLost, Arriving, IDs, Known
<1>6. Starting'
  BY DEF Inv, TypeOK, Starting, InBuffer, Running, IDs, Known
<1>7. HandedOnce'
  BY HandedStable DEF Inv, TypeOK
<1>8. Working'
  BY DEF Inv, TypeOK, Working
<1>9. Counting'
  BY DEF Inv, TypeOK, Counting, IDs
<1>10. AllDone'
  BY DEF Inv, TypeOK, AllDone
<1> QED
  BY <1>1, <1>2, <1>3, <1>4, <1>5, <1>6, <1>7, <1>8, <1>9, <1>10
     DEF Inv

(* The new entry does not overwrite one: TaskId is not in use.             *)
LEMMA AddStoreStep ==
  ASSUME Inv, NEW p \in Adders, AddStore(p)
  PROVE  Inv'
<1> USE ProcessAssumption
        DEF AddStore, Goto, flagVars, poolVars, waitVars, Procs,
            Adders
<1>a. taskId \notin IDs
  BY DEF Inv, TypeOK, UsedIDs, Mutex, Critical
<1>b. /\ IDs' = IDs \cup {taskId}
      /\ tasks'[taskId] = arg[p]
      /\ \A i \in IDs : tasks'[i] = tasks[i]
  BY <1>a DEF IDs
<1>c. Known' = Known \cup {arg[p]}
  BY <1>a, <1>b DEF Known
<1>d. arg[p] \in Task /\ arg[p] \notin Known
  BY DEF Inv, TypeOK, Adding
<1>e. Arriving = Arriving' \cup {arg[p]}
  BY DEF Inv, TypeOK, Arriving
<1>1. TypeOK'
  <2>1. tasks' \in [IDs' -> Task]
    BY <1>b, <1>d DEF Inv, TypeOK, IDs
  <2> QED
    BY <1>b, <2>1 DEF Inv, TypeOK, OwnerPC, StarterPC, WorkerPC
<1>2. Mutex'
  BY DEF Inv, TypeOK, Mutex, Critical
<1>3. UsedIDs'
  BY DEF Inv, TypeOK, UsedIDs, Mutex, Critical, IDs
<1>4. Adding'
  BY <1>c DEF Inv, TypeOK, Adding
<1>5. NoTaskLost'
  <2>1. created' = Known' \cup Arriving'
    BY <1>c, <1>e DEF Inv, NoTaskLost
  <2>2. \A i \in IDs : tasks[i] # arg[p]
    BY <1>d DEF Known
  <2> QED
    BY <1>b, <2>1, <2>2 DEF Inv, NoTaskLost
<1>6. Starting'
  <2>1. InBuffer' = InBuffer /\ Running' = Running
    BY DerivedStable
  <2> QED
    BY <1>c, <2>1 DEF Inv, TypeOK, Starting
<1>7. HandedOnce'
  BY HandedStable DEF Inv, TypeOK
<1>8. Working'
  BY DEF Inv, TypeOK, Working
<1>9. Counting'
  BY <1>a, <1>b DEF Inv, TypeOK, Counting
<1>10. AllDone'
  BY DEF Inv, TypeOK, AllDone
<1> QED
  BY <1>1, <1>2, <1>3, <1>4, <1>5, <1>6, <1>7, <1>8, <1>9, <1>10
     DEF Inv

(* TaskId moves past the entry just stored.                                *)
LEMMA AddReleaseStep ==
  ASSUME Inv, NEW p \in Adders, AddRelease(p)
  PROVE  Inv'
<1> USE ProcessAssumption
        DEF AddRelease, Goto, Release, flagVars, poolVars, waitVars, AddIdle, Procs,
            Adders
<1>1. TypeOK'
  BY DEF Inv, TypeOK, Adding, Starting, Working, IDs, Known, OwnerPC, StarterPC,
               WorkerPC
<1>2. Mutex'
  BY DEF Inv, TypeOK, Mutex, Critical
<1>3. UsedIDs'
  BY DEF Inv, TypeOK, UsedIDs, Mutex, Critical, IDs
<1>4. Adding'
  BY DEF Inv, TypeOK, Adding, IDs, Known
<1>5. NoTaskLost'
  BY DEF Inv, TypeOK, NoTaskLost, Arriving, IDs, Known
<1>6. Starting'
  BY DEF Inv, TypeOK, Starting, InBuffer, Running, IDs, Known
<1>7. HandedOnce'
  BY HandedStable DEF Inv, TypeOK
<1>8. Working'
  BY DEF Inv, TypeOK, Working
<1>9. Counting'
  BY DEF Inv, TypeOK, Counting, IDs
<1>10. AllDone'
  BY DEF Inv, TypeOK, AllDone
<1> QED
  BY <1>1, <1>2, <1>3, <1>4, <1>5, <1>6, <1>7, <1>8, <1>9, <1>10
     DEF Inv

(* Wait starts counting from nothing.                                      *)
LEMMA WaitLockStep ==
  ASSUME Inv, WaitLock
  PROVE  Inv'
<1> USE ProcessAssumption
        DEF WaitLock, Goto, Acquire, taskVars, flagVars, poolVars, Procs,
            Adders
<1>1. TypeOK'
  BY DEF Inv, TypeOK, Adding, Starting, Working, IDs, Known, OwnerPC, StarterPC,
               WorkerPC
<1>2. Mutex'
  BY DEF Inv, TypeOK, Mutex, Critical
<1>3. UsedIDs'
  BY DEF Inv, TypeOK, UsedIDs, Mutex, Critical, IDs
<1>4. Adding'
  BY DEF Inv, TypeOK, Adding, IDs, Known
<1>5. NoTaskLost'
  BY DEF Inv, TypeOK, NoTaskLost, Arriving, IDs, Known
<1>6. Starting'
  BY DEF Inv, TypeOK, Starting, InBuffer, Running, IDs, Known
<1>7. HandedOnce'
  BY HandedStable DEF Inv, TypeOK
<1>8. Working'
  BY DEF Inv, TypeOK, Working
<1>9. Counting'
  BY DEF Inv, TypeOK, Counting, IDs
<1>10. AllDone'
  BY DEF Inv, TypeOK, AllDone
<1> QED
  BY <1>1, <1>2, <1>3, <1>4, <1>5, <1>6, <1>7, <1>8, <1>9, <1>10
     DEF Inv

(* Wait counts a task only if its Finished is set.                         *)
LEMMA WaitVisitStep ==
  ASSUME Inv, NEW i \in toVisit, WaitVisit(i)
  PROVE  Inv'
<1> USE ProcessAssumption
        DEF WaitVisit, taskVars, flagVars, poolVars, Procs,
            Adders
<1>1. TypeOK'
  BY DEF Inv, TypeOK, Adding, Starting, Working, IDs, Known, OwnerPC, StarterPC,
               WorkerPC
<1>2. Mutex'
  BY DEF Inv, TypeOK, Mutex, Critical
<1>3. UsedIDs'
  BY DEF Inv, TypeOK, UsedIDs, Mutex, Critical, IDs
<1>4. Adding'
  BY DEF Inv, TypeOK, Adding, IDs, Known
<1>5. NoTaskLost'
  BY DEF Inv, TypeOK, NoTaskLost, Arriving, IDs, Known
<1>6. Starting'
  BY DEF Inv, TypeOK, Starting, InBuffer, Running, IDs, Known
<1>7. HandedOnce'
  BY HandedStable DEF Inv, TypeOK
<1>8. Working'
  BY DEF Inv, TypeOK, Working
<1>9. Counting'
  BY DEF Inv, TypeOK, Counting, IDs
<1>10. AllDone'
  BY DEF Inv, TypeOK, AllDone
<1> QED
  BY <1>1, <1>2, <1>3, <1>4, <1>5, <1>6, <1>7, <1>8, <1>9, <1>10
     DEF Inv

(* If Wait counted every entry of the map, no AddTask call is under way:   *)
(* its caller would be an unfinished task of the map.                      *)
LEMMA WaitDecideStep ==
  ASSUME Inv, WaitDecide
  PROVE  Inv'
<1> USE ProcessAssumption
        DEF WaitDecide, Goto, Release, taskVars, flagVars, poolVars, waitVars, Procs,
            Adders
<1>1. TypeOK'
  BY DEF Inv, TypeOK, Adding, Starting, Working, IDs, Known, OwnerPC, StarterPC,
               WorkerPC
<1>2. Mutex'
  BY DEF Inv, TypeOK, Mutex, Critical
<1>3. UsedIDs'
  BY DEF Inv, TypeOK, UsedIDs, Mutex, Critical, IDs
<1>4. Adding'
  BY DEF Inv, TypeOK, Adding, IDs, Known
<1>5. NoTaskLost'
  BY DEF Inv, TypeOK, NoTaskLost, Arriving, IDs, Known
<1>6. Starting'
  BY DEF Inv, TypeOK, Starting, InBuffer, Running, IDs, Known
<1>7. HandedOnce'
  BY HandedStable DEF Inv, TypeOK
<1>8. Working'
  BY DEF Inv, TypeOK, Working
<1>9. Counting'
  BY DEF Inv, TypeOK, Counting, IDs
<1>10. AllDone'
  <2> SUFFICES ASSUME counted = IDs PROVE created \subseteq finished
    BY DEF Inv, TypeOK, AllDone
  <2>1. Known \subseteq finished
    BY DEF Inv, Counting, Known
  <2>2. Running = {}
    BY <2>1 DEF Inv, Starting, HandedOnce
  <2>3. \A w \in Workers : job[w] = None
    BY <2>2 DEF Running
  <2>4. Arriving = {}
    BY <2>3 DEF Inv, Working, Arriving
  <2> QED
    BY <2>1, <2>4 DEF Inv, NoTaskLost
<1> QED
  BY <1>1, <1>2, <1>3, <1>4, <1>5, <1>6, <1>7, <1>8, <1>9, <1>10
     DEF Inv

(* TaskStarter enters the critical section.                                *)
LEMMA StarterLockStep ==
  ASSUME Inv, StarterLock
  PROVE  Inv'
<1> USE ProcessAssumption
        DEF StarterLock, Goto, Acquire, taskVars, flagVars, poolVars, waitVars, Procs,
            Adders
<1>1. TypeOK'
  BY DEF Inv, TypeOK, Adding, Starting, Working, IDs, Known, OwnerPC, StarterPC,
               WorkerPC
<1>2. Mutex'
  BY DEF Inv, TypeOK, Mutex, Critical
<1>3. UsedIDs'
  BY DEF Inv, TypeOK, UsedIDs, Mutex, Critical, IDs
<1>4. Adding'
  BY DEF Inv, TypeOK, Adding, IDs, Known
<1>5. NoTaskLost'
  BY DEF Inv, TypeOK, NoTaskLost, Arriving, IDs, Known
<1>6. Starting'
  BY DEF Inv, TypeOK, Starting, InBuffer, Running, IDs, Known
<1>7. HandedOnce'
  BY HandedStable DEF Inv, TypeOK
<1>8. Working'
  BY DEF Inv, TypeOK, Working
<1>9. Counting'
  BY DEF Inv, TypeOK, Counting, IDs
<1>10. AllDone'
  BY DEF Inv, TypeOK, AllDone
<1> QED
  BY <1>1, <1>2, <1>3, <1>4, <1>5, <1>6, <1>7, <1>8, <1>9, <1>10
     DEF Inv

(* The task found is in nobody else's hands: all of those are Started.     *)
LEMMA ScanFoundStep ==
  ASSUME Inv, ScanFound
  PROVE  Inv'
<1> USE ProcessAssumption
        DEF ScanFound, Goto, Release, taskVars, flagVars, poolVars, waitVars, Procs,
            Adders
<1>1. TypeOK'
  BY DEF Inv, TypeOK, Adding, Starting, Working, IDs, Known, OwnerPC, StarterPC,
               WorkerPC
<1>2. Mutex'
  BY DEF Inv, TypeOK, Mutex, Critical
<1>3. UsedIDs'
  BY DEF Inv, TypeOK, UsedIDs, Mutex, Critical, IDs
<1>4. Adding'
  BY DEF Inv, TypeOK, Adding, IDs, Known
<1>5. NoTaskLost'
  BY DEF Inv, TypeOK, NoTaskLost, Arriving, IDs, Known
<1>6. Starting'
  BY DEF Inv, TypeOK, Starting, InBuffer, Running, IDs, Known
<1>7. HandedOnce'
  <2>1. InBuffer' = InBuffer /\ Running' = Running
    BY DerivedStable
  <2>2. InHand' \cap started = {}
    BY DEF Inv, TypeOK, InHand
  <2> QED
    BY <2>1, <2>2 DEF Inv, Starting, HandedOnce
<1>8. Working'
  BY DEF Inv, TypeOK, Working
<1>9. Counting'
  BY DEF Inv, TypeOK, Counting, IDs
<1>10. AllDone'
  BY DEF Inv, TypeOK, AllDone
<1> QED
  BY <1>1, <1>2, <1>3, <1>4, <1>5, <1>6, <1>7, <1>8, <1>9, <1>10
     DEF Inv

(* TaskStarter leaves the critical section with nothing.                   *)
LEMMA ScanNothingStep ==
  ASSUME Inv, ScanNothing
  PROVE  Inv'
<1> USE ProcessAssumption
        DEF ScanNothing, Goto, Release, taskVars, flagVars, poolVars, waitVars, Procs,
            Adders
<1>1. TypeOK'
  BY DEF Inv, TypeOK, Adding, Starting, Working, IDs, Known, OwnerPC, StarterPC,
               WorkerPC
<1>2. Mutex'
  BY DEF Inv, TypeOK, Mutex, Critical
<1>3. UsedIDs'
  BY DEF Inv, TypeOK, UsedIDs, Mutex, Critical, IDs
<1>4. Adding'
  BY DEF Inv, TypeOK, Adding, IDs, Known
<1>5. NoTaskLost'
  BY DEF Inv, TypeOK, NoTaskLost, Arriving, IDs, Known
<1>6. Starting'
  BY DEF Inv, TypeOK, Starting, InBuffer, Running, IDs, Known
<1>7. HandedOnce'
  BY HandedStable DEF Inv, TypeOK
<1>8. Working'
  BY DEF Inv, TypeOK, Working
<1>9. Counting'
  BY DEF Inv, TypeOK, Counting, IDs
<1>10. AllDone'
  BY DEF Inv, TypeOK, AllDone
<1> QED
  BY <1>1, <1>2, <1>3, <1>4, <1>5, <1>6, <1>7, <1>8, <1>9, <1>10
     DEF Inv

(* The task in hand becomes Started.                                       *)
LEMMA PoolMarkStep ==
  ASSUME Inv, PoolMark
  PROVE  Inv'
<1> USE ProcessAssumption
        DEF PoolMark, Goto, taskVars, poolVars, waitVars, Procs,
            Adders
<1>1. TypeOK'
  BY DEF Inv, TypeOK, Adding, Starting, Working, IDs, Known, OwnerPC, StarterPC,
               WorkerPC
<1>2. Mutex'
  BY DEF Inv, TypeOK, Mutex, Critical
<1>3. UsedIDs'
  BY DEF Inv, TypeOK, UsedIDs, Mutex, Critical, IDs
<1>4. Adding'
  BY DEF Inv, TypeOK, Adding, IDs, Known
<1>5. NoTaskLost'
  BY DEF Inv, TypeOK, NoTaskLost, Arriving, IDs, Known
<1>6. Starting'
  BY DEF Inv, TypeOK, Starting, InBuffer, Running, IDs, Known
<1>7. HandedOnce'
  BY HandedStable DEF Inv, TypeOK
<1>8. Working'
  BY DEF Inv, TypeOK, Working
<1>9. Counting'
  BY DEF Inv, TypeOK, Counting, IDs
<1>10. AllDone'
  BY DEF Inv, TypeOK, AllDone
<1> QED
  BY <1>1, <1>2, <1>3, <1>4, <1>5, <1>6, <1>7, <1>8, <1>9, <1>10
     DEF Inv

(* The task in hand moves to the channel.                                  *)
LEMMA PoolSendStep ==
  ASSUME Inv, PoolSend
  PROVE  Inv'
<1> USE ProcessAssumption
        DEF PoolSend, Goto, taskVars, flagVars, waitVars, Procs,
            Adders
<1>a. /\ arg[Starter] \in Task
      /\ arg[Starter] \in InHand
      /\ arg[Starter] \notin InBuffer
  BY DEF Inv, TypeOK, Starting, HandedOnce, InHand
<1>b. NoDuplicates(chan) /\ InBuffer = Elements(chan)
  BY DEF Inv, HandedOnce, NoDuplicates, InBuffer, Elements
<1>c. /\ chan' \in Seq(Task)
      /\ InBuffer' = InBuffer \cup {arg[Starter]}
      /\ NoDuplicates(chan')
  <2>1. chan \in Seq(Task)
    BY DEF Inv, TypeOK
  <2>2. InBuffer' = Elements(chan')
    BY DEF InBuffer, Elements
  <2> QED
    BY <1>a, <1>b, <2>1, <2>2, AppendElements
<1>1. TypeOK'
  BY <1>c DEF Inv, TypeOK, IDs, OwnerPC, StarterPC, WorkerPC
<1>2. Mutex'
  BY DEF Inv, TypeOK, Mutex, Critical
<1>3. UsedIDs'
  BY DEF Inv, TypeOK, UsedIDs, Mutex, Critical, IDs
<1>4. Adding'
  BY DEF Inv, TypeOK, Adding, IDs, Known
<1>5. NoTaskLost'
  BY DEF Inv, TypeOK, NoTaskLost, Arriving, IDs, Known
<1>6. Starting'
  BY <1>c, DerivedStable DEF Inv, TypeOK, Starting
<1>7. HandedOnce'
  <2>1. Running' = Running /\ InHand' = {}
    BY DerivedStable DEF Inv, TypeOK, InHand
  <2> QED
    BY <1>a, <1>c, <2>1 DEF Inv, HandedOnce, NoDuplicates
<1>8. Working'
  BY DEF Inv, TypeOK, Working
<1>9. Counting'
  BY DEF Inv, TypeOK, Counting, IDs
<1>10. AllDone'
  BY DEF Inv, TypeOK, AllDone
<1> QED
  BY <1>1, <1>2, <1>3, <1>4, <1>5, <1>6, <1>7, <1>8, <1>9, <1>10
     DEF Inv

(* A task moves from the channel to a worker.                              *)
LEMMA ReceiveStep ==
  ASSUME Inv, NEW w \in Workers, Receive(w)
  PROVE  Inv'
<1> USE ProcessAssumption
        DEF Receive, Goto, taskVars, flagVars, waitVars, Procs,
            Adders
<1>a. NoDuplicates(chan) /\ InBuffer = Elements(chan)
  BY DEF Inv, HandedOnce, NoDuplicates, InBuffer, Elements
<1>b. /\ chan' \in Seq(Task)
      /\ Head(chan) \in Task
      /\ Head(chan) \in InBuffer
      /\ InBuffer' = InBuffer \ {Head(chan)}
      /\ NoDuplicates(chan')
  <2>1. chan \in Seq(Task)
    BY DEF Inv, TypeOK
  <2>2. InBuffer' = Elements(chan')
    BY DEF InBuffer, Elements
  <2> QED
    BY <1>a, <2>1, <2>2, TailElements
<1>c. Running' = Running \cup {Head(chan)}
  BY <1>b DEF Inv, TypeOK, Working, Running
<1>1. TypeOK'
  BY <1>b DEF Inv, TypeOK, IDs, OwnerPC, StarterPC, WorkerPC
<1>2. Mutex'
  BY DEF Inv, TypeOK, Mutex, Critical
<1>3. UsedIDs'
  BY DEF Inv, TypeOK, UsedIDs, Mutex, Critical, IDs
<1>4. Adding'
  BY DEF Inv, TypeOK, Adding, IDs, Known
<1>5. NoTaskLost'
  <2>1. \A q \in Adders : pc'[q] \in {"addLock", "addStore"}
                             <=> pc[q] \in {"addLock", "addStore"}
    BY DEF Inv, TypeOK
  <2>2. Arriving' = Arriving
    BY <2>1 DEF Arriving
  <2> QED
    BY <2>2, DerivedStable DEF Inv, NoTaskLost
<1>6. Starting'
  BY <1>b, <1>c, DerivedStable DEF Inv, TypeOK, Starting
<1>7. HandedOnce'
  <2>1. InHand' = InHand
    BY DerivedStable
  <2>2. \A v \in Workers : job[v] # Head(chan)
    BY <1>b DEF Inv, HandedOnce, Running
  <2>3. \A u, v \in Workers : job'[u] = job'[v] /\ job'[u] # None => u = v
    BY <2>2 DEF Inv, TypeOK, HandedOnce
  <2> QED
    BY <1>b, <1>c, <2>1, <2>3 DEF Inv, HandedOnce, NoDuplicates
<1>8. Working'
  BY DEF Inv, TypeOK, Working
<1>9. Counting'
  BY DEF Inv, TypeOK, Counting, IDs
<1>10. AllDone'
  BY DEF Inv, TypeOK, AllDone
<1> QED
  BY <1>1, <1>2, <1>3, <1>4, <1>5, <1>6, <1>7, <1>8, <1>9, <1>10
     DEF Inv

(* A task moves from a worker to the finished ones.                        *)
LEMMA FinishStep ==
  ASSUME Inv, NEW w \in Workers, Finish(w)
  PROVE  Inv'
<1> USE ProcessAssumption
        DEF Finish, Goto, taskVars, waitVars, Procs,
            Adders
<1>a. job[w] \in Task /\ job[w] \in Running
  BY DEF Inv, TypeOK, Working, Running
<1>b. Running' = Running \ {job[w]}
  BY DEF Inv, TypeOK, HandedOnce, Running
<1>1. TypeOK'
  BY <1>a DEF Inv, TypeOK, IDs, OwnerPC, StarterPC, WorkerPC
<1>2. Mutex'
  BY DEF Inv, TypeOK, Mutex, Critical
<1>3. UsedIDs'
  BY DEF Inv, TypeOK, UsedIDs, Mutex, Critical, IDs
<1>4. Adding'
  BY DEF Inv, TypeOK, Adding, IDs, Known
<1>5. NoTaskLost'
  <2>1. \A q \in Adders : pc'[q] \in {"addLock", "addStore"}
                             <=> pc[q] \in {"addLock", "addStore"}
    BY DEF Inv, TypeOK
  <2>2. Arriving' = Arriving
    BY <2>1 DEF Arriving
  <2> QED
    BY <2>2, DerivedStable DEF Inv, NoTaskLost
<1>6. Starting'
  BY <1>a, <1>b, DerivedStable DEF Inv, TypeOK, Starting
<1>7. HandedOnce'
  <2>1. InHand' = InHand /\ InBuffer' = InBuffer
    BY DerivedStable
  <2>2. \A u, v \in Workers : job'[u] = job'[v] /\ job'[u] # None => u = v
    BY DEF Inv, TypeOK, HandedOnce
  <2> QED
    BY <1>a, <1>b, <2>1, <2>2 DEF Inv, HandedOnce
<1>8. Working'
  BY DEF Inv, TypeOK, Working
<1>9. Counting'
  BY DEF Inv, TypeOK, Counting, IDs
<1>10. AllDone'
  BY DEF Inv, TypeOK, AllDone
<1> QED
  BY <1>1, <1>2, <1>3, <1>4, <1>5, <1>6, <1>7, <1>8, <1>9, <1>10
     DEF Inv

-----------------------------------------------------------------------------
(* Every step keeps the invariant: the goroutines' moves between quiet     *)
(* points by QuietStep, the others by their own lemma.                     *)
LEMMA NextInv == Inv /\ [NextOrCancel]_vars => Inv'
<1> SUFFICES ASSUME Inv, [NextOrCancel]_vars PROVE Inv'
  OBVIOUS
<1> USE ProcessAssumption
<1>1. CASE New
  <2>1. TypeOK'
    BY <1>1 DEF New, Goto, taskVars, flagVars, waitVars, Inv, TypeOK, Procs,
                Adders, OwnerPC, StarterPC, WorkerPC, IDs
  <2> QED
    BY <1>1, <2>1, QuietStep
       DEF New, Goto, taskVars, flagVars, waitVars, Inv, TypeOK, Procs,
           QuietPC
<1>2. CASE LaunchStarter \/ StarterTimer \/ StarterStop
  <2>1. TypeOK'
    BY <1>2 DEF LaunchStarter, StarterTimer, StarterStop, Goto, taskVars,
                flagVars, poolVars, waitVars, Inv, TypeOK, Procs, Adders,
                OwnerPC, StarterPC, WorkerPC, IDs
  <2> QED
    BY <1>2, <2>1, QuietStep
       DEF LaunchStarter, StarterTimer, StarterStop, Goto, taskVars, flagVars,
           poolVars, waitVars, Inv, TypeOK, Procs, Adders, QuietPC
<1>3. CASE WaitCall \/ WaitTimer \/ WaitCancelled
  <2>1. TypeOK'
    BY <1>3 DEF WaitCall, WaitTimer, WaitCancelled, Goto, taskVars, flagVars,
                poolVars, waitVars, Inv, TypeOK, Procs, Adders, OwnerPC,
                StarterPC, WorkerPC, IDs
  <2> QED
    BY <1>3, <2>1, QuietStep
       DEF WaitCall, WaitTimer, WaitCancelled, Goto, taskVars, flagVars,
           poolVars, waitVars, Inv, TypeOK, Procs, Adders, QuietPC
<1>4. CASE \E w \in Workers : FirstSelect(w) \/ WorkerStop(w)
  <2>1. TypeOK'
    BY <1>4 DEF FirstSelect, WorkerStop, Goto, taskVars, flagVars, poolVars,
                waitVars, Inv, TypeOK, Procs, Adders, OwnerPC, StarterPC,
                WorkerPC, IDs
  <2> QED
    BY <1>4, <2>1, QuietStep
       DEF FirstSelect, WorkerStop, Goto, taskVars, flagVars, poolVars,
           waitVars, Inv, TypeOK, Procs, Adders, QuietPC
<1>5. CASE Cancel \/ UNCHANGED vars
  <2>1. TypeOK'
    BY <1>5 DEF Cancel, vars, taskVars, flagVars, poolVars, waitVars, Inv,
                TypeOK, IDs
  <2> QED
    BY <1>5, <2>1, QuietStep
       DEF Cancel, vars, taskVars, flagVars, poolVars, waitVars, Inv
<1>6. CASE \E p \in Adders : AddStep(p)
  BY <1>6, AddTaskStep, AddLockStep, AddStoreStep, AddReleaseStep DEF AddStep
<1>7. CASE WaitLock \/ (\E i \in toVisit : WaitVisit(i)) \/ WaitDecide
  BY <1>7, WaitLockStep, WaitVisitStep, WaitDecideStep
<1>8. CASE StarterLock \/ ScanFound \/ ScanNothing \/ PoolMark \/ PoolSend
  BY <1>8, StarterLockStep, ScanFoundStep, ScanNothingStep, PoolMarkStep,
     PoolSendStep
<1>9. CASE \E w \in Workers : Receive(w) \/ Finish(w)
  BY <1>9, ReceiveStep, FinishStep
<1> QED
  BY <1>1, <1>2, <1>3, <1>4, <1>5, <1>6, <1>7, <1>8, <1>9
     DEF NextOrCancel, Next, WaitStep, StarterStep, WorkerStep

(* When Wait has returned of its own accord, nothing can be left in the    *)
(* channel, in a worker or in an AddTask call: those tasks are allocated   *)
(* and not finished.                                                       *)
LEMMA InvWaitSound == Inv => WaitSound
<1> SUFFICES ASSUME Inv, pc[Owner] = "returned", ~cancelled
             PROVE  /\ created \subseteq finished
                    /\ InBuffer \cup Running \cup InHand \cup Arriving = {}
  BY DEF WaitSound
<1>1. created \subseteq finished
  BY DEF Inv, AllDone
<1>2. started \subseteq finished /\ Known \subseteq finished
  BY <1>1 DEF Inv, Starting, NoTaskLost
<1>3. InBuffer = {} /\ Running = {}
  BY <1>2 DEF Inv, Starting, HandedOnce
<1>4. InHand = {}
  <2>1. arg[Starter] # None => arg[Starter] \in Known
    BY DEF Inv, TypeOK, Starting
  <2> QED
    BY <1>2, <2>1 DEF Inv, HandedOnce, InHand
<1>5. Arriving = {}
  <2>1. \A w \in Workers : job[w] = None
    BY <1>3 DEF Running
  <2>2. \A w \in Workers : pc[w] \notin {"addLock", "addStore"}
    BY <2>1 DEF Inv, Working
  <2> QED
    BY <2>2 DEF Arriving, Adders
<1> QED
  BY <1>1, <1>3, <1>4, <1>5

LEMMA Invariance == CancelSpec => []Inv
BY InitInv, NextInv, PTL DEF CancelSpec

-----------------------------------------------------------------------------
(* The state of the orchestrator is well-typed: in particular nothing but  *)
(* tasks is sent to the workers, and TaskId is a natural number.           *)
THEOREM TypeCorrect == CancelSpec => []TypeOK
<1>1. Inv => TypeOK
  BY DEF Inv
<1> QED
  BY <1>1, Invariance, PTL

(* Concurrent AddTask calls, from the owner and from any number of         *)
(* workers, never overwrite an entry of the map.                           *)
THEOREM NothingIsLost == CancelSpec => []NoTaskLost
<1>1. Inv => NoTaskLost
  BY DEF Inv
<1> QED
  BY <1>1, Invariance, PTL

(* No task is sent to the channel twice or run by two workers, although    *)
(* Started is read and written without a common lock.                      *)
THEOREM NothingRunsTwice == CancelSpec => []HandedOnce
<1>1. Inv => HandedOnce
  BY DEF Inv
<1> QED
  BY <1>1, Invariance, PTL

(* Wait detects termination: unless the context was cancelled, it returns  *)
(* only when every task ever allocated has finished.                       *)
THEOREM WaitIsSound == CancelSpec => []WaitSound
BY Invariance, InvWaitSound, PTL

-----------------------------------------------------------------------------
(* Back-pressure: the tasks under way are each in TaskStarter's hand, in   *)
(* the buffer or at a worker, and the buffer never outgrows its capacity.  *)
UnderWay ==
  /\ started \subseteq InHand \cup InBuffer \cup Running \cup finished
  /\ Len(chan) <= NumWorkers

(* A step that hands no task on keeps every task where it is.              *)
LEMMA UnderWayStable ==
  ASSUME UnderWay, chan' = chan, job' = job, started' = started, finished' = finished,
         arg'[Starter] = arg[Starter] \/ arg[Starter] = None
  PROVE  UnderWay'
<1>1. InBuffer' = InBuffer /\ Running' = Running
  BY DerivedStable
<1>2. InHand \subseteq InHand'
  BY DEF InHand
<1> QED
  BY <1>1, <1>2 DEF UnderWay, NumWorkers

(* A worker that takes a task takes the head of the buffer.                *)
LEMMA ReceiveUnderWay ==
  ASSUME Inv, UnderWay, NEW w \in Workers, Receive(w)
  PROVE  UnderWay'
<1> USE DEF Receive, Goto, taskVars, flagVars
<1>1. chan \in Seq(Task) /\ chan # <<>> /\ NoDuplicates(chan)
  BY DEF Inv, TypeOK, HandedOnce, NoDuplicates
<1>2. /\ InBuffer' = InBuffer \ {Head(chan)}
      /\ Head(chan) \in Task
      /\ Len(chan') <= Len(chan)
      /\ Len(chan') \in Nat /\ Len(chan) \in Nat
  <2>1. Elements(Tail(chan)) = Elements(chan) \ {Head(chan)} /\ Head(chan) \in Task
    BY <1>1, TailElements
  <2>2. InBuffer = Elements(chan) /\ InBuffer' = Elements(Tail(chan))
    BY DEF InBuffer, Elements
  <2>3. Len(chan') = Len(chan) - 1 /\ Len(chan) \in Nat \ {0}
    BY <1>1
  <2> QED
    BY <2>1, <2>2, <2>3
<1>3. Running \cup {Head(chan)} \subseteq Running'
  <2>1. job' = [job EXCEPT ![w] = Head(chan)] /\ job \in [Workers -> Task \cup {None}]
    BY DEF Inv, TypeOK
  <2>2. job[w] = None
    BY DEF Inv, Working
  <2>3. Head(chan) # None
    BY <1>2, ProcessAssumption
  <2>4. Head(chan) \in Running'
    BY <2>1, <2>3 DEF Running
  <2>5. ASSUME NEW v \in Workers, job[v] # None
        PROVE  job[v] \in Running'
    <3>1. job'[v] = job[v]
      BY <2>1, <2>2, <2>5
    <3> QED
      BY <2>5, <3>1 DEF Running
  <2> QED
    BY <2>4, <2>5 DEF Running
<1>4. InHand' = InHand /\ started' = started /\ finished' = finished
  BY DEF InHand
<1>5. Len(chan') <= NumWorkers'
  <2>1. NumWorkers \in Nat
    BY FinitePool, FS_CardinalityType DEF NumWorkers
  <2> QED
    BY <1>2, <2>1 DEF UnderWay, NumWorkers
<1> QED
  BY <1>2, <1>3, <1>4, <1>5 DEF UnderWay

(* A worker that returns from a task has finished it.                      *)
LEMMA FinishUnderWay ==
  ASSUME Inv, UnderWay, NEW w \in Workers, Finish(w)
  PROVE  UnderWay'
<1> USE DEF Finish, Goto, taskVars
<1>1. Running \subseteq Running' \cup finished'
  <2> SUFFICES ASSUME NEW v \in Workers, job[v] # None, v # w
               PROVE  job[v] \in Running'
    BY DEF Running
  <2>1. job'[v] = job[v]
    BY DEF Inv, TypeOK
  <2> QED
    BY <2>1 DEF Running
<1>2. InHand' = InHand /\ InBuffer' = InBuffer /\ started' = started
  BY DEF InHand, InBuffer
<1> QED
  BY <1>1, <1>2 DEF UnderWay, NumWorkers

(* Only TaskStarter adds to the buffer, and only below its capacity.       *)
LEMMA UnderWayNext == Inv /\ UnderWay /\ [NextOrCancel]_vars => UnderWay'
<1> SUFFICES ASSUME Inv, UnderWay, [NextOrCancel]_vars PROVE UnderWay'
  OBVIOUS
<1> USE ProcessAssumption
<1>1. CASE PoolMark
  <2>1. started' = started \cup {arg[Starter]} /\ arg' = arg /\ arg[Starter] # None
    BY <1>1 DEF PoolMark, Goto, Inv, Starting
  <2>2. /\ InBuffer' = InBuffer /\ Running' = Running /\ InHand' = InHand
        /\ finished' = finished /\ chan' = chan
    BY <1>1, DerivedStable DEF PoolMark, poolVars
  <2> QED
    BY <2>1, <2>2 DEF UnderWay, InHand, NumWorkers
<1>2. CASE PoolSend
  <2>1. /\ arg[Starter] \in Task /\ arg[Starter] # None
        /\ chan \in Seq(Task) /\ chan' = Append(chan, arg[Starter])
        /\ Len(chan) < NumWorkers
        /\ UNCHANGED <<job, started, finished>>
    BY <1>2 DEF PoolSend, Goto, flagVars, Inv, TypeOK, Starting
  <2>2. InBuffer' = InBuffer \cup {arg[Starter]}
    BY <2>1, AppendElements DEF InBuffer, Elements
  <2>3. Running' = Running /\ InHand \subseteq {arg[Starter]}
    BY <2>1 DEF Running, InHand
  <2>4. Len(chan') <= NumWorkers'
    <3>1. NumWorkers \in Nat
      BY FinitePool, FS_CardinalityType DEF NumWorkers
    <3>2. Len(chan') = Len(chan) + 1 /\ Len(chan) \in Nat
      BY <2>1
    <3> QED
      BY <2>1, <3>1, <3>2 DEF NumWorkers
  <2> QED
    BY <2>1, <2>2, <2>3, <2>4 DEF UnderWay
<1>3. CASE ScanFound
  <2>1. arg[Starter] = None
    BY <1>3 DEF ScanFound, Goto, Inv, Starting
  <2> QED
    BY <1>3, <2>1, UnderWayStable DEF ScanFound, flagVars, poolVars
<1>4. CASE New \/ LaunchStarter \/ StarterLock \/ ScanNothing \/ StarterTimer \/ StarterStop
           \/ WaitStep
  BY <1>4, UnderWayStable
     DEF New, LaunchStarter, StarterLock, ScanNothing, StarterTimer, StarterStop, WaitStep,
         WaitCall, WaitLock, WaitVisit, WaitDecide, WaitTimer, WaitCancelled, flagVars, poolVars
<1>5. CASE \E p \in Adders : AddStep(p)
  <2> PICK p \in Adders : AddStep(p)
    BY <1>5
  <2>1. UNCHANGED <<flagVars, poolVars>>
    BY DEF AddStep, AddTask, AddLock, AddStore, AddRelease
  <2>2. arg'[Starter] = arg[Starter]
    BY DEF AddStep, AddTask, AddLock, AddStore, AddRelease, Adders, Procs, Inv, TypeOK, Adding
  <2> QED
    BY <2>1, <2>2, UnderWayStable DEF flagVars, poolVars
<1>6. CASE \E w \in Workers : WorkerStep(w)
  <2> PICK w \in Workers : WorkerStep(w)
    BY <1>6
  <2>1. CASE FirstSelect(w) \/ WorkerStop(w)
    BY <2>1, UnderWayStable DEF FirstSelect, WorkerStop, flagVars, poolVars
  <2> QED
    BY <2>1, ReceiveUnderWay, FinishUnderWay DEF WorkerStep
<1>7. CASE Cancel \/ UNCHANGED vars
  BY <1>7, UnderWayStable DEF Cancel, vars, flagVars, poolVars
<1> QED
  BY <1>1, <1>2, <1>3, <1>4, <1>5, <1>6, <1>7 DEF NextOrCancel, Next, StarterStep

(* What is where is counted: one task in hand, one per slot of the buffer, *)
(* and one per worker that is past its first select.                       *)
LEMMA UnderWayBound == Inv /\ UnderWay => Backpressure
<1> SUFFICES ASSUME Inv, UnderWay PROVE Backpressure
  OBVIOUS
<1> DEFINE Free == {w \in Workers : pc[w] # "blocked"}
           Busy == {w \in Workers : job[w] # None}
           N == Len(chan)
<1>1. IsFiniteSet(Free) /\ Cardinality(Free) \in Nat
  BY FinitePool, FS_Subset, FS_CardinalityType
<1>2. /\ IsFiniteSet(Running) /\ Cardinality(Running) \in Nat
      /\ Cardinality(Running) <= Cardinality(Free)
  <2>1. Busy \subseteq Free
    BY DEF Inv, Working
  <2>2. /\ IsFiniteSet(Busy) /\ Cardinality(Busy) <= Cardinality(Free)
        /\ Cardinality(Busy) \in Nat
    BY <1>1, <2>1, FS_Subset, FS_CardinalityType
  <2> DEFINE f == [w \in Busy |-> job[w]]
  <2>3. f \in Surjection(Busy, Running)
    BY DEF Surjection, Running
  <2>4. IsFiniteSet(Running) /\ Cardinality(Running) <= Cardinality(Busy)
    BY <2>2, <2>3, FS_Surjection
  <2> HIDE DEF Busy, Free
  <2> QED
    BY <1>1, <2>2, <2>4, FS_CardinalityType
<1>3. /\ IsFiniteSet(InBuffer) /\ Cardinality(InBuffer) \in Nat
      /\ Cardinality(InBuffer) <= N /\ N \in Nat
  <2>1. chan \in Seq(Task) /\ N \in Nat /\ DOMAIN chan = 1..N
    BY DEF Inv, TypeOK
  <2>2. chan \in Surjection(1..N, InBuffer)
    BY <2>1 DEF Surjection, InBuffer
  <2>3. IsFiniteSet(1..N) /\ Cardinality(1..N) = N
    BY <2>1, FS_Interval
  <2>4. IsFiniteSet(InBuffer) /\ Cardinality(InBuffer) <= Cardinality(1..N)
    BY <2>2, <2>3, FS_Surjection
  <2> HIDE DEF N
  <2> QED
    BY <2>1, <2>3, <2>4, FS_CardinalityType
<1>4. /\ IsFiniteSet(InHand) /\ Cardinality(InHand) \in Nat
      /\ Cardinality(InHand) <= 1
  <2>1. InHand \in SUBSET {arg[Starter]}
    BY DEF InHand
  <2>2. IsFiniteSet({arg[Starter]}) /\ Cardinality({arg[Starter]}) = 1
    BY FS_Singleton
  <2>3. IsFiniteSet(InHand) /\ Cardinality(InHand) <= Cardinality({arg[Starter]})
    BY <2>1, <2>2, FS_Subset
  <2> QED
    BY <2>2, <2>3, FS_CardinalityType
<1>5. N <= NumWorkers /\ NumWorkers \in Nat
  BY FinitePool, FS_CardinalityType DEF UnderWay, NumWorkers
<1> DEFINE Two == InHand \cup InBuffer
           Three == Two \cup Running
<1>6. /\ IsFiniteSet(Two) /\ Cardinality(Two) \in Nat
      /\ Cardinality(Two) <= N + 1
  <2>1. /\ IsFiniteSet(Two)
        /\ Cardinality(Two) =
             Cardinality(InHand) + Cardinality(InBuffer) - Cardinality(InHand \cap InBuffer)
    BY <1>3, <1>4, FS_Union
  <2>2. Cardinality(InHand \cap InBuffer) \in Nat
    BY <1>3, FS_Intersection, FS_CardinalityType
  <2> HIDE DEF N, Two
  <2> QED
    BY <1>3, <1>4, <2>1, <2>2, FS_CardinalityType
<1>7. /\ IsFiniteSet(Three) /\ Cardinality(Three) \in Nat
      /\ Cardinality(Three) <= N + 1 + Cardinality(Free)
  <2> HIDE DEF N, Two, Free
  <2>1. /\ IsFiniteSet(Three)
        /\ Cardinality(Three) =
             Cardinality(Two) + Cardinality(Running) - Cardinality(Two \cap Running)
    BY <1>2, <1>6, FS_Union
  <2>2. Cardinality(Two \cap Running) \in Nat
    BY <1>6, FS_Intersection, FS_CardinalityType
  <2>3. Cardinality(Three) \in Nat
    BY <2>1, FS_CardinalityType
  <2> HIDE DEF Three
  <2> QED
    BY <1>1, <1>2, <1>3, <1>6, <2>1, <2>2, <2>3
<1>8. started \ finished \in SUBSET Three
  BY DEF UnderWay
<1>9. /\ Cardinality(started \ finished) <= Cardinality(Three)
      /\ Cardinality(started \ finished) \in Nat
  BY <1>7, <1>8, FS_Subset, FS_CardinalityType
<1>10. Cardinality(started \ finished) <= NumWorkers + 1 + Cardinality(Free)
  <2> HIDE DEF N, Three, Free
  <2> QED
    BY <1>1, <1>3, <1>5, <1>7, <1>9
<1> QED
  BY <1>10 DEF Backpressure

(* However many tasks are added, TaskStarter never has more of them under  *)
(* way than the channel has slots and the pool has workers, and the one in *)
(* its hand: a worker blocked on the nil channel counts for nothing.       *)
THEOREM UnderWayIsBounded == CancelSpec => []Backpressure
<1>1. Init => UnderWay
  <2>1. FinitePool => NumWorkers \in Nat
    BY FS_CardinalityType DEF NumWorkers
  <2> QED
    BY <2>1, FinitePool DEF Init, UnderWay
<1> QED
  BY <1>1, UnderWayNext, UnderWayBound, Invariance, PTL DEF CancelSpec

-----------------------------------------------------------------------------
(* The refinement of TaskForest: storing a task in the map plants it,      *)
(* receiving it from the channel starts it, setting Finished completes it; *)
(* every other step leaves the forest alone.                               *)

Stages == [t \in Task |-> StageOf(t)]

LEMMA StagesStable ==
  ASSUME tasks' = tasks, job' = job, finished' = finished
  PROVE  Stages' = Stages
<1>1. Known' = Known /\ Running' = Running
  BY DerivedStable
<1> QED
  BY <1>1 DEF Stages, StageOf

LEMMA ForestInit == Init => Forest!Init
<1> SUFFICES ASSUME Init PROVE Forest!Init
  OBVIOUS
<1>1. Known = {} /\ Running = {} /\ finished = {}
  BY DEF Init, Known, IDs, Running
<1>2. pc[Owner] = "new"
  BY DEF Init, Procs, Adders
<1> QED
  BY <1>1, <1>2 DEF Forest!Init, StageOf, Closed

LEMMA PlantStep ==
  ASSUME Inv, NEW p \in Adders, AddStore(p)
  PROVE  Forest!Plant(arg[p])
<1> USE ProcessAssumption
<1>1. /\ arg[p] \in Task
      /\ arg[p] \notin Known
      /\ pc[p] = "addStore"
  BY DEF Inv, TypeOK, Adding, AddStore, Goto, Procs
<1>2. taskId \notin IDs
  BY DEF Inv, TypeOK, UsedIDs, Mutex, Critical, AddStore, Goto, Procs, Adders
<1>3. Known' = Known \cup {arg[p]}
  <2>1. /\ IDs' = IDs \cup {taskId}
        /\ tasks'[taskId] = arg[p]
        /\ \A i \in IDs : tasks'[i] = tasks[i]
    BY <1>2 DEF AddStore, IDs
  <2> QED
    BY <2>1 DEF Known
<1>4. Running' = Running /\ finished' = finished
  BY DerivedStable DEF AddStore, poolVars, flagVars
<1>5. arg[p] \notin finished \cup Running
  BY <1>1 DEF Inv, Starting
<1>6. StageOf(arg[p]) = "unborn"
  BY <1>1, <1>5 DEF StageOf
<1>7. Stages' = [Stages EXCEPT ![arg[p]] = "queued"]
  BY <1>1, <1>3, <1>4, <1>5 DEF Stages, StageOf
<1>8. Closed' = Closed /\ (pc[Owner] = "returned")' = (pc[Owner] = "returned")
  BY <1>1 DEF Closed, AddStore, Goto, Inv, TypeOK, Procs, Adders
<1>9. ~Closed \/ Forest!AtStage("running") # {}
  <2>1. CASE p = Owner
    BY <1>1, <2>1 DEF Closed
  <2>2. CASE p \in Workers
    <3>1. job[p] \in Running /\ job[p] \in Task
      BY <1>1, <2>2 DEF Inv, TypeOK, Working, Running
    <3>2. StageOf(job[p]) = "running"
      BY <3>1 DEF Inv, HandedOnce, StageOf
    <3>3. job[p] \in Forest!AtStage("running")
      BY <3>1, <3>2 DEF Forest!AtStage
    <3> QED
      BY <3>3
  <2> QED
    BY <2>1, <2>2 DEF Adders
<1> QED
  BY <1>1, <1>6, <1>7, <1>8, <1>9 DEF Forest!Plant, Forest!Move, Stages

LEMMA StartStep ==
  ASSUME Inv, NEW w \in Workers, Receive(w)
  PROVE  Forest!Start(Head(chan))
<1> USE ProcessAssumption
<1>1. Head(chan) \in InBuffer /\ Head(chan) \in Task
  BY TailElements
     DEF Receive, Inv, TypeOK, HandedOnce, NoDuplicates, Elements, InBuffer
<1>2. /\ Head(chan) \in Known
      /\ Head(chan) \notin Running \cup finished
  BY <1>1 DEF Inv, Starting, HandedOnce
<1>3. Known' = Known /\ finished' = finished
  BY DerivedStable DEF Receive, taskVars, flagVars
<1>4. Running' = Running \cup {Head(chan)}
  BY <1>1 DEF Receive, Goto, Inv, TypeOK, Working, Running, Procs, Adders
<1>5. StageOf(Head(chan)) = "queued"
  BY <1>2 DEF StageOf
<1>6. Stages' = [Stages EXCEPT ![Head(chan)] = "running"]
  BY <1>1, <1>2, <1>3, <1>4 DEF Stages, StageOf
<1>7. Closed' = Closed /\ (pc[Owner] = "returned")' = (pc[Owner] = "returned")
  BY DEF Closed, Receive, Goto, Inv, TypeOK, Procs, Adders
<1> QED
  BY <1>1, <1>5, <1>6, <1>7 DEF Forest!Start, Forest!Move, Stages

LEMMA CompleteStep ==
  ASSUME Inv, NEW w \in Workers, Finish(w)
  PROVE  Forest!Complete(job[w])
<1> USE ProcessAssumption
<1>1. job[w] \in Task /\ job[w] \in Running
  BY DEF Finish, Goto, Inv, TypeOK, Working, Running
<1>2. job[w] \notin finished
  BY <1>1 DEF Inv, HandedOnce
<1>3. Known' = Known /\ finished' = finished \cup {job[w]}
  BY DerivedStable DEF Finish, taskVars
<1>4. Running' = Running \ {job[w]}
  BY DEF Finish, Inv, TypeOK, HandedOnce, Running
<1>5. StageOf(job[w]) = "running"
  BY <1>1, <1>2 DEF StageOf
<1>6. Stages' = [Stages EXCEPT ![job[w]] = "done"]
  BY <1>1, <1>3, <1>4 DEF Stages, StageOf
<1>7. Closed' = Closed /\ (pc[Owner] = "returned")' = (pc[Owner] = "returned")
  BY DEF Closed, Finish, Goto, Inv, TypeOK, Procs, Adders
<1> QED
  BY <1>1, <1>5, <1>6, <1>7 DEF Forest!Complete, Forest!Move, Stages

LEMMA JoinStep ==
  ASSUME Inv, ~cancelled, WaitDecide
  PROVE  Forest!Join \/ UNCHANGED Forest!vars
<1> USE ProcessAssumption
<1>1. Stages' = Stages
  BY StagesStable DEF WaitDecide, taskVars, flagVars, poolVars
<1>2. pc[Owner] = "visit" /\ Closed /\ Closed'
  BY DEF WaitDecide, Goto, Closed, Inv, TypeOK, Procs, Adders
<1>3. CASE counted = IDs
  <2>1. pc'[Owner] = "returned"
    BY <1>3 DEF WaitDecide, Goto, Inv, TypeOK, Procs, Adders
  <2>2. Known \subseteq finished
    BY <1>3 DEF Inv, Counting, Known
  <2>3. Running \subseteq finished
    BY <2>2 DEF Inv, Starting
  <2>4. Forest!AtStage("queued") \cup Forest!AtStage("running") = {}
    BY <2>2, <2>3 DEF Forest!AtStage, StageOf
  <2> QED
    BY <1>1, <1>2, <2>1, <2>4 DEF Forest!Join, Stages
<1>4. CASE counted # IDs
  BY <1>1, <1>2, <1>4
     DEF WaitDecide, Goto, Inv, TypeOK, Procs, Adders, Forest!vars, Stages
<1> QED
  BY <1>3, <1>4

(* A step that leaves the map, the jobs, the Finished flags and the        *)
(* owner's phase alone is a stuttering step of the forest.                 *)
LEMMA ForestStutter ==
  ASSUME tasks' = tasks, job' = job, finished' = finished, Closed' = Closed,
         (pc[Owner] = "returned")' = (pc[Owner] = "returned")
  PROVE  UNCHANGED Forest!vars
BY StagesStable DEF Forest!vars, Stages

LEMMA ForestNext ==
  ASSUME Inv, ~cancelled, [Next]_vars
  PROVE  [Forest!Next]_(Forest!vars)
<1> USE ProcessAssumption
        DEF Goto, taskVars, flagVars, poolVars, waitVars, Closed, Procs, Adders
<1>1. CASE New \/ UNCHANGED vars
  BY <1>1, ForestStutter DEF New, vars, Inv, TypeOK
<1>2. ASSUME NEW p \in Adders, AddStep(p)
      PROVE  [Forest!Next]_(Forest!vars)
  <2>1. CASE AddStore(p)
    <3>1. arg[p] \in Task
      BY <2>1 DEF Inv, TypeOK, Adding, AddStore
    <3> QED
      BY <2>1, <3>1, PlantStep DEF Forest!Next
  <2>2. CASE AddTask(p) \/ AddLock(p) \/ AddRelease(p)
    BY <2>2, ForestStutter
       DEF AddTask, AddLock, AddRelease, AddIdle, Inv, TypeOK
  <2> QED
    BY <1>2, <2>1, <2>2 DEF AddStep
<1>3. CASE WaitStep
  <2>1. CASE WaitCall
    <3>1. Stages' = Stages
      BY <2>1, StagesStable DEF WaitCall
    <3>2. Forest!Close
      BY <2>1, <3>1 DEF WaitCall, Forest!Close, Stages, Inv, TypeOK
    <3> QED
      BY <3>2 DEF Forest!Next
  <2>2. CASE WaitDecide
    BY <2>2, JoinStep DEF Forest!Next
  <2>3. CASE WaitLock \/ (\E i \in toVisit : WaitVisit(i)) \/ WaitTimer
    BY <2>3, ForestStutter DEF WaitLock, WaitVisit, WaitTimer, Inv, TypeOK
  <2> QED
    BY <1>3, <2>1, <2>2, <2>3 DEF WaitStep, WaitCancelled
<1>4. CASE StarterStep
  BY <1>4, ForestStutter
     DEF StarterStep, LaunchStarter, StarterLock, ScanFound, ScanNothing,
         PoolMark, PoolSend, StarterTimer, StarterStop, Inv, TypeOK
<1>5. ASSUME NEW w \in Workers, WorkerStep(w)
      PROVE  [Forest!Next]_(Forest!vars)
  <2>1. CASE Receive(w)
    <3>1. Head(chan) \in Task
      BY <2>1 DEF Receive, Inv, TypeOK
    <3> QED
      BY <2>1, <3>1, StartStep DEF Forest!Next
  <2>2. CASE Finish(w)
    <3>1. job[w] \in Task
      BY <2>2 DEF Finish, Inv, TypeOK, Working
    <3> QED
      BY <2>2, <3>1, CompleteStep DEF Forest!Next
  <2>3. CASE FirstSelect(w) \/ WorkerStop(w)
    BY <2>3, ForestStutter DEF FirstSelect, WorkerStop, Inv, TypeOK
  <2> QED
    BY <1>5, <2>1, <2>2, <2>3 DEF WorkerStep
<1> QED
  BY <1>1, <1>2, <1>3, <1>4, <1>5 DEF Next

(* While nobody cancels the context, as in this repository, the code       *)
(* implements the forest of tasks.                                         *)
THEOREM Refinement == Spec => ImplementsForest
<1>1. Spec => CancelSpec
  <2>1. [Next]_vars => [NextOrCancel]_vars
    BY DEF NextOrCancel
  <2> QED
    BY <2>1, PTL DEF Spec, CancelSpec
<1>2. Spec => []~cancelled
  <2>1. Init => ~cancelled
    BY DEF Init
  <2>2. ~cancelled /\ [Next]_vars => ~cancelled'
    BY DEF vars, Next, New, AddStep, AddTask, AddLock, AddStore, AddRelease,
           WaitStep, WaitCall, WaitLock, WaitVisit, WaitDecide, WaitTimer,
           WaitCancelled, StarterStep, LaunchStarter, StarterLock, ScanFound,
           ScanNothing, PoolMark, PoolSend, StarterTimer, StarterStop,
           WorkerStep, FirstSelect, Receive, Finish, WorkerStop
  <2> QED
    BY <2>1, <2>2, PTL DEF Spec
<1>3. Inv /\ ~cancelled /\ [Next]_vars => [Forest!Next]_(Forest!vars)
  BY ForestNext
<1> QED
  BY <1>1, <1>2, <1>3, ForestInit, Invariance, PTL
     DEF Spec, ImplementsForest, Forest!Spec

(* What the forest's own specification says of a join carries over to the  *)
(* code: once Wait has returned, no task is added, started or finished.    *)
THEOREM JoinIsFinal == Spec => Forest!JoinIsFinal
<1>1. Forest!Init => Forest!JoinedInv
  BY DEF Forest!Init, Forest!JoinedInv
<1> USE DEF Forest!AtStage, Forest!Move
<1>2. ASSUME Forest!JoinedInv, [Forest!Next]_(Forest!vars)
      PROVE  /\ Forest!JoinedInv'
             /\ pc[Owner] = "returned" => UNCHANGED Stages
  <2>1. CASE pc[Owner] = "returned"
    <3>1. /\ Closed
          /\ \A t \in Task : Stages[t] \notin {"queued", "running"}
      BY <1>2, <2>1 DEF Forest!JoinedInv, Stages
    <3>2. UNCHANGED Forest!vars
      BY <1>2, <2>1, <3>1
         DEF Forest!Next, Forest!Plant, Forest!Start, Forest!Complete,
             Forest!Close, Forest!Join, Stages
    <3> QED
      BY <1>2, <3>2 DEF Forest!JoinedInv, Forest!vars, Stages
  <2>2. CASE pc[Owner] # "returned"
    <3>1. CASE Forest!Join
      <4>1. Stages' = Stages /\ Closed' = Closed /\ Closed
        BY <3>1 DEF Forest!Join, Stages
      <4>2. \A t \in Task : Stages[t] \notin {"queued", "running"}
        BY <3>1 DEF Forest!Join, Stages
      <4> QED
        BY <2>2, <4>1, <4>2 DEF Forest!JoinedInv, Stages
    <3>2. CASE ~Forest!Join
      <4>1. (pc[Owner] = "returned")' = (pc[Owner] = "returned")
        BY <1>2, <3>2
           DEF Forest!Next, Forest!Plant, Forest!Start, Forest!Complete,
               Forest!Close, Forest!vars
      <4> QED
        BY <2>2, <4>1 DEF Forest!JoinedInv
    <3> QED
      BY <3>1, <3>2
  <2> QED
    BY <2>1, <2>2
<1>3. Forest!JoinedInv /\ [Forest!Next]_(Forest!vars)
        => [pc[Owner] = "returned" => UNCHANGED Stages]_(Forest!vars)
  BY <1>2
<1> QED
  BY <1>1, <1>2, <1>3, Refinement, PTL
     DEF ImplementsForest, Forest!Spec, Forest!JoinIsFinal, Stages

=============================================================================
