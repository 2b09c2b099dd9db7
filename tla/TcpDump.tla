------------------------------- MODULE TcpDump ------------------------------
(***************************************************************************)
(* The live recorder of src/aws_api/aws_tcpdump.go, after Start has        *)
(* provisioned the flow logs.                                              *)
(*                                                                         *)
(* Start launches one goroutine StartSubnetInterfacesRecording per subnet. *)
(* It polls EC2 for the subnet's network interfaces, keeps a map from the  *)
(* known ones to their cancel functions, and launches and cancels one      *)
(* goroutine StartInterfaceRecording per interface.  Those read the flow   *)
(* log stream of their interface page by page, at most PoolSize of them at *)
(* a time, and hand every event to FlowLogEventsProcessRoutine.            *)
(*                                                                         *)
(* The cloud is the environment: interfaces come and go, the stream of a   *)
(* new interface appears some time after it, events are appended, and any  *)
(* call may fail.                                                          *)
(***************************************************************************)
EXTENDS Naturals, FiniteSets

CONSTANTS
  Interface,    \* the network interfaces there may be
  Subnet,       \* the configured subnets
  SubnetOf,     \* the subnet of each interface
  Recorder,     \* identities for the goroutines StartInterfaceRecording
  PoolSize,     \* the capacity of workPool (5 in Start)
  PageLimit,    \* the events of one GetLogEvents page (100 in the code)
  MaxEvent,     \* bound: events per log stream
  None          \* nil

ASSUME RecorderAssumption ==
  /\ SubnetOf \in [Interface -> Subnet]
  /\ PoolSize \in Nat \ {0}
  /\ PageLimit \in Nat \ {0}
  /\ MaxEvent \in Nat \ {0}
  /\ None \notin Recorder \cup Interface \cup Nat

Position == 0..MaxEvent

VARIABLES
  live,         \* Config.LiveRecording
  log,          \* events in the stream of each interface; None: no stream
  main,         \* Start: waiting for a signal, cleaning up, or gone
  done,         \* the field Done
  loop,         \* where each subnet goroutine is
  known,        \* the keys of its map networkInterfaces
  cancelOf,     \* the values: the recorder an interface's cancel stops
  toAdd,        \* interfacesAdded, those still to handle
  toStop,       \* InterfacesDeprecated, those still to handle
  stopping,     \* the interface StopInterfaceRecording has cancelled
  pc,           \* where each recorder is
  rec,          \* its local state, see Local
  cancelled,    \* the recorders whose context is cancelled
  pool          \* the number of tokens in workPool

loopVars == <<loop, known, cancelOf, toAdd, toStop, stopping>>
recVars == <<pc, rec, cancelled>>
vars == <<live, log, main, done, loopVars, recVars, pool>>

Local ==
  [itf: Interface \cup {None},        \* interId
   since: Position,                   \* pEpochStartMiliSeconds as a position
   token: Position \cup {None},       \* nextToken
   cursor: Position \cup {None},      \* nextToken of YieldCloudwatchLogStream
   handed: Position]                  \* since its start, the callback has had
                                      \* every event up to this one (history)

NewLocal(i) == [itf |-> i, since |-> 0, token |-> None, cursor |-> None,
                handed |-> 0]

InSubnet(s) == {i \in Interface : SubnetOf[i] = s}

Init ==
  /\ live \in BOOLEAN
  /\ log \in [Interface -> {None, 0}]
  /\ main = "wait"
  /\ done = FALSE
  /\ loop = [s \in Subnet |-> "fetch"]
  /\ known = [s \in Subnet |-> {}]
  /\ cancelOf = [i \in Interface |-> None]
  /\ toAdd = [s \in Subnet |-> {}]
  /\ toStop = [s \in Subnet |-> {}]
  /\ stopping = [s \in Subnet |-> None]
  /\ pc = [r \in Recorder |-> "ended"]
  /\ rec = [r \in Recorder |-> NewLocal(None)]
  /\ cancelled = {}
  /\ pool = 0

-----------------------------------------------------------------------------
(* The cloud.                                                              *)

(* The stream appears with its first event, or grows by one.               *)
LogEvent(i) ==
  /\ log[i] # MaxEvent
  /\ log' = [log EXCEPT ![i] = IF @ = None THEN 1 ELSE @ + 1]
  /\ UNCHANGED <<live, main, done, loopVars, recVars, pool>>

-----------------------------------------------------------------------------
(* Start: a signal sets Done; the process is gone two seconds later.       *)

Signal ==
  /\ main = "wait"
  /\ main' = "cleanup"
  /\ done' = TRUE
  /\ UNCHANGED <<live, log, loopVars, recVars, pool>>

Exit ==
  /\ main = "cleanup"
  /\ main' = "gone"
  /\ UNCHANGED <<live, log, done, loopVars, recVars, pool>>

-----------------------------------------------------------------------------
(* StartSubnetInterfacesRecording(workPool, subnetId, subnetLogGroupName)  *)

GotoLoop(s, from, to) ==
  /\ loop[s] = from
  /\ loop' = [loop EXCEPT ![s] = to]
  /\ UNCHANGED <<live, log, main, done, pool>>

(* GetInterfaceChanges.  Interfaces come and go at any time, and           *)
(* GetSubnetInterfacesFromAPI logs an error of the API and returns what it *)
(* had fetched until then: any subset may be reported.                     *)
Fetch(s) ==
  /\ GotoLoop(s, "fetch", "add")
  /\ \E fetched \in SUBSET InSubnet(s) :
       /\ toAdd' = [toAdd EXCEPT ![s] = fetched \ known[s]]
       /\ toStop' = [toStop EXCEPT ![s] = known[s] \ fetched]
  /\ UNCHANGED <<known, cancelOf, stopping, recVars>>

(* A new goroutine takes an identity no goroutine or cancel function has.  *)
Fresh(r) == pc[r] = "ended" /\ \A i \in Interface : cancelOf[i] # r

(* networkInterfaces[id] = cancel; go StartInterfaceRecording.             *)
Record(s, i, r) ==
  /\ live
  /\ GotoLoop(s, "add", "add")
  /\ i \in toAdd[s]
  /\ Fresh(r)
  /\ toAdd' = [toAdd EXCEPT ![s] = @ \ {i}]
  /\ known' = [known EXCEPT ![s] = @ \cup {i}]
  /\ cancelOf' = [cancelOf EXCEPT ![i] = r]
  /\ pc' = [pc EXCEPT ![r] = "describe"]
  /\ rec' = [rec EXCEPT ![r] = NewLocal(i)]
  /\ cancelled' = cancelled \ {r}
  /\ UNCHANGED <<toStop, stopping>>

Added(s) ==
  /\ live
  /\ toAdd[s] = {}
  /\ GotoLoop(s, "add", "stop")
  /\ UNCHANGED <<known, cancelOf, toAdd, toStop, stopping, recVars>>

(* Mutation: the entry is deleted and its cancel function never called.    *)
StopCancelForgets(s, i) ==
  /\ i \in toStop[s]
  /\ GotoLoop(s, "stop", "stopping")
  /\ stopping' = [stopping EXCEPT ![s] = i]
  /\ UNCHANGED <<known, cancelOf, toAdd, toStop, recVars>>

(* StopInterfaceRecording: cancel, then 15 seconds of sleep ...            *)
StopCancel(s, i) ==
  /\ i \in toStop[s]
  /\ GotoLoop(s, "stop", "stopping")
  /\ stopping' = [stopping EXCEPT ![s] = i]
  /\ cancelled' = cancelled \cup {cancelOf[i]}
  /\ UNCHANGED <<known, cancelOf, toAdd, toStop, pc, rec>>

(* ... then delete, whether or not the recorder has ended by now.          *)
StopDelete(s) ==
  LET i == stopping[s]
  IN  /\ GotoLoop(s, "stopping", "stop")
      /\ stopping' = [stopping EXCEPT ![s] = None]
      /\ toStop' = [toStop EXCEPT ![s] = @ \ {i}]
      /\ known' = [known EXCEPT ![s] = @ \ {i}]
      /\ cancelOf' = [cancelOf EXCEPT ![i] = None]
      /\ UNCHANGED <<toAdd, recVars>>

(* Without LiveRecording only the keys of the map are kept up to date.     *)
Track(s) ==
  /\ ~live
  /\ GotoLoop(s, "add", "stop")
  /\ known' = [known EXCEPT ![s] = (@ \cup toAdd[s]) \ toStop[s]]
  /\ toAdd' = [toAdd EXCEPT ![s] = {}]
  /\ toStop' = [toStop EXCEPT ![s] = {}]
  /\ UNCHANGED <<cancelOf, stopping, recVars>>

(* Mutation: Done is not looked at after a round that stopped a recorder.  *)
RoundMisses(s) ==
  /\ toStop[s] = {}
  /\ GotoLoop(s, "stop", IF done /\ known[s] = {} THEN "returned" ELSE "fetch")
  /\ UNCHANGED <<known, cancelOf, toAdd, toStop, stopping, recVars>>

(* Done is read once a round, before the 30 seconds of sleep.              *)
Round(s) ==
  /\ toStop[s] = {}
  /\ GotoLoop(s, "stop", IF done THEN "returned" ELSE "fetch")
  /\ UNCHANGED <<known, cancelOf, toAdd, toStop, stopping, recVars>>

-----------------------------------------------------------------------------
(* StartInterfaceRecording(workPool, interId, subnetId, ..., ctx)          *)

Goto(r, from, to) ==
  /\ pc[r] = from
  /\ pc' = [pc EXCEPT ![r] = to]
  /\ UNCHANGED <<live, log, main, loopVars, cancelled>>

LogOf(r) == log[rec[r].itf]

(* YieldCloudwatchLogStreams finds the one stream of the interface; then   *)
(* the start time is taken.                                                *)
Describe(r) ==
  /\ Goto(r, "describe", "idle")
  /\ LogOf(r) # None
  /\ rec' = [rec EXCEPT ![r].since = LogOf(r), ![r].handed = LogOf(r)]
  /\ UNCHANGED <<done, pool>>

(* No stream yet, several streams, or an error: nobody reads the error the *)
(* goroutine returns, and its interface stays in the map.                  *)
GiveUp(r) ==
  /\ Goto(r, "describe", "ended")
  /\ rec' = [rec EXCEPT ![r] = NewLocal(None)]
  /\ UNCHANGED <<done, pool>>

(* Mutation: the start time is taken anew for each call.                   *)
AcquireRestarts(r) ==
  /\ Goto(r, "idle", "read")
  /\ pool < PoolSize
  /\ pool' = pool + 1
  /\ rec' = [rec EXCEPT ![r].cursor = rec[r].token, ![r].since = LogOf(r)]
  /\ UNCHANGED done

(* Mutation: the call is made without a token, and gives one back.         *)
AcquireUncounted(r) ==
  /\ Goto(r, "idle", "read")
  /\ rec' = [rec EXCEPT ![r].cursor = rec[r].token,
                        ![r].since = IF rec[r].token = None THEN @ ELSE 0]
  /\ UNCHANGED <<done, pool>>

(* *workPool <- true, and the call of YieldCloudwatchLogStream.  Once      *)
(* there has been a token the start time is no longer passed.              *)
Acquire(r) ==
  /\ Goto(r, "idle", "read")
  /\ pool < PoolSize
  /\ pool' = pool + 1
  /\ rec' = [rec EXCEPT ![r].cursor = rec[r].token,
                        ![r].since = IF rec[r].token = None THEN @ ELSE 0]
  /\ UNCHANGED done

(* Where the next page starts.                                             *)
PageStart(r) == IF rec[r].cursor = None THEN rec[r].since ELSE rec[r].cursor

(* Where it may end: it stays where it is only at the end of the stream.   *)
PageEnds(r) ==
  LET p == PageStart(r)
  IN  {e \in p..(p + PageLimit) : e <= LogOf(r) /\ (e = p => p = LogOf(r))}

(* What has been handed over without a gap once the page up to e has.      *)
HandedBy(r, e) ==
  IF PageStart(r) <= rec[r].handed /\ rec[r].handed <= e THEN e
  ELSE rec[r].handed

(* A page is handed over, and YieldCloudwatchLogStream goes on.            *)
ReadPage(r) ==
  /\ Goto(r, "read", "read")
  /\ \E e \in PageEnds(r) \ {rec[r].cursor} :
       rec' = [rec EXCEPT ![r].handed = HandedBy(r, e), ![r].cursor = e]
  /\ UNCHANGED <<done, pool>>

(* The same token came back: the call returns, nextToken = lastResp's.     *)
ReadEnd(r) ==
  /\ Goto(r, "read", "select")
  /\ rec[r].cursor \in PageEnds(r)
  /\ rec' = [rec EXCEPT ![r].token = rec[r].cursor, ![r].cursor = None]
  /\ pool' = pool - 1
  /\ UNCHANGED done

(* A response without a token ends the call, and the recorder goes on      *)
(* without one; with events in it, that is an error as well.               *)
ReadNoToken(r) ==
  /\ pc[r] = "read"
  /\ \E e \in PageEnds(r) :
       /\ Goto(r, "read", IF e = PageStart(r) THEN "select" ELSE "failed")
       /\ rec' = [rec EXCEPT ![r].handed = HandedBy(r, e),
                             ![r].token = None, ![r].cursor = None]
  /\ pool' = pool - 1
  /\ UNCHANGED done

(* Mutation: the error path does not give the workPool token back.         *)
ReadErrorKeeps(r) ==
  /\ Goto(r, "read", "failed")
  /\ UNCHANGED <<done, rec, pool>>

(* GetLogEvents failed: no response, and nextToken stays the old one.      *)
ReadError(r) ==
  /\ Goto(r, "read", "failed")
  /\ rec' = [rec EXCEPT ![r].cursor = None]
  /\ pool' = pool - 1
  /\ UNCHANGED done

(* After an error: five seconds, then awsTCPDump.Done = true.              *)
MarkDone(r) ==
  /\ Goto(r, "failed", "select")
  /\ done' = TRUE
  /\ UNCHANGED <<rec, pool>>

(* select on ctx.Done(), which does not look at Done.                      *)
Select(r) ==
  LET stop == r \in cancelled
  IN  /\ Goto(r, "select", IF stop THEN "ended" ELSE "idle")
      /\ rec' = [rec EXCEPT ![r] = IF stop THEN NewLocal(None) ELSE @]
      /\ UNCHANGED <<done, pool>>

-----------------------------------------------------------------------------
Cloud == \E i \in Interface : LogEvent(i)

SubnetStep(s) ==
  \/ Fetch(s)
  \/ \E i \in toAdd[s], r \in Recorder : Record(s, i, r)
  \/ Added(s)
  \/ \E i \in toStop[s] : StopCancel(s, i)
  \/ StopDelete(s)
  \/ Track(s)
  \/ Round(s)

RecorderStep(r) ==
  \/ Describe(r)
  \/ GiveUp(r)
  \/ Acquire(r)
  \/ ReadPage(r)
  \/ ReadEnd(r)
  \/ ReadNoToken(r)
  \/ ReadError(r)
  \/ MarkDone(r)
  \/ Select(r)

Next ==
  /\ main # "gone"
  /\ \/ Cloud
     \/ Signal
     \/ Exit
     \/ \E s \in Subnet : SubnetStep(s)
     \/ \E r \in Recorder : RecorderStep(r)

(* Goroutines that can run do (WF); the waiters of workPool are served in  *)
(* FIFO order (SF).  Nobody promises a signal, and the cloud does what it  *)
(* likes.                                                                  *)
Fairness ==
  /\ WF_vars(Exit)
  /\ \A s \in Subnet : WF_vars(SubnetStep(s))
  /\ \A r \in Recorder : WF_vars(RecorderStep(r)) /\ SF_vars(Acquire(r))

Spec == Init /\ [][Next]_vars

FairSpec == Spec /\ Fairness

-----------------------------------------------------------------------------
Active(r) == pc[r] # "ended"

(* Type invariant of the recorder's state.                                 *)
TypeOK ==
  /\ live \in BOOLEAN
  /\ log \in [Interface -> Position \cup {None}]
  /\ main \in {"wait", "cleanup", "gone"}
  /\ done \in BOOLEAN
  /\ loop \in [Subnet -> {"fetch", "add", "stop", "stopping", "returned"}]
  /\ known \in [Subnet -> SUBSET Interface]
  /\ cancelOf \in [Interface -> Recorder \cup {None}]
  /\ toAdd \in [Subnet -> SUBSET Interface]
  /\ toStop \in [Subnet -> SUBSET Interface]
  /\ stopping \in [Subnet -> Interface \cup {None}]
  /\ pc \in [Recorder -> {"describe", "idle", "read", "failed", "select",
                          "ended"}]
  /\ rec \in [Recorder -> Local]
  /\ cancelled \subseteq Recorder
  /\ pool \in 0..PoolSize

(* Somebody can still cancel the recorder: a loop that has not returned    *)
(* has its cancel function in its map.                                     *)
Stoppable(r) ==
  LET i == rec[r].itf
  IN  /\ cancelOf[i] = r
      /\ i \in known[SubnetOf[i]]
      /\ loop[SubnetOf[i]] # "returned"

(* No orphans: until Done is set, by a signal or by an error of a          *)
(* recorder, each recorder that runs and was not cancelled can be stopped  *)
(* by its loop, and there is one of them per interface.  (Once Done is set *)
(* the loops return, the recorders they leave behind read on, and only the *)
(* end of the process stops those.)                                        *)
NoOrphan ==
  \A r \in Recorder :
    /\ Active(r) /\ r \notin cancelled => Stoppable(r) \/ done
    /\ Active(r) /\ r \notin cancelled =>
         \A q \in Recorder \ {r} :
           Active(q) /\ q \notin cancelled => rec[q].itf # rec[r].itf

(* No gap: a recorder that has moved on to a position of the stream has    *)
(* handed over every event that was logged since it started, whatever      *)
(* errors, retries and pages came in between.                              *)
NoGap ==
  \A r \in Recorder :
    \A p \in {rec[r].token, rec[r].cursor} \ {None} : p <= rec[r].handed

(* A cancelled recorder ends, even if it has to wait for the work pool.    *)
CancelledEnds ==
  \A r \in Recorder :
    r \in cancelled ~> main = "gone" \/ pc[r] = "ended"

(* Once Done is set, by a signal or by a recorder that met an error, every *)
(* subnet loop returns or the process is gone.                             *)
DoneStops ==
  done ~> main = "gone" \/ \A s \in Subnet : loop[s] = "returned"

=============================================================================
