---------------------------- MODULE TcpDumpProofs -----------------------------
(***************************************************************************)
(* Proofs about TcpDump, for any interfaces, subnets and recorders, any    *)
(* capacity of the work pool and any size of a page.                       *)
(***************************************************************************)
EXTENDS TcpDump, FiniteSetTheorems, TLAPS

(***************************************************************************)
(* The inductive invariant.                                                *)
(***************************************************************************)
RecorderPC == {"describe", "idle", "read", "failed", "select", "ended"}

(* The work of a subnet's loop is on the interfaces of that subnet: the    *)
(* ones to add are not in its map, the ones to stop are; the one that is   *)
(* being stopped has had its cancel function called.                       *)
Loops ==
  \A s \in Subnet :
    /\ known[s] \subseteq InSubnet(s)
    /\ toAdd[s] \subseteq InSubnet(s) \ known[s]
    /\ toStop[s] \subseteq known[s]
    /\ loop[s] = "stopping" =>
         stopping[s] \in toStop[s] /\ cancelOf[stopping[s]] \in cancelled

(* The keys of the maps have cancel functions, and nothing else has.       *)
Mapped ==
  \A i \in Interface : cancelOf[i] # None <=> live /\ i \in known[SubnetOf[i]]

(* Without LiveRecording nothing is launched, and nothing to be stopped.   *)
Offline ==
  ~live =>
    /\ \A r \in Recorder : pc[r] = "ended"
    /\ \A s \in Subnet : loop[s] # "stopping" /\ (loop[s] = "stop" => toStop[s] = {})

(* A recorder that runs has an interface; it has no position before it has *)
(* found the stream, and then there is a stream.                           *)
Recording ==
  \A r \in Recorder :
    /\ Active(r) => rec[r].itf \in Interface
    /\ pc[r] = "describe" => rec[r].token = None /\ rec[r].cursor = None
    /\ pc[r] \in {"idle", "read", "failed", "select"} => LogOf(r) # None

(* A recorder that was not cancelled is in the map of its subnet, with its *)
(* cancel function.                                                        *)
Owned ==
  \A r \in Recorder :
    Active(r) /\ r \notin cancelled =>
      /\ cancelOf[rec[r].itf] = r
      /\ rec[r].itf \in known[SubnetOf[rec[r].itf]]

(* The loops return for no other reason than Done.                         *)
Returned == \A s \in Subnet : loop[s] = "returned" => done

Reading == {r \in Recorder : pc[r] = "read"}

(* The tokens in workPool are those of the recorders that are reading.     *)
Pooled == IsFiniteSet(Reading) /\ Cardinality(Reading) = pool

(* A recorder starts its reading no later than where it has come without   *)
(* a gap.                                                                  *)
Behind(l) ==
  /\ l.since <= l.handed
  /\ \A p \in {l.token, l.cursor} \ {None} : p <= l.handed

AllBehind == \A r \in Recorder : Behind(rec[r])

Inv ==
  /\ TypeOK /\ Loops /\ Mapped /\ Offline /\ Recording
  /\ Owned /\ Returned /\ Pooled /\ AllBehind

LEMMA NewLocalType ==
  ASSUME NEW i \in Interface \cup {None}
  PROVE  NewLocal(i) \in Local /\ Behind(NewLocal(i)) /\ NewLocal(i).itf = i
BY RecorderAssumption DEF NewLocal, Local, Position, Behind

LEMMA InitInv == Init => Inv
<1> SUFFICES ASSUME Init PROVE Inv
  OBVIOUS
<1> USE RecorderAssumption DEF Init
<1>1. TypeOK
  <2>1. rec \in [Recorder -> Local]
    BY NewLocalType
  <2>2. 0 \in Position /\ 0 \in 0..PoolSize
    BY DEF Position
  <2>3. log \in [Interface -> Position \cup {None}]
    BY <2>2
  <2> QED
    BY <2>1, <2>2, <2>3 DEF TypeOK
<1>2. Loops /\ Mapped /\ Offline
  BY DEF Loops, Mapped, Offline, InSubnet
<1>3. Recording /\ Owned /\ Returned
  BY DEF Recording, Owned, Returned, Active
<1>4. Pooled
  <2>1. Reading = {}
    BY DEF Reading
  <2> QED
    BY <2>1, FS_EmptySet DEF Pooled
<1>5. AllBehind
  BY NewLocalType DEF AllBehind
<1> QED
  BY <1>1, <1>2, <1>3, <1>4, <1>5 DEF Inv

-----------------------------------------------------------------------------
(***************************************************************************)
(* The recorders.                                                          *)
(***************************************************************************)

(* What a step of a recorder keeps, whichever it is: it touches no map of  *)
(* the loops, and its own state only.                                      *)
LEMMA RecorderKeeps ==
  ASSUME Inv, NEW r \in Recorder, Active(r), NEW to \in RecorderPC,
         pc' = [pc EXCEPT ![r] = to],
         rec' \in [Recorder -> Local], \A q \in Recorder \ {r} : rec'[q] = rec[q],
         Behind(rec'[r]),
         to # "ended" => to # "describe" /\ rec'[r].itf = rec[r].itf /\ LogOf(r) # None,
         UNCHANGED <<live, log, main, loopVars, cancelled>>,
         done' \in BOOLEAN, done => done'
  PROVE  /\ pool' \in 0..PoolSize => TypeOK'
         /\ Loops' /\ Mapped' /\ Offline' /\ Recording' /\ Owned' /\ Returned'
         /\ AllBehind'
<1> USE RecorderAssumption DEF Inv, loopVars
<1>1. pool' \in 0..PoolSize => TypeOK'
  BY DEF TypeOK, RecorderPC
<1>2. Loops' /\ Mapped'
  BY DEF Loops, Mapped, InSubnet
<1>3. pc \in [Recorder -> RecorderPC]
  BY DEF TypeOK, RecorderPC
<1>4. Offline'
  BY <1>3 DEF Offline, Active
<1>5. Recording'
  BY <1>3 DEF Recording, Active, LogOf, RecorderPC
<1>6. Owned' /\ Returned'
  BY <1>3 DEF Owned, Returned, Active
<1>7. AllBehind'
  BY DEF AllBehind
<1> QED
  BY <1>1, <1>2, <1>4, <1>5, <1>6, <1>7

(* A recorder takes a token of the pool ...                                *)
LEMMA TokenTaken ==
  ASSUME Inv, NEW r \in Recorder, pc[r] # "read", pc' = [pc EXCEPT ![r] = "read"],
         pool < PoolSize, pool' = pool + 1
  PROVE  Pooled' /\ pool' \in 0..PoolSize
<1>1. pc \in [Recorder -> RecorderPC] /\ pool \in 0..PoolSize /\ PoolSize \in Nat
  BY RecorderAssumption DEF Inv, TypeOK, RecorderPC
<1>2. Reading' = Reading \cup {r} /\ r \notin Reading
  BY <1>1 DEF Reading
<1>3. IsFiniteSet(Reading) /\ Cardinality(Reading) = pool
  BY DEF Inv, Pooled
<1>4. IsFiniteSet(Reading') /\ Cardinality(Reading') = pool + 1
  BY <1>2, <1>3, FS_AddElement
<1> QED
  BY <1>1, <1>4 DEF Pooled

(* ... and gives one back, the one that it has taken.                      *)
LEMMA TokenGiven ==
  ASSUME Inv, NEW r \in Recorder, pc[r] = "read",
         NEW to \in RecorderPC \ {"read"}, pc' = [pc EXCEPT ![r] = to],
         pool' = pool - 1
  PROVE  Pooled' /\ pool' \in 0..PoolSize
<1>1. pc \in [Recorder -> RecorderPC] /\ pool \in 0..PoolSize /\ PoolSize \in Nat
  BY RecorderAssumption DEF Inv, TypeOK, RecorderPC
<1>2. Reading' = Reading \ {r} /\ r \in Reading
  BY <1>1 DEF Reading
<1>3. IsFiniteSet(Reading) /\ Cardinality(Reading) = pool
  BY DEF Inv, Pooled
<1>4. IsFiniteSet(Reading') /\ Cardinality(Reading') = pool - 1
  BY <1>2, <1>3, FS_RemoveElement
<1>5. Cardinality(Reading') \in Nat
  BY <1>4, FS_CardinalityType
<1> QED
  BY <1>1, <1>4, <1>5 DEF Pooled

(* A step that neither starts nor ends a reading leaves the pool alone.    *)
LEMMA PoolStable ==
  ASSUME Inv, pool' = pool, \A q \in Recorder : pc'[q] = "read" <=> pc[q] = "read"
  PROVE  Pooled' /\ pool' \in 0..PoolSize
<1>1. Reading' = Reading
  BY DEF Reading
<1> QED
  BY <1>1 DEF Inv, Pooled, TypeOK

LEMMA DescribeStep ==
  ASSUME Inv, NEW r \in Recorder, Describe(r)
  PROVE  Inv'
<1> USE RecorderAssumption DEF Describe, Goto
<1>1. Active(r) /\ pc' = [pc EXCEPT ![r] = "idle"]
  BY DEF Active
<1>2. rec[r] \in Local /\ rec[r].itf \in Interface /\ LogOf(r) \in Position
  BY <1>1 DEF Inv, TypeOK, Recording, LogOf
<1>3. rec[r].token = None /\ rec[r].cursor = None
  BY DEF Inv, Recording
<1>4. rec' \in [Recorder -> Local] /\ \A q \in Recorder \ {r} : rec'[q] = rec[q]
  BY <1>2 DEF Inv, TypeOK, Local
<1>5. rec'[r].itf = rec[r].itf /\ Behind(rec'[r])
  BY <1>2, <1>3 DEF Inv, TypeOK, Local, Behind, Position
<1>6. Pooled' /\ pool' \in 0..PoolSize
  BY PoolStable DEF Inv, TypeOK
<1> QED
  BY <1>1, <1>2, <1>4, <1>5, <1>6, RecorderKeeps DEF Inv, TypeOK, RecorderPC

LEMMA GiveUpStep ==
  ASSUME Inv, NEW r \in Recorder, GiveUp(r)
  PROVE  Inv'
<1> USE RecorderAssumption DEF GiveUp, Goto
<1>1. Active(r) /\ pc' = [pc EXCEPT ![r] = "ended"]
  BY DEF Active
<1>2. rec' \in [Recorder -> Local] /\ \A q \in Recorder \ {r} : rec'[q] = rec[q]
  BY NewLocalType DEF Inv, TypeOK
<1>3. Behind(rec'[r])
  BY NewLocalType DEF Inv, TypeOK
<1>4. Pooled' /\ pool' \in 0..PoolSize
  BY PoolStable DEF Inv, TypeOK
<1> QED
  BY <1>1, <1>2, <1>3, <1>4, RecorderKeeps DEF Inv, TypeOK, RecorderPC

LEMMA AcquireStep ==
  ASSUME Inv, NEW r \in Recorder, Acquire(r)
  PROVE  Inv'
<1> USE RecorderAssumption DEF Acquire, Goto
<1>1. Active(r) /\ pc' = [pc EXCEPT ![r] = "read"] /\ LogOf(r) # None
  BY DEF Active, Inv, Recording
<1>2. rec[r] \in Local /\ Behind(rec[r])
  BY DEF Inv, TypeOK, AllBehind
<1>3. rec' \in [Recorder -> Local] /\ \A q \in Recorder \ {r} : rec'[q] = rec[q]
  <2> DEFINE since == IF rec[r].token = None THEN rec[r].since ELSE 0
             l == [rec[r] EXCEPT !.cursor = rec[r].token, !.since = since]
  <2>1. since \in Position /\ rec[r].token \in Position \cup {None}
    BY <1>2 DEF Local, Position
  <2>2. rec' = [rec EXCEPT ![r].cursor = rec[r].token, ![r].since = since]
    OBVIOUS
  <2>3. rec \in [Recorder -> Local]
    BY DEF Inv, TypeOK
  <2>4. rec' = [rec EXCEPT ![r] = l]
    BY <2>2, <2>3
  <2>5. l \in Local
    BY <1>2, <2>1 DEF Local
  <2> HIDE DEF l, Acquire
  <2> QED
    BY <2>3, <2>4, <2>5
<1>4. rec'[r].itf = rec[r].itf /\ Behind(rec'[r])
  BY <1>2 DEF Inv, TypeOK, Local, Behind, Position
<1>5. Pooled' /\ pool' \in 0..PoolSize
  BY TokenTaken
<1> QED
  BY <1>1, <1>3, <1>4, <1>5, RecorderKeeps DEF Inv, TypeOK, RecorderPC

(* A page ends within the stream, and what has been handed over without a  *)
(* gap comes to its end at least.                                          *)
LEMMA PageFacts ==
  ASSUME Inv, NEW r \in Recorder, pc[r] = "read"
  PROVE  /\ rec[r] \in Local /\ Behind(rec[r]) /\ LogOf(r) \in Position
         /\ PageStart(r) \in Position
         /\ \A e \in PageEnds(r) :
              /\ e \in Position /\ e # None
              /\ HandedBy(r, e) \in Position
              /\ rec[r].handed <= HandedBy(r, e) /\ e <= HandedBy(r, e)
<1> USE RecorderAssumption DEF Position, Local
<1>1. rec[r] \in Local /\ Behind(rec[r])
  BY DEF Inv, TypeOK, AllBehind
<1>2. LogOf(r) \in Position
  BY DEF Inv, TypeOK, Recording, Active, LogOf
<1>3. PageStart(r) \in Position /\ PageStart(r) <= rec[r].handed
  BY <1>1 DEF PageStart, Behind
<1>4. ASSUME NEW e \in PageEnds(r)
      PROVE  e \in Position /\ e # None
  <2>1. e \in PageStart(r)..(PageStart(r) + PageLimit) /\ e <= LogOf(r)
    BY DEF PageEnds
  <2>2. e \in Nat
    BY <1>3, <2>1
  <2> QED
    BY <1>2, <2>1, <2>2
<1>5. ASSUME NEW e \in PageEnds(r)
      PROVE  /\ HandedBy(r, e) \in Position
             /\ rec[r].handed <= HandedBy(r, e) /\ e <= HandedBy(r, e)
  <2>1. e \in Position /\ rec[r].handed \in Position
    BY <1>1, <1>4
  <2> QED
    BY <1>3, <2>1 DEF HandedBy
<1> QED
  BY <1>1, <1>2, <1>3, <1>4, <1>5

LEMMA ReadPageStep ==
  ASSUME Inv, NEW r \in Recorder, ReadPage(r)
  PROVE  Inv'
<1> USE RecorderAssumption DEF ReadPage, Goto
<1>1. Active(r) /\ pc' = [pc EXCEPT ![r] = "read"] /\ LogOf(r) # None
  BY DEF Active, Inv, Recording
<1>2. PICK e \in PageEnds(r) :
        rec' = [rec EXCEPT ![r].handed = HandedBy(r, e), ![r].cursor = e]
  OBVIOUS
<1>3. /\ rec[r] \in Local /\ Behind(rec[r])
      /\ e \in Position /\ HandedBy(r, e) \in Position
      /\ rec[r].handed <= HandedBy(r, e) /\ e <= HandedBy(r, e)
  BY PageFacts
<1>4. rec' \in [Recorder -> Local] /\ \A q \in Recorder \ {r} : rec'[q] = rec[q]
  BY <1>2, <1>3 DEF Inv, TypeOK, Local
<1>5. rec'[r].itf = rec[r].itf /\ Behind(rec'[r])
  BY <1>2, <1>3 DEF Inv, TypeOK, Local, Behind, Position
<1>6. Pooled' /\ pool' \in 0..PoolSize
  BY PoolStable DEF Inv, TypeOK
<1> QED
  BY <1>1, <1>4, <1>5, <1>6, RecorderKeeps DEF Inv, TypeOK, RecorderPC

LEMMA ReadEndStep ==
  ASSUME Inv, NEW r \in Recorder, ReadEnd(r)
  PROVE  Inv'
<1> USE RecorderAssumption DEF ReadEnd, Goto
<1>1. Active(r) /\ pc' = [pc EXCEPT ![r] = "select"] /\ LogOf(r) # None
  BY DEF Active, Inv, Recording
<1>2. /\ rec[r] \in Local /\ Behind(rec[r])
      /\ rec[r].cursor \in Position /\ rec[r].cursor # None
  BY PageFacts
<1>3. rec' \in [Recorder -> Local] /\ \A q \in Recorder \ {r} : rec'[q] = rec[q]
  BY <1>2 DEF Inv, TypeOK, Local
<1>4. rec'[r].itf = rec[r].itf /\ Behind(rec'[r])
  BY <1>2 DEF Inv, TypeOK, Local, Behind, Position
<1>5. Pooled' /\ pool' \in 0..PoolSize
  BY TokenGiven DEF RecorderPC
<1> QED
  BY <1>1, <1>3, <1>4, <1>5, RecorderKeeps DEF Inv, TypeOK, RecorderPC

LEMMA ReadNoTokenStep ==
  ASSUME Inv, NEW r \in Recorder, ReadNoToken(r)
  PROVE  Inv'
<1> USE RecorderAssumption
<1>1. PICK e \in PageEnds(r) :
        /\ Goto(r, "read", IF e = PageStart(r) THEN "select" ELSE "failed")
        /\ rec' = [rec EXCEPT ![r].handed = HandedBy(r, e),
                              ![r].token = None, ![r].cursor = None]
  BY DEF ReadNoToken
<1>2. PICK to \in {"select", "failed"} : Goto(r, "read", to)
  BY <1>1
<1>3. /\ pc[r] = "read" /\ pool' = pool - 1
      /\ pc' = [pc EXCEPT ![r] = to]
      /\ UNCHANGED <<live, log, main, loopVars, cancelled, done>>
  BY <1>2 DEF ReadNoToken, Goto
<1>4. Active(r) /\ LogOf(r) # None
  BY <1>3 DEF Active, Inv, Recording
<1>5. /\ rec[r] \in Local /\ Behind(rec[r])
      /\ e \in Position /\ HandedBy(r, e) \in Position
      /\ rec[r].handed <= HandedBy(r, e)
  BY <1>3, PageFacts
<1>6. rec' \in [Recorder -> Local] /\ \A q \in Recorder \ {r} : rec'[q] = rec[q]
  BY <1>1, <1>5 DEF Inv, TypeOK, Local
<1>7. rec'[r].itf = rec[r].itf /\ Behind(rec'[r])
  BY <1>1, <1>5 DEF Inv, TypeOK, Local, Behind, Position
<1>8. Pooled' /\ pool' \in 0..PoolSize
  BY <1>3, TokenGiven DEF RecorderPC
<1> QED
  BY <1>3, <1>4, <1>6, <1>7, <1>8, RecorderKeeps DEF Inv, TypeOK, RecorderPC

LEMMA ReadErrorStep ==
  ASSUME Inv, NEW r \in Recorder, ReadError(r)
  PROVE  Inv'
<1> USE RecorderAssumption DEF ReadError, Goto
<1>1. Active(r) /\ pc' = [pc EXCEPT ![r] = "failed"] /\ LogOf(r) # None
  BY DEF Active, Inv, Recording
<1>2. rec[r] \in Local /\ Behind(rec[r])
  BY DEF Inv, TypeOK, AllBehind
<1>3. rec' \in [Recorder -> Local] /\ \A q \in Recorder \ {r} : rec'[q] = rec[q]
  BY <1>2 DEF Inv, TypeOK, Local
<1>4. rec'[r].itf = rec[r].itf /\ Behind(rec'[r])
  BY <1>2 DEF Inv, TypeOK, Local, Behind, Position
<1>5. Pooled' /\ pool' \in 0..PoolSize
  BY TokenGiven DEF RecorderPC
<1> QED
  BY <1>1, <1>3, <1>4, <1>5, RecorderKeeps DEF Inv, TypeOK, RecorderPC

LEMMA MarkDoneStep ==
  ASSUME Inv, NEW r \in Recorder, MarkDone(r)
  PROVE  Inv'
<1> USE RecorderAssumption DEF MarkDone, Goto
<1>1. Active(r) /\ pc' = [pc EXCEPT ![r] = "select"] /\ LogOf(r) # None
  BY DEF Active, Inv, Recording
<1>2. rec' \in [Recorder -> Local] /\ Behind(rec'[r])
  BY DEF Inv, TypeOK, AllBehind
<1>3. Pooled' /\ pool' \in 0..PoolSize
  BY PoolStable DEF Inv, TypeOK
<1> QED
  BY <1>1, <1>2, <1>3, RecorderKeeps DEF Inv, TypeOK, RecorderPC

LEMMA SelectStep ==
  ASSUME Inv, NEW r \in Recorder, Select(r)
  PROVE  Inv'
<1> USE RecorderAssumption
<1>1. PICK to \in {"ended", "idle"} :
        /\ Goto(r, "select", to)
        /\ rec' = [rec EXCEPT ![r] = IF to = "ended" THEN NewLocal(None) ELSE @]
  BY DEF Select
<1>2. /\ pc[r] = "select" /\ pool' = pool
      /\ pc' = [pc EXCEPT ![r] = to]
      /\ UNCHANGED <<live, log, main, loopVars, cancelled, done>>
  BY <1>1 DEF Select, Goto
<1>3. Active(r) /\ LogOf(r) # None
  BY <1>2 DEF Active, Inv, Recording
<1>4. rec[r] \in Local /\ Behind(rec[r]) /\ NewLocal(None) \in Local /\ Behind(NewLocal(None))
  BY NewLocalType DEF Inv, TypeOK, AllBehind
<1>5. rec' \in [Recorder -> Local] /\ \A q \in Recorder \ {r} : rec'[q] = rec[q]
  BY <1>1, <1>4 DEF Inv, TypeOK
<1>6. Behind(rec'[r]) /\ (to # "ended" => rec'[r].itf = rec[r].itf)
  BY <1>1, <1>4 DEF Inv, TypeOK
<1>7. Pooled' /\ pool' \in 0..PoolSize
  BY <1>2, PoolStable DEF Inv, TypeOK
<1> QED
  BY <1>2, <1>3, <1>5, <1>6, <1>7, RecorderKeeps DEF Inv, TypeOK, RecorderPC

-----------------------------------------------------------------------------
(***************************************************************************)
(* The loops of the subnets.                                               *)
(***************************************************************************)

(* A step of a loop that launches nothing leaves the recorders alone.      *)
LEMMA LoopKeeps ==
  ASSUME Inv, UNCHANGED <<pc, rec, log, pool>>
  PROVE  Recording' /\ Pooled' /\ AllBehind'
<1>1. Recording'
  BY DEF Inv, Recording, Active, LogOf
<1>2. Pooled' /\ AllBehind'
  BY DEF Inv, Pooled, Reading, AllBehind
<1> QED
  BY <1>1, <1>2

(* The subnets have no interface in common.                                *)
LEMMA OwnInterfaces ==
  ASSUME NEW s \in Subnet, NEW t \in Subnet, NEW i \in InSubnet(s), i \in InSubnet(t)
  PROVE  s = t /\ SubnetOf[i] = s /\ i \in Interface
BY DEF InSubnet

LEMMA FetchStep ==
  ASSUME Inv, NEW s \in Subnet, Fetch(s)
  PROVE  Inv'
<1> USE RecorderAssumption DEF Inv, Fetch, GotoLoop, recVars
<1>1. TypeOK'
  BY DEF TypeOK, Loops, InSubnet
<1>2. Loops'
  BY DEF TypeOK, Loops, InSubnet
<1>3. Mapped' /\ Owned' /\ Returned'
  BY DEF TypeOK, Mapped, Owned, Returned, Active
<1>4. Offline'
  BY DEF TypeOK, Offline
<1> QED
  BY <1>1, <1>2, <1>3, <1>4, LoopKeeps

LEMMA AddedStep ==
  ASSUME Inv, NEW s \in Subnet, Added(s)
  PROVE  Inv'
<1> USE RecorderAssumption DEF Inv, Added, GotoLoop, recVars
<1>1. TypeOK' /\ Loops'
  BY DEF TypeOK, Loops, InSubnet
<1>2. Mapped' /\ Owned' /\ Returned' /\ Offline'
  BY DEF TypeOK, Mapped, Owned, Returned, Active, Offline
<1> QED
  BY <1>1, <1>2, LoopKeeps

LEMMA RoundStep ==
  ASSUME Inv, NEW s \in Subnet, Round(s)
  PROVE  Inv'
<1> USE RecorderAssumption DEF Inv, Round, GotoLoop, recVars
<1>1. TypeOK' /\ Loops'
  BY DEF TypeOK, Loops, InSubnet
<1>2. Mapped' /\ Owned' /\ Returned'
  BY DEF TypeOK, Mapped, Owned, Returned, Active
<1>3. Offline'
  BY DEF TypeOK, Offline
<1> QED
  BY <1>1, <1>2, <1>3, LoopKeeps

(* The map changes only without LiveRecording: nobody is recorded.         *)
LEMMA TrackStep ==
  ASSUME Inv, NEW s \in Subnet, Track(s)
  PROVE  Inv'
<1> USE RecorderAssumption DEF Inv, Track, GotoLoop, recVars
<1>1. TypeOK'
  BY DEF TypeOK
<1>2. Loops'
  BY DEF TypeOK, Loops, InSubnet
<1>3. Mapped'
  BY DEF Mapped
<1>4. Owned' /\ Returned' /\ Offline'
  BY DEF TypeOK, Owned, Returned, Active, Offline
<1> QED
  BY <1>1, <1>2, <1>3, <1>4, LoopKeeps

(* The interface to stop is in the map, so it has a cancel function.       *)
LEMMA StopCancelStep ==
  ASSUME Inv, NEW s \in Subnet, NEW i \in toStop[s], StopCancel(s, i)
  PROVE  Inv'
<1> USE RecorderAssumption DEF Inv, StopCancel, GotoLoop
<1>1. live /\ i \in known[s] /\ i \in Interface /\ SubnetOf[i] = s
  BY DEF TypeOK, Offline, Loops, InSubnet
<1>2. cancelOf[i] \in Recorder
  BY <1>1 DEF TypeOK, Mapped
<1>3. TypeOK'
  BY <1>1, <1>2 DEF TypeOK
<1>4. Loops'
  BY <1>1 DEF TypeOK, Loops, InSubnet
<1>5. Mapped' /\ Owned' /\ Returned' /\ Offline'
  BY <1>1 DEF TypeOK, Mapped, Owned, Returned, Active, Offline
<1> QED
  BY <1>3, <1>4, <1>5, LoopKeeps

(* The recorder whose entry is deleted has been cancelled, and no other    *)
(* loop has that entry.                                                    *)
LEMMA StopDeleteStep ==
  ASSUME Inv, NEW s \in Subnet, StopDelete(s)
  PROVE  Inv'
<1> DEFINE i == stopping[s]
<1> USE RecorderAssumption DEF Inv, StopDelete, GotoLoop, recVars
<1>1. /\ live /\ i \in toStop[s] /\ i \in known[s] /\ i \in Interface
      /\ SubnetOf[i] = s /\ cancelOf[i] \in cancelled
  BY DEF TypeOK, Offline, Loops, InSubnet
<1>2. TypeOK'
  BY <1>1 DEF TypeOK
<1>3. \A t \in Subnet \ {s} : loop[t] = "stopping" => stopping[t] # i
  BY <1>1 DEF Loops, InSubnet
<1>4. Loops'
  BY <1>1, <1>3 DEF TypeOK, Loops, InSubnet
<1>5. Mapped'
  BY <1>1 DEF TypeOK, Mapped
<1>6. Owned'
  <2> SUFFICES ASSUME NEW r \in Recorder, Active(r), r \notin cancelled
               PROVE  /\ cancelOf'[rec[r].itf] = r
                      /\ rec[r].itf \in known'[SubnetOf[rec[r].itf]]
    BY DEF Owned, Active
  <2>1. rec[r].itf # i /\ rec[r].itf \in Interface
    BY <1>1 DEF Owned, Recording
  <2>2. SubnetOf[rec[r].itf] \in Subnet
    BY <2>1
  <2> QED
    BY <2>1, <2>2 DEF TypeOK, Owned
<1>7. Offline' /\ Returned'
  BY <1>1 DEF TypeOK, Offline, Returned
<1> QED
  BY <1>2, <1>4, <1>5, <1>6, <1>7, LoopKeeps

(* A new recorder takes the entry of an interface that has none, and an    *)
(* identity that no cancel function stops.                                 *)
LEMMA RecordStep ==
  ASSUME Inv, NEW s \in Subnet, NEW i \in toAdd[s], NEW r \in Recorder, Record(s, i, r)
  PROVE  Inv'
<1> USE RecorderAssumption DEF Inv, Record, GotoLoop
<1>1. i \in Interface /\ SubnetOf[i] = s /\ i \notin known[s] /\ live
  BY DEF TypeOK, Loops, InSubnet
<1>2. NewLocal(i) \in Local /\ Behind(NewLocal(i)) /\ NewLocal(i).itf = i
  BY <1>1, NewLocalType
<1>3. pc[r] = "ended" /\ \A j \in Interface : cancelOf[j] # r
  BY DEF Fresh
<1>4. TypeOK'
  BY <1>1, <1>2 DEF TypeOK
<1>5. \A t \in Subnet : loop[t] = "stopping" =>
        /\ t # s /\ stopping[t] # i /\ stopping[t] \in Interface
        /\ cancelOf[stopping[t]] \in cancelled \ {r}
  BY <1>1, <1>3 DEF TypeOK, Loops, InSubnet
<1>6. Loops'
  BY <1>1, <1>5 DEF TypeOK, Loops, InSubnet
<1>7. Mapped'
  BY <1>1 DEF TypeOK, Mapped
<1>8. Offline' /\ Returned'
  BY <1>1 DEF TypeOK, Offline, Returned
<1>9. Recording'
  BY <1>1, <1>2 DEF TypeOK, Recording, Active, LogOf, NewLocal
<1>10. Owned'
  <2> SUFFICES ASSUME NEW q \in Recorder, Active(q)', q \notin cancelled'
               PROVE  /\ cancelOf'[rec'[q].itf] = q
                      /\ rec'[q].itf \in known'[SubnetOf[rec'[q].itf]]
    BY DEF Owned
  <2>1. CASE q = r
    BY <1>1, <1>2, <2>1 DEF TypeOK
  <2>2. CASE q # r
    <3>1. /\ Active(q) /\ q \notin cancelled /\ rec'[q] = rec[q]
      BY <2>2 DEF TypeOK, Active
    <3>2. /\ rec[q].itf \in Interface /\ cancelOf[rec[q].itf] = q
          /\ rec[q].itf \in known[SubnetOf[rec[q].itf]] /\ rec[q].itf # i
      BY <1>1, <3>1 DEF Owned, Recording
    <3>3. SubnetOf[rec[q].itf] \in Subnet
      BY <3>2
    <3> QED
      BY <3>1, <3>2, <3>3 DEF TypeOK
  <2> QED
    BY <2>1, <2>2
<1>11. Pooled'
  <2>1. Reading' = Reading
    BY <1>3 DEF TypeOK, Reading
  <2> QED
    BY <2>1 DEF Pooled
<1>12. AllBehind'
  BY <1>2 DEF TypeOK, AllBehind
<1> QED
  BY <1>4, <1>6, <1>7, <1>8, <1>9, <1>10, <1>11, <1>12

(* The cloud and the main goroutine touch nothing the loops and recorders  *)
(* own.                                                                    *)
LEMMA OutsideStep ==
  ASSUME Inv, Cloud \/ Signal \/ Exit \/ UNCHANGED vars
  PROVE  Inv'
<1> USE RecorderAssumption
        DEF Inv, Cloud, LogEvent, Signal, Exit, vars, loopVars, recVars
<1>1. UNCHANGED <<live, loop, known, cancelOf, toAdd, toStop, stopping, pc, rec, cancelled, pool>>
  OBVIOUS
<1>2. /\ log' \in [Interface -> Position \cup {None}]
      /\ \A i \in Interface : log'[i] = None => log[i] = None
  BY DEF TypeOK, Position
<1>3. TypeOK'
  BY <1>1, <1>2 DEF TypeOK
<1>4. Loops' /\ Mapped' /\ Offline' /\ Owned' /\ Returned'
  BY <1>1 DEF Loops, Mapped, Offline, Owned, Returned, Active
<1>5. Recording'
  BY <1>1, <1>2 DEF Recording, Active, LogOf
<1>6. Pooled' /\ AllBehind'
  BY <1>1 DEF Pooled, Reading, AllBehind
<1> QED
  BY <1>3, <1>4, <1>5, <1>6

LEMMA NextInv == Inv /\ [Next]_vars => Inv'
<1> SUFFICES ASSUME Inv, [Next]_vars PROVE Inv'
  OBVIOUS
<1>1. ASSUME NEW s \in Subnet, SubnetStep(s)
      PROVE  Inv'
  BY <1>1, FetchStep, RecordStep, AddedStep, StopCancelStep, StopDeleteStep, TrackStep, RoundStep
     DEF SubnetStep
<1>2. ASSUME NEW r \in Recorder, RecorderStep(r)
      PROVE  Inv'
  BY <1>2, DescribeStep, GiveUpStep, AcquireStep, ReadPageStep, ReadEndStep, ReadNoTokenStep,
     ReadErrorStep, MarkDoneStep, SelectStep
     DEF RecorderStep
<1> QED
  BY <1>1, <1>2, OutsideStep DEF Next

LEMMA Invariance == Spec => []Inv
BY InitInv, NextInv, PTL DEF Spec

-----------------------------------------------------------------------------
(* The state of the recorder is well-typed: in particular the work pool    *)
(* holds at most PoolSize tokens, and no token is given back twice.        *)
THEOREM TypeCorrect == Spec => []TypeOK
<1>1. Inv => TypeOK
  BY DEF Inv
<1> QED
  BY <1>1, Invariance, PTL

(* The pool is exact: at any time as many tokens are out as recorders are  *)
(* reading a page, so the pool loses none on any path of errors.           *)
THEOREM PoolIsExact == Spec => [](Cardinality({r \in Recorder : pc[r] = "read"}) = pool)
<1>1. Inv => Cardinality({r \in Recorder : pc[r] = "read"}) = pool
  BY DEF Inv, Pooled, Reading
<1> QED
  BY <1>1, Invariance, PTL

(* Until Done is set every recorder that was not cancelled can be stopped  *)
(* by its loop; and at any time there is at most one of them for each      *)
(* interface, however interfaces come and go.                              *)
THEOREM NothingIsOrphaned == Spec => []NoOrphan
<1>1. Inv => NoOrphan
  <2> SUFFICES ASSUME Inv, NEW r \in Recorder, Active(r), r \notin cancelled
               PROVE  /\ Stoppable(r) \/ done
                      /\ \A q \in Recorder \ {r} :
                           Active(q) /\ q \notin cancelled => rec[q].itf # rec[r].itf
    BY DEF NoOrphan
  <2>1. rec[r].itf \in Interface /\ SubnetOf[rec[r].itf] \in Subnet
    BY RecorderAssumption DEF Inv, Recording
  <2>2. Stoppable(r) \/ done
    BY <2>1 DEF Inv, Owned, Returned, Stoppable
  <2>3. ASSUME NEW q \in Recorder \ {r}, Active(q), q \notin cancelled
        PROVE  rec[q].itf # rec[r].itf
    BY <2>3 DEF Inv, Owned
  <2> QED
    BY <2>2, <2>3
<1> QED
  BY <1>1, Invariance, PTL

(* A recorder hands over every event that was logged since it started.     *)
THEOREM NothingIsSkipped == Spec => []NoGap
<1>1. Inv => NoGap
  BY DEF Inv, AllBehind, Behind, NoGap
<1> QED
  BY <1>1, Invariance, PTL
=============================================================================
