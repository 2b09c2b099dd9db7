---------------------------- MODULE ProgramsProofs ----------------------------
(***************************************************************************)
(* Proofs about four of the programs that MCPrograms puts side by side:    *)
(* the pruning of pods (PrunePods), the tagging of resources (ModifyTags), *)
(* the log analyzer (LambdaLogs) and the text of a report (ReportText),    *)
(* for any names, resources, regions, keys, streams, points in time,       *)
(* workers and reports, and any bounds.                                    *)
(***************************************************************************)
EXTENDS MCPrograms, FiniteSetTheorems, SequenceTheorems, TLAPS

(***************************************************************************)
(* PrunePods.                                                              *)
(***************************************************************************)
Pods == [uid : Nat, finished : BOOLEAN, deleting : BOOLEAN]
Events == [name : Name, uid : Nat, finished : BOOLEAN] \cup {NoPod}

(* What an event says stays true in this form: the name of a pod that has  *)
(* finished is the name of nothing, of a finished pod or of a younger one. *)
EventTrue(e) ==
  e # NoPod =>
    /\ e.uid <= uids
    /\ e.finished => \/ pod[e.name] = NoPod
                     \/ pod[e.name].finished
                     \/ pod[e.name].uid > e.uid

PruneTypes ==
  /\ making \in Name \cup {NoPod}
  /\ pod \in [Name -> Pods \cup {NoPod}]
  /\ uids \in Nat
  /\ queue \in Seq(Events)
  /\ event \in Events
  /\ IsFiniteSet(P!Existing)

PruneEvents ==
  /\ \A n \in Name : pod[n] # NoPod => pod[n].uid <= uids
  /\ \A k \in DOMAIN queue : EventTrue(queue[k])
  /\ EventTrue(event)
  /\ pruner = "delete" => event # NoPod /\ event.finished

PruneInv == PruneTypes /\ PruneEvents /\ P!RunningSpared

LEMMA PruneInit == P!Init => PruneInv
<1> SUFFICES ASSUME P!Init PROVE PruneInv
  OBVIOUS
<1>1. P!Existing = {}
  BY DEF P!Existing, P!Init
<1>2. PruneTypes
  BY <1>1, FS_EmptySet DEF P!Init, PruneTypes, Events
<1>3. PruneEvents /\ P!RunningSpared
  BY DEF P!Init, PruneEvents, EventTrue, P!RunningSpared
<1> QED
  BY <1>2, <1>3 DEF PruneInv

(* The queue after an event is added, or the first one taken.              *)
LEMMA QueueAdds ==
  ASSUME NEW q \in Seq(Events), NEW e \in Events
  PROVE  /\ Append(q, e) \in Seq(Events)
         /\ \A k \in DOMAIN Append(q, e) :
              Append(q, e)[k] = e \/ \E j \in DOMAIN q : Append(q, e)[k] = q[j]
OBVIOUS

LEMMA QueueTakes ==
  ASSUME NEW q \in Seq(Events), q # <<>>
  PROVE  /\ Tail(q) \in Seq(Events) /\ Head(q) \in Events
         /\ \E j \in DOMAIN q : Head(q) = q[j]
         /\ \A k \in DOMAIN Tail(q) : \E j \in DOMAIN q : Tail(q)[k] = q[j]
<1>1. /\ Len(q) \in Nat \ {0} /\ DOMAIN q = 1..Len(q)
      /\ Tail(q) \in Seq(Events) /\ Head(q) = q[1] /\ Head(q) \in Events
      /\ DOMAIN Tail(q) = 1..(Len(q) - 1)
      /\ \A k \in 1..(Len(q) - 1) : Tail(q)[k] = q[k + 1]
  OBVIOUS
<1>2. 1 \in DOMAIN q /\ \A k \in DOMAIN Tail(q) : k + 1 \in DOMAIN q
  BY <1>1
<1> QED
  BY <1>1, <1>2

LEMMA SameSequence == \A S : P!SetToSeq(S) = SetToSeq(S)
BY DEF P!SetToSeq, SetToSeq, P!IsInjective, IsInjective, P!Cardinality, Cardinality

(* A finite set has a sequence of its elements, which SetToSeq chooses.    *)
LEMMA SequenceOfSet ==
  ASSUME NEW S, IsFiniteSet(S)
  PROVE  SetToSeq(S) \in Seq(S)
<1>1. Cardinality(S) \in Nat /\ ExistsBijection(1..Cardinality(S), S)
  BY FS_CardinalityType
<1>2. \E f \in [1..Cardinality(S) -> S] : IsInjective(f)
  BY <1>1 DEF IsInjective, ExistsBijection, Bijection, Injection
<1>3. SetToSeq(S) \in [1..Cardinality(S) -> S]
  BY <1>2 DEF SetToSeq
<1> QED
  BY <1>1, <1>3

(* The pod of a name is replaced by p, and an event e is reported when     *)
(* there is a watch: nothing that was reported before becomes false as     *)
(* long as p does not take back that the pod had finished.                 *)
LEMMA PodChanges ==
  ASSUME PruneInv, NEW n \in Name, NEW p \in Pods \cup {NoPod}, NEW e \in Events,
         pod' = [pod EXCEPT ![n] = p], P!Report(e),
         uids' \in Nat, uids <= uids',
         making' \in Name \cup {NoPod}, event' = event,
         pod[n] # NoPod /\ p # NoPod => p.uid = pod[n].uid /\ (pod[n].finished => p.finished),
         pod[n] = NoPod /\ p # NoPod => p.uid > uids,
         p # NoPod => p.uid <= uids',
         EventTrue(e)'
  PROVE  /\ PruneTypes'
         /\ (\A m \in Name : pod[m] # NoPod => pod[m].uid <= uids)'
         /\ (\A k \in DOMAIN queue : EventTrue(queue[k]))'
         /\ EventTrue(event)'
<1> USE DEF PruneInv, PruneTypes, PruneEvents
<1>1. queue' \in Seq(Events)
  BY QueueAdds DEF P!Report
<1>2. IsFiniteSet(P!Existing)'
  <2>1. P!Existing' \in SUBSET (P!Existing \cup {n})
    BY DEF P!Existing
  <2> QED
    BY <2>1, FS_AddElement, FS_Subset
<1>3. ASSUME NEW f \in Events, EventTrue(f)
      PROVE  EventTrue(f)'
  BY <1>3 DEF EventTrue, Events, Pods
<1>4. \A k \in DOMAIN queue' : queue'[k] = e \/ \E j \in DOMAIN queue : queue'[k] = queue[j]
  BY QueueAdds DEF P!Report
<1>5. \A j \in DOMAIN queue : queue[j] \in Events
  OBVIOUS
<1>6. (\A k \in DOMAIN queue : EventTrue(queue[k]))'
  <2> SUFFICES ASSUME NEW k \in DOMAIN queue'
               PROVE  EventTrue(queue[k])'
    OBVIOUS
  <2>1. PICK f : f = queue'[k]
    OBVIOUS
  <2>2. f \in Events /\ EventTrue(f)'
    BY <1>3, <1>4, <1>5, <2>1
  <2> QED
    BY <2>1, <2>2 DEF EventTrue
<1>7. (\A m \in Name : pod[m] # NoPod => pod[m].uid <= uids)'
  BY DEF Pods
<1> QED
  BY <1>1, <1>2, <1>3, <1>6, <1>7

(* Nothing changes for PrunePods but where it is and what it counts.       *)
LEMMA PodsStay ==
  ASSUME PruneInv, UNCHANGED <<making, pod, uids>>,
         queue' \in Seq(Events), event' \in Events,
         \A k \in DOMAIN queue' : queue'[k] = NoPod \/ \E j \in DOMAIN queue : queue'[k] = queue[j],
         event' = event \/ event' = NoPod \/ \E j \in DOMAIN queue : event' = queue[j],
         pruner' = "delete" => event' # NoPod /\ event'.finished
  PROVE  PruneTypes' /\ PruneEvents'
<1> USE DEF PruneInv, PruneTypes, PruneEvents
<1>1. ASSUME NEW f \in Events, EventTrue(f)
      PROVE  EventTrue(f)'
  BY <1>1 DEF EventTrue
<1>2. EventTrue(NoPod)
  BY DEF EventTrue
<1>3. \A j \in DOMAIN queue : queue[j] \in Events /\ EventTrue(queue[j])
  OBVIOUS
<1>4. NoPod \in Events
  BY DEF Events
<1>5. (\A k \in DOMAIN queue : EventTrue(queue[k]))'
  <2> SUFFICES ASSUME NEW k \in DOMAIN queue'
               PROVE  EventTrue(queue[k])'
    OBVIOUS
  <2>1. PICK f : f = queue'[k]
    OBVIOUS
  <2>2. f \in Events /\ EventTrue(f)'
    BY <1>1, <1>2, <1>3, <1>4, <2>1
  <2> QED
    BY <2>1, <2>2 DEF EventTrue
<1>6. EventTrue(event)'
  <2>1. PICK f : f = event'
    OBVIOUS
  <2>2. f \in Events /\ EventTrue(f)'
    BY <1>1, <1>2, <1>3, <1>4, <2>1
  <2> QED
    BY <2>1, <2>2 DEF EventTrue
<1>7. PruneTypes'
  BY DEF P!Existing
<1> QED
  BY <1>5, <1>6, <1>7

LEMMA EventsAreTyped ==
  ASSUME NEW n \in Name, NEW q \in Pods
  PROVE  P!EventOf(n, q) \in Events
BY DEF Pods, Events, P!EventOf

(* Every step of PrunePods and of the cluster.  A pod that is deleted had  *)
(* finished by the event, or is younger than the event's.                  *)
LEMMA PruneNext == PruneInv /\ [P!Next]_(P!vars) => PruneInv'
<1> SUFFICES ASSUME PruneInv, [P!Next]_(P!vars) PROVE PruneInv'
  OBVIOUS
<1> USE DEF PruneInv
<1>1. CASE P!CreateJob \/ P!DeleteJob \/ (\E n \in Name : P!GetJob(n)) \/ P!List
           \/ P!WatchEnded \/ UNCHANGED P!vars
  <2>1. /\ making' \in Name \cup {NoPod}
        /\ UNCHANGED <<pod, uids, queue, event, deletions>>
        /\ pruner' = pruner \/ pruner' # "delete"
    BY <1>1 DEF PruneTypes, P!CreateJob, P!DeleteJob, P!GetJob, P!List, P!WatchEnded, P!vars,
                P!cluster, P!channel, P!pruning
  <2>2. PruneTypes'
    BY <2>1 DEF PruneTypes, P!Existing
  <2>3. PruneEvents'
    BY <2>1 DEF PruneEvents, EventTrue
  <2> QED
    BY <2>1, <2>2, <2>3 DEF P!RunningSpared
<1>2. CASE P!CreatePod
  <2>1. making \in Name /\ making' = NoPod /\ UNCHANGED <<event, pruner, deletions>>
    BY <1>2 DEF P!CreatePod, PruneTypes, P!pruning
  <2>2. CASE UNCHANGED <<pod, uids, queue>>
    <3>1. PruneTypes'
      BY <2>1, <2>2 DEF PruneTypes, P!Existing
    <3>2. PruneEvents'
      BY <2>1, <2>2 DEF PruneEvents, EventTrue
    <3> QED
      BY <2>1, <3>1, <3>2 DEF P!RunningSpared
  <2>3. CASE /\ pod[making] = NoPod /\ uids' = uids + 1
             /\ P!Change(making, [uid |-> uids', finished |-> FALSE, deleting |-> FALSE])
    <3>1. PICK n \in Name : n = making
      BY <2>1
    <3>2. PICK q \in Pods : q = [uid |-> uids + 1, finished |-> FALSE, deleting |-> FALSE]
      <4>1. [uid |-> uids + 1, finished |-> FALSE, deleting |-> FALSE] \in Pods
        BY DEF Pods, PruneTypes
      <4> QED
        BY <4>1
    <3>3. PICK e \in Events : e = P!EventOf(n, q)
      BY EventsAreTyped
    <3>4. pod' = [pod EXCEPT ![n] = q] /\ P!Report(e)
      BY <2>3, <3>1, <3>2, <3>3 DEF P!Change
    <3>5. /\ uids \in Nat /\ uids' \in Nat /\ uids <= uids' /\ q.uid > uids /\ q.uid <= uids'
          /\ pod[n] = NoPod
      BY <2>3, <3>1, <3>2 DEF PruneTypes
    <3>6. EventTrue(e)'
      BY <2>3, <3>2, <3>3, <3>5 DEF EventTrue, P!EventOf
    <3>7. /\ PruneTypes'
          /\ (\A m \in Name : pod[m] # NoPod => pod[m].uid <= uids)'
          /\ (\A k \in DOMAIN queue : EventTrue(queue[k]))'
          /\ EventTrue(event)'
      <4> HIDE DEF PruneInv
      <4>1. /\ making' \in Name \cup {NoPod} /\ event' = event /\ q \in Pods \cup {NoPod}
            /\ uids' \in Nat /\ uids <= uids' /\ pod' = [pod EXCEPT ![n] = q] /\ P!Report(e)
        BY <2>1, <3>4, <3>5
      <4>2. /\ pod[n] # NoPod /\ q # NoPod => q.uid = pod[n].uid /\ (pod[n].finished => q.finished)
            /\ pod[n] = NoPod /\ q # NoPod => q.uid > uids
            /\ q # NoPod => q.uid <= uids'
        BY <2>1, <3>4, <3>5
      <4> QED
        BY <3>6, <4>1, <4>2, PodChanges
    <3> QED
      BY <2>1, <3>7 DEF PruneEvents, P!RunningSpared
  <2> QED
    BY <1>2, <2>2, <2>3 DEF P!CreatePod
<1>3. CASE \E n \in Name : P!Finish(n)
  <2>1. PICK n \in Name : P!Finish(n)
    BY <1>3
  <2>2. PICK q \in Pods : q = [pod[n] EXCEPT !.finished = TRUE]
    <3>1. pod[n] \in Pods
      BY <2>1 DEF P!Finish, PruneTypes
    <3>2. [pod[n] EXCEPT !.finished = TRUE] \in Pods
      BY <3>1 DEF Pods
    <3> QED
      BY <3>2
  <2>3. PICK e \in Events : e = P!EventOf(n, q)
    BY EventsAreTyped
  <2>4. /\ pod' = [pod EXCEPT ![n] = q] /\ P!Report(e) /\ pod[n] # NoPod
        /\ UNCHANGED <<making, uids, event, pruner, deletions>>
    BY <2>1, <2>2, <2>3 DEF P!Change, P!Finish, P!pruning
  <2>5. uids \in Nat /\ pod[n] \in Pods /\ pod[n].uid <= uids
    BY <2>4 DEF PruneTypes, PruneEvents
  <2>6. q.uid = pod[n].uid /\ q.finished
    BY <2>2, <2>5 DEF Pods
  <2>7. EventTrue(e)'
    BY <2>2, <2>3, <2>4, <2>5, <2>6 DEF EventTrue, P!EventOf, PruneTypes
  <2>8. /\ PruneTypes'
        /\ (\A m \in Name : pod[m] # NoPod => pod[m].uid <= uids)'
        /\ (\A k \in DOMAIN queue : EventTrue(queue[k]))'
        /\ EventTrue(event)'
    <3> HIDE DEF PruneInv
    <3>1. /\ making' \in Name \cup {NoPod} /\ event' = event /\ q \in Pods \cup {NoPod}
          /\ uids' \in Nat /\ uids <= uids' /\ pod' = [pod EXCEPT ![n] = q] /\ P!Report(e)
      BY <2>4, <2>5, <2>6 DEF PruneInv, PruneTypes
    <3>2. /\ pod[n] # NoPod /\ q # NoPod => q.uid = pod[n].uid /\ (pod[n].finished => q.finished)
          /\ pod[n] = NoPod /\ q # NoPod => q.uid > uids
          /\ q # NoPod => q.uid <= uids'
      BY <2>4, <2>5, <2>6 DEF PruneInv, PruneTypes
    <3> QED
      BY <2>7, <3>1, <3>2, PodChanges
  <2> QED
    BY <2>4, <2>8 DEF PruneEvents, P!RunningSpared
<1>4. CASE \E n \in Name : P!Collect(n)
  <2>1. PICK n \in Name : P!Collect(n)
    BY <1>4
  <2>2. PICK q \in Pods \cup {NoPod} : q = NoPod
    OBVIOUS
  <2>3. PICK e \in Events : e = P!EventOf(n, pod[n])
    BY <2>1, EventsAreTyped DEF P!Collect, PruneTypes
  <2>4. /\ pod' = [pod EXCEPT ![n] = q] /\ P!Report(e) /\ pod[n] # NoPod
        /\ UNCHANGED <<making, uids, event, pruner, deletions>>
    BY <2>1, <2>2, <2>3 DEF P!Change, P!Collect, P!pruning
  <2>5. uids \in Nat /\ pod[n] \in Pods /\ pod[n].uid <= uids
    BY <2>4 DEF PruneTypes, PruneEvents
  <2>6. EventTrue(e)'
    BY <2>2, <2>3, <2>4, <2>5 DEF EventTrue, P!EventOf, PruneTypes
  <2>7. /\ PruneTypes'
        /\ (\A m \in Name : pod[m] # NoPod => pod[m].uid <= uids)'
        /\ (\A k \in DOMAIN queue : EventTrue(queue[k]))'
        /\ EventTrue(event)'
    <3> HIDE DEF PruneInv
    <3>1. /\ making' \in Name \cup {NoPod} /\ event' = event /\ q \in Pods \cup {NoPod}
          /\ uids' \in Nat /\ uids <= uids' /\ pod' = [pod EXCEPT ![n] = q] /\ P!Report(e)
      BY <2>2, <2>4, <2>5 DEF PruneInv, PruneTypes
    <3>2. /\ pod[n] # NoPod /\ q # NoPod => q.uid = pod[n].uid /\ (pod[n].finished => q.finished)
          /\ pod[n] = NoPod /\ q # NoPod => q.uid > uids
          /\ q # NoPod => q.uid <= uids'
      BY <2>2, <2>4, <2>5 DEF PruneInv, PruneTypes
    <3> QED
      BY <2>6, <3>1, <3>2, PodChanges
  <2> QED
    BY <2>4, <2>7 DEF PruneEvents, P!RunningSpared
<1>5. CASE P!CloseWatch
  <2>1. /\ queue' \in Seq(Events)
        /\ \A k \in DOMAIN queue' :
             queue'[k] = NoPod \/ \E j \in DOMAIN queue : queue'[k] = queue[j]
    <3>1. PICK end \in {<<>>, <<NoPod>>} : queue' = queue \o end
      BY <1>5 DEF P!CloseWatch
    <3>2. NoPod \in Events /\ queue \in Seq(Events)
      BY DEF Events, PruneTypes
    <3>3. CASE end = <<>>
      BY <3>1, <3>2, <3>3
    <3>4. CASE end = <<NoPod>>
      BY <3>1, <3>2, <3>4
    <3> QED
      BY <3>3, <3>4
  <2>2. UNCHANGED <<making, pod, uids, event, pruner, deletions>>
    BY <1>5 DEF P!CloseWatch, P!cluster, P!pruning
  <2>3. PruneTypes' /\ PruneEvents'
    BY <2>1, <2>2, PodsStay DEF PruneTypes, PruneEvents
  <2> QED
    BY <2>2, <2>3 DEF P!RunningSpared
<1>6. CASE P!Watch
  <2>1. UNCHANGED <<making, pod, uids, event, deletions>> /\ pruner' # "delete"
    BY <1>6 DEF P!Watch, P!cluster, P!pruning
  <2>2. CASE UNCHANGED queue
    <3>1. PruneTypes' /\ PruneEvents'
      BY <2>1, <2>2 DEF PruneTypes, PruneEvents, P!Existing, EventTrue
    <3> QED
      BY <2>1, <3>1 DEF P!RunningSpared
  <2>3. CASE queue' = P!SetToSeq({P!EventOf(n, pod[n]) : n \in P!Existing})
    <3> DEFINE S == {P!EventOf(n, pod[n]) : n \in P!Existing}
    <3>1. IsFiniteSet(S)
      <4>1. IsFiniteSet(P!Existing)
        BY DEF PruneTypes
      <4> DEFINE f == [n \in P!Existing |-> P!EventOf(n, pod[n])]
      <4>2. f \in Surjection(P!Existing, S)
        BY DEF Surjection
      <4> QED
        BY <4>1, <4>2, FS_Surjection
    <3>2. queue' \in Seq(S)
      <4>1. queue' = P!SetToSeq(S)
        BY <2>3
      <4> HIDE DEF S
      <4> QED
        BY <3>1, <4>1, SequenceOfSet, SameSequence
    <3>3. ASSUME NEW e \in S
          PROVE  e \in Events /\ EventTrue(e)
      <4>1. PICK n \in P!Existing : e = P!EventOf(n, pod[n])
        OBVIOUS
      <4>2. n \in Name /\ pod[n] \in Pods /\ pod[n].uid <= uids
        BY DEF P!Existing, PruneTypes, PruneEvents
      <4> QED
        BY <4>1, <4>2, EventsAreTyped DEF Pods, EventTrue, P!EventOf
    <3>4. queue' \in Seq(Events)
      BY <3>2, <3>3
    <3>5. (\A k \in DOMAIN queue : EventTrue(queue[k]))'
      <4> SUFFICES ASSUME NEW k \in DOMAIN queue'
                   PROVE  EventTrue(queue[k])'
        OBVIOUS
      <4>1. queue'[k] \in S
        BY <3>2
      <4>2. PICK e : e = queue'[k]
        OBVIOUS
      <4>3. EventTrue(e)
        BY <3>3, <4>1, <4>2
      <4> QED
        BY <2>1, <4>2, <4>3 DEF EventTrue
    <3>6. PruneTypes'
      BY <2>1, <3>4 DEF PruneTypes, P!Existing
    <3>7. PruneEvents'
      BY <2>1, <3>5 DEF PruneEvents, EventTrue
    <3> QED
      BY <2>1, <3>6, <3>7 DEF P!RunningSpared
  <2> QED
    BY <1>6, <2>2, <2>3 DEF P!Watch, P!channel
<1>7. CASE P!Receive
  <2>1. /\ queue # <<>> /\ queue \in Seq(Events) /\ queue' = Tail(queue) /\ event' = Head(queue)
        /\ UNCHANGED <<making, pod, uids, deletions>>
    BY <1>7 DEF P!Receive, PruneTypes, P!cluster
  <2>2. /\ queue' \in Seq(Events) /\ event' \in Events
        /\ \E j \in DOMAIN queue : event' = queue[j]
        /\ \A k \in DOMAIN queue' : \E j \in DOMAIN queue : queue'[k] = queue[j]
    BY <2>1, QueueTakes
  <2>3. pruner' = "delete" => event' # NoPod /\ event'.finished
    BY <1>7 DEF P!Receive, P!Counted
  <2>4. PruneTypes' /\ PruneEvents'
    BY <2>1, <2>2, <2>3, PodsStay
  <2> QED
    BY <2>1, <2>4 DEF P!RunningSpared
<1>8. CASE P!Delete
  <2>1. /\ event # NoPod /\ event.finished /\ EventTrue(event) /\ event.name \in Name
        /\ event.uid \in Nat /\ uids \in Nat
        /\ pruner' # "delete" /\ UNCHANGED <<making, uids, event>>
    BY <1>8 DEF P!Delete, P!Counted, PruneTypes, PruneEvents, Events
  <2>2. CASE UNCHANGED <<pod, queue, deletions>>
    <3>1. PruneTypes' /\ PruneEvents'
      BY <2>1, <2>2 DEF PruneTypes, PruneEvents, P!Existing, EventTrue
    <3> QED
      BY <2>2, <3>1 DEF P!RunningSpared
  <2>3. CASE P!Deleted(event.name)
    <3>1. PICK n \in Name : n = event.name
      BY <2>1
    <3>2. /\ pod[n] # NoPod /\ pod[n] \in Pods /\ pod[n].uid <= uids
          /\ pod[n].finished \/ pod[n].uid > event.uid
      BY <2>1, <2>3, <3>1 DEF P!Deleted, PruneTypes, PruneEvents, EventTrue
    <3>3. P!RunningSpared'
      BY <2>3, <3>1, <3>2 DEF P!Deleted, P!RunningSpared
    <3>4. CASE UNCHANGED <<pod, queue>>
      <4>1. PruneTypes' /\ PruneEvents'
        BY <2>1, <3>4 DEF PruneTypes, PruneEvents, P!Existing, EventTrue
      <4> QED
        BY <3>3, <4>1
    <3>5. CASE P!Change(n, [pod[n] EXCEPT !.deleting = TRUE])
      <4>1. PICK q \in Pods : q = [pod[n] EXCEPT !.deleting = TRUE]
        <5>1. [pod[n] EXCEPT !.deleting = TRUE] \in Pods
          BY <3>2 DEF Pods
        <5> QED
          BY <5>1
      <4>2. PICK e \in Events : e = P!EventOf(n, q)
        BY EventsAreTyped
      <4>3. pod' = [pod EXCEPT ![n] = q] /\ P!Report(e)
        BY <3>5, <4>1, <4>2 DEF P!Change
      <4>4. q.uid = pod[n].uid /\ q.finished = pod[n].finished
        BY <3>2, <4>1 DEF Pods
      <4>5. EventTrue(e)'
        BY <2>1, <3>2, <4>2, <4>3, <4>4 DEF EventTrue, P!EventOf, PruneTypes
      <4>6. /\ PruneTypes'
            /\ (\A m \in Name : pod[m] # NoPod => pod[m].uid <= uids)'
            /\ (\A k \in DOMAIN queue : EventTrue(queue[k]))'
            /\ EventTrue(event)'
        <5> HIDE DEF PruneInv
        <5>1. /\ making' \in Name \cup {NoPod} /\ event' = event /\ q \in Pods \cup {NoPod}
              /\ uids' \in Nat /\ uids <= uids' /\ pod' = [pod EXCEPT ![n] = q] /\ P!Report(e)
          BY <2>1, <3>2, <4>3, <4>4 DEF PruneInv, PruneTypes
        <5>2. /\ pod[n] # NoPod /\ q # NoPod => q.uid = pod[n].uid /\ (pod[n].finished => q.finished)
              /\ pod[n] = NoPod /\ q # NoPod => q.uid > uids
              /\ q # NoPod => q.uid <= uids'
          BY <2>1, <3>2, <4>3, <4>4 DEF PruneInv, PruneTypes
        <5> QED
          BY <4>5, <5>1, <5>2, PodChanges
      <4> QED
        BY <2>1, <3>3, <4>6 DEF PruneEvents
    <3> QED
      BY <2>3, <3>1, <3>4, <3>5 DEF P!Deleted
  <2> QED
    BY <1>8, <2>2, <2>3 DEF P!Delete
<1> QED
  BY <1>1, <1>2, <1>3, <1>4, <1>5, <1>6, <1>7, <1>8 DEF P!Next, P!PrunePodsStep

LEMMA PrunePodsInvariant == Programs => []PruneInv
<1>1. ProgramsInit => PruneInv
  BY PruneInit DEF ProgramsInit
<1>2. ASSUME [ProgramsNext]_<<program, vars, prune, tag, logs, daily>>
      PROVE  [P!Next]_(P!vars)
  BY <1>2 DEF ProgramsNext, prune, P!vars, P!cluster, P!channel, P!pruning
<1>3. PruneInv /\ [ProgramsNext]_<<program, vars, prune, tag, logs, daily>> => PruneInv'
  BY <1>2, PruneNext
<1> QED
  BY <1>1, <1>3, PTL DEF Programs

(* PrunePods deletes a pod that runs only if the pod took the name of a    *)
(* finished one between that one's event and the deletion, whatever the    *)
(* order of events, collections and creations of pods.                     *)
THEOREM FinishedPodsOnly == Programs => []RunningSpared
<1>1. PruneInv => RunningSpared
  BY DEF PruneInv, RunningSpared
<1> QED
  BY <1>1, PrunePodsInvariant, PTL

(***************************************************************************)
(* ModifyTags.                                                             *)
(***************************************************************************)
TagSet == [Key -> T!Value]
AtObject == step \in {"read", "write"}
ToDo(r) == r \in DOMAIN objects \/ (AtObject /\ r = obj)
Unlisted(r) ==
  IF function.client.lists = "everywhere" THEN regions # {} ELSE home[r] \in regions

TagTypes ==
  /\ function \in T!Functions
  /\ home \in [Resource -> Region]
  /\ tags \in [Resource -> TagSet \cup {NoResource}]
  /\ theirs \in [Resource -> TagSet]
  /\ regions \subseteq Region
  /\ DOMAIN objects \subseteq Resource
  /\ \A r \in DOMAIN objects : objects[r] \in TagSet
  /\ AtObject => obj \in Resource /\ seen \in TagSet

(* Where the function is: a resource is listed once, and its tags are      *)
(* those others made until the function comes to it.                       *)
Position ==
  /\ function.client.lists = "everywhere" => \A g, h \in regions : g = h
  /\ step \in {"regions", "ok"} => DOMAIN objects = {}
  /\ AtObject => obj \notin DOMAIN objects
  /\ \A r \in Resource : ToDo(r) => ~Unlisted(r)
  /\ \A r \in T!Present : ToDo(r) \/ Unlisted(r) => tags[r] = theirs[r]

(* What the function has seen is what is there, unless others changed it.  *)
SeesTags ==
  /\ \A r \in DOMAIN objects : r \in T!Present \ changed => objects[r] = tags[r]
  /\ AtObject /\ function.client.reads = "nothing" => seen = [k \in Key |-> "unset"]
  /\ (\/ step = "write" /\ function.client.reads # "nothing"
      \/ step = "read" /\ function.client.reads = "described")
     => (obj \in T!Present \ changed => seen = tags[obj])

HasTags(r) ==
  \A k \in Wanted :
    /\ tags[r][k] # "unset"
    /\ function.client.writes = "differing" => tags[r][k] = "ours"

(* Complete, at every step that does not end in an error: but for those    *)
(* the function has yet to do.                                             *)
CompleteSoFar ==
  (T!Running \/ step = "ok") =>
    \A r \in (T!Present \cap found) \ (unread \cup changed) : ToDo(r) \/ HasTags(r)

TagInv == TagTypes /\ Position /\ SeesTags /\ CompleteSoFar /\ T!OthersKept

LEMMA ClientFacts ==
  ASSUME NEW f \in T!Functions
  PROVE  /\ f.client.lists = "everywhere" => ~f.regions
         /\ f.client.reads = "nothing" => f.client.writes = "differing"
         /\ f.client.writes = "whole" => f.client.reads = "fetched"
         /\ f.client.reads \in {"described", "fetched", "tried", "nothing"}
<1> DEFINE Others == {T!EC2, T!RDS, T!ELBV2, T!Autoscaling, T!Secretsmanager, T!CloudwatchLogs,
                      T!Cloudwatch, T!DynamoDB, T!Elasticache, T!ECS}
<1>1. (f.client = T!S3 /\ f.regions = FALSE) \/ f.client \in Others
  <2>1. /\ T!AddTagsNetworkInterfaces.client = T!EC2
        /\ T!AddTagsInstances.client = T!EC2
        /\ T!AddTagsLoadBalancers.client = T!ELBV2
        /\ T!AddTagsAutoScalingGroups.client = T!Autoscaling
        /\ T!AddTagsRDSClusters.client = T!RDS
        /\ T!AddTagsCloudwatchLogGroups.client = T!CloudwatchLogs
        /\ T!AddTagsECSTasks.client = T!ECS
        /\ T!AddTagsSecrets.client = T!Secretsmanager
        /\ T!AddTagsCloudwatchAlarms.client = T!Cloudwatch
        /\ T!AddTagsDynamoDBTables.client = T!DynamoDB
        /\ T!AddTagsElasticacheClusters.client = T!Elasticache
    BY DEF T!Function, T!AddTagsNetworkInterfaces, T!AddTagsInstances, T!AddTagsLoadBalancers,
           T!AddTagsAutoScalingGroups, T!AddTagsRDSClusters, T!AddTagsCloudwatchLogGroups,
           T!AddTagsECSTasks, T!AddTagsSecrets, T!AddTagsCloudwatchAlarms,
           T!AddTagsDynamoDBTables, T!AddTagsElasticacheClusters
  <2>2. \/ f = T!AddTagsS3Buckets
        \/ f \in {T!AddTagsNetworkInterfaces, T!AddTagsInstances, T!AddTagsLoadBalancers,
                  T!AddTagsAutoScalingGroups, T!AddTagsRDSClusters, T!AddTagsCloudwatchLogGroups,
                  T!AddTagsECSTasks, T!AddTagsSecrets, T!AddTagsCloudwatchAlarms,
                  T!AddTagsDynamoDBTables, T!AddTagsElasticacheClusters}
    BY DEF T!Functions, T!AddTagsImages
  <2>3. CASE f = T!AddTagsS3Buckets
    <3>1. f.client = T!S3
      BY <2>3 DEF T!AddTagsS3Buckets, T!Function
    <3>2. f.regions = FALSE
      BY <2>3 DEF T!AddTagsS3Buckets, T!Function
    <3> QED
      BY <3>1, <3>2
  <2>4. CASE f # T!AddTagsS3Buckets
    BY <2>1, <2>2, <2>4
  <2> QED
    BY <2>3, <2>4
<1>2. ASSUME NEW c \in Others
      PROVE  /\ c.lists # "everywhere"
             /\ c.reads = "nothing" => c.writes = "differing"
             /\ c.writes # "whole"
             /\ c.reads \in {"described", "fetched", "tried", "nothing"}
  BY DEF T!Client, T!EC2, T!RDS, T!ELBV2, T!Autoscaling, T!Secretsmanager, T!CloudwatchLogs,
         T!Cloudwatch, T!DynamoDB, T!Elasticache, T!ECS
<1>3. T!S3.reads = "fetched"
  BY DEF T!Client, T!S3
<1> HIDE DEF Others
<1> QED
  BY <1>1, <1>2, <1>3

LEMMA TagInit == T!Init => TagInv
<1> SUFFICES ASSUME T!Init PROVE TagInv
  OBVIOUS
<1>1. TagTypes
  BY DEF T!Init, TagTypes, TagSet, AtObject
<1>2. Position
  BY ClientFacts DEF T!Init, Position, AtObject, ToDo, Unlisted
<1>3. SeesTags
  BY DEF T!Init, SeesTags, AtObject
<1>4. CompleteSoFar
  BY DEF T!Init, CompleteSoFar
<1>5. T!OthersKept
  BY DEF T!Init, T!OthersKept
<1> QED
  BY <1>1, <1>2, <1>3, <1>4, <1>5 DEF TagInv

(* What the function writes over a resource: the tags it was to add, and   *)
(* of the others only those that it saw and that were changed since.       *)
LEMMA WritesRight ==
  ASSUME TagInv, step = "write", obj \in T!Present
  PROVE  /\ T!Written \in TagSet
         /\ obj \notin changed =>
              \A k \in Wanted :
                /\ T!Written[k] # "unset"
                /\ function.client.writes = "differing" => T!Written[k] = "ours"
         /\ obj \notin changed /\ T!Missing = {} => HasTags(obj)
         /\ \A k \in Key : T!Written[k] # theirs[obj][k] =>
              \/ /\ k \in Wanted /\ T!Written[k] = "ours"
                 /\ \/ theirs[obj][k] = "unset" \/ obj \in changed
                    \/ function.client.writes = "differing"
              \/ function.client.writes = "whole" /\ obj \in changed
<1> DEFINE writes == function.client.writes
<1>1. /\ obj \in Resource /\ seen \in TagSet /\ tags[obj] \in TagSet
      /\ theirs[obj] = tags[obj] /\ function \in T!Functions
  BY DEF TagInv, TagTypes, Position, AtObject, ToDo, T!Present
<1>2. function.client.reads # "nothing" /\ obj \notin changed => seen = tags[obj]
  BY DEF TagInv, SeesTags
<1>3. /\ function.client.reads = "nothing" =>
           seen = [k \in Key |-> "unset"] /\ writes = "differing"
      /\ writes = "whole" => function.client.reads = "fetched"
  BY <1>1, ClientFacts DEF TagInv, SeesTags, AtObject
<1>4. Wanted \subseteq Key /\ T!Missing \subseteq Wanted
  BY TagsAssumption DEF T!Missing
<1>5. \A k \in Wanted : k \notin T!Missing => seen[k] # "unset" /\ (writes = "differing" => seen[k] = "ours")
  BY DEF T!Missing, T!client
<1>6. \A k \in T!Missing : seen[k] = "unset" \/ writes = "differing"
  BY DEF T!Missing, T!client
<1>7. /\ T!Written = [k \in Key |-> T!Written[k]]
      /\ \A k \in Key : T!Written[k] = IF k \in T!Missing THEN "ours"
                                     ELSE IF writes = "whole" THEN seen[k] ELSE tags[obj][k]
  BY DEF T!Written, T!client
<1>8. T!Written \in TagSet
  <2>1. \A k \in Key : T!Written[k] \in T!Value
    BY <1>1, <1>7 DEF TagSet, T!Value
  <2> QED
    BY <1>7, <2>1 DEF TagSet
<1>9. ASSUME obj \notin changed, NEW k \in Wanted, k \notin T!Missing
      PROVE  /\ tags[obj][k] = seen[k] /\ seen[k] # "unset"
             /\ writes = "differing" => seen[k] = "ours"
  BY <1>2, <1>3, <1>4, <1>5, <1>9
<1>10. ASSUME obj \notin changed, NEW k \in Wanted
       PROVE  T!Written[k] # "unset" /\ (writes = "differing" => T!Written[k] = "ours")
  BY <1>4, <1>7, <1>9, <1>10
<1>11. obj \notin changed /\ T!Missing = {} => HasTags(obj)
  BY <1>9 DEF HasTags
<1>12. ASSUME NEW k \in Key, T!Written[k] # theirs[obj][k]
       PROVE  \/ /\ k \in Wanted /\ T!Written[k] = "ours"
                 /\ theirs[obj][k] = "unset" \/ obj \in changed \/ writes = "differing"
              \/ writes = "whole" /\ obj \in changed
  BY <1>1, <1>2, <1>3, <1>4, <1>6, <1>7, <1>12
<1> QED
  BY <1>8, <1>10, <1>11, <1>12

LEMMA WritingKeeps ==
  ASSUME TagInv, step = "write", obj \in T!Present,
         tags' = [tags EXCEPT ![obj] = T!Written],
         step' \in {"objects", "error", "panic"},
         UNCHANGED <<function, home, theirs, regions, objects, obj, seen, changed, found, unread>>
  PROVE  TagInv'
<1> USE DEF TagInv, AtObject, ToDo, Unlisted, T!Present
<1> DEFINE w == T!Written
<1>1. /\ w \in TagSet
      /\ obj \notin changed =>
           \A k \in Wanted :
             w[k] # "unset" /\ (function.client.writes = "differing" => w[k] = "ours")
      /\ \A k \in Key : w[k] # theirs[obj][k] =>
           \/ /\ k \in Wanted /\ w[k] = "ours"
              /\ \/ theirs[obj][k] = "unset" \/ obj \in changed
                 \/ function.client.writes = "differing"
           \/ function.client.writes = "whole" /\ obj \in changed
  BY WritesRight
<1>2. tags' = [tags EXCEPT ![obj] = w]
  OBVIOUS
<1> HIDE DEF w
<1>3. /\ obj \in Resource /\ tags'[obj] = w
      /\ \A q \in Resource \ {obj} : tags'[q] = tags[q]
  BY <1>2 DEF TagTypes
<1>4. TagTypes'
  BY <1>1, <1>2 DEF TagTypes, TagSet
<1>5. Position' /\ SeesTags'
  BY <1>3 DEF Position, SeesTags, TagTypes
<1>6. CompleteSoFar'
  BY <1>1, <1>3 DEF CompleteSoFar, HasTags, T!Running
<1>7. T!OthersKept'
  BY <1>1, <1>3 DEF T!OthersKept, T!client
<1> QED
  BY <1>4, <1>5, <1>6, <1>7

(* Every step of the function and of the others.                           *)
LEMMA TagNext == TagInv /\ [T!Next]_(T!vars) => TagInv'
<1> SUFFICES ASSUME TagInv, [T!Next]_(T!vars) PROVE TagInv'
  OBVIOUS
<1> USE DEF TagInv, AtObject, ToDo, Unlisted, T!client, T!Present, T!fixed, T!environment
<1>1. CASE T!Return \/ T!DescribeFails \/ UNCHANGED T!vars
  <2>1. UNCHANGED <<function, home, tags, theirs, regions, objects, obj, seen, changed, found, unread>>
    BY <1>1 DEF T!Return, T!DescribeFails, T!vars
  <2>2. \/ step' = step \/ step' = "error"
        \/ step = "regions" /\ step' = "ok"
    BY <1>1 DEF T!Return, T!DescribeFails, T!vars
  <2>3. TagTypes' /\ T!OthersKept'
    BY <2>1, <2>2 DEF TagTypes, TagSet, T!OthersKept
  <2>4. Position'
    BY <2>1, <2>2 DEF Position
  <2>5. SeesTags' /\ CompleteSoFar'
    BY <2>1, <2>2 DEF SeesTags, CompleteSoFar, HasTags, T!Running
  <2> QED
    BY <2>3, <2>4, <2>5
<1>4. CASE T!Describe
  <2>1. TagTypes'
    BY <1>4 DEF T!Describe, TagTypes, TagSet
  <2>2. Position'
    BY <1>4 DEF T!Describe, Position, TagTypes
  <2>3. SeesTags'
    BY <1>4 DEF T!Describe, SeesTags, TagTypes, Position, TagSet
  <2>4. CompleteSoFar'
    BY <1>4 DEF T!Describe, CompleteSoFar, HasTags, Position, TagTypes, SeesTags, T!Running
  <2>5. T!OthersKept'
    BY <1>4 DEF T!Describe, T!OthersKept, Position, TagTypes
  <2> QED
    BY <2>1, <2>2, <2>3, <2>4, <2>5
<1>5. CASE T!NextObject
  <2>1. /\ step = "objects"
        /\ UNCHANGED <<function, home, tags, theirs, regions, changed, found, unread>>
    BY <1>5 DEF T!NextObject
  <2>2. CASE DOMAIN objects = {}
    <3>1. step' = "regions" /\ UNCHANGED <<objects, obj>>
      BY <1>5, <2>2 DEF T!NextObject
    <3>2. TagTypes' /\ T!OthersKept'
      BY <2>1, <2>2, <3>1 DEF TagTypes, TagSet, T!OthersKept
    <3>3. Position'
      BY <2>1, <2>2, <3>1 DEF Position
    <3>4. SeesTags' /\ CompleteSoFar'
      BY <2>1, <2>2, <3>1 DEF SeesTags, CompleteSoFar, HasTags, T!Running
    <3> QED
      BY <3>2, <3>3, <3>4
  <2>3. CASE DOMAIN objects # {}
    <3>1. /\ step' = "read" /\ obj' \in DOMAIN objects
          /\ DOMAIN objects' = DOMAIN objects \ {obj'}
          /\ \A q \in DOMAIN objects' : objects'[q] = objects[q]
          /\ seen' = IF function.client.reads = "described" THEN objects[obj']
                     ELSE [k \in Key |-> "unset"]
      BY <1>5, <2>3 DEF T!NextObject
    <3>2. [k \in Key |-> "unset"] \in TagSet
      BY DEF TagSet, T!Value
    <3>3. TagTypes' /\ T!OthersKept'
      BY <2>1, <3>1, <3>2 DEF TagTypes, TagSet, T!OthersKept
    <3>4. Position'
      BY <2>1, <3>1 DEF Position
    <3>5. SeesTags'
      BY <2>1, <3>1 DEF SeesTags
    <3>6. CompleteSoFar'
      BY <2>1, <3>1 DEF CompleteSoFar, HasTags, T!Running
    <3> QED
      BY <3>3, <3>4, <3>5, <3>6
  <2> QED
    BY <2>2, <2>3
<1>6. CASE T!Read
  <2>1. /\ step = "read" /\ step' = "write"
        /\ UNCHANGED <<function, home, tags, theirs, regions, objects, obj, found, unread>>
    BY <1>6 DEF T!Read
  <2>2. CASE /\ function.client.reads \in {"fetched", "tried"} /\ obj \in T!Present
             /\ seen' = tags[obj] /\ changed' = changed \ {obj}
    <3>1. TagTypes'
      BY <2>1, <2>2 DEF TagTypes, TagSet
    <3>2. Position'
      BY <2>1, <2>2 DEF Position
    <3>3. SeesTags'
      BY <2>1, <2>2 DEF SeesTags, Position
    <3>4. CompleteSoFar'
      BY <2>1, <2>2 DEF CompleteSoFar, HasTags, T!Running
    <3>5. T!OthersKept'
      BY <2>1, <2>2 DEF T!OthersKept, Position
    <3> QED
      BY <3>1, <3>2, <3>3, <3>4, <3>5
  <2>3. CASE function.client.reads \notin {"fetched", "tried"} /\ UNCHANGED <<seen, changed>>
    <3>1. function.client.reads \in {"described", "nothing"}
      BY <2>3, ClientFacts DEF TagTypes
    <3>2. TagTypes' /\ T!OthersKept'
      BY <2>1, <2>3 DEF TagTypes, TagSet, T!OthersKept
    <3>3. Position'
      BY <2>1, <2>3 DEF Position
    <3>4. SeesTags'
      BY <2>1, <2>3, <3>1 DEF SeesTags
    <3>5. CompleteSoFar'
      BY <2>1, <2>3 DEF CompleteSoFar, HasTags, T!Running
    <3> QED
      BY <3>2, <3>3, <3>4, <3>5
  <2> QED
    BY <1>6, <2>2, <2>3 DEF T!Read
<1>7. CASE T!ReadFails
  <2>1. TagTypes'
    BY <1>7 DEF T!ReadFails, TagTypes, TagSet
  <2>2. Position'
    BY <1>7 DEF T!ReadFails, Position, TagTypes
  <2>3. SeesTags'
    BY <1>7 DEF T!ReadFails, SeesTags, TagTypes, Position, TagSet
  <2>4. CompleteSoFar'
    BY <1>7 DEF T!ReadFails, CompleteSoFar, HasTags, Position, TagTypes, SeesTags, T!Running
  <2>5. T!OthersKept'
    BY <1>7 DEF T!ReadFails, T!OthersKept, Position, TagTypes
  <2> QED
    BY <2>1, <2>2, <2>3, <2>4, <2>5
<1>8. CASE T!Write
  <2>1. /\ step = "write" /\ step' = "objects"
        /\ UNCHANGED <<function, home, theirs, regions, objects, obj, seen, changed, found, unread>>
    BY <1>8 DEF T!Write
  <2>2. CASE T!Missing = {} /\ UNCHANGED tags
    <3>1. TagTypes' /\ T!OthersKept'
      BY <2>1, <2>2 DEF TagTypes, TagSet, T!OthersKept
    <3>2. Position' /\ SeesTags'
      BY <2>1, <2>2 DEF Position, SeesTags
    <3>3. obj \in T!Present \ changed => HasTags(obj)
      BY <2>1, <2>2, WritesRight
    <3>4. CompleteSoFar'
      BY <2>1, <2>2, <3>3 DEF CompleteSoFar, HasTags, T!Running
    <3> QED
      BY <3>1, <3>2, <3>4
  <2>3. CASE obj \in T!Present /\ tags' = [tags EXCEPT ![obj] = T!Written]
    BY <2>1, <2>3, WritingKeeps
  <2> QED
    BY <1>8, <2>2, <2>3 DEF T!Write
<1>9. CASE T!WriteFails
  <2>1. /\ step = "write" /\ step' \in {"error", "panic", "objects"}
        /\ step' = "objects" => obj \notin T!Present
        /\ UNCHANGED <<function, home, theirs, regions, objects, obj, seen, changed, found, unread>>
    BY <1>9 DEF T!WriteFails
  <2>2. CASE UNCHANGED tags
    <3>1. TagTypes' /\ T!OthersKept'
      BY <2>1, <2>2 DEF TagTypes, TagSet, T!OthersKept
    <3>2. Position' /\ SeesTags'
      BY <2>1, <2>2 DEF Position, SeesTags
    <3>3. CompleteSoFar'
      BY <2>1, <2>2 DEF CompleteSoFar, HasTags, T!Running
    <3> QED
      BY <3>1, <3>2, <3>3
  <2>3. CASE obj \in T!Present /\ tags' = [tags EXCEPT ![obj] = T!Written]
    BY <2>1, <2>3, WritingKeeps
  <2> QED
    BY <1>9, <2>2, <2>3 DEF T!WriteFails
<1>10. CASE \E r \in Resource, k \in Key : T!OthersRetag(r, k)
  <2>1. PICK r \in Resource, k \in Key : T!OthersRetag(r, k)
    BY <1>10
  <2>2. PICK v \in {"other", "unset"} :
          /\ tags' = [tags EXCEPT ![r][k] = v]
          /\ theirs' = [theirs EXCEPT ![r][k] = v]
    BY <2>1 DEF T!OthersRetag
  <2>3. /\ r \in T!Present /\ changed' = changed \cup {r}
        /\ UNCHANGED <<function, home, regions, objects, step, obj, seen, found, unread>>
    BY <2>1 DEF T!OthersRetag
  <2>4. /\ v \in T!Value /\ tags[r] \in TagSet /\ theirs[r] \in TagSet
    BY <2>3 DEF TagTypes, T!Value
  <2>5. /\ [tags[r] EXCEPT ![k] = v] \in TagSet /\ [theirs[r] EXCEPT ![k] = v] \in TagSet
    BY <2>4 DEF TagSet
  <2>6. /\ tags'[r] = [tags[r] EXCEPT ![k] = v] /\ theirs'[r] = [theirs[r] EXCEPT ![k] = v]
        /\ \A q \in Resource \ {r} : tags'[q] = tags[q] /\ theirs'[q] = theirs[q]
    BY <2>2 DEF TagTypes
  <2>7. TagTypes'
    BY <2>2, <2>3, <2>5 DEF TagTypes
  <2>8. Position'
    BY <2>3, <2>6 DEF Position
  <2>9. SeesTags'
    BY <2>3, <2>6 DEF SeesTags, TagTypes
  <2>10. CompleteSoFar'
    BY <2>3, <2>6 DEF CompleteSoFar, HasTags, T!Running
  <2>11. T!OthersKept'
    <3> SUFFICES ASSUME NEW q \in T!Present', NEW l \in Key, tags'[q][l] # theirs'[q][l]
                 PROVE  /\ tags[q][l] # theirs[q][l] /\ q \in T!Present
                        /\ tags'[q][l] = tags[q][l] /\ theirs'[q][l] = theirs[q][l]
      BY <2>3 DEF T!OthersKept
    <3>1. CASE q = r
      BY <2>3, <2>4, <2>6, <3>1 DEF TagSet
    <3>2. CASE q # r
      BY <2>6, <3>2
    <3> QED
      BY <3>1, <3>2
  <2> QED
    BY <2>7, <2>8, <2>9, <2>10, <2>11
<1>11. CASE \E r \in Resource : T!OthersDelete(r)
  <2>1. TagTypes'
    BY <1>11 DEF T!OthersDelete, TagTypes, TagSet
  <2>2. Position'
    BY <1>11 DEF T!OthersDelete, Position, TagTypes
  <2>3. SeesTags'
    BY <1>11 DEF T!OthersDelete, SeesTags, TagTypes, Position, TagSet
  <2>4. CompleteSoFar'
    BY <1>11 DEF T!OthersDelete, CompleteSoFar, HasTags, Position, TagTypes, SeesTags, T!Running
  <2>5. T!OthersKept'
    BY <1>11 DEF T!OthersDelete, T!OthersKept, Position, TagTypes
  <2> QED
    BY <2>1, <2>2, <2>3, <2>4, <2>5
<1> QED
  BY <1>1, <1>4, <1>5, <1>6, <1>7, <1>8, <1>9, <1>10, <1>11
  DEF T!Next, T!Tagging

LEMMA ModifyTagsInvariant == Programs => [](program = "tags" => TagInv)
<1>1. ProgramsInit => (program = "tags" => TagInv)
  BY TagInit DEF ProgramsInit
<1>2. ASSUME program = "tags" => TagInv,
             [ProgramsNext]_<<program, vars, prune, tag, logs, daily>>
      PROVE  (program = "tags" => TagInv)'
  <2>1. UNCHANGED program
    BY <1>2 DEF ProgramsNext
  <2>2. program = "tags" => [T!Next]_(T!vars)
    BY <1>2 DEF ProgramsNext, tag, T!vars, T!fixed, T!environment
  <2> QED
    BY <1>2, <2>1, <2>2, TagNext
<1> QED
  BY <1>1, <1>2, PTL DEF Programs

(* The functions that add tags lose a tag others made only where they are  *)
(* to set it, or where it was changed after they had seen it; and one that *)
(* succeeds leaves no resource it described without its tags, but those    *)
(* others changed or whose tags it could not fetch.                        *)
THEOREM TagsAreRight == Programs => []TagsRight
<1>1. (program = "tags" => TagInv) => TagsRight
  BY DEF TagInv, Position, CompleteSoFar, HasTags, ToDo, AtObject, TagsRight, T!TagsRight,
         T!Complete, T!client
<1> QED
  BY <1>1, ModifyTagsInvariant, PTL

(***************************************************************************)
(* The log analyzer.  The lines of a stream are read one after the other,  *)
(* so that what is gathered of a run is said of the lines read so far.     *)
(***************************************************************************)
LogTypes ==
  /\ action \in {"all", "point"}
  /\ group \in Seq(Seq(L!Line)) /\ \A c \in DOMAIN group : L!IsStream(group[c])
  /\ asked \in Nat
  /\ targets \subseteq L!Selected
  /\ started \in BOOLEAN /\ events \in Seq(L!Line)
  /\ at \in {"lines", "picked"} =>
       stream \in L!Selected \ targets /\ line \in 0..Len(group[stream])

(* What SaveAllLamdasLogs keeps are lines from a START on, without a       *)
(* REPORT; further START lines follow the first one and repeat it.         *)
Headed(lines) ==
  /\ lines[1].kind = "START"
  /\ \A k \in DOMAIN lines :
       lines[k].kind = "START" => \A m \in 1..k : L!SameMessage(lines[m], lines[1])

Gathered ==
  /\ at \in {"group", "list"} => ~started /\ saved = <<>>
  /\ ~started => events = <<>>
  /\ started => /\ events # <<>> /\ Headed(events)
                /\ \A k \in DOMAIN events : events[k].kind # "REPORT"

(* After the START at i the lines of s up to n are other lines of its run. *)
Logged(s, i, n) ==
  /\ s[i].kind = "START"
  /\ \A k \in (i + 1)..n : s[k].kind = "LOG" /\ s[k].id = s[i].id

(* They are lines of the run that began at i, and no others; or they begin *)
(* with the START of an interrupted run.                                   *)
InRun(s, i) == Logged(s, i, line) /\ events = SubSeq(s, i, line) /\ events[1] = s[i]

SpoiledBy(l) ==
  \E d \in L!Selected : \E k \in L!Starts(group[d]) :
    L!Interrupted(group[d], k) /\ l = group[d][k]

Spoiled == SpoiledBy(events[1])

Began ==
  started => /\ at = "streams" => Spoiled
             /\ at = "lines" => Spoiled \/ \E i \in 1..line : InRun(group[stream], i)

(* A file was cut at a REPORT, and is the run it begins with if that ended.*)
FileRight(t) ==
  /\ Headed(saved[t])
  /\ \A k \in DOMAIN saved[t] : saved[t][k].kind = "REPORT" <=> k = Len(saved[t])
  /\ \E c \in L!Selected : \E i \in L!Starts(group[c]) :
       /\ saved[t][1] = group[c][i] /\ group[c][i].time = t
       /\ \A j \in DOMAIN group[c] :
            L!IsRun(group[c], i, j) => saved[t] = SubSeq(group[c], i, j)

Files ==
  \A t \in DOMAIN saved :
    IF saved[t] = Torn
    THEN at = "ok" /\ ~whole /\ \A u \in DOMAIN saved \ {t} : saved[u] # Torn
    ELSE FileRight(t)

(* The runs of the streams behind it are in the files, and those of the    *)
(* stream it reads that have started, but for the one it is gathering.     *)
Kept(c, i) ==
  \/ L!Interrupted(group[c], i)
  \/ group[c][i].time \in DOMAIN saved
  \/ \E d \in L!Selected : \E k \in L!Starts(group[d]) :
       /\ L!Interrupted(group[d], k) /\ group[d][k].id = group[c][i].id
       /\ group[d][k].time \in DOMAIN saved

KeptOf(c) == \A i \in L!Starts(group[c]) : Kept(c, i)

Pending(i) ==
  /\ started /\ events[1].id = group[stream][i].id
  /\ Logged(group[stream], i, line)
  /\ Spoiled \/ InRun(group[stream], i)

Progress ==
  /\ at \in {"group", "list", "streams", "lines"} => whole
  /\ at = "ok" /\ whole => targets = {}
  /\ at # "picked"
  /\ whole /\ at \in {"streams", "ok"} => \A c \in L!Selected \ targets : KeptOf(c)
  /\ at = "lines" =>
       /\ \A c \in L!Selected \ targets : c = stream \/ KeptOf(c)
       /\ \A i \in L!Starts(group[stream]) : i <= line => Kept(stream, i) \/ Pending(i)

SaveInv ==
  action = "all" => Gathered /\ Files /\ Began /\ Progress /\ output = NoOutput

(* What GetLamdaLogs has picked are the lines from i to m: the last ones   *)
(* of the window that were read, since the START of their run.             *)
Picking(s, i, m) ==
  /\ i <= m /\ events = SubSeq(s, i, m)
  /\ \A k \in i..m : s[k].id = s[i].id
  /\ \A k \in 1..(i - 1) : s[k].time < L!PointInTime
  /\ L!InWindow(s[m])
  /\ \A k \in (m + 1)..line : s[k].time >= L!PointInTime + Window
  /\ started <=> s[m].time >= L!PointInTime

PickInv ==
  action = "point" =>
    /\ at \in {"lines", "picked"} =>
         /\ events = <<>> => ~started /\ \A k \in 1..line : ~L!InWindow(group[stream][k])
         /\ events # <<>> => \E i, m \in 1..line : Picking(group[stream], i, m)
    /\ at = "picked" /\ whole => line = Len(group[stream]) \/ started
    /\ L!PointInTimeRight /\ saved = <<>>

LogInv == LogTypes /\ SaveInv /\ PickInv

(* The lines from i to n + 1 are those from i to n and the next one.       *)
LEMMA OneMoreLine ==
  ASSUME NEW S, NEW s \in Seq(S), NEW n \in 0..(Len(s) - 1), NEW i \in 1..(n + 1)
  PROVE  Append(SubSeq(s, i, n), s[n + 1]) = SubSeq(s, i, n + 1)
<1>1. SubSeq(s, i, n) \in Seq(S)
  BY SubSeqProperties, \A k \in i..n : s[k] \in S
<1>2. SubSeq(s, i, n + 1) = SubSeq(s, i, n) \o <<s[n + 1]>>
  BY SubSeqRecursiveSecond, i \in 1..Len(s), n + 1 \in i..Len(s), (n + 1) - 1 = n
<1> QED
  BY <1>1, <1>2, AppendIsConcat, s[n + 1] \in S

(* Lines of a stream are lines, as many as there are from i to n.          *)
LEMMA SomeLines ==
  ASSUME NEW S, NEW s \in Seq(S), NEW i \in 1..Len(s), NEW n \in i..Len(s)
  PROVE  /\ SubSeq(s, i, n) \in Seq(S) /\ SubSeq(s, i, n) # <<>>
         /\ Len(SubSeq(s, i, n)) = n - i + 1
         /\ \A k \in 1..(n - i + 1) : SubSeq(s, i, n)[k] = s[i + k - 1]
<1>1. \A k \in i..n : s[k] \in S
  OBVIOUS
<1>2. /\ SubSeq(s, i, n) \in Seq(S)
      /\ Len(SubSeq(s, i, n)) = n - i + 1
      /\ \A k \in 1..(n - i + 1) : SubSeq(s, i, n)[k] = s[i + k - 1]
  BY <1>1, SubSeqProperties
<1> QED
  BY <1>2, EmptySeq

(* GetLamdaLogs goes through the streams in the other direction.           *)
LEMMA StreamsReversed ==
  ASSUME NEW g \in Groups
  PROVE  /\ g \in Seq(Seq(L!Line)) /\ \A c \in DOMAIN g : L!IsStream(g[c])
         /\ L!Reverse(g) \in Seq(Seq(L!Line))
         /\ \A c \in DOMAIN L!Reverse(g) : L!IsStream(L!Reverse(g)[c])
<1>1. g \in Seq(Seq(L!Line)) /\ \A c \in DOMAIN g : L!IsStream(g[c])
  BY LogsAssumption
<1>2. L!Reverse(g) = [k \in 1..Len(g) |-> g[Len(g) - k + 1]]
  BY DEF L!Reverse
<1>3. \A k \in 1..Len(g) : Len(g) - k + 1 \in 1..Len(g) /\ g[Len(g) - k + 1] \in Seq(L!Line)
  BY <1>1
<1>4. L!Reverse(g) \in Seq(Seq(L!Line)) /\ DOMAIN L!Reverse(g) = 1..Len(g)
  BY <1>1, <1>2, <1>3
<1> QED
  BY <1>1, <1>2, <1>3, <1>4

LEMMA LogInit == L!Init => LogInv
<1> SUFFICES ASSUME L!Init
             PROVE  LogInv
  OBVIOUS
<1>1. group \in Seq(Seq(L!Line)) /\ \A c \in DOMAIN group : L!IsStream(group[c])
  <2>1. PICK g \in Groups : group = IF action = "all" THEN g ELSE L!Reverse(g)
    BY DEF L!Init
  <2> QED
    BY <2>1, StreamsReversed
<1>2. LogTypes
  <2>1. asked \in Nat
    BY LogsAssumption DEF L!Init
  <2>2. targets = {} /\ started \in BOOLEAN /\ at = "group" /\ action \in {"all", "point"}
    BY DEF L!Init
  <2>3. events \in Seq(L!Line)
    BY EmptySeq DEF L!Init
  <2> QED
    BY <1>1, <2>1, <2>2, <2>3 DEF LogTypes
<1>3. SaveInv
  BY DEF SaveInv, L!Init, Gathered, Began, Progress, Files
<1>4. PickInv
  BY DEF PickInv, L!Init, L!PointInTimeRight
<1> QED
  BY <1>2, <1>3, <1>4 DEF LogInv

(* A step changes nothing that tells which streams are read, or when a     *)
(* line is in time.                                                        *)
LEMMA LogsAsked ==
  ASSUME UNCHANGED L!asking
  PROVE  /\ UNCHANGED <<action, group, asked>>
         /\ L!Selected' = L!Selected /\ L!PointInTime' = L!PointInTime
         /\ \A l : L!InWindow(l)' = L!InWindow(l)
<1>1. UNCHANGED <<action, group, cutoff, asked>>
  BY DEF L!asking
<1>2. L!PointInTime' = L!PointInTime
  BY <1>1 DEF L!PointInTime
<1>3. L!Selected' = L!Selected
  BY <1>1, <1>2 DEF L!Selected
<1>4. \A l : L!InWindow(l)' = L!InWindow(l)
  BY <1>2 DEF L!InWindow
<1> QED
  BY <1>1, <1>2, <1>3, <1>4

LEMMA NothingElseAsked == L!Next => UNCHANGED L!asking
  BY DEF L!Next, L!InitLogGroup, L!ListStreams, L!OpenStream, L!LinesEnd, L!LinesFail, L!SkipLine,
         L!KeepLine, L!SaveFails, L!RefuseLine, L!PassLine, L!PickLine, L!WriteOutput, L!Finished, L!Fails

(* What is selected are streams of the group.                              *)
LEMMA StreamFacts ==
  ASSUME LogTypes
  PROVE  /\ L!PointInTime \in Int
         /\ \A c \in L!Selected :
              /\ c \in Nat /\ c \in DOMAIN group /\ L!IsStream(group[c])
              /\ group[c] \in Seq(L!Line) /\ DOMAIN group[c] = 1..Len(group[c])
              /\ Len(group[c]) \in Nat \ {0}
<1>1. L!PointInTime \in Int
  BY LogsAssumption DEF LogTypes, L!PointInTime
<1>2. L!Selected \subseteq DOMAIN group
  BY DEF L!Selected
<1>3. \A c \in DOMAIN group : c \in Nat
  BY DEF LogTypes
<1>4. \A s : L!IsStream(s) => s \in Seq(L!Line) /\ Len(s) \in Nat \ {0} /\ DOMAIN s = 1..Len(s)
  BY EmptySeq DEF L!IsStream
<1> QED
  BY <1>1, <1>2, <1>3, <1>4 DEF LogTypes

(* The line that is read next.                                             *)
LEMMA NextLineFacts ==
  ASSUME LogTypes, at = "lines", line < Len(L!Current)
  PROVE  /\ stream \in L!Selected \ targets /\ L!Current = group[stream]
         /\ line \in 0..(Len(group[stream]) - 1)
         /\ line + 1 \in 1..Len(group[stream])
         /\ L!NextLine = group[stream][line + 1] /\ L!NextLine \in L!Line
         /\ Append(events, L!NextLine) \in Seq(L!Line)
<1>1. /\ stream \in L!Selected \ targets /\ L!Current = group[stream]
      /\ line \in 0..(Len(group[stream]) - 1)
  BY StreamFacts DEF LogTypes, L!Current
<1>2. L!NextLine = group[stream][line + 1]
  BY DEF L!NextLine, L!Current
<1>3. L!NextLine \in L!Line
  BY <1>1, <1>2, StreamFacts
<1>4. events \in Seq(L!Line)
  BY DEF LogTypes
<1> QED
  BY <1>1, <1>2, <1>3, <1>4, StreamFacts, AppendProperties

LEMMA LogTypesNext == LogInv /\ L!Next => LogTypes'
<1> SUFFICES ASSUME LogInv, L!Next
             PROVE  LogTypes'
  OBVIOUS
<1>1. LogTypes
  BY DEF LogInv
<1>2. UNCHANGED L!asking
  BY NothingElseAsked
<1>3. UNCHANGED <<action, group, asked>> /\ L!Selected' = L!Selected
  BY <1>2, LogsAsked
<1>4. CASE L!InitLogGroup \/ L!Finished \/ L!Fails
  BY <1>3, <1>1, <1>4 DEF LogTypes, L!InitLogGroup, L!Finished, L!Fails, L!reading, L!run
<1>5. CASE L!ListStreams
  BY <1>3, <1>1, <1>5 DEF LogTypes, L!ListStreams, L!run
<1>6. CASE L!OpenStream
  <2>1. PICK c \in targets : stream' = c /\ targets' = targets \ {c} /\ line' = 0
    BY <1>6 DEF L!OpenStream
  <2>2. 0 \in 0..Len(group[c]) /\ c \in L!Selected
    BY <1>1, <2>1, StreamFacts DEF LogTypes
  <2>3. started' \in BOOLEAN /\ events' \in Seq(L!Line)
    BY <1>1, <1>6, EmptySeq DEF LogTypes, L!OpenStream, L!run
  <2>4. stream' \in L!Selected \ targets' /\ line' \in 0..Len(group[stream'])
    BY <2>1, <2>2
  <2> QED
    BY <1>3, <1>1, <2>1, <2>3, <2>4 DEF LogTypes
<1>7. CASE L!LinesEnd \/ L!LinesFail \/ L!WriteOutput
  BY <1>3, <1>1, <1>7 DEF LogTypes, L!LinesEnd, L!LinesFail, L!WriteOutput, L!reading, L!run
<1>8. CASE L!SkipLine \/ L!SaveFails \/ L!RefuseLine \/ L!PassLine \/ L!KeepLine \/ L!PickLine
  <2>1. at = "lines" /\ line < Len(L!Current) /\ line' = line + 1 /\ UNCHANGED <<targets, stream>>
    BY <1>8
       DEF L!SkipLine, L!SaveFails, L!RefuseLine, L!PassLine, L!KeepLine, L!PickLine, L!ReadsLine
  <2>2. stream' \in L!Selected \ targets' /\ line' \in 0..Len(group[stream'])
    BY <1>1, <2>1, NextLineFacts
  <2>3. started' \in BOOLEAN /\ events' \in Seq(L!Line)
    <3>1. CASE L!SkipLine \/ L!SaveFails \/ L!RefuseLine \/ L!PassLine
      BY <1>1, <3>1 DEF LogTypes, L!SkipLine, L!SaveFails, L!RefuseLine, L!PassLine, L!run
    <3>2. CASE L!KeepLine
      BY <1>1, <2>1, <3>2, NextLineFacts, EmptySeq DEF LogTypes, L!KeepLine, L!SaveFile
    <3>3. CASE L!PickLine
      <4>1. L!NextLine \in L!Line /\ Append(<<>>, L!NextLine) \in Seq(L!Line)
        BY <1>1, <2>1, NextLineFacts, EmptySeq, AppendProperties
      <4> QED
        BY <1>1, <2>1, <3>3, <4>1, NextLineFacts DEF LogTypes, L!PickLine, L!run
    <3> QED
      BY <1>8, <3>1, <3>2, <3>3
  <2> QED
    BY <1>3, <1>1, <2>1, <2>2, <2>3 DEF LogTypes
<1> QED
  BY <1>4, <1>5, <1>6, <1>7, <1>8 DEF L!Next

(* Times do not decrease in a stream that is selected, and a line that     *)
(* starts no run is of the run of the line before it.                      *)
LEMMA StreamInOrder ==
  ASSUME LogTypes, NEW c \in L!Selected
  PROVE  /\ \A i, j \in 1..Len(group[c]) : i <= j => group[c][i].time <= group[c][j].time
         /\ \A i \in 2..Len(group[c]) :
              group[c][i].kind # "START" => group[c][i].id = group[c][i - 1].id
         /\ \A i \in 1..Len(group[c]) : group[c][i] \in L!Line /\ group[c][i].time \in Nat
<1> DEFINE s == group[c]
<1>1. L!IsStream(s) /\ s \in Seq(L!Line) /\ DOMAIN s = 1..Len(s) /\ Len(s) \in Nat \ {0}
  BY StreamFacts
<1>2. \A i \in 1..Len(s) : s[i] \in L!Line
  BY <1>1
<1>3. \A i \in 1..Len(s) : s[i].time \in Nat
  BY <1>2 DEF L!Line
<1>4. \A i, j \in 1..Len(s) : i < j => s[i].time <= s[j].time
  BY <1>1 DEF L!IsStream
<1>5. \A i, j \in 1..Len(s) : i <= j => s[i].time <= s[j].time
  BY <1>1, <1>3, <1>4
<1>6. \A i \in 2..Len(s) : s[i].kind # "START" => s[i].id = s[i - 1].id
  BY <1>1 DEF L!IsStream
<1> QED
  BY <1>2, <1>3, <1>5, <1>6

(* A run that goes on up to n is cut off there, or interrupted by a START, *)
(* or goes on, or ends.                                                    *)
LEMMA RunEnds ==
  ASSUME LogTypes, NEW c \in L!Selected, NEW s, s = group[c],
         NEW i \in 1..Len(s), NEW n \in i..Len(s), Logged(s, i, n)
  PROVE  /\ i \in L!Starts(s)
         /\ n = Len(s) => L!Interrupted(s, i)
         /\ n < Len(s) =>
              /\ s[n + 1].kind = "START" => L!Interrupted(s, i)
              /\ s[n + 1].kind # "START" => s[n + 1].id = s[i].id
              /\ s[n + 1].kind = "LOG" => Logged(s, i, n + 1)
              /\ s[n + 1].kind = "REPORT" =>
                   \A j \in DOMAIN s : L!IsRun(s, i, j) => j = n + 1
<1>1. s \in Seq(L!Line) /\ DOMAIN s = 1..Len(s) /\ Len(s) \in Nat
  BY StreamFacts
<1>2. s[i].kind = "START" /\ \A k \in (i + 1)..n : s[k].kind = "LOG" /\ s[k].id = s[i].id
  BY DEF Logged
<1>3. i \in L!Starts(s)
  BY <1>1, <1>2 DEF L!Starts
<1>4. ASSUME NEW j \in DOMAIN s, L!IsRun(s, i, j)
      PROVE  j > n /\ (n < Len(s) => s[n + 1].kind # "START" /\ (s[n + 1].kind # "LOG" => j = n + 1))
  <2>1. /\ i < j /\ s[j].kind = "REPORT" /\ \A k \in (i + 1)..(j - 1) : s[k].kind = "LOG"
        /\ j \in 1..Len(s)
    BY <1>1, <1>4 DEF L!IsRun
  <2>2. j > n
    <3> SUFFICES ASSUME j <= n
                 PROVE  FALSE
      BY <2>1
    <3>1. j \in (i + 1)..n
      BY <2>1
    <3> QED
      BY <1>2, <2>1, <3>1
  <2>3. j = n + 1 \/ n + 1 \in (i + 1)..(j - 1)
    BY <2>1, <2>2
  <2> QED
    BY <2>1, <2>2, <2>3
<1>5. n = Len(s) => L!Interrupted(s, i)
  BY <1>1, <1>4 DEF L!Interrupted
<1>6. n < Len(s) /\ s[n + 1].kind = "START" => L!Interrupted(s, i)
  BY <1>4 DEF L!Interrupted
<1>7. ASSUME n < Len(s), s[n + 1].kind # "START"
      PROVE  s[n + 1].id = s[i].id
  <2>1. n + 1 \in 2..Len(s) /\ (n + 1) - 1 = n
    BY <1>1, <1>7
  <2>2. s[n + 1].id = s[n].id
    BY <1>7, <2>1, StreamInOrder
  <2>3. n = i \/ n \in (i + 1)..n
    OBVIOUS
  <2> QED
    BY <1>2, <2>2, <2>3
<1>8. ASSUME n < Len(s), s[n + 1].kind = "LOG"
      PROVE  Logged(s, i, n + 1)
  <2>1. \A k \in (i + 1)..(n + 1) : k \in (i + 1)..n \/ k = n + 1
    OBVIOUS
  <2> QED
    BY <1>2, <1>7, <1>8, <2>1 DEF Logged
<1>9. n < Len(s) /\ s[n + 1].kind = "REPORT" => \A j \in DOMAIN s : L!IsRun(s, i, j) => j = n + 1
  BY <1>4
<1> QED
  BY <1>3, <1>5, <1>6, <1>7, <1>8, <1>9

(* A line that is kept, as one of a run: the first is its START, and only  *)
(* the last one can be its REPORT.                                         *)
LEMMA KeptLines ==
  ASSUME LogInv, L!KeepLine,
         NEW lines, lines = Append(events, L!NextLine)
  PROVE  /\ lines \in Seq(L!Line) /\ lines # <<>> /\ Len(lines) \in Nat \ {0}
         /\ lines[Len(lines)] = L!NextLine /\ Headed(lines)
         /\ \A k \in 1..(Len(lines) - 1) : lines[k].kind # "REPORT"
         /\ ~started => lines[1] = L!NextLine /\ L!NextLine.kind = "START"
         /\ started => lines[1] = events[1]
         /\ L!NextLine.kind = "START" => lines[1].id = L!NextLine.id
         /\ \/ started' = TRUE /\ events' = lines /\ saved' = saved /\ L!NextLine.kind # "REPORT"
            \/ L!SaveFile(lines) /\ L!NextLine.kind = "REPORT"
<1>1. /\ action = "all" /\ at = "lines" /\ line < Len(L!Current)
      /\ L!NextLine.kind = "START" \/ started
      /\ ~L!Refused
  BY DEF L!KeepLine, L!ReadsLine
<1>2. LogTypes /\ Gathered
  BY <1>1 DEF LogInv, SaveInv
<1>3. L!NextLine \in L!Line /\ events \in Seq(L!Line)
  BY <1>1, <1>2, NextLineFacts DEF LogTypes
<1>4. /\ lines \in Seq(L!Line) /\ lines # <<>> /\ Len(lines) = Len(events) + 1
      /\ \A k \in 1..Len(events) : lines[k] = events[k]
      /\ lines[Len(events) + 1] = L!NextLine
  BY <1>3, AppendProperties
<1>5. \/ started' = TRUE /\ events' = lines /\ saved' = saved /\ L!NextLine.kind # "REPORT"
      \/ L!SaveFile(lines) /\ L!NextLine.kind = "REPORT"
  BY DEF L!KeepLine
<1>6. CASE started
  <2>1. events # <<>> /\ Headed(events) /\ \A k \in DOMAIN events : events[k].kind # "REPORT"
    BY <1>2, <1>6 DEF Gathered
  <2>2. Len(events) \in Nat \ {0} /\ DOMAIN events = 1..Len(events) /\ lines[1] = events[1]
    BY <1>3, <1>4, <2>1, EmptySeq
  <2>3. DOMAIN lines = 1..(Len(events) + 1)
    BY <1>4
  <2>4. ASSUME L!NextLine.kind = "START"
        PROVE  /\ L!SameMessage(L!NextLine, lines[1])
               /\ \A m \in 1..Len(events) : L!SameMessage(lines[m], lines[1])
    <3>1. L!SameMessage(events[Len(events)], L!NextLine)
      BY <1>1, <1>6, <2>4 DEF L!Refused
    <3>2. events[Len(events)].kind = "START" /\ Len(events) \in DOMAIN events
      BY <2>2, <2>4, <3>1 DEF L!SameMessage
    <3>3. \A m \in 1..Len(events) : L!SameMessage(events[m], events[1])
      BY <2>1, <3>2 DEF Headed
    <3> QED
      BY <1>4, <2>2, <3>1, <3>3 DEF L!SameMessage
  <2>5. Headed(lines)
    <3>1. lines[1].kind = "START"
      BY <2>1, <2>2 DEF Headed
    <3>2. ASSUME NEW k \in DOMAIN lines, lines[k].kind = "START", NEW m \in 1..k
          PROVE  L!SameMessage(lines[m], lines[1])
      <4>1. CASE k = Len(events) + 1
        <5>1. m \in 1..Len(events) \/ m = Len(events) + 1
          BY <2>2, <4>1
        <5> QED
          BY <1>4, <2>4, <3>2, <4>1, <5>1
      <4>2. CASE k \in 1..Len(events)
        <5>1. m \in 1..Len(events)
          BY <2>2, <4>2
        <5> QED
          BY <1>4, <2>1, <2>2, <3>2, <4>2, <5>1 DEF Headed
      <4> QED
        BY <2>2, <2>3, <4>1, <4>2
    <3> QED
      BY <3>1, <3>2 DEF Headed
  <2>6. L!NextLine.kind = "START" => lines[1].id = L!NextLine.id
    BY <2>4 DEF L!SameMessage
  <2>7. \A k \in 1..(Len(lines) - 1) : lines[k].kind # "REPORT"
    BY <1>4, <2>1, <2>2
  <2> QED
    BY <1>4, <1>5, <1>6, <2>2, <2>5, <2>6, <2>7
<1>7. CASE ~started
  <2>1. events = <<>> /\ Len(events) = 0 /\ L!NextLine.kind = "START"
    BY <1>1, <1>2, <1>7 DEF Gathered
  <2>2. Len(lines) = 1 /\ DOMAIN lines = 1..1 /\ lines[1] = L!NextLine
    BY <1>4, <2>1
  <2>3. Headed(lines)
    BY <2>1, <2>2 DEF Headed, L!SameMessage
  <2> QED
    BY <1>4, <1>5, <1>7, <2>1, <2>2, <2>3
<1> QED
  BY <1>6, <1>7

(* What is gathered with the line, and the run it belongs to.              *)
RunOf(lines, s, n) ==
  \E i \in 1..n : /\ s[i].kind = "START" /\ lines[1] = s[i] /\ lines = SubSeq(s, i, n)
                  /\ i = n \/ Logged(s, i, line)
                  /\ s[n].kind # "REPORT" => Logged(s, i, n)

LEMMA KeptRun ==
  ASSUME LogInv, L!KeepLine,
         NEW s, s = group[stream], NEW n, n = line + 1,
         NEW lines, lines = Append(events, L!NextLine)
  PROVE  /\ n \in 1..Len(s) /\ L!NextLine = s[n]
         /\ SpoiledBy(lines[1]) \/ RunOf(lines, s, n)
<1>1. action = "all" /\ at = "lines" /\ line < Len(L!Current)
  BY DEF L!KeepLine, L!ReadsLine
<1>2. LogTypes /\ Gathered /\ Began
  BY <1>1 DEF LogInv, SaveInv
<1>3. /\ stream \in L!Selected /\ L!NextLine = s[n] /\ n \in 1..Len(s)
      /\ line \in 0..(Len(s) - 1) /\ s \in Seq(L!Line) /\ Len(s) \in Nat
      /\ L!NextLine \in L!Line
  BY <1>1, <1>2, NextLineFacts, StreamFacts
<1>4. /\ ~started => lines[1] = L!NextLine /\ L!NextLine.kind = "START"
      /\ started => lines[1] = events[1]
  BY KeptLines
<1>5. CASE ~started
  <2>1. events = <<>>
    BY <1>2, <1>5 DEF Gathered
  <2>2. SubSeq(s, n, line) = <<>>
    BY <1>3, SubSeqEmpty
  <2>3. lines = SubSeq(s, n, n)
    <3>1. n \in 1..(line + 1)
      BY <1>3
    <3>2. Append(SubSeq(s, n, line), s[line + 1]) = SubSeq(s, n, line + 1)
      BY <1>3, <3>1, OneMoreLine
    <3> QED
      BY <1>3, <2>1, <2>2, <3>2
  <2>4. n \in 1..n /\ \A k \in (n + 1)..n : FALSE
    BY <1>3
  <2>5. Logged(s, n, n)
    BY <1>3, <1>4, <1>5, <2>4 DEF Logged
  <2> QED
    BY <1>3, <1>4, <1>5, <2>3, <2>4, <2>5 DEF RunOf
<1>6. CASE started /\ Spoiled
  BY <1>3, <1>4, <1>6 DEF Spoiled
<1>7. CASE started /\ ~Spoiled
  <2>1. PICK i \in 1..line : InRun(s, i)
    BY <1>1, <1>2, <1>7 DEF Began
  <2>2. Logged(s, i, line) /\ events = SubSeq(s, i, line) /\ events[1] = s[i]
    BY <2>1 DEF InRun
  <2>3. i \in 1..Len(s) /\ line \in i..Len(s) /\ i \in 1..n /\ line < Len(s)
    BY <1>3
  <2>4. /\ i \in L!Starts(s)
        /\ s[n].kind = "START" => L!Interrupted(s, i)
        /\ s[n].kind = "LOG" => Logged(s, i, n)
    BY <1>2, <1>3, <2>2, <2>3, RunEnds
  <2>5. lines = SubSeq(s, i, n)
    <3>1. i \in 1..(line + 1)
      BY <1>3
    <3>2. Append(SubSeq(s, i, line), s[line + 1]) = SubSeq(s, i, line + 1)
      BY <1>3, <3>1, OneMoreLine
    <3> QED
      BY <1>3, <2>2, <3>2
  <2>6. CASE s[n].kind = "START"
    BY <1>3, <1>4, <1>7, <2>2, <2>4, <2>6 DEF SpoiledBy
  <2>7. CASE s[n].kind # "START"
    <3>1. s[n].kind # "REPORT" => s[n].kind = "LOG"
      BY <1>3, <2>7 DEF L!Line
    <3> QED
      BY <1>3, <1>4, <1>7, <2>2, <2>3, <2>4, <2>5, <3>1 DEF Logged, RunOf
  <2> QED
    BY <2>6, <2>7
<1> QED
  BY <1>5, <1>6, <1>7

(* A run that was in the files is still there when there are more.         *)
LEMMA KeptStays ==
  ASSUME UNCHANGED L!asking, DOMAIN saved \subseteq DOMAIN saved', NEW c, NEW i, Kept(c, i)
  PROVE  Kept(c, i)'
<1>1. group' = group /\ L!Selected' = L!Selected
  BY LogsAsked
<1> QED
  BY <1>1 DEF Kept, L!Interrupted, L!IsRun, L!Starts

LEMMA KeepLineSaves == LogInv /\ L!KeepLine => SaveInv'
<1> SUFFICES ASSUME LogInv, L!KeepLine
             PROVE  SaveInv'
  OBVIOUS
<1>a. PICK s, n, lines : s = group[stream] /\ n = line + 1 /\ lines = Append(events, L!NextLine)
  OBVIOUS
<1>1. /\ action = "all" /\ at = "lines" /\ line < Len(L!Current) /\ line' = n
      /\ UNCHANGED L!asking /\ UNCHANGED <<at, targets, stream, output, whole>>
  BY <1>a DEF L!KeepLine, L!ReadsLine
<1>2. LogTypes /\ Gathered /\ Files /\ Progress /\ output = NoOutput /\ whole
  BY <1>1 DEF LogInv, SaveInv, Progress
<1>3. UNCHANGED <<action, group>> /\ L!Selected' = L!Selected
  BY <1>1, LogsAsked
<1>4. /\ stream \in L!Selected \ targets /\ line \in 0..Len(s) /\ s \in Seq(L!Line)
      /\ DOMAIN s = 1..Len(s) /\ Len(s) \in Nat /\ line < Len(s)
  BY <1>1, <1>2, <1>a, NextLineFacts, StreamFacts
<1>5. /\ lines \in Seq(L!Line) /\ lines # <<>> /\ Len(lines) \in Nat \ {0}
      /\ lines[Len(lines)] = L!NextLine /\ Headed(lines)
      /\ \A k \in 1..(Len(lines) - 1) : lines[k].kind # "REPORT"
      /\ ~started => lines[1] = L!NextLine /\ L!NextLine.kind = "START"
      /\ started => lines[1] = events[1]
      /\ L!NextLine.kind = "START" => lines[1].id = L!NextLine.id
      /\ \/ started' = TRUE /\ events' = lines /\ saved' = saved /\ L!NextLine.kind # "REPORT"
         \/ L!SaveFile(lines) /\ L!NextLine.kind = "REPORT"
  BY <1>a, KeptLines
<1>6. /\ n \in 1..Len(s) /\ L!NextLine = s[n]
      /\ SpoiledBy(lines[1]) \/ RunOf(lines, s, n)
  BY <1>a, KeptRun
<1>7. \A i \in L!Starts(s) : i \in 1..Len(s) /\ s[i].kind = "START"
  BY <1>4 DEF L!Starts
<1>8. \A t \in DOMAIN saved : saved[t] # Torn /\ FileRight(t)
  BY <1>1, <1>2 DEF Files
(* A run before the line that is not in the files goes on with it.         *)
<1>9. ASSUME NEW i \in L!Starts(s), i <= line, ~Kept(stream, i)
      PROVE  /\ started /\ events[1].id = s[i].id /\ lines[1].id = s[i].id
             /\ s[n].kind # "START"
             /\ s[n].kind = "LOG" => Logged(s, i, n)
             /\ Spoiled \/ (lines[1] = s[i] /\ events = SubSeq(s, i, line))
  <2>1. Pending(i)
    BY <1>1, <1>2, <1>9, <1>a DEF Progress
  <2>2. Logged(s, i, line) /\ started /\ events[1].id = s[i].id
    BY <2>1, <1>a DEF Pending
  <2>3. i \in 1..Len(s) /\ line \in i..Len(s)
    BY <1>4, <1>7, <1>9
  <2>4. /\ s[n].kind = "START" => L!Interrupted(s, i)
        /\ s[n].kind = "LOG" => Logged(s, i, n)
    BY <1>2, <1>4, <1>a, <2>2, <2>3, RunEnds
  <2>5. ~L!Interrupted(s, i)
    BY <1>9, <1>a DEF Kept
  <2>6. Spoiled \/ (events[1] = s[i] /\ events = SubSeq(s, i, line))
    BY <1>a, <2>1 DEF Pending, InRun
  <2> QED
    BY <1>5, <2>2, <2>4, <2>5, <2>6
<1>10. CASE L!NextLine.kind # "REPORT"
  <2>1. started' = TRUE /\ events' = lines /\ saved' = saved
    BY <1>5, <1>10
  <2>2. s' = s /\ group'[stream'] = s /\ at' = "lines" /\ whole'
    BY <1>1, <1>2, <1>3, <1>a
  <2>3. Gathered'
    <3>1. \A k \in DOMAIN lines : lines[k].kind # "REPORT"
      BY <1>5, <1>10
    <3>2. Headed(events')
      BY <1>5, <2>1
    <3> QED
      BY <1>5, <2>1, <2>2, <3>1, <3>2 DEF Gathered, Headed, L!SameMessage
  <2>4. Files'
    BY <1>3, <1>8, <2>1 DEF Files, FileRight, Headed, L!SameMessage, L!IsRun, L!Starts
  <2>5. Spoiled' \/ \E i \in 1..n : /\ Logged(s, i, n) /\ lines = SubSeq(s, i, n) /\ lines[1] = s[i]
    BY <1>3, <1>6, <1>10, <2>1
       DEF Spoiled, SpoiledBy, RunOf, L!Interrupted, L!IsRun, L!Starts
  <2>6. \A i : InRun(group[stream], i)' <=>
                 Logged(s, i, n) /\ lines = SubSeq(s, i, n) /\ lines[1] = s[i]
    BY <1>1, <2>1, <2>2 DEF InRun, Logged
  <2>7. Began'
    BY <1>1, <2>2, <2>5, <2>6 DEF Began
  <2>8. ASSUME NEW i \in L!Starts(s), i <= n
        PROVE  Kept(stream, i)' \/ Pending(i)'
    <3>1. i \in 1..Len(s) /\ (i <= line \/ i = n)
      BY <1>4, <1>7, <1>a, <2>8
    <3>2. CASE i <= line /\ Kept(stream, i)
      BY <1>1, <2>1, <3>2, KeptStays
    <3>3. CASE i <= line /\ ~Kept(stream, i)
      <4>1. /\ lines[1].id = s[i].id /\ s[n].kind # "START"
            /\ s[n].kind = "LOG" => Logged(s, i, n)
            /\ Spoiled \/ (lines[1] = s[i] /\ events = SubSeq(s, i, line))
        BY <1>9, <3>3
      <4>2. Logged(s, i, n)
        <5>1. s[n] \in L!Line
          BY <1>4, <1>6
        <5> QED
          BY <1>6, <1>10, <4>1, <1>9, <3>3, <5>1 DEF L!Line
      <4>3. CASE Spoiled
        <5>1. Spoiled'
          BY <1>3, <1>5, <1>9, <2>1, <3>3, <4>3
             DEF Spoiled, SpoiledBy, L!Interrupted, L!IsRun, L!Starts
        <5> QED
          BY <1>1, <2>1, <2>2, <4>1, <4>2, <5>1 DEF Pending, Logged
      <4>4. CASE lines[1] = s[i] /\ events = SubSeq(s, i, line)
        <5>1. lines = SubSeq(s, i, n)
          <6>1. i \in 1..(line + 1) /\ line \in 0..(Len(s) - 1)
            BY <1>4, <3>1, <3>3
          <6>2. Append(SubSeq(s, i, line), s[line + 1]) = SubSeq(s, i, line + 1)
            BY <1>4, <6>1, OneMoreLine
          <6> QED
            BY <1>6, <1>a, <4>4, <6>2
        <5>2. InRun(group[stream], i)'
          BY <2>6, <4>2, <4>4, <5>1
        <5> QED
          BY <1>1, <2>1, <2>2, <4>1, <4>2, <5>2 DEF Pending, Logged
      <4> QED
        BY <4>1, <4>3, <4>4
    <3>4. CASE i = n
      <4>1. s[n].kind = "START" /\ lines[1].id = s[n].id
        BY <1>5, <1>6, <1>7, <3>4
      <4>2. Logged(s, n, n)
        <5>1. \A k \in (n + 1)..n : FALSE
          BY <1>4, <1>a
        <5> QED
          BY <4>1, <5>1 DEF Logged
      <4>3. Spoiled' \/ InRun(group[stream], n)'
        <5> SUFFICES ASSUME ~Spoiled'
                     PROVE  InRun(group[stream], n)'
          OBVIOUS
        <5>1. PICK k \in 1..n : Logged(s, k, n) /\ lines = SubSeq(s, k, n) /\ lines[1] = s[k]
          BY <2>5
        <5>2. k = n
          <6> SUFFICES ASSUME k # n
                       PROVE  FALSE
            OBVIOUS
          <6>1. n \in (k + 1)..n
            BY <1>4, <1>a
          <6> QED
            BY <4>1, <5>1, <6>1 DEF Logged
        <5> QED
          BY <2>6, <5>1, <5>2
      <4> QED
        BY <1>1, <2>1, <2>2, <3>4, <4>1, <4>2, <4>3 DEF Pending, Logged
    <3> QED
      BY <3>1, <3>2, <3>3, <3>4
  <2>9. \A c \in L!Selected \ targets : c = stream \/ KeptOf(c)'
    <3>1. \A c : KeptOf(c) => KeptOf(c)'
      BY <1>1, <1>3, <2>1, KeptStays DEF KeptOf, L!Starts
    <3> QED
      BY <1>1, <1>2, <3>1 DEF Progress
  <2>10. L!Starts(group[stream])' = L!Starts(s)
    BY <2>2 DEF L!Starts
  <2>11. Progress'
    BY <1>1, <1>3, <2>2, <2>8, <2>9, <2>10 DEF Progress
  <2> QED
    BY <1>1, <1>2, <2>3, <2>4, <2>7, <2>11 DEF SaveInv
<1>11. CASE L!NextLine.kind = "REPORT"
  <2>1. /\ started' = FALSE /\ events' = <<>>
        /\ saved' = [t \in DOMAIN saved \union {lines[1].time} |->
                       IF t = lines[1].time THEN lines ELSE saved[t]]
    BY <1>5, <1>11 DEF L!SaveFile
  <2>2. /\ DOMAIN saved' = DOMAIN saved \union {lines[1].time}
        /\ \A t \in DOMAIN saved' : saved'[t] = IF t = lines[1].time THEN lines ELSE saved[t]
    BY <2>1
  <2>3. group'[stream'] = s /\ at' = "lines" /\ whole'
    BY <1>1, <1>2, <1>3, <1>a
  <2>4. Gathered' /\ Began'
    BY <2>1, <2>3 DEF Gathered, Began
  <2>5. started /\ s[n].kind = "REPORT"
    BY <1>5, <1>6, <1>11
  <2>6. Files'
    <3> SUFFICES ASSUME NEW t \in DOMAIN saved'
                 PROVE  saved'[t] # Torn /\ FileRight(t)'
      BY DEF Files
    <3>1. CASE t # lines[1].time
      <4>1. t \in DOMAIN saved /\ saved'[t] = saved[t]
        BY <2>2, <3>1
      <4> QED
        BY <1>3, <1>8, <4>1 DEF FileRight, Headed, L!SameMessage, L!IsRun, L!Starts
    <3>2. CASE t = lines[1].time
      <4>1. saved'[t] = lines /\ lines # Torn
        BY <1>5, <2>2, <3>2, LogsAssumption
      <4>2. \A k \in DOMAIN lines : lines[k].kind = "REPORT" <=> k = Len(lines)
        BY <1>5, <1>11
      <4>3. \E c \in L!Selected : \E i \in L!Starts(group[c]) :
              /\ lines[1] = group[c][i]
              /\ \A j \in DOMAIN group[c] :
                   L!IsRun(group[c], i, j) => lines = SubSeq(group[c], i, j)
        <5>1. CASE SpoiledBy(lines[1])
          BY <5>1 DEF SpoiledBy, L!Interrupted
        <5>2. CASE RunOf(lines, s, n)
          <6>1. PICK i \in 1..n : /\ s[i].kind = "START" /\ lines[1] = s[i] /\ lines = SubSeq(s, i, n)
                                  /\ i = n \/ Logged(s, i, line)
            BY <5>2 DEF RunOf
          <6>2. i # n
            BY <2>5, <6>1
          <6>3. i \in 1..Len(s) /\ line \in i..Len(s)
            BY <1>4, <1>a, <6>2
          <6>4. i \in L!Starts(s) /\ \A j \in DOMAIN s : L!IsRun(s, i, j) => j = n
            BY <1>2, <1>4, <1>a, <2>5, <6>1, <6>2, <6>3, RunEnds
          <6> QED
            BY <1>4, <1>a, <6>1, <6>4
        <5> QED
          BY <1>6, <5>1, <5>2
      <4>4. PICK c \in L!Selected : \E i \in L!Starts(group[c]) :
              /\ lines[1] = group[c][i]
              /\ \A j \in DOMAIN group[c] :
                   L!IsRun(group[c], i, j) => lines = SubSeq(group[c], i, j)
        BY <4>3
      <4>5. Headed(saved'[t])
        BY <1>5, <4>1
      <4> QED
        BY <1>3, <3>2, <4>1, <4>2, <4>4, <4>5 DEF FileRight, Headed, L!SameMessage, L!IsRun, L!Starts
    <3> QED
      BY <3>1, <3>2
  <2>7. DOMAIN saved \subseteq DOMAIN saved'
    BY <2>2
  <2>8. ASSUME NEW i \in L!Starts(s), i <= n
        PROVE  Kept(stream, i)'
    <3>1. i <= line
      BY <1>4, <1>7, <1>a, <2>5, <2>8
    <3>2. CASE Kept(stream, i)
      BY <1>1, <2>7, <3>2, KeptStays
    <3>3. CASE ~Kept(stream, i)
      <4>1. /\ events[1].id = s[i].id /\ lines[1] = events[1]
            /\ Spoiled \/ lines[1] = s[i]
        BY <1>5, <1>9, <2>5, <3>1, <3>3
      <4>2. CASE lines[1] = s[i]
        <5>1. s[i].time \in DOMAIN saved'
          BY <2>2, <4>2
        <5> QED
          BY <1>1, <2>3, <5>1 DEF Kept
      <4>3. CASE Spoiled
        <5>1. PICK d \in L!Selected : \E k \in L!Starts(group[d]) :
                L!Interrupted(group[d], k) /\ events[1] = group[d][k]
          BY <4>3 DEF Spoiled, SpoiledBy
        <5>2. PICK k \in L!Starts(group[d]) :
                L!Interrupted(group[d], k) /\ events[1] = group[d][k]
          BY <5>1
        <5>3. group[d][k].time \in DOMAIN saved' /\ group[d][k].id = s[i].id
          BY <2>2, <4>1, <5>2
        <5> QED
          BY <1>1, <1>3, <2>3, <5>2, <5>3 DEF Kept, L!Interrupted, L!IsRun, L!Starts
      <4> QED
        BY <4>1, <4>2, <4>3
    <3> QED
      BY <3>2, <3>3
  <2>9. \A c \in L!Selected \ targets : c = stream \/ KeptOf(c)'
    <3>1. \A c : KeptOf(c) => KeptOf(c)'
      BY <1>1, <1>3, <2>7, KeptStays DEF KeptOf, L!Starts
    <3> QED
      BY <1>1, <1>2, <3>1 DEF Progress
  <2>10. L!Starts(group[stream])' = L!Starts(s)
    BY <2>3 DEF L!Starts
  <2>11. Progress'
    BY <1>1, <1>3, <2>3, <2>8, <2>9, <2>10 DEF Progress
  <2> QED
    BY <1>1, <1>2, <2>4, <2>6, <2>11 DEF SaveInv
<1> QED
  BY <1>10, <1>11

(* A file that could not be written is the last one, and the only one that *)
(* is not right.                                                           *)
LEMMA SaveFailsSaves == LogInv /\ L!SaveFails => SaveInv'
<1> SUFFICES ASSUME LogInv, L!SaveFails
             PROVE  SaveInv'
  OBVIOUS
<1>1. /\ action = "all" /\ at = "lines" /\ at' = "ok" /\ ~whole'
      /\ UNCHANGED L!asking /\ UNCHANGED <<started, events, output>>
  BY DEF L!SaveFails, L!ReadsLine, L!run
<1>2. Gathered /\ Files /\ output = NoOutput
  BY <1>1 DEF LogInv, SaveInv
<1>3. UNCHANGED <<action, group>> /\ L!Selected' = L!Selected
  BY <1>1, LogsAsked
<1>4. \A t \in DOMAIN saved : saved[t] # Torn /\ FileRight(t)
  BY <1>1, <1>2 DEF Files
<1>5. \A t \in DOMAIN saved' :
        \/ saved'[t] = Torn /\ t = events[1].time
        \/ t \in DOMAIN saved /\ saved'[t] = saved[t]
  <2>1. CASE UNCHANGED saved
    BY <2>1
  <2>2. CASE saved' = [t \in DOMAIN saved \union {events[1].time} |->
                         IF t = events[1].time THEN Torn ELSE saved[t]]
    <3>1. /\ DOMAIN saved' = DOMAIN saved \union {events[1].time}
          /\ \A t \in DOMAIN saved' : saved'[t] = IF t = events[1].time THEN Torn ELSE saved[t]
      BY <2>2
    <3> QED
      BY <3>1
  <2> QED
    BY <2>1, <2>2 DEF L!SaveFails
<1>6. Files'
  <2> SUFFICES ASSUME NEW t \in DOMAIN saved'
               PROVE  IF saved'[t] = Torn
                      THEN \A u \in DOMAIN saved' \ {t} : saved'[u] # Torn
                      ELSE FileRight(t)'
    BY <1>1 DEF Files
  <2>1. CASE saved'[t] = Torn
    BY <1>4, <1>5, <2>1
  <2>2. CASE saved'[t] # Torn
    <3>1. t \in DOMAIN saved /\ saved'[t] = saved[t]
      BY <1>5, <2>2
    <3> QED
      BY <1>3, <1>4, <2>2, <3>1 DEF FileRight, Headed, L!SameMessage, L!IsRun, L!Starts
  <2> QED
    BY <2>1, <2>2
<1>7. Gathered'
  BY <1>1, <1>2 DEF Gathered, Headed, L!SameMessage
<1>8. Began' /\ Progress'
  BY <1>1 DEF Began, Progress
<1> QED
  BY <1>1, <1>2, <1>6, <1>7, <1>8 DEF SaveInv

LEMMA SaveInvNext == LogInv /\ L!Next => SaveInv'
<1> SUFFICES ASSUME LogInv, L!Next, action = "all"
             PROVE  SaveInv'
  <2>1. L!Next => action' = action
    BY NothingElseAsked, LogsAsked
  <2>2. action' # "all" => SaveInv'
    BY DEF SaveInv
  <2> QED
    BY <2>1, <2>2
<1>1. LogTypes /\ Gathered /\ Files /\ Began /\ Progress /\ output = NoOutput
  BY DEF LogInv, SaveInv
<1>2. CASE L!KeepLine \/ L!SaveFails
  BY <1>2, KeepLineSaves, SaveFailsSaves
<1>3. CASE L!PassLine \/ L!PickLine \/ L!WriteOutput
  BY <1>1, <1>3 DEF Progress, L!PassLine, L!PickLine, L!WriteOutput, L!ReadsLine
<1> SUFFICES ASSUME ~(L!KeepLine \/ L!SaveFails), ~(L!PassLine \/ L!PickLine \/ L!WriteOutput)
             PROVE  SaveInv'
  BY <1>2, <1>3
(* The other actions save nothing and keep what was gathered.              *)
<1>4. UNCHANGED <<started, events, saved, output>> /\ UNCHANGED L!asking
  BY NothingElseAsked
     DEF L!Next, L!InitLogGroup, L!ListStreams, L!OpenStream, L!LinesEnd, L!LinesFail, L!SkipLine,
         L!RefuseLine, L!Finished, L!Fails, L!run
<1>5. UNCHANGED <<action, group>> /\ L!Selected' = L!Selected
  BY <1>4, LogsAsked
<1>6. at \in {"group", "list", "streams", "lines"}
  BY DEF L!Next, L!InitLogGroup, L!ListStreams, L!OpenStream, L!LinesEnd, L!LinesFail, L!SkipLine,
         L!RefuseLine, L!Finished, L!Fails, L!ReadsLine
<1>7. Files'
  <2>1. \A t \in DOMAIN saved : saved[t] # Torn /\ FileRight(t)
    BY <1>1, <1>6 DEF Files
  <2> QED
    BY <1>4, <1>5, <2>1 DEF Files, FileRight, Headed, L!SameMessage, L!IsRun, L!Starts
<1>8. Gathered'
  <2>1. at' \in {"group", "list"} => at = "group"
    BY DEF L!Next, L!InitLogGroup, L!ListStreams, L!OpenStream, L!LinesEnd, L!LinesFail,
           L!SkipLine, L!RefuseLine, L!Finished, L!Fails, L!ReadsLine
  <2> QED
    BY <1>1, <1>4, <2>1 DEF Gathered, Headed, L!SameMessage
<1>9. /\ \A c, i : Kept(c, i) => Kept(c, i)'
      /\ \A c : L!Starts(group[c])' = L!Starts(group[c])
      /\ \A c : KeptOf(c) => KeptOf(c)'
  BY <1>4, <1>5, KeptStays DEF KeptOf, L!Starts
<1>10. Spoiled => Spoiled'
  BY <1>4, <1>5 DEF Spoiled, SpoiledBy, L!Interrupted, L!IsRun, L!Starts
<1>11. ASSUME at' \notin {"streams", "lines", "picked"}, at' = "ok" /\ whole' => targets' = {},
              at' = "ok" /\ whole' => at = "streams" /\ whole,
              at' \in {"group", "list"} => whole', targets' = targets
       PROVE  SaveInv'
  <2>1. Began'
    BY <1>11 DEF Began
  <2>2. whole' /\ at' = "ok" => \A c \in L!Selected' \ targets' : KeptOf(c)'
    BY <1>1, <1>5, <1>9, <1>11 DEF Progress
  <2>3. Progress'
    BY <1>11, <2>2 DEF Progress
  <2> QED
    BY <1>1, <1>4, <1>7, <1>8, <2>1, <2>3 DEF SaveInv
<1>12. CASE L!InitLogGroup
  BY <1>1, <1>11, <1>12 DEF L!InitLogGroup, Progress, L!reading
<1>13. CASE L!ListStreams
  <2>1. CASE at' = "streams" /\ targets' = L!Selected
    <3>1. Began'
      BY <1>1, <1>4, <1>13 DEF Began, Gathered, L!ListStreams
    <3>2. Progress'
      BY <1>1, <1>5, <1>13, <2>1 DEF Progress, L!ListStreams
    <3> QED
      BY <1>1, <1>4, <1>7, <1>8, <3>1, <3>2 DEF SaveInv
  <2>2. CASE at' = "error" /\ UNCHANGED targets
    BY <1>11, <2>2
  <2> QED
    BY <1>13, <2>1, <2>2 DEF L!ListStreams
<1>14. CASE L!OpenStream
  <2>1. at = "streams" /\ at' = "lines" /\ whole' = whole /\ whole
    BY <1>1, <1>14 DEF L!OpenStream, Progress
  <2>2. PICK c \in targets : stream' = c /\ targets' = targets \ {c} /\ line' = 0
    BY <1>14 DEF L!OpenStream
  <2>3. Began'
    BY <1>1, <1>4, <1>10, <2>1 DEF Began
  <2>4. \A d \in L!Selected \ targets' : d = c \/ KeptOf(d)'
    BY <1>1, <1>9, <2>1, <2>2 DEF Progress
  <2>5. \A i \in L!Starts(group[c]) : ~(i <= 0)
    <3>1. L!Starts(group[c]) \subseteq 1..Len(group[c]) /\ Len(group[c]) \in Nat
      BY <1>1, <2>2, StreamFacts DEF LogTypes, L!Starts
    <3> QED
      BY <3>1
  <2>6. Progress'
    BY <1>5, <1>9, <2>1, <2>2, <2>4, <2>5 DEF Progress
  <2> QED
    BY <1>1, <1>4, <1>7, <1>8, <2>3, <2>6 DEF SaveInv
<1>15. CASE L!LinesEnd
  <2>1. /\ at = "lines" /\ at' = "streams" /\ UNCHANGED <<targets, stream, line, whole>>
        /\ line = Len(group[stream]) /\ whole
    BY <1>1, <1>15 DEF L!LinesEnd, L!Current, L!reading, Progress
  <2>2. stream \in L!Selected \ targets /\ line \in Nat
    BY <1>1, <2>1, StreamFacts DEF LogTypes
  <2>3. PICK s : s = group[stream]
    OBVIOUS
  <2>4. ASSUME NEW i \in 1..line, Logged(s, i, line)
        PROVE  i \in L!Starts(s) /\ L!Interrupted(s, i)
    BY <1>1, <2>1, <2>2, <2>3, <2>4, RunEnds
  <2>5. started => Spoiled
    BY <1>1, <2>1, <2>2, <2>3, <2>4 DEF Began, InRun, Spoiled, SpoiledBy
  <2>6. Began'
    BY <1>4, <1>10, <2>1, <2>5 DEF Began
  <2>7. ASSUME NEW i \in L!Starts(s)
        PROVE  Kept(stream, i)
    <3>1. i \in 1..line
      BY <1>1, <2>1, <2>2, <2>3, StreamFacts DEF L!Starts
    <3>2. Kept(stream, i) \/ Pending(i)
      BY <1>1, <2>1, <2>3, <3>1 DEF Progress
    <3> QED
      BY <2>3, <2>4, <3>1, <3>2 DEF Kept, Pending
  <2>8. \A c \in L!Selected \ targets : KeptOf(c)
    BY <1>1, <2>1, <2>3, <2>7 DEF Progress, KeptOf
  <2>9. Progress'
    BY <1>5, <1>9, <2>1, <2>8 DEF Progress
  <2> QED
    BY <1>1, <1>4, <1>7, <1>8, <2>6, <2>9 DEF SaveInv
<1>16. CASE L!LinesFail \/ L!RefuseLine
  BY <1>11, <1>16 DEF L!LinesFail, L!RefuseLine, L!reading
<1>17. CASE L!SkipLine
  <2>1. /\ at = "lines" /\ line < Len(L!Current) /\ line' = line + 1
        /\ UNCHANGED <<at, targets, stream, whole>>
        /\ L!NextLine.kind # "START" /\ ~started
    BY <1>17 DEF L!SkipLine, L!ReadsLine
  <2>2. /\ L!NextLine = group[stream][line + 1] /\ line \in Nat
        /\ L!Starts(group[stream]) \subseteq Nat
    BY <1>1, <2>1, NextLineFacts, StreamFacts DEF L!Starts
  <2>3. Began'
    BY <1>4, <2>1 DEF Began
  <2>4. \A i \in L!Starts(group[stream]) : i <= line + 1 => i <= line
    BY <2>1, <2>2 DEF L!Starts
  <2>5. \A i \in L!Starts(group[stream]) : i <= line + 1 => Kept(stream, i)
    BY <1>1, <2>1, <2>4 DEF Progress, Pending
  <2>6. \A c \in L!Selected \ targets : c = stream \/ KeptOf(c)
    BY <1>1, <2>1 DEF Progress
  <2>7. Progress'
    BY <1>1, <1>5, <1>9, <2>1, <2>5, <2>6 DEF Progress
  <2> QED
    BY <1>1, <1>4, <1>7, <1>8, <2>3, <2>7 DEF SaveInv
<1>18. CASE L!Finished \/ L!Fails
  BY <1>1, <1>11, <1>18 DEF L!Finished, L!Fails, L!reading, Progress
<1> QED
  BY <1>12, <1>13, <1>14, <1>15, <1>16, <1>17, <1>18 DEF L!Next

(* A line of the window is taken: the lines picked are of one run, and     *)
(* none before them is in time.                                            *)
LEMMA LinePicked ==
  ASSUME LogInv, L!PickLine, at' # "error",
         NEW s, s = group[stream], NEW n, n = line + 1
  PROVE  /\ events' # <<>> /\ n \in 1..Len(s) /\ stream \in L!Selected
         /\ line' = n
         /\ at' = "picked" => started'
         /\ \E i \in 1..n : Picking(s, i, n)'
<1>1. /\ action = "point" /\ at = "lines" /\ line < Len(L!Current) /\ line' = n
      /\ UNCHANGED L!asking /\ L!InWindow(L!NextLine)
      /\ ~(started /\ L!NextLine.kind = "START")
      /\ events' = Append(IF L!NextLine.kind = "START" THEN <<>> ELSE events, L!NextLine)
      /\ started' = (started \/ L!NextLine.time >= L!PointInTime)
      /\ at' = IF started /\ L!NextLine.kind = "REPORT" THEN "picked" ELSE "lines"
  BY DEF L!PickLine, L!ReadsLine
<1>2. LogTypes
  BY DEF LogInv
<1>3. /\ stream \in L!Selected /\ L!NextLine = s[n]
      /\ line \in 0..(Len(s) - 1) /\ n \in 1..Len(s) /\ n \in Nat
      /\ s \in Seq(L!Line) /\ Len(s) \in Nat
  BY <1>1, <1>2, NextLineFacts, StreamFacts
<1>4. /\ \A i, j \in 1..Len(s) : i <= j => s[i].time <= s[j].time
      /\ \A i \in 2..Len(s) : s[i].kind # "START" => s[i].id = s[i - 1].id
      /\ \A i \in 1..Len(s) : s[i] \in L!Line /\ s[i].time \in Nat
  BY <1>2, <1>3, StreamInOrder
<1>5. L!PointInTime \in Int /\ Window \in Nat
  BY <1>2, StreamFacts, LogsAssumption
<1>6. /\ L!PointInTime - Window <= s[n].time
      /\ s[n].time < L!PointInTime + Window
  <2>1. s[n].time \in (L!PointInTime - Window)..(L!PointInTime + Window - 1)
    BY <1>1, <1>3 DEF L!InWindow
  <2> QED
    BY <1>5, <2>1
<1>7. L!PointInTime' = L!PointInTime /\ L!InWindow(s[n])
  BY <1>1, <1>3, LogsAsked
(* What was picked before goes up to the line before.                      *)
<1>8. \/ events = <<>> /\ ~started /\ \A k \in 1..line : ~L!InWindow(s[k])
      \/ \E i \in 1..line : Picking(s, i, line)
  <2>1. CASE events = <<>>
    BY <1>1, <2>1 DEF LogInv, PickInv
  <2>2. CASE events # <<>>
    <3>1. PICK i \in 1..line, m \in 1..line : Picking(s, i, m)
      BY <1>1, <2>2 DEF LogInv, PickInv
    <3>2. m = line
      <4> SUFFICES ASSUME m < line
                   PROVE  FALSE
        BY <1>3
      <4>1. s[line].time >= L!PointInTime + Window
        <5>1. line \in (m + 1)..line
          BY <1>3
        <5> QED
          BY <3>1, <5>1 DEF Picking
      <4>2. s[line].time <= s[n].time /\ s[line].time \in Nat /\ s[n].time \in Nat
        BY <1>3, <1>4
      <4> QED
        BY <1>5, <1>6, <4>1, <4>2
    <3> QED
      BY <3>1, <3>2
  <2> QED
    BY <2>1, <2>2
(* No line before is in time, unless it is of the run that is kept.        *)
<1>9. ~started => \A k \in 1..line : s[k].time < L!PointInTime
  <2> SUFFICES ASSUME ~started, NEW k \in 1..line
               PROVE  s[k].time < L!PointInTime
    OBVIOUS
  <2>1. k \in 1..Len(s) /\ s[k].time \in Nat /\ s[k].time <= s[n].time
    BY <1>3, <1>4
  <2>2. CASE ~L!InWindow(s[k])
    BY <1>5, <1>6, <2>1, <2>2, <1>3, <1>4 DEF L!InWindow
  <2>3. CASE \E i \in 1..line : Picking(s, i, line)
    <3>1. ~(s[line].time >= L!PointInTime)
      BY <2>3 DEF Picking
    <3>2. line \in 1..Len(s) /\ s[line].time \in Nat /\ s[k].time <= s[line].time
      BY <1>3, <1>4
    <3> QED
      BY <1>5, <2>1, <3>1, <3>2
  <2> QED
    BY <1>8, <2>2, <2>3
<1>10. ASSUME NEW i \in 1..n, events' = SubSeq(s, i, n),
              \A k \in i..n : s[k].id = s[i].id,
              \A k \in 1..(i - 1) : s[k].time < L!PointInTime,
              started => s[n].time >= L!PointInTime
       PROVE  Picking(s, i, n)'
  <2>1. started' <=> s[n].time >= L!PointInTime
    BY <1>1, <1>3, <1>10
  <2>2. i <= n /\ line' = n /\ \A k \in (n + 1)..n : FALSE
    BY <1>1, <1>3
  <2> QED
    BY <1>7, <1>10, <2>1, <2>2 DEF Picking, L!InWindow
<1>11. CASE L!NextLine.kind = "START" \/ events = <<>>
  <2>1. ~started
    BY <1>1, <1>11 DEF LogInv, PickInv
  <2>2. events' = Append(<<>>, s[n])
    BY <1>1, <1>3, <1>11
  <2>3. SubSeq(s, n, line) = <<>>
    BY <1>3, SubSeqEmpty
  <2>4. events' = SubSeq(s, n, n)
    <3>1. n \in 1..(line + 1)
      BY <1>3
    <3>2. Append(SubSeq(s, n, line), s[line + 1]) = SubSeq(s, n, line + 1)
      BY <1>3, <3>1, OneMoreLine
    <3> QED
      BY <2>2, <2>3, <3>2
  <2>5. \A k \in n..n : s[k].id = s[n].id
    BY <1>3
  <2>6. \A k \in 1..(n - 1) : s[k].time < L!PointInTime
    BY <1>3, <1>9, <2>1
  <2>7. n \in 1..n /\ n \in n..Len(s)
    BY <1>3
  <2>8. Picking(s, n, n)'
    BY <1>10, <2>1, <2>4, <2>5, <2>6, <2>7
  <2>9. events' # <<>>
    BY <1>3, <2>4, <2>7, SomeLines
  <2>10. at' = "picked" => started'
    BY <1>1, <2>1
  <2> QED
    BY <1>1, <1>3, <2>7, <2>8, <2>9, <2>10
<1>12. CASE L!NextLine.kind # "START" /\ events # <<>>
  <2>1. PICK i \in 1..line : Picking(s, i, line)
    BY <1>8, <1>12
  <2>2. events' = SubSeq(s, i, n)
    <3>1. events' = Append(SubSeq(s, i, line), s[n])
      BY <1>1, <1>3, <1>12, <2>1 DEF Picking
    <3>2. i \in 1..(line + 1)
      BY <1>3
    <3>3. Append(SubSeq(s, i, line), s[line + 1]) = SubSeq(s, i, line + 1)
      BY <1>3, <3>2, OneMoreLine
    <3> QED
      BY <3>1, <3>3
  <2>3. \A k \in i..n : s[k].id = s[i].id
    <3>1. \A k \in i..line : s[k].id = s[i].id
      BY <2>1 DEF Picking
    <3>2. s[n].id = s[line].id
      BY <1>3, <1>4, <1>12
    <3>3. line \in i..line /\ \A k \in i..n : k \in i..line \/ k = n
      BY <1>3
    <3> QED
      BY <3>1, <3>2, <3>3
  <2>4. \A k \in 1..(i - 1) : s[k].time < L!PointInTime
    BY <2>1 DEF Picking
  <2>5. started => s[n].time >= L!PointInTime
    <3> SUFFICES ASSUME started
                 PROVE  s[n].time >= L!PointInTime
      OBVIOUS
    <3>1. s[line].time >= L!PointInTime
      BY <2>1 DEF Picking
    <3>2. s[line].time <= s[n].time /\ s[line].time \in Nat /\ s[n].time \in Nat
      <4>1. line \in 1..Len(s) /\ n \in 1..Len(s) /\ line <= n
        BY <1>3
      <4> QED
        BY <1>4, <4>1
    <3> QED
      BY <1>5, <3>1, <3>2
  <2>6. i \in 1..n /\ i \in 1..Len(s) /\ n \in i..Len(s)
    BY <1>3
  <2>7. Picking(s, i, n)'
    BY <1>10, <2>2, <2>3, <2>4, <2>5, <2>6
  <2>8. events' # <<>>
    <3>1. s \in Seq(L!Line)
      BY <1>3
    <3>2. SubSeq(s, i, n) # <<>>
      BY <2>6, <3>1, SomeLines
    <3> QED
      BY <2>2, <3>2
  <2>9. at' = "picked" => started'
    BY <1>1
  <2> QED
    BY <1>1, <1>3, <2>6, <2>7, <2>8, <2>9
<1> QED
  BY <1>11, <1>12

(* What was written stays right when no more is.                           *)
LEMMA WrittenStays ==
  ASSUME L!PointInTimeRight, UNCHANGED <<group, output>>, L!PointInTime' = L!PointInTime,
         whole' => whole
  PROVE  L!PointInTimeRight'
<1> SUFFICES ASSUME output \notin {NoOutput, Torn}
             PROVE  L!PointInTimeRight'
  BY DEF L!PointInTimeRight
<1> DEFINE s == group[output.stream]
<1>1. PICK i \in DOMAIN s, j \in DOMAIN s :
         /\ i <= j /\ output.lines = SubSeq(s, i, j)
         /\ \A k \in i..j : s[k].id = s[i].id
         /\ \A k \in 1..(i - 1) : s[k].time < L!PointInTime
         /\ whole => \/ s[j].time >= L!PointInTime
                     \/ \A k \in DOMAIN s : s[k].time >= L!PointInTime => ~L!InWindow(s[k])
  BY DEF L!PointInTimeRight
<1>2. s' = s
  OBVIOUS
<1> QED
  BY <1>1, <1>2 DEF L!PointInTimeRight, L!InWindow

(* What is written when a stream was gone through.                         *)
LEMMA WrittenRight ==
  ASSUME LogInv, at = "picked", events # <<>>, action = "point",
         NEW s, s = group[stream]
  PROVE  \E i, j \in DOMAIN s :
           /\ i <= j /\ events = SubSeq(s, i, j)
           /\ \A k \in i..j : s[k].id = s[i].id
           /\ \A k \in 1..(i - 1) : s[k].time < L!PointInTime
           /\ whole => \/ s[j].time >= L!PointInTime
                       \/ \A k \in DOMAIN s : s[k].time >= L!PointInTime => ~L!InWindow(s[k])
<1>1. LogTypes
  BY DEF LogInv
<1>2. stream \in L!Selected /\ line \in 0..Len(s)
  BY <1>1 DEF LogTypes
<1>3. s \in Seq(L!Line) /\ Len(s) \in Nat /\ DOMAIN s = 1..Len(s)
  BY <1>1, <1>2, StreamFacts
<1>4. /\ \A i, j \in 1..Len(s) : i <= j => s[i].time <= s[j].time
      /\ \A i \in 1..Len(s) : s[i].time \in Nat
  BY <1>1, <1>2, StreamInOrder
<1>5. L!PointInTime \in Int /\ Window \in Nat
  BY <1>1, StreamFacts, LogsAssumption
<1>6. PICK i \in 1..line, m \in 1..line : Picking(s, i, m)
  BY DEF LogInv, PickInv
<1>7. i \in DOMAIN s /\ m \in DOMAIN s
  BY <1>2, <1>3
<1>8. /\ i <= m /\ events = SubSeq(s, i, m)
      /\ \A k \in i..m : s[k].id = s[i].id
      /\ \A k \in 1..(i - 1) : s[k].time < L!PointInTime
  BY <1>6 DEF Picking
<1>9. ASSUME whole, ~(s[m].time >= L!PointInTime),
             NEW k \in DOMAIN s, s[k].time >= L!PointInTime
      PROVE  ~L!InWindow(s[k])
  <2>1. ~started
    BY <1>6, <1>9 DEF Picking
  <2>2. line = Len(s)
    BY <1>9, <2>1 DEF LogInv, PickInv
  <2>3. ~(k <= m)
    BY <1>3, <1>4, <1>5, <1>7, <1>9
  <2>4. k \in (m + 1)..line
    BY <1>3, <1>7, <2>2, <2>3
  <2>5. s[k].time >= L!PointInTime + Window
    BY <1>6, <2>4 DEF Picking
  <2> QED
    BY <1>3, <1>4, <1>5, <2>5 DEF L!InWindow
<1> QED
  BY <1>7, <1>8, <1>9

LEMMA PickInvNext == LogInv /\ L!Next => PickInv'
<1> SUFFICES ASSUME LogInv, L!Next, action = "point"
             PROVE  PickInv'
  <2>1. L!Next => action' = action
    BY NothingElseAsked, LogsAsked
  <2>2. action' # "point" => PickInv'
    BY DEF PickInv
  <2>3. LogInv => action \in {"all", "point"}
    BY DEF LogInv, LogTypes
  <2> QED
    BY <2>1, <2>2, <2>3
<1>1. LogTypes /\ L!PointInTimeRight /\ saved = <<>>
  BY DEF LogInv, PickInv
<1>2. UNCHANGED L!asking /\ UNCHANGED <<action, group>> /\ L!PointInTime' = L!PointInTime
  BY NothingElseAsked, LogsAsked
<1>3. saved' = saved
  BY DEF L!Next, L!InitLogGroup, L!ListStreams, L!OpenStream, L!LinesEnd, L!LinesFail, L!SkipLine,
         L!KeepLine, L!SaveFails, L!RefuseLine, L!PassLine, L!PickLine, L!WriteOutput, L!Finished, L!Fails,
         L!ReadsLine
<1>4. output' = output /\ (whole' => whole) => L!PointInTimeRight'
  BY <1>1, <1>2, WrittenStays
<1>5. ASSUME at' \notin {"lines", "picked"}, output' = output, whole' = whole
      PROVE  PickInv'
  BY <1>1, <1>3, <1>4, <1>5 DEF PickInv
<1>6. CASE L!InitLogGroup \/ L!ListStreams \/ L!Finished \/ L!Fails
  BY <1>5, <1>6 DEF L!InitLogGroup, L!ListStreams, L!Finished, L!Fails
<1>7. CASE L!OpenStream
  <2>1. /\ at' = "lines" /\ line' = 0 /\ started' = FALSE /\ events' = <<>>
        /\ output' = output /\ whole' = whole
    BY <1>7 DEF L!OpenStream
  <2>2. \A k \in 1..line' : FALSE
    BY <2>1
  <2> QED
    BY <1>1, <1>3, <1>4, <2>1, <2>2 DEF PickInv
<1>8. CASE L!LinesEnd \/ L!LinesFail
  <2>1. /\ at = "lines" /\ at' = "picked" /\ output' = output
        /\ UNCHANGED <<stream, line, started, events>>
        /\ \/ whole' = whole /\ line = Len(group[stream])
           \/ whole' = FALSE
    BY <1>8 DEF L!LinesEnd, L!LinesFail, L!reading, L!run, L!Current
  <2>2. /\ events = <<>> => ~started /\ \A k \in 1..line : ~L!InWindow(group[stream][k])
        /\ events # <<>> => \E i, m \in 1..line : Picking(group[stream], i, m)
    BY <2>1 DEF LogInv, PickInv
  <2>3. (/\ events = <<>> => ~started /\ \A k \in 1..line : ~L!InWindow(group[stream][k])
         /\ events # <<>> => \E i, m \in 1..line : Picking(group[stream], i, m))'
    BY <1>2, <2>1, <2>2 DEF Picking, L!InWindow
  <2>4. at' = "picked" /\ whole' => line' = Len(group[stream])'
    BY <1>2, <2>1
  <2>5. L!PointInTimeRight'
    BY <1>4, <2>1
  <2> QED
    BY <1>1, <1>3, <2>3, <2>4, <2>5 DEF PickInv
<1>9. CASE L!PassLine
  <2> DEFINE s == group[stream]
  <2>1. /\ at = "lines" /\ at' = "lines" /\ line < Len(L!Current) /\ line' = line + 1
        /\ ~L!InWindow(L!NextLine) /\ UNCHANGED <<stream, started, events, output, whole>>
    BY <1>9 DEF L!PassLine, L!ReadsLine, L!run
  <2>2. /\ stream \in L!Selected /\ L!NextLine = s[line + 1] /\ line \in Nat
        /\ line + 1 \in 1..Len(s)
    BY <1>1, <2>1, NextLineFacts
  <2>3. L!PointInTimeRight'
    BY <1>4, <2>1
  <2>4. CASE events = <<>>
    <3>1. ~started /\ \A k \in 1..(line + 1) : ~L!InWindow(s[k])
      BY <2>1, <2>2, <2>4 DEF LogInv, PickInv
    <3>2. (~started /\ \A k \in 1..line : ~L!InWindow(group[stream][k]))'
      BY <1>2, <2>1, <3>1 DEF L!InWindow
    <3> QED
      BY <1>1, <1>3, <2>1, <2>3, <2>4, <3>2 DEF PickInv
  <2>5. CASE events # <<>>
    <3>1. PICK i \in 1..line, m \in 1..line : Picking(s, i, m)
      BY <2>1, <2>5 DEF LogInv, PickInv
    <3>2. s[line + 1].time >= L!PointInTime + Window
      <4>1. s[m].time <= s[line + 1].time /\ s[m].time \in Nat /\ s[line + 1].time \in Nat
        <5>1. m \in 1..Len(s) /\ line + 1 \in 1..Len(s) /\ m <= line + 1
          BY <2>2
        <5> QED
          BY <1>1, <2>2, <5>1, StreamInOrder
      <4>2. L!PointInTime \in Int /\ Window \in Nat
        BY <1>1, StreamFacts, LogsAssumption
      <4>3. L!PointInTime - Window <= s[m].time
        BY <3>1, <4>1, <4>2 DEF Picking, L!InWindow
      <4> QED
        BY <2>1, <2>2, <4>1, <4>2, <4>3 DEF L!InWindow
    <3>3. \A k \in (m + 1)..(line + 1) : s[k].time >= L!PointInTime + Window
      <4>1. \A k \in (m + 1)..(line + 1) : k \in (m + 1)..line \/ k = line + 1
        BY <2>2
      <4> QED
        BY <3>1, <3>2, <4>1 DEF Picking
    <3>4. i \in 1..line' /\ m \in 1..line'
      BY <2>1, <2>2
    <3>5. Picking(group[stream], i, m)'
      BY <1>2, <2>1, <3>1, <3>3 DEF Picking, L!InWindow
    <3> QED
      BY <1>1, <1>3, <2>1, <2>3, <2>5, <3>4, <3>5 DEF PickInv
  <2> QED
    BY <2>4, <2>5
<1>10. CASE L!PickLine
  <2>1. UNCHANGED <<stream, output, whole>> /\ at' \in {"error", "picked", "lines"}
    BY <1>10 DEF L!PickLine
  <2>2. L!PointInTimeRight'
    BY <1>4, <2>1
  <2>3. CASE at' = "error"
    BY <1>5, <2>1, <2>3
  <2>4. CASE at' # "error"
    <3>1. PICK s, n : s = group[stream] /\ n = line + 1
      OBVIOUS
    <3>2. /\ events' # <<>> /\ n \in 1..Len(s) /\ line' = n
          /\ at' = "picked" => started'
          /\ \E i \in 1..n : Picking(s, i, n)'
      BY <1>10, <2>4, <3>1, LinePicked
    <3>3. s = group'[stream'] /\ n \in 1..n
      BY <1>2, <2>1, <3>1, <3>2
    <3>4. \E i, m \in 1..line' : Picking(group[stream], i, m)'
      BY <3>2, <3>3 DEF Picking
    <3> QED
      BY <1>1, <1>3, <2>2, <2>4, <3>2, <3>4 DEF PickInv
  <2> QED
    BY <2>3, <2>4
<1>11. CASE L!WriteOutput
  <2>1. at = "picked" /\ at' \in {"streams", "error", "panic"} /\ whole' = whole
    BY <1>11 DEF L!WriteOutput
  <2>2. CASE output' = output
    BY <1>5, <2>1, <2>2
  <2>3. CASE events # <<>> /\ output' = [lines |-> events, stream |-> stream]
    <3>1. PICK s : s = group[stream]
      OBVIOUS
    <3>2. PICK i \in DOMAIN s, j \in DOMAIN s :
             /\ i <= j /\ events = SubSeq(s, i, j)
             /\ \A k \in i..j : s[k].id = s[i].id
             /\ \A k \in 1..(i - 1) : s[k].time < L!PointInTime
             /\ whole => \/ s[j].time >= L!PointInTime
                         \/ \A k \in DOMAIN s : s[k].time >= L!PointInTime => ~L!InWindow(s[k])
      BY <2>1, <2>3, <3>1, WrittenRight
    <3>3. group'[output'.stream] = s /\ output'.lines = events
      BY <1>2, <2>3, <3>1
    <3>4. L!PointInTimeRight'
      BY <1>2, <2>1, <3>2, <3>3 DEF L!PointInTimeRight, L!InWindow
    <3> QED
      BY <1>1, <1>3, <2>1, <3>4 DEF PickInv
  <2>4. CASE at' = "error" /\ output' = Torn
    BY <1>1, <1>3, <2>4 DEF PickInv, L!PointInTimeRight
  <2> QED
    BY <1>11, <2>2, <2>3, <2>4 DEF L!WriteOutput
<1>12. CASE L!SkipLine \/ L!KeepLine \/ L!SaveFails \/ L!RefuseLine
  BY <1>12 DEF L!SkipLine, L!KeepLine, L!SaveFails, L!RefuseLine, L!ReadsLine
<1> QED
  BY <1>6, <1>7, <1>8, <1>9, <1>10, <1>11, <1>12 DEF L!Next

LEMMA LogNext == LogInv /\ [L!Next]_(L!vars) => LogInv'
<1>1. LogInv /\ L!Next => LogInv'
  BY LogTypesNext, SaveInvNext, PickInvNext DEF LogInv
<1> SUFFICES ASSUME LogInv, UNCHANGED L!vars
             PROVE  LogInv'
  BY <1>1
<1>2. /\ UNCHANGED <<action, group, cutoff, asked, at, targets, stream, line, started, events>>
      /\ UNCHANGED <<saved, output, whole>> /\ UNCHANGED L!asking
  BY DEF L!vars, L!asking, L!reading, L!run
<1>3. L!Selected' = L!Selected /\ L!PointInTime' = L!PointInTime
  BY <1>2, LogsAsked
<1>4. LogTypes'
  BY <1>2, <1>3 DEF LogInv, LogTypes
<1>5. SaveInv'
  <2> SUFFICES ASSUME action = "all"
               PROVE  SaveInv'
    BY <1>2 DEF SaveInv
  <2>1. Gathered /\ Files /\ Began /\ Progress /\ output = NoOutput
    BY DEF LogInv, SaveInv
  <2>2. /\ \A c : L!Starts(group[c])' = L!Starts(group[c])
        /\ \A c, i : L!Interrupted(group[c], i)' = L!Interrupted(group[c], i)
    BY <1>2 DEF L!Starts, L!Interrupted, L!IsRun
  <2>3. Gathered'
    BY <1>2, <2>1 DEF Gathered, Headed, L!SameMessage
  <2>4. Files'
    BY <1>2, <1>3, <2>1, <2>2 DEF Files, FileRight, Headed, L!SameMessage, L!IsRun
  <2>5. Spoiled' = Spoiled /\ \A i : InRun(group[stream], i)' = InRun(group[stream], i)
    BY <1>2, <1>3, <2>2 DEF Spoiled, SpoiledBy, InRun, Logged
  <2>6. Began'
    BY <1>2, <2>1, <2>5 DEF Began
  <2>7. /\ \A c, i : Kept(c, i) => Kept(c, i)'
        /\ \A i : Pending(i) => Pending(i)'
    BY <1>2, <2>5, KeptStays DEF Pending, Logged
  <2>8. Progress'
    BY <1>2, <1>3, <2>1, <2>2, <2>7 DEF Progress, KeptOf
  <2> QED
    BY <1>2, <2>1, <2>3, <2>4, <2>6, <2>8 DEF SaveInv
<1>6. PickInv'
  BY <1>2, <1>3, WrittenStays DEF LogInv, PickInv, Picking, L!InWindow
<1> QED
  BY <1>4, <1>5, <1>6 DEF LogInv

LEMMA LambdaLogsInvariant == Programs => [](program = "logs" => LogInv)
<1>1. ProgramsInit => (program = "logs" => LogInv)
  BY LogInit DEF ProgramsInit
<1>2. ASSUME program = "logs" => LogInv,
             [ProgramsNext]_<<program, vars, prune, tag, logs, daily>>
      PROVE  (program = "logs" => LogInv)'
  <2>1. UNCHANGED program
    BY <1>2 DEF ProgramsNext
  <2>2. program = "logs" => [L!Next]_(L!vars)
    BY <1>2 DEF ProgramsNext, logs, L!vars, L!asking, L!reading, L!run
  <2> QED
    BY <1>2, <2>1, <2>2, LogNext
<1> QED
  BY <1>1, <1>2, PTL DEF Programs

(* What the invariant says of the files, of the sequence of all streams.   *)
LEMMA FilesRight == LogInv => L!RunsSaved
<1> SUFFICES ASSUME LogInv, action = "all"
             PROVE  L!RunsSaved
  BY DEF L!RunsSaved
<1>1. Files /\ Progress
  BY DEF LogInv, SaveInv
<1>2. ASSUME NEW t \in DOMAIN saved, saved[t] # Torn
      PROVE  /\ \A k \in DOMAIN saved[t] :
                  /\ saved[t][k].kind = "REPORT" <=> k = Len(saved[t])
                  /\ saved[t][k].kind = "START" =>
                       \A m \in 1..k : L!SameMessage(saved[t][m], saved[t][1])
             /\ \E s \in L!Past : \E i \in L!Starts(s) :
                  /\ saved[t][1] = s[i] /\ s[i].time = t
                  /\ \A j \in DOMAIN s : L!IsRun(s, i, j) => saved[t] = SubSeq(s, i, j)
  <2>1. FileRight(t)
    BY <1>1, <1>2 DEF Files
  <2>2. PICK c \in L!Selected : \E i \in L!Starts(group[c]) :
          /\ saved[t][1] = group[c][i] /\ group[c][i].time = t
          /\ \A j \in DOMAIN group[c] :
               L!IsRun(group[c], i, j) => saved[t] = SubSeq(group[c], i, j)
    BY <2>1 DEF FileRight
  <2>3. group[c] \in L!Past
    BY DEF L!Past
  <2> QED
    BY <2>1, <2>2, <2>3 DEF FileRight, Headed
<1>3. ASSUME at = "ok", whole, NEW s \in L!Past, NEW i \in L!Starts(s)
      PROVE  \/ L!Interrupted(s, i) \/ s[i].time \in DOMAIN saved
             \/ \E u \in L!Past : \E k \in L!Starts(u) :
                  L!Interrupted(u, k) /\ u[k].id = s[i].id /\ u[k].time \in DOMAIN saved
  <2>1. PICK c \in L!Selected : s = group[c]
    BY DEF L!Past
  <2>2. Kept(c, i)
    BY <1>1, <1>3, <2>1 DEF Progress, KeptOf
  <2> QED
    BY <2>1, <2>2 DEF Kept, L!Past
<1> QED
  BY <1>1, <1>2, <1>3 DEF L!RunsSaved, Files

(* Whatever the streams hold and whatever fails, each saved file has one   *)
(* START message and one REPORT and is the run it begins with if that has  *)
(* ended, but for one file whose write failed; where nothing fails every   *)
(* run that has ended is in a file; and what is written for a point in     *)
(* time are lines of the run then, with none in time before them           *)
(* (LambdaLogs).                                                           *)
THEOREM LogsAreRight == Programs => []LogsRight
<1>1. ASSUME LogInv
      PROVE  L!LogsRight
  <2>1. CASE action = "all"
    <3>1. output = NoOutput
      BY <1>1, <2>1 DEF LogInv, SaveInv
    <3> QED
      BY <1>1, <3>1, FilesRight DEF L!LogsRight, L!PointInTimeRight
  <2>2. CASE action = "point"
    BY <1>1, <2>2, FilesRight DEF LogInv, PickInv, L!LogsRight
  <2> QED
    BY <1>1, <2>1, <2>2 DEF LogInv, LogTypes
<1>2. (program = "logs" => LogInv) => LogsRight
  BY <1>1 DEF LogsRight
<1> QED
  BY <1>2, LambdaLogsInvariant, PTL

(***************************************************************************)
(* The text of a report.  Every line of it is known by its place in the    *)
(* reports, and the lines that were read say what was read of each report. *)
(***************************************************************************)
PartType == [kind : D!Kinds, n : Int]
LineType ==
  [line : {"worker"}, name : WorkerName \cup {""}, blanks : Nat]
  \cup [line : {"section"}, section : D!Sections]
  \cup [line : {"item"}, parent : D!Reference, child : D!Reference, actions : Seq(PartType)]
  \cup [line : {"empty"}]
Places == [report : Nat, section : 0..4, item : Nat]

TextTypes ==
  /\ reports \in Seq(D!ReportType)
  /\ worker \in 0..Len(reports)
  /\ written \in Seq(Nat) /\ origin \in Seq(Places) /\ spot \in Places
  /\ text \in Seq(LineType)
  /\ cursor \in 0..Len(text)
  /\ section \in 0..4 /\ result \in Seq(D!ReportType)
  /\ unreadable \in BOOLEAN
  /\ turn \in {"write", "read", "done"}

(* The reports in the text are the managed ones, in their order.           *)
WrittenInv ==
  /\ \A n \in DOMAIN written : written[n] \in 1..worker /\ D!Managed(reports[written[n]])
  /\ \A m, n \in DOMAIN written : m < n => written[m] < written[n]
  /\ \A w \in 1..worker : D!Managed(reports[w]) => \E n \in DOMAIN written : written[n] = w
  /\ turn # "write" => worker = Len(reports)

InReports(p) ==
  /\ p.report \in DOMAIN written
  /\ p.section = 0 => p.item = 0
  /\ p.section # 0 => p.item <= Len(D!ItemsAt(p))

Follows(p, q) ==
  \/ D!ReportDone(p) /\ q = D!Place(p.report + 1, 0, 0)
  \/ /\ p.report # 0 /\ p.section < 4 /\ D!SectionDone(p)
     /\ q = D!Place(p.report, p.section + 1, 0)
  \/ /\ p.report # 0 /\ p.section # 0 /\ p.item < Len(D!ItemsAt(p))
     /\ q = D!Place(p.report, p.section, p.item + 1)

PlaceOf(k) == IF k = 0 THEN D!Nowhere ELSE origin[k]
LineAt(p) == D!LineOf(reports[written[p.report]], p.section, p.item)

(* The lines of the text follow one another as their places in the reports *)
(* do, up to where the writer is, and at the end there is an empty one.    *)
OriginInv ==
  /\ spot = PlaceOf(Len(origin)) /\ spot.report = Len(written)
  /\ ~D!ReportDone(spot) => worker = written[spot.report]
  /\ \A k \in 1..Len(origin) :
       /\ InReports(origin[k])
       /\ text[k] = LineAt(origin[k])
       /\ Follows(PlaceOf(k - 1), origin[k])
  /\ turn = "write" => Len(text) = Len(origin)
  /\ turn # "write" => /\ Len(text) = Len(origin) + 1 /\ text[Len(text)] = [line |-> "empty"]
                       /\ D!ReportDone(spot)

(* What was read of the n-th report up to the place p.                     *)
ItemsRead(n, s, p) ==
  IF n < p.report \/ s < p.section THEN Len(reports[written[n]].items[s])
  ELSE IF s = p.section THEN p.item ELSE 0

ReadUpTo(n, p) ==
  /\ result[n].name = reports[written[n]].name
  /\ \A s \in D!Sections :
       /\ Len(result[n].items[s]) = ItemsRead(n, s, p)
       /\ \A j \in 1..ItemsRead(n, s, p) :
            D!ReadAs(result[n].items[s][j], reports[written[n]].items[s][j])

CursorAt == PlaceOf(IF cursor <= Len(origin) THEN cursor ELSE Len(origin))

Unclear ==
  \E n \in DOMAIN written : \E s \in D!Sections :
    \E j \in DOMAIN reports[written[n]].items[s] :
      ~(/\ D!Clear(reports[written[n]].items[s][j])
        /\ D!Supported(reports[written[n]].items[s][j]))

ReadInv ==
  /\ turn = "write" => cursor = 0 /\ section = 0 /\ result = <<>>
  /\ unreadable => turn = "done" /\ Unclear
  /\ turn = "done" /\ ~unreadable => cursor = Len(text)
  /\ ~unreadable /\ origin # <<>> =>
       /\ section = CursorAt.section /\ Len(result) = CursorAt.report
       /\ \A n \in 1..CursorAt.report : ReadUpTo(n, CursorAt)

TextInv == TextTypes /\ WrittenInv /\ OriginInv /\ ReadInv

(* A sequence behind one element or two.                                   *)
LEMMA PartsBehind ==
  ASSUME NEW S, NEW a \in S, NEW b \in S, NEW s \in Seq(S)
  PROVE  /\ <<a>> \o s \in Seq(S) /\ <<a>> \o s # <<>>
         /\ (<<a>> \o s)[1] = a /\ Tail(<<a>> \o s) = s
         /\ <<a>> \o (<<b>> \o s) = (<<a>> \o <<b>>) \o s
<1>1. <<a>> \in Seq(S) /\ <<b>> \in Seq(S)
  OBVIOUS
<1>2. /\ <<a>> \o s \in Seq(S) /\ Len(<<a>> \o s) = 1 + Len(s)
      /\ \A i \in 1..(1 + Len(s)) : (<<a>> \o s)[i] = IF i <= 1 THEN a ELSE s[i - 1]
  BY <1>1, ConcatProperties
<1>3. <<a>> \o s # <<>> /\ (<<a>> \o s)[1] = a
  BY <1>2, EmptySeq
<1>4. /\ Tail(<<a>> \o s) \in Seq(S) /\ Len(Tail(<<a>> \o s)) = Len(s)
      /\ \A i \in 1..Len(s) : Tail(<<a>> \o s)[i] = s[i]
  <2>1. /\ Tail(<<a>> \o s) \in Seq(S) /\ Len(Tail(<<a>> \o s)) = Len(<<a>> \o s) - 1
        /\ \A i \in 1..Len(Tail(<<a>> \o s)) : Tail(<<a>> \o s)[i] = (<<a>> \o s)[i + 1]
    BY <1>2, <1>3, HeadTailProperties
  <2> QED
    BY <1>2, <2>1
<1>5. Tail(<<a>> \o s) = s
  BY <1>4, SeqEqual
<1>6. <<a>> \o (<<b>> \o s) = (<<a>> \o <<b>>) \o s
  BY <1>1, ConcatAssociative
<1> QED
  BY <1>2, <1>3, <1>5, <1>6

LEMMA PartsTyped == \A n \in Int : D!Number(n) \in PartType /\ D!Plus(n) \in PartType
<1> SUFFICES ASSUME NEW n \in Int
             PROVE  D!Number(n) \in PartType /\ D!Plus(n) \in PartType
  OBVIOUS
<1>1. \A k \in D!Kinds : D!Part(k, n) \in PartType
  BY DEF D!Part, PartType
<1>2. "number" \in D!Kinds /\ "-number" \in D!Kinds /\ "+number" \in D!Kinds
  BY DEF D!Kinds
<1> QED
  BY <1>1, <1>2 DEF D!Number, D!Plus

(* What is written of an item, in the four cases of its hours.             *)
LEMMA ActionsWritten ==
  ASSUME NEW e \in D!ItemType
  PROVE  /\ D!ActionsOf(e) \in Seq(PartType)
         /\ e.left = 0 /\ e.invested = 0 => D!ActionsOf(e) = e.comment
         /\ e.left # 0 /\ e.invested = 0 =>
              D!ActionsOf(e) = <<D!Number(e.left)>> \o e.comment
         /\ e.left = 0 /\ e.invested # 0 =>
              D!ActionsOf(e) = <<D!Number(e.invested)>> \o e.comment
         /\ e.left # 0 /\ e.invested # 0 =>
              D!ActionsOf(e) = <<D!Number(e.left)>> \o (<<D!Plus(e.invested)>> \o e.comment)
<1>1. e.comment \in Seq(PartType) /\ e.left \in Int /\ e.invested \in Int
  BY DEF D!ItemType, PartType
<1>2. \A n \in Int : D!Number(n) \in PartType /\ D!Plus(n) \in PartType
  BY PartsTyped
<1>3. <<>> \o e.comment = e.comment /\ <<>> \o <<>> = <<>>
  BY <1>1, ConcatEmptySeq, EmptySeq
<1>4. \A p \in PartType : /\ <<p>> \in Seq(PartType) /\ <<p>> # <<>>
                          /\ <<p>> \o <<>> = <<p>> /\ <<>> \o <<p>> = <<p>>
  <2> SUFFICES ASSUME NEW p \in PartType
               PROVE  /\ <<p>> \in Seq(PartType) /\ <<p>> # <<>>
                      /\ <<p>> \o <<>> = <<p>> /\ <<>> \o <<p>> = <<p>>
    OBVIOUS
  <2>1. <<p>> \in Seq(PartType) /\ <<p>> # <<>>
    OBVIOUS
  <2> QED
    BY <2>1, ConcatEmptySeq
<1>5. CASE e.left = 0 /\ e.invested = 0
  BY <1>1, <1>3, <1>5 DEF D!ActionsOf
<1>6. CASE e.left # 0 /\ e.invested = 0
  <2>1. D!ActionsOf(e) = <<D!Number(e.left)>> \o e.comment
    BY <1>1, <1>2, <1>4, <1>6 DEF D!ActionsOf
  <2> QED
    BY <1>1, <1>2, <1>6, <2>1, PartsBehind
<1>7. CASE e.left = 0 /\ e.invested # 0
  <2>1. D!ActionsOf(e) = <<D!Number(e.invested)>> \o e.comment
    BY <1>1, <1>2, <1>4, <1>7 DEF D!ActionsOf
  <2> QED
    BY <1>1, <1>2, <1>7, <2>1, PartsBehind
<1>8. CASE e.left # 0 /\ e.invested # 0
  <2>1. D!ActionsOf(e) = (<<D!Number(e.left)>> \o <<D!Plus(e.invested)>>) \o e.comment
    BY <1>1, <1>2, <1>4, <1>8 DEF D!ActionsOf
  <2>2. D!ActionsOf(e) = <<D!Number(e.left)>> \o (<<D!Plus(e.invested)>> \o e.comment)
    BY <1>1, <1>2, <2>1, PartsBehind
  <2>3. <<D!Plus(e.invested)>> \o e.comment \in Seq(PartType)
    BY <1>1, <1>2, PartsBehind
  <2>4. D!ActionsOf(e) \in Seq(PartType)
    BY <1>1, <1>2, <2>2, <2>3, PartsBehind
  <2> QED
    BY <1>8, <2>2, <2>4
<1> QED
  BY <1>5, <1>6, <1>7, <1>8

(* How the parts are read, when the ones after hours left are known.       *)
LEMMA HoursRead ==
  ASSUME NEW a, NEW rest, rest = IF a # <<>> /\ a[1].kind = "number" THEN Tail(a) ELSE a
  PROVE  /\ D!ReadActions(a).left = IF a # <<>> /\ a[1].kind = "number" THEN a[1].n ELSE -1
         /\ D!ReadActions(a).invested =
              IF rest # <<>> /\ rest[1].kind = "+number" THEN rest[1].n ELSE -1
         /\ D!ReadActions(a).comment =
              IF rest # <<>> /\ rest[1].kind = "+number" THEN Tail(rest) ELSE rest
         /\ \/ a = <<>>
            \/ /\ a[1].kind \notin {"digit", "blank"}
               /\ rest = <<>> \/ rest[1].kind \notin {"+", "blank"}
            => D!ReadableActions(a)
  BY DEF D!ReadActions, D!ReadableActions, D!AfterLeft

(* A clear item is read as it was written.                                 *)
LEMMA ClearActions ==
  ASSUME NEW e \in D!ItemType, D!Clear(e),
         NEW a, a = D!ActionsOf(e)
  PROVE  /\ D!ReadableActions(a)
         /\ D!ReadActions(a).left = D!Hours(e.left)
         /\ D!ReadActions(a).invested = D!Hours(e.invested)
         /\ D!ReadActions(a).comment = e.comment
<1>1. e.comment \in Seq(PartType) /\ e.left \in Int /\ e.invested \in Int
  BY DEF D!ItemType, PartType
<1>2. D!Number(e.left) \in PartType /\ D!Plus(e.invested) \in PartType
  BY <1>1, PartsTyped
<1>3. /\ e.left >= 0 /\ e.invested >= 0
      /\ e.left = 0 => e.invested = 0
      /\ e.left = 0 /\ e.comment # <<>> => e.comment[1].kind \notin {"number", "digit"}
      /\ e.invested = 0 /\ e.comment # <<>> =>
           e.comment[1].kind \notin {"+number", "+", "blank"}
  BY <1>1 DEF D!Clear
<1>4. D!Plus(e.invested).kind = "+number" /\ D!Plus(e.invested).n = e.invested
  BY DEF D!Plus, D!Part
<1>5. e.left > 0 => D!Number(e.left).kind = "number" /\ D!Number(e.left).n = e.left
  BY <1>1 DEF D!Number, D!Part
<1>6. CASE e.left = 0
  <2>1. a = e.comment /\ e.invested = 0
    BY <1>3, <1>6, ActionsWritten
  <2>2. ~(a # <<>> /\ a[1].kind = "number")
    BY <1>3, <1>6, <2>1
  <2>3. a = <<>> \/ a[1].kind \notin {"digit", "blank", "+", "+number"}
    BY <1>3, <1>6, <2>1
  <2>4. a = IF a # <<>> /\ a[1].kind = "number" THEN Tail(a) ELSE a
    BY <2>2
  <2>5. D!Hours(e.left) = -1 /\ D!Hours(e.invested) = -1
    BY <1>6, <2>1 DEF D!Hours
  <2> QED
    BY <2>1, <2>2, <2>3, <2>4, <2>5, HoursRead
<1>7. CASE e.left # 0 /\ e.invested = 0
  <2>1. a = <<D!Number(e.left)>> \o e.comment
    BY <1>7, ActionsWritten
  <2>2. a # <<>> /\ a[1] = D!Number(e.left) /\ Tail(a) = e.comment
    BY <1>1, <1>2, <2>1, PartsBehind
  <2>3. a[1].kind = "number" /\ a[1].n = e.left
    BY <1>1, <1>3, <1>5, <1>7, <2>2
  <2>4. e.comment = IF a # <<>> /\ a[1].kind = "number" THEN Tail(a) ELSE a
    BY <2>2, <2>3
  <2>5. e.comment = <<>> \/ e.comment[1].kind \notin {"+number", "+", "blank"}
    BY <1>3, <1>7
  <2>6. D!Hours(e.left) = e.left /\ D!Hours(e.invested) = -1
    BY <1>7 DEF D!Hours
  <2>7. a[1].kind \notin {"digit", "blank"}
    BY <2>3
  <2> QED
    BY <2>2, <2>3, <2>4, <2>5, <2>6, <2>7, HoursRead
<1>8. CASE e.left # 0 /\ e.invested # 0
  <2> DEFINE b == <<D!Plus(e.invested)>> \o e.comment
  <2>1. a = <<D!Number(e.left)>> \o b
    BY <1>8, ActionsWritten
  <2>2. b \in Seq(PartType) /\ b # <<>> /\ b[1] = D!Plus(e.invested) /\ Tail(b) = e.comment
    BY <1>1, <1>2, PartsBehind
  <2>3. a # <<>> /\ a[1] = D!Number(e.left) /\ Tail(a) = b
    BY <1>2, <2>1, <2>2, PartsBehind
  <2>4. a[1].kind = "number" /\ a[1].n = e.left /\ b[1].kind = "+number" /\ b[1].n = e.invested
    BY <1>1, <1>3, <1>4, <1>5, <1>8, <2>2, <2>3
  <2>5. b = IF a # <<>> /\ a[1].kind = "number" THEN Tail(a) ELSE a
    BY <2>3, <2>4
  <2>6. D!Hours(e.left) = e.left /\ D!Hours(e.invested) = e.invested
    BY <1>8 DEF D!Hours
  <2>7. a[1].kind \notin {"digit", "blank"} /\ b[1].kind \notin {"+", "blank"}
    BY <2>4
  <2> HIDE DEF b
  <2> QED
    BY <2>2, <2>3, <2>4, <2>5, <2>6, <2>7, HoursRead
<1> QED
  BY <1>6, <1>7, <1>8

(* What is read of any parts are hours and a comment.                      *)
LEMMA ActionsTyped ==
  ASSUME NEW a \in Seq(PartType)
  PROVE  /\ D!ReadActions(a).left \in Int /\ D!ReadActions(a).invested \in Int
         /\ D!ReadActions(a).comment \in Seq(PartType)
<1>1. \A s \in Seq(PartType) : s # <<>> => Tail(s) \in Seq(PartType) /\ s[1].n \in Int
  <2> SUFFICES ASSUME NEW s \in Seq(PartType), s # <<>>
               PROVE  Tail(s) \in Seq(PartType) /\ s[1].n \in Int
    OBVIOUS
  <2>1. Tail(s) \in Seq(PartType)
    BY HeadTailProperties
  <2>2. s[1] \in PartType
    BY EmptySeq
  <2> QED
    BY <2>1, <2>2 DEF PartType
<1> DEFINE rest == IF a # <<>> /\ a[1].kind = "number" THEN Tail(a) ELSE a
<1>2. rest \in Seq(PartType)
  BY <1>1
<1>3. rest = IF a # <<>> /\ a[1].kind = "number" THEN Tail(a) ELSE a
  OBVIOUS
<1> HIDE DEF rest
<1>4. /\ D!ReadActions(a).left = IF a # <<>> /\ a[1].kind = "number" THEN a[1].n ELSE -1
      /\ D!ReadActions(a).invested =
           IF rest # <<>> /\ rest[1].kind = "+number" THEN rest[1].n ELSE -1
      /\ D!ReadActions(a).comment =
           IF rest # <<>> /\ rest[1].kind = "+number" THEN Tail(rest) ELSE rest
  BY <1>3, HoursRead
<1> QED
  BY <1>1, <1>2, <1>4

(* An item that is read has what was written of it, and one that cannot be *)
(* read is not clear, or not supported.                                    *)
LEMMA ItemReadBack ==
  ASSUME NEW e \in D!ItemType
  PROVE  /\ D!ItemLine(e) \in LineType /\ D!ItemLine(e).line = "item"
         /\ D!ReadItem(D!ItemLine(e)) \in D!ItemType
         /\ D!SameItem(D!ReadItem(D!ItemLine(e)), e)
         /\ ~D!Readable(D!ItemLine(e)) => ~(D!Clear(e) /\ D!Supported(e))
<1> DEFINE l == D!ItemLine(e)
           r == D!ReadItem(l)
<1>1. /\ l = [line |-> "item", parent |-> e.parent, child |-> e.child, actions |-> D!ActionsOf(e)]
      /\ e.parent \in D!Reference /\ e.child \in D!Reference
  BY DEF D!ItemLine, D!ItemType
<1>2. D!ActionsOf(e) \in Seq(PartType)
  BY ActionsWritten
<1> DEFINE a == D!Trimmed(D!ActionsOf(e))
<1>3. a \in Seq(PartType)
  BY <1>2, EmptySeq DEF D!Trimmed
<1>4. D!Clear(e) => a = D!ActionsOf(e)
  <2> SUFFICES ASSUME D!Clear(e)
               PROVE  a = D!ActionsOf(e)
    OBVIOUS
  <2>1. PICK b : b = D!ActionsOf(e)
    OBVIOUS
  <2>2. D!ReadableActions(b)
    BY <2>1, ClearActions
  <2>3. b # <<>> => b[1].kind # "blank"
    BY <2>2 DEF D!ReadableActions
  <2>4. Len(b) = 1 => b # <<>>
    BY <1>2, <2>1, EmptySeq
  <2> QED
    BY <2>1, <2>3, <2>4 DEF D!Trimmed
<1> HIDE DEF a
<1>5. l \in LineType
  <2>1. l \in [line : {"item"}, parent : D!Reference, child : D!Reference, actions : Seq(PartType)]
    BY <1>1, <1>2
  <2> QED
    BY <2>1 DEF LineType
<1>6. ASSUME NEW x \in D!Reference
      PROVE  D!Tokens(x) \in D!Reference /\ D!Tokens(x).id = x.id
  BY DEF D!Tokens, D!Reference
<1>7. /\ r.parent = D!Tokens(e.parent) /\ r.child = D!Tokens(e.child)
      /\ r.left = D!ReadActions(a).left
      /\ r.invested = D!ReadActions(a).invested
      /\ r.comment = D!ReadActions(a).comment
  BY <1>1 DEF D!ReadItem, D!Item, a
<1>8. r \in D!ItemType
  <2>1. r = [parent |-> r.parent, child |-> r.child, left |-> r.left, invested |-> r.invested,
             comment |-> r.comment]
    BY DEF D!ReadItem, D!Item
  <2>2. r.left \in Int /\ r.invested \in Int /\ r.comment \in Seq(PartType)
    BY <1>7, <1>3, ActionsTyped
  <2> HIDE DEF r
  <2> QED
    BY <1>1, <1>6, <1>7, <2>1, <2>2 DEF D!ItemType, PartType
<1>9. D!SameItem(r, e)
  <2>1. D!Clear(e) => D!SameHours(r, e) /\ r.comment = e.comment
    BY <1>7, <1>4, ClearActions DEF D!SameHours
  <2>2. r.parent.id = e.parent.id /\ r.child.id = e.child.id
    BY <1>1, <1>6, <1>7
  <2> HIDE DEF r
  <2> QED
    BY <2>1, <2>2 DEF D!SameItem
<1>10. ~D!Readable(l) => ~(D!Clear(e) /\ D!Supported(e))
  <2>1. D!Clear(e) => D!ReadableActions(D!Trimmed(l.actions))
    BY <1>1, <1>4, ClearActions DEF a
  <2> QED
    BY <1>1, <2>1 DEF D!Readable, D!Supported
<1> QED
  BY <1>1, <1>5, <1>8, <1>9, <1>10

LEMMA TextInit == D!Init => TextInv
<1> SUFFICES ASSUME D!Init
             PROVE  TextInv
  OBVIOUS
<1>1. reports \in Seq(D!ReportType)
  BY ReportsAssumption DEF D!Init
<1>2. D!Nowhere \in Places /\ D!Nowhere.report = 0
  BY DEF D!Nowhere, D!Place, Places
<1>3. TextTypes
  <2>1. 0 \in 0..Len(reports) /\ Len(text) = 0
    BY <1>1 DEF D!Init
  <2>2. \A S : <<>> \in Seq(S)
    BY EmptySeq
  <2>3. /\ written \in Seq(Nat) /\ origin \in Seq(Places) /\ text \in Seq(LineType)
        /\ result \in Seq(D!ReportType)
    BY <2>2 DEF D!Init
  <2>4. worker = 0 /\ cursor = 0 /\ section = 0 /\ spot = D!Nowhere /\ turn = "write"
    BY DEF D!Init
  <2>5. cursor \in 0..Len(text)
    BY <2>1, <2>4
  <2>6. unreadable \in BOOLEAN
    BY DEF D!Init
  <2> QED
    BY <1>1, <1>2, <2>1, <2>3, <2>4, <2>5, <2>6 DEF TextTypes
<1>4. WrittenInv
  BY DEF WrittenInv, D!Init
<1>5. OriginInv
  BY <1>2 DEF OriginInv, PlaceOf, D!ReportDone, D!Init
<1>6. ReadInv
  BY DEF ReadInv, D!Init
<1> QED
  BY <1>3, <1>4, <1>5, <1>6 DEF TextInv

(* What the types say of the reports and of the places in them.            *)
LEMMA ReportFacts ==
  ASSUME TextTypes
  PROVE  /\ Len(reports) \in Nat /\ worker \in Nat /\ DOMAIN reports = 1..Len(reports)
         /\ \A w \in 1..Len(reports) :
              /\ reports[w] \in D!ReportType
              /\ \A s \in D!Sections :
                   /\ reports[w].items[s] \in Seq(D!ItemType) /\ Len(reports[w].items[s]) \in Nat
                   /\ DOMAIN reports[w].items[s] = 1..Len(reports[w].items[s])
                   /\ \A j \in 1..Len(reports[w].items[s]) : reports[w].items[s][j] \in D!ItemType
         /\ Len(written) \in Nat /\ DOMAIN written = 1..Len(written)
         /\ Len(origin) \in Nat /\ DOMAIN origin = 1..Len(origin)
         /\ Len(text) \in Nat
         /\ \A k \in 1..Len(origin) : origin[k] \in Places
<1>1. /\ Len(reports) \in Nat /\ worker \in Nat /\ DOMAIN reports = 1..Len(reports)
      /\ \A w \in 1..Len(reports) : reports[w] \in D!ReportType
  BY DEF TextTypes
<1>2. \A r \in D!ReportType : \A s \in D!Sections : r.items[s] \in Seq(D!ItemType)
  BY DEF D!ReportType
<1>3. \A q \in Seq(D!ItemType) : /\ Len(q) \in Nat /\ DOMAIN q = 1..Len(q)
                                 /\ \A j \in 1..Len(q) : q[j] \in D!ItemType
  OBVIOUS
<1>4. /\ Len(written) \in Nat /\ DOMAIN written = 1..Len(written)
      /\ Len(origin) \in Nat /\ DOMAIN origin = 1..Len(origin)
      /\ Len(text) \in Nat
      /\ \A k \in 1..Len(origin) : origin[k] \in Places
  BY DEF TextTypes
<1> QED
  BY <1>1, <1>2, <1>3, <1>4

(* What a place says does not change while the reports and the part of     *)
(* them that was written stay.                                             *)
LEMMA PlaceStays ==
  ASSUME UNCHANGED reports, NEW p,
         p.report # 0 => /\ p.report \in DOMAIN written /\ p.report \in DOMAIN written'
                         /\ written'[p.report] = written[p.report]
  PROVE  /\ p.report # 0 => D!ItemsAt(p)' = D!ItemsAt(p) /\ LineAt(p)' = LineAt(p)
         /\ D!ReportDone(p)' = D!ReportDone(p)
         /\ \A q : Follows(p, q)' = Follows(p, q)
         /\ p.report # 0 => InReports(p)' = InReports(p)
<1>1. p.report # 0 => D!ItemsAt(p)' = D!ItemsAt(p) /\ LineAt(p)' = LineAt(p)
  BY DEF D!ItemsAt, LineAt
<1>2. D!ReportDone(p)' = D!ReportDone(p)
  BY <1>1 DEF D!ReportDone
<1>3. p.report # 0 => D!SectionDone(p)' = D!SectionDone(p)
  BY <1>1 DEF D!SectionDone
<1>4. \A q : Follows(p, q)' = Follows(p, q)
  BY <1>1, <1>2, <1>3 DEF Follows
<1>5. p.report # 0 => InReports(p)' = InReports(p)
  BY <1>1 DEF InReports
<1> QED
  BY <1>1, <1>2, <1>4, <1>5

(* A line of a report.                                                     *)
LEMMA LineTyped ==
  ASSUME NEW w \in D!ReportType, NEW s \in 0..4, NEW i \in Nat,
         s # 0 => i <= Len(w.items[s])
  PROVE  /\ D!LineOf(w, s, i) \in LineType
         /\ D!LineOf(w, s, i).line = IF s = 0 THEN "worker" ELSE IF i = 0 THEN "section" ELSE "item"
<1> DEFINE names == WorkerName \cup {""}
<1>1. \A r \in D!ReportType : /\ r.name \in names /\ r.blanks \in Nat
                              /\ \A t \in D!Sections : r.items[t] \in Seq(D!ItemType)
  <2> HIDE DEF names
  <2>1. D!ReportType = [name : names, blanks : Nat, items : [D!Sections -> Seq(D!ItemType)]]
    BY DEF D!ReportType, names
  <2> QED
    BY <2>1
<1>2. s # 0 => s \in D!Sections
  BY DEF D!Sections
<1>3. CASE s = 0
  <2>1. D!LineOf(w, s, i) = [line |-> "worker", name |-> w.name, blanks |-> w.blanks + 1]
    BY <1>3 DEF D!LineOf
  <2>2. \A n \in names, b \in Nat :
           [line |-> "worker", name |-> n, blanks |-> b] \in [line : {"worker"}, name : names, blanks : Nat]
    <3> HIDE DEF names
    <3> QED
      OBVIOUS
  <2>3. w.name \in names /\ w.blanks + 1 \in Nat
    <3>1. w.name \in names /\ w.blanks \in Nat
      BY <1>1
    <3> HIDE DEF names
    <3> QED
      BY <3>1
  <2>4. D!LineOf(w, s, i) \in [line : {"worker"}, name : names, blanks : Nat]
    <3> HIDE DEF names
    <3> QED
      BY <2>1, <2>2, <2>3
  <2> QED
    BY <1>3, <2>1, <2>4 DEF LineType
<1>4. CASE s # 0 /\ i = 0
  <2>1. D!LineOf(w, s, i) = [line |-> "section", section |-> s]
    BY <1>4 DEF D!LineOf
  <2>2. D!LineOf(w, s, i) \in [line : {"section"}, section : D!Sections]
    BY <1>2, <1>4, <2>1
  <2> QED
    BY <1>4, <2>1, <2>2 DEF LineType
<1>5. CASE s # 0 /\ i # 0
  <2>1. D!LineOf(w, s, i) = D!ItemLine(w.items[s][i])
    BY <1>5 DEF D!LineOf
  <2>2. w.items[s][i] \in D!ItemType
    <3> HIDE DEF names
    <3>1. w.items[s] \in Seq(D!ItemType) /\ i \in 1..Len(w.items[s])
      BY <1>1, <1>2, <1>5
    <3> QED
      BY <3>1
  <2> QED
    BY <1>5, <2>1, <2>2, ItemReadBack
<1> QED
  BY <1>3, <1>4, <1>5

(* A place in the reports has a line.                                      *)
LEMMA PlaceFacts ==
  ASSUME TextTypes, WrittenInv, NEW p \in Places, InReports(p)
  PROVE  /\ p.report \in 1..Len(written) /\ written[p.report] \in 1..Len(reports)
         /\ p.report \in Nat \ {0} /\ p.section \in 0..4 /\ p.item \in Nat
         /\ p.section # 0 =>
              /\ p.section \in D!Sections /\ Len(D!ItemsAt(p)) \in Nat
              /\ p.item <= Len(D!ItemsAt(p))
         /\ D!ItemsAt(p) = reports[written[p.report]].items[p.section]
         /\ LineAt(p).line = IF p.section = 0 THEN "worker" ELSE IF p.item = 0 THEN "section"
                             ELSE "item"
<1>1. p.report \in 1..Len(written) /\ written[p.report] \in 1..Len(reports)
  BY ReportFacts DEF InReports, WrittenInv, TextTypes
<1>2. p.report \in Nat \ {0} /\ p.section \in 0..4 /\ p.item \in Nat
  BY <1>1, ReportFacts DEF Places
<1>3. D!ItemsAt(p) = reports[written[p.report]].items[p.section]
  BY DEF D!ItemsAt
<1>4. p.section # 0 => /\ p.section \in D!Sections /\ Len(D!ItemsAt(p)) \in Nat
                       /\ p.item <= Len(D!ItemsAt(p))
  <2>1. p.section # 0 => p.section \in D!Sections
    BY <1>2 DEF D!Sections
  <2>2. p.section # 0 => p.item <= Len(D!ItemsAt(p))
    BY DEF InReports
  <2> QED
    BY <1>1, <1>3, <2>1, <2>2, ReportFacts
<1>5. LineAt(p).line = IF p.section = 0 THEN "worker" ELSE IF p.item = 0 THEN "section" ELSE "item"
  <2>1. reports[written[p.report]] \in D!ReportType
    BY <1>1, ReportFacts
  <2>2. p.section # 0 => p.item <= Len(reports[written[p.report]].items[p.section])
    BY <1>3, <1>4
  <2>3. LineAt(p) = D!LineOf(reports[written[p.report]], p.section, p.item)
    BY DEF LineAt
  <2>4. p.section \in 0..4 /\ p.item \in Nat
    BY <1>2
  <2>5. \A w \in D!ReportType : \A i \in Nat :
           (p.section # 0 => i <= Len(w.items[p.section])) =>
             D!LineOf(w, p.section, i).line =
               IF p.section = 0 THEN "worker" ELSE IF i = 0 THEN "section" ELSE "item"
    BY <2>4, LineTyped
  <2> QED
    BY <2>1, <2>2, <2>3, <2>4, <2>5
<1> QED
  BY <1>1, <1>2, <1>3, <1>4, <1>5

(* The place the writer or the reader is at is one in the reports, once    *)
(* there is a line.                                                        *)
LEMMA PlacesKnown ==
  ASSUME TextTypes, WrittenInv, OriginInv, NEW k \in 0..Len(origin)
  PROVE  /\ PlaceOf(k) \in Places
         /\ k = 0 => PlaceOf(k) = D!Nowhere
         /\ k # 0 => PlaceOf(k) = origin[k] /\ InReports(PlaceOf(k))
         /\ PlaceOf(k).report # 0 <=> k # 0
         /\ PlaceOf(k).report \in 0..Len(written)
<1>1. CASE k = 0
  BY <1>1, ReportFacts DEF PlaceOf, D!Nowhere, D!Place, Places
<1>2. CASE k # 0
  <2>1. k \in 1..Len(origin) /\ PlaceOf(k) = origin[k]
    BY <1>2, ReportFacts DEF PlaceOf
  <2>2. origin[k] \in Places /\ InReports(origin[k])
    BY <2>1, ReportFacts DEF OriginInv
  <2>3. origin[k].report \in 1..Len(written) /\ origin[k].report \in Nat \ {0}
    BY <2>2, PlaceFacts
  <2> QED
    BY <1>2, <2>1, <2>2, <2>3
<1> QED
  BY <1>1, <1>2

(* A line that follows the one before it is written.                       *)
LEMMA LineWritten ==
  ASSUME TextInv, turn = "write", UNCHANGED <<reports, cursor, section, result, unreadable, turn>>,
         worker' \in 0..Len(reports), written' \in Seq(Nat), WrittenInv',
         Len(written) <= Len(written'), \A n \in DOMAIN written : written'[n] = written[n],
         NEW p \in Places, D!WriteLine(reports[written'[p.report]], p),
         p.report = Len(written'), InReports(p)',
         ~D!ReportDone(p)' => worker' = written'[p.report],
         NEW q, q = spot, Follows(q, p)'
  PROVE  TextInv'
<1>1. TextTypes /\ WrittenInv /\ OriginInv /\ ReadInv
  BY DEF TextInv
<1>2. /\ spot' = p /\ origin' = Append(origin, p) /\ text' = Append(text, LineAt(p)')
      /\ origin \in Seq(Places) /\ text \in Seq(LineType) /\ Len(origin) \in Nat
      /\ Len(text) = Len(origin) /\ Len(written) \in Nat /\ Len(written') \in Nat
      /\ DOMAIN written' = 1..Len(written') /\ DOMAIN written = 1..Len(written)
  BY <1>1, ReportFacts DEF D!WriteLine, LineAt, OriginInv, TextTypes
<1>3. LineAt(p)' \in LineType
  <2> DEFINE w == reports[written'[p.report]]
  <2>1. w \in D!ReportType
    <3>1. p.report \in DOMAIN written' /\ written'[p.report] \in 1..worker'
      BY DEF InReports, WrittenInv
    <3>2. written'[p.report] \in 1..Len(reports)
      BY <1>1, <3>1, ReportFacts
    <3> QED
      BY <1>1, <3>2, ReportFacts
  <2>2. p.section \in 0..4 /\ p.item \in Nat
    BY DEF Places
  <2>3. p.section # 0 => p.item <= Len(w.items[p.section])
    BY DEF InReports, D!ItemsAt
  <2>4. D!LineOf(w, p.section, p.item) \in LineType
    BY <2>1, <2>2, <2>3, LineTyped
  <2> QED
    BY <2>4 DEF LineAt
<1>4. /\ origin' \in Seq(Places) /\ Len(origin') = Len(origin) + 1
      /\ \A k \in 1..Len(origin) : origin'[k] = origin[k]
      /\ origin'[Len(origin) + 1] = p
  BY <1>2, AppendProperties
<1>5. /\ text' \in Seq(LineType) /\ Len(text') = Len(origin) + 1
      /\ \A k \in 1..Len(origin) : text'[k] = text[k]
      /\ text'[Len(origin) + 1] = LineAt(p)'
  BY <1>2, <1>3, AppendProperties
<1>6. TextTypes'
  <2>1. cursor' = 0
    BY <1>1 DEF ReadInv
  <2>2. cursor' \in 0..Len(text')
    BY <1>2, <1>5, <2>1
  <2>3. unreadable' \in BOOLEAN
    BY <1>1 DEF TextTypes
  <2>4. reports' = reports /\ section' = section /\ result' = result /\ turn' = turn
    OBVIOUS
  <2> QED
    BY <1>1, <1>2, <1>4, <1>5, <2>2, <2>3, <2>4 DEF TextTypes
<1>7. ASSUME NEW k \in 0..Len(origin), NEW o, o = PlaceOf(k)
      PROVE  /\ PlaceOf(k)' = o
             /\ \A x : Follows(o, x)' = Follows(o, x)
             /\ k # 0 => InReports(o)' /\ LineAt(o)' = LineAt(o)
  <2>1. o \in Places /\ (o.report # 0 <=> k # 0) /\ o.report \in 0..Len(written)
    BY <1>1, <1>7, PlacesKnown
  <2>2. k # 0 => InReports(o) /\ origin[k] = o
    BY <1>1, <1>7, PlacesKnown
  <2>3. PlaceOf(k)' = o
    BY <1>2, <1>4, <1>7, <2>2 DEF PlaceOf
  <2>4. o.report # 0 => /\ o.report \in DOMAIN written /\ o.report \in DOMAIN written'
                        /\ written'[o.report] = written[o.report]
    BY <1>2, <2>1
  <2>5. /\ o.report # 0 => D!ItemsAt(o)' = D!ItemsAt(o) /\ LineAt(o)' = LineAt(o)
        /\ \A x : Follows(o, x)' = Follows(o, x)
        /\ o.report # 0 => InReports(o)' = InReports(o)
    BY <2>4, PlaceStays
  <2> QED
    BY <2>1, <2>2, <2>3, <2>5
<1>8. q = PlaceOf(Len(origin))
  BY <1>1 DEF OriginInv
<1>9. ASSUME NEW k \in 1..(Len(origin) + 1), NEW o, o = origin'[k], NEW x, x = PlaceOf(k - 1)'
      PROVE  InReports(o)' /\ text'[k] = LineAt(o)' /\ Follows(x, o)'
  <2>1. k - 1 \in 0..Len(origin) /\ (k \in 0..Len(origin) \/ k = Len(origin) + 1)
    BY <1>2
  <2>2. PICK y : y = PlaceOf(k - 1)
    OBVIOUS
  <2>3. x = y /\ \A z : Follows(y, z)' = Follows(y, z)
    BY <1>7, <1>9, <2>1, <2>2
  <2>4. CASE k = Len(origin) + 1
    <3>1. o = p /\ y = q
      BY <1>2, <1>4, <1>8, <1>9, <2>2, <2>4
    <3> QED
      BY <1>5, <2>3, <2>4, <3>1
  <2>5. CASE k \in 1..Len(origin)
    <3>1. o = origin[k] /\ o = PlaceOf(k)
      BY <1>4, <1>9, <2>5, <1>2 DEF PlaceOf
    <3>2. text[k] = LineAt(o) /\ Follows(y, o)
      BY <1>1, <2>2, <2>5, <3>1 DEF OriginInv
    <3>3. InReports(o)' /\ LineAt(o)' = LineAt(o)
      BY <1>2, <1>7, <2>5, <3>1
    <3> QED
      BY <1>5, <2>3, <2>5, <3>2, <3>3
  <2> QED
    BY <1>9, <2>1, <2>4, <2>5
<1>10. OriginInv'
  <2>1. ASSUME NEW k \in 1..Len(origin')
        PROVE  (InReports(origin[k]) /\ text[k] = LineAt(origin[k])
                /\ Follows(PlaceOf(k - 1), origin[k]))'
    <3>1. PICK o, x : o = origin'[k] /\ x = PlaceOf(k - 1)'
      OBVIOUS
    <3>2. InReports(o)' /\ text'[k] = LineAt(o)' /\ Follows(x, o)'
      BY <1>4, <1>9, <3>1
    <3> QED
      BY <3>1, <3>2 DEF InReports, LineAt, Follows, D!ItemsAt, D!ReportDone, D!SectionDone
  <2>2. (spot = PlaceOf(Len(origin)) /\ spot.report = Len(written))'
    BY <1>2, <1>4 DEF PlaceOf
  <2>3. (~D!ReportDone(spot) => worker = written[spot.report])'
    BY <1>2 DEF D!ReportDone, D!ItemsAt
  <2>4. turn' = "write" /\ Len(text') = Len(origin')
    BY <1>4, <1>5
  <2> QED
    BY <2>1, <2>2, <2>3, <2>4 DEF OriginInv
<1>11. ReadInv'
  <2>1. cursor' = 0 /\ section' = 0 /\ result' = <<>> /\ ~unreadable' /\ turn' = "write"
    BY <1>1 DEF ReadInv
  <2>2. CursorAt' = D!Nowhere
    BY <1>2, <1>4, <2>1 DEF CursorAt, PlaceOf
  <2>3. CursorAt'.section = 0 /\ CursorAt'.report = 0
    BY <2>2 DEF D!Nowhere, D!Place
  <2>4. \A n \in 1..CursorAt'.report : FALSE
    BY <2>3
  <2> QED
    BY <2>1, <2>3, <2>4 DEF ReadInv
<1> QED
  BY <1>6, <1>10, <1>11 DEF TextInv

(* The reports, the text and where its lines are from stay: so does what   *)
(* is said of them.                                                        *)
LEMMA TextStays ==
  ASSUME OriginInv, UNCHANGED <<reports, spot, text, written, origin>>,
         turn' = "write" <=> turn = "write", D!ReportDone(spot) \/ UNCHANGED worker
  PROVE  OriginInv'
<1>1. ASSUME NEW k \in 1..Len(origin)
      PROVE  (InReports(origin[k]) /\ text[k] = LineAt(origin[k])
              /\ Follows(PlaceOf(k - 1), origin[k]))'
  <2>1. InReports(origin[k]) /\ text[k] = LineAt(origin[k]) /\ Follows(PlaceOf(k - 1), origin[k])
    BY DEF OriginInv
  <2>2. PICK o, x : o = origin[k] /\ x = PlaceOf(k - 1)
    OBVIOUS
  <2>3. x = PlaceOf(k - 1)' /\ o = origin'[k]
    BY <2>2 DEF PlaceOf
  <2>4. InReports(o)' /\ text'[k] = LineAt(o)' /\ Follows(x, o)'
    BY <2>1, <2>2
       DEF InReports, LineAt, Follows, D!ItemsAt, D!ReportDone, D!SectionDone
  <2> QED
    BY <2>3, <2>4 DEF InReports, LineAt, Follows, D!ItemsAt, D!ReportDone, D!SectionDone
<1>2. (spot = PlaceOf(Len(origin)) /\ spot.report = Len(written))'
  BY DEF OriginInv, PlaceOf
<1>3. D!ReportDone(spot)' = D!ReportDone(spot)
  BY DEF D!ReportDone, D!ItemsAt
<1>4. (~D!ReportDone(spot) => worker = written[spot.report])'
  BY <1>3 DEF OriginInv
<1>5. /\ turn' = "write" => Len(text') = Len(origin')
      /\ turn' # "write" => /\ Len(text') = Len(origin') + 1 /\ text'[Len(text')] = [line |-> "empty"]
                            /\ D!ReportDone(spot)'
  BY <1>3 DEF OriginInv
<1> QED
  BY <1>1, <1>2, <1>4, <1>5 DEF OriginInv

LEMMA WorkerWritten ==
  ASSUME TextInv, D!WriteWorker
  PROVE  TextInv'
<1>1. /\ TextTypes /\ WrittenInv /\ OriginInv /\ ReadInv
      /\ turn = "write" /\ D!ReportDone(spot) /\ worker < Len(reports) /\ worker' = worker + 1
      /\ UNCHANGED <<reports, cursor, section, result, unreadable, turn>>
  BY DEF TextInv, D!WriteWorker, D!reader
<1>2. Len(reports) \in Nat /\ worker' \in 0..Len(reports)
  BY <1>1, ReportFacts
<1>3. CASE D!Managed(reports[worker + 1])
  <2>0. PICK p : p = D!Place(Len(written) + 1, 0, 0)
    OBVIOUS
  <2>1. /\ written' = Append(written, worker + 1) /\ worker + 1 \in Nat
        /\ written \in Seq(Nat) /\ Len(written) \in Nat /\ spot.report = Len(written)
    BY <1>1, <1>3, ReportFacts DEF D!WriteWorker, OriginInv, TextTypes
  <2>2. /\ written' \in Seq(Nat) /\ Len(written') = Len(written) + 1
        /\ DOMAIN written' = 1..(Len(written) + 1) /\ DOMAIN written = 1..Len(written)
        /\ \A n \in 1..Len(written) : written'[n] = written[n]
        /\ written'[Len(written) + 1] = worker + 1
    BY <2>1, AppendProperties
  <2>3. WrittenInv'
    <3>1. \A n \in DOMAIN written' : written'[n] \in 1..worker' /\ D!Managed(reports'[written'[n]])
      <4> SUFFICES ASSUME NEW n \in DOMAIN written'
                   PROVE  written'[n] \in 1..worker' /\ D!Managed(reports'[written'[n]])
        OBVIOUS
      <4>1. n \in DOMAIN written \/ n = Len(written) + 1
        BY <2>1, <2>2
      <4>2. CASE n \in DOMAIN written
        <5>1. written'[n] = written[n] /\ written[n] \in 1..worker /\ D!Managed(reports[written[n]])
          BY <1>1, <2>2, <4>2 DEF WrittenInv
        <5>2. \A k \in 1..worker : k \in 1..(worker + 1)
          BY <1>1, ReportFacts
        <5> QED
          BY <1>1, <1>2, <5>1, <5>2
      <4>3. CASE n = Len(written) + 1
        BY <1>1, <1>2, <1>3, <2>1, <2>2, <4>3, ReportFacts
      <4> QED
        BY <4>1, <4>2, <4>3
    <3>2. \A m, n \in DOMAIN written' : m < n => written'[m] < written'[n]
      BY <1>1, <1>2, <2>1, <2>2, ReportFacts DEF WrittenInv
    <3>3. ASSUME NEW w \in 1..worker', D!Managed(reports'[w])
          PROVE  \E n \in DOMAIN written' : written'[n] = w
      <4>1. CASE w = worker + 1
        BY <2>1, <2>2, <4>1
      <4>2. CASE w # worker + 1
        <5>1. w \in 1..worker
          BY <1>1, <1>2, <4>2, ReportFacts
        <5>2. PICK n \in DOMAIN written : written[n] = w
          BY <1>1, <3>3, <5>1 DEF WrittenInv
        <5> QED
          BY <2>1, <2>2, <5>2
      <4> QED
        BY <4>1, <4>2
    <3> QED
      BY <1>1, <3>1, <3>2, <3>3 DEF WrittenInv, D!Managed
  <2>4. p \in Places /\ p.report = Len(written) + 1 /\ p.section = 0 /\ p.item = 0
    BY <2>0, <2>1 DEF D!Place, Places
  <2>5. D!WriteLine(reports[written'[p.report]], p)
    BY <1>3, <2>0, <2>1, <2>2, <2>4 DEF D!WriteWorker
  <2>6. PICK q : q = spot
    OBVIOUS
  <2>7. q.report # 0 => /\ q.report \in DOMAIN written /\ q.report \in DOMAIN written'
                        /\ written'[q.report] = written[q.report]
    BY <1>1, <2>1, <2>2, <2>6 DEF TextTypes, Places
  <2>8. UNCHANGED reports
    BY <1>1
  <2>9. D!ReportDone(q)' = D!ReportDone(q)
    BY <2>7, <2>8, PlaceStays
  <2>10. Follows(q, p)'
    <3>1. D!ReportDone(q)
      BY <1>1, <2>6 DEF D!ReportDone
    <3>2. p = D!Place(q.report + 1, 0, 0)
      BY <2>0, <2>1, <2>6
    <3> QED
      BY <2>9, <3>1, <3>2 DEF Follows
  <2>11. InReports(p)'
    <3>1. p.report \in DOMAIN written' /\ p.section = 0 /\ p.item = 0
      BY <2>1, <2>2, <2>4
    <3> QED
      BY <3>1 DEF InReports
  <2>12. worker' = written'[p.report]
    BY <1>1, <2>2, <2>4
  <2>13. /\ Len(written) <= Len(written') /\ p.report = Len(written')
         /\ \A n \in DOMAIN written : written'[n] = written[n]
    BY <2>1, <2>2, <2>4
  <2>14. ~D!ReportDone(p)' => worker' = written'[p.report]
    BY <2>12
  <2> QED
    BY <1>1, <1>2, <2>2, <2>3, <2>4, <2>5, <2>6, <2>10, <2>11, <2>13, <2>14, LineWritten
<1>4. CASE ~D!Managed(reports[worker + 1])
  <2>1. UNCHANGED <<spot, text, written, origin>>
    BY <1>4 DEF D!WriteWorker
  <2>2. TextTypes'
    BY <1>1, <1>2, <2>1 DEF TextTypes
  <2>3. WrittenInv'
    <3>1. \A w \in 1..worker' : w = worker + 1 \/ w \in 1..worker
      BY <1>1, ReportFacts
    <3>2. \A n \in DOMAIN written : written[n] \in 1..worker => written[n] \in 1..worker'
      BY <1>1, ReportFacts
    <3> QED
      BY <1>1, <1>4, <2>1, <3>1, <3>2 DEF WrittenInv, D!Managed
  <2>4. OriginInv'
    BY <1>1, <2>1, TextStays
  <2>5. ReadInv'
    <3>1. ~unreadable' /\ cursor' = 0 /\ section' = 0 /\ result' = <<>>
      BY <1>1 DEF ReadInv
    <3>2. CursorAt' = D!Nowhere
      BY <1>1, <2>1, <3>1, ReportFacts DEF CursorAt, PlaceOf
    <3>3. CursorAt'.section = 0 /\ CursorAt'.report = 0
      BY <3>2 DEF D!Nowhere, D!Place
    <3>4. \A n \in 1..CursorAt'.report : FALSE
      BY <3>3
    <3> QED
      BY <1>1, <3>1, <3>3, <3>4 DEF ReadInv
  <2> QED
    BY <2>2, <2>3, <2>4, <2>5 DEF TextInv
<1> QED
  BY <1>3, <1>4

(* A line of the report that the writer is in.                             *)
LEMMA ReportGoesOn ==
  ASSUME TextInv, turn = "write",
         UNCHANGED <<reports, worker, written, cursor, section, result, unreadable, turn>>,
         NEW q, q = spot, NEW p \in Places, InReports(p), p.report = q.report, Follows(q, p),
         ~D!ReportDone(spot), D!WriteLine(reports[worker], p)
  PROVE  TextInv'
<1>1. /\ TextTypes /\ WrittenInv /\ spot.report = Len(written) /\ worker = written[spot.report]
      /\ worker' \in 0..Len(reports) /\ written' \in Seq(Nat) /\ Len(written) \in Nat
  BY DEF TextInv, OriginInv, TextTypes
<1>2. WrittenInv'
  BY <1>1 DEF WrittenInv, D!Managed
<1>3. D!WriteLine(reports[written'[p.report]], p)
  BY <1>1
<1>4. InReports(p)' /\ Follows(q, p)'
  BY DEF InReports, Follows, D!ItemsAt, D!ReportDone, D!SectionDone
<1>5. p.report = Len(written') /\ worker' = written'[p.report]
  BY <1>1
<1>6. ~D!ReportDone(p)' => worker' = written'[p.report]
  BY <1>5
<1>7. Len(written) <= Len(written') /\ \A n \in DOMAIN written : written'[n] = written[n]
  BY <1>1
<1> QED
  BY <1>1, <1>2, <1>3, <1>4, <1>5, <1>6, <1>7, LineWritten

(* Where the writer is, once it has written a line.                        *)
LEMMA SpotKnown ==
  ASSUME TextInv
  PROVE  /\ spot \in Places /\ spot.report = Len(written) /\ Len(written) \in Nat
         /\ spot = D!Nowhere <=> Len(origin) = 0
         /\ spot # D!Nowhere =>
              /\ InReports(spot) /\ spot.report # 0
              /\ spot.report \in 1..Len(written) /\ written[spot.report] \in 1..Len(reports)
<1>1. /\ TextTypes /\ WrittenInv /\ OriginInv /\ spot = PlaceOf(Len(origin))
      /\ spot.report = Len(written) /\ Len(origin) \in 0..Len(origin) /\ Len(written) \in Nat
  BY ReportFacts DEF TextInv, OriginInv
<1>2. /\ spot \in Places /\ (Len(origin) = 0 => spot = D!Nowhere)
      /\ Len(origin) # 0 => InReports(spot) /\ spot.report # 0
  BY <1>1, PlacesKnown
<1>3. D!Nowhere.report = 0
  BY DEF D!Nowhere, D!Place
<1>4. spot # D!Nowhere => /\ spot.report \in 1..Len(written)
                          /\ written[spot.report] \in 1..Len(reports)
  BY <1>1, <1>2, PlaceFacts
<1> QED
  BY <1>1, <1>2, <1>3, <1>4

LEMMA SectionWritten ==
  ASSUME TextInv, D!WriteSection
  PROVE  TextInv'
<1>1. /\ TextTypes /\ WrittenInv /\ turn = "write" /\ spot # D!Nowhere /\ spot.section < 4
      /\ D!SectionDone(spot)
      /\ D!WriteLine(reports[worker], D!Place(spot.report, spot.section + 1, 0))
      /\ UNCHANGED <<reports, worker, written, cursor, section, result, unreadable, turn>>
  BY DEF TextInv, D!WriteSection, D!reader
<1>2. PICK q, p : q = spot /\ p = D!Place(spot.report, spot.section + 1, 0)
  OBVIOUS
<1>3. /\ spot \in Places /\ InReports(spot) /\ spot.report # 0
      /\ spot.report \in 1..Len(written) /\ written[spot.report] \in 1..Len(reports)
  BY <1>1, SpotKnown
<1>4. spot.report \in Nat /\ spot.section \in 0..4 /\ spot.item \in Nat
  BY <1>3 DEF Places
<1>5. /\ p \in Places /\ p.report = q.report /\ p.section \in D!Sections /\ p.item = 0
      /\ p.section # 0
  BY <1>1, <1>2, <1>4 DEF D!Place, Places, D!Sections
<1>6. Len(D!ItemsAt(p)) \in Nat
  BY <1>1, <1>2, <1>3, <1>5, ReportFacts DEF D!ItemsAt
<1>7. InReports(p)
  BY <1>1, <1>2, <1>3, <1>5, <1>6, ReportFacts DEF InReports
<1>8. Follows(q, p)
  BY <1>1, <1>2, <1>3 DEF Follows, D!SectionDone
<1>9. ~D!ReportDone(spot)
  BY <1>1, <1>3, <1>4 DEF D!ReportDone
<1> QED
  BY <1>1, <1>2, <1>5, <1>7, <1>8, <1>9, ReportGoesOn

LEMMA ItemWritten ==
  ASSUME TextInv, D!WriteItem
  PROVE  TextInv'
<1>1. /\ TextTypes /\ WrittenInv /\ turn = "write" /\ ~D!SectionDone(spot)
      /\ D!WriteLine(reports[worker], D!Place(spot.report, spot.section, spot.item + 1))
      /\ UNCHANGED <<reports, worker, written, cursor, section, result, unreadable, turn>>
  BY DEF TextInv, D!WriteItem, D!reader
<1>2. PICK q, p : q = spot /\ p = D!Place(spot.report, spot.section, spot.item + 1)
  OBVIOUS
<1>3. spot.section # 0 /\ spot.item # Len(D!ItemsAt(spot))
  BY <1>1 DEF D!SectionDone
<1>4. spot # D!Nowhere
  BY <1>3 DEF D!Nowhere, D!Place
<1>5. /\ spot \in Places /\ InReports(spot) /\ spot.report # 0
      /\ spot.report \in 1..Len(written) /\ written[spot.report] \in 1..Len(reports)
  BY <1>1, <1>4, SpotKnown
<1>6. /\ spot.report \in Nat /\ spot.section \in 0..4 /\ spot.item \in Nat
      /\ Len(D!ItemsAt(spot)) \in Nat /\ spot.item <= Len(D!ItemsAt(spot))
  BY <1>1, <1>3, <1>5, PlaceFacts
<1>7. /\ p \in Places /\ p.report = spot.report /\ p.section = spot.section
      /\ p.item = spot.item + 1
  BY <1>2, <1>6 DEF D!Place, Places
<1>8. D!ItemsAt(p) = D!ItemsAt(spot)
  BY <1>7 DEF D!ItemsAt
<1>9. InReports(p)
  BY <1>1, <1>3, <1>5, <1>6, <1>7, <1>8, ReportFacts DEF InReports
<1>10. Follows(q, p)
  <2>1. spot.item < Len(D!ItemsAt(spot))
    BY <1>3, <1>6
  <2> QED
    BY <1>2, <1>3, <1>5, <2>1 DEF Follows, D!ItemsAt
<1>11. ~D!ReportDone(spot)
  BY <1>3, <1>5 DEF D!ReportDone
<1>12. p.report = q.report
  BY <1>2, <1>7
<1> QED
  BY <1>1, <1>2, <1>7, <1>9, <1>10, <1>11, <1>12, ReportGoesOn

LEMMA EndWritten ==
  ASSUME TextInv, D!WriteEnd
  PROVE  TextInv'
<1>1. /\ TextTypes /\ WrittenInv /\ OriginInv /\ ReadInv
      /\ turn = "write" /\ D!ReportDone(spot) /\ worker = Len(reports)
      /\ text' = Append(text, [line |-> "empty"]) /\ turn' = "read"
      /\ UNCHANGED <<reports, worker, spot, written, origin, cursor, section, result, unreadable>>
  BY DEF TextInv, D!WriteEnd, D!reader
<1>2. /\ text \in Seq(LineType) /\ Len(text) = Len(origin) /\ Len(origin) \in Nat
  BY <1>1, ReportFacts DEF TextTypes, OriginInv
<1>3. /\ text' \in Seq(LineType) /\ Len(text') = Len(origin) + 1
      /\ \A k \in 1..Len(origin) : text'[k] = text[k]
      /\ text'[Len(origin) + 1] = [line |-> "empty"]
  <2>1. [line |-> "empty"] \in LineType
    BY DEF LineType
  <2> QED
    BY <1>1, <1>2, <2>1, AppendProperties
<1>4. cursor = 0 /\ section = 0 /\ result = <<>> /\ ~unreadable
  BY <1>1 DEF ReadInv
<1>5. TextTypes'
  <2>1. cursor' \in 0..Len(text')
    BY <1>1, <1>2, <1>3, <1>4
  <2>2. unreadable' \in BOOLEAN
    BY <1>1 DEF TextTypes
  <2> QED
    BY <1>1, <1>3, <2>1, <2>2 DEF TextTypes
<1>6. WrittenInv'
  BY <1>1 DEF WrittenInv, D!Managed
<1>7. OriginInv'
  <2>1. ASSUME NEW k \in 1..Len(origin)
        PROVE  (InReports(origin[k]) /\ text[k] = LineAt(origin[k])
                /\ Follows(PlaceOf(k - 1), origin[k]))'
    <3>1. InReports(origin[k]) /\ text[k] = LineAt(origin[k]) /\ Follows(PlaceOf(k - 1), origin[k])
      BY <1>1 DEF OriginInv
    <3>2. PICK o, x : o = origin[k] /\ x = PlaceOf(k - 1)
      OBVIOUS
    <3>3. x = PlaceOf(k - 1)' /\ o = origin'[k] /\ text'[k] = text[k]
      BY <1>1, <1>3, <3>2 DEF PlaceOf
    <3>4. InReports(o)' /\ text'[k] = LineAt(o)' /\ Follows(x, o)'
      BY <1>1, <3>1, <3>2, <3>3
         DEF InReports, LineAt, Follows, D!ItemsAt, D!ReportDone, D!SectionDone
    <3> QED
      BY <3>3, <3>4 DEF InReports, LineAt, Follows, D!ItemsAt, D!ReportDone, D!SectionDone
  <2>2. (spot = PlaceOf(Len(origin)) /\ spot.report = Len(written))'
    BY <1>1 DEF OriginInv, PlaceOf
  <2>3. D!ReportDone(spot)'
    BY <1>1 DEF D!ReportDone, D!ItemsAt
  <2>4. Len(text') = Len(origin') + 1 /\ text'[Len(text')] = [line |-> "empty"] /\ turn' # "write"
    BY <1>1, <1>3
  <2> QED
    BY <1>1, <2>1, <2>2, <2>3, <2>4 DEF OriginInv
<1>8. ReadInv'
  <2>1. CursorAt' = D!Nowhere
    BY <1>1, <1>2, <1>4 DEF CursorAt, PlaceOf
  <2>2. CursorAt'.section = 0 /\ CursorAt'.report = 0
    BY <2>1 DEF D!Nowhere, D!Place
  <2>3. \A n \in 1..CursorAt'.report : FALSE
    BY <2>2
  <2>4. section' = 0 /\ Len(result') = 0 /\ ~unreadable' /\ turn' = "read"
    BY <1>1, <1>4
  <2> QED
    BY <2>2, <2>3, <2>4 DEF ReadInv
<1> QED
  BY <1>5, <1>6, <1>7, <1>8 DEF TextInv

(* What was read of a report is no more at the next place.                 *)
LEMMA ReportStays ==
  ASSUME UNCHANGED <<reports, written>>, NEW n, NEW p, NEW q, ReadUpTo(n, p),
         \A s \in D!Sections : ItemsRead(n, s, q) = ItemsRead(n, s, p),
         result'[n] = result[n]
  PROVE  ReadUpTo(n, q)'
<1>1. \A s \in D!Sections : ItemsRead(n, s, q)' = ItemsRead(n, s, p)
  BY DEF ItemsRead
<1> QED
  BY <1>1 DEF ReadUpTo

(* The cursor goes on to the place of the line it has passed.              *)
LEMMA CursorMoves ==
  ASSUME TextTypes, OriginInv, turn = "read", UNCHANGED origin, cursor' = cursor + 1,
         NEW q, cursor + 1 \in 1..Len(origin), origin[cursor + 1] = q
  PROVE  q = CursorAt' /\ cursor' \in 0..Len(text)
<1>1. Len(text) = Len(origin) + 1
  BY DEF OriginInv
<1>2. cursor + 1 <= Len(origin) /\ cursor + 1 # 0 /\ Len(origin) \in Nat /\ cursor \in Nat
  BY DEF TextTypes
<1>3. cursor' <= Len(origin') /\ cursor' # 0 /\ origin'[cursor'] = q
  BY <1>2
<1>4. CursorAt' = q
  BY <1>3 DEF CursorAt, PlaceOf
<1> QED
  BY <1>1, <1>2, <1>4

(* The reader is at the place q, and has read the reports up to it.        *)
LEMMA ReaderMoves ==
  ASSUME TextInv, turn = "read", turn' \in {"read", "done"},
         UNCHANGED <<reports, worker, spot, text, written, origin, unreadable>>,
         cursor' \in 0..Len(text), turn' = "done" => cursor' = Len(text),
         result' \in Seq(D!ReportType), section' \in 0..4,
         NEW q, q = CursorAt',
         origin # <<>> => /\ section' = q.section /\ Len(result') = q.report
                          /\ \A n \in 1..q.report : ReadUpTo(n, q)'
  PROVE  TextInv'
<1>1. TextTypes /\ WrittenInv /\ OriginInv
  BY DEF TextInv
<1>2. TextTypes'
  <2>1. unreadable' \in BOOLEAN
    BY <1>1 DEF TextTypes
  <2>2. cursor' \in 0..Len(text') /\ turn' \in {"write", "read", "done"}
    OBVIOUS
  <2> QED
    BY <1>1, <2>1, <2>2 DEF TextTypes
<1>3. WrittenInv'
  BY <1>1 DEF WrittenInv, D!Managed
<1>4. OriginInv'
  BY <1>1, TextStays
<1>5. ReadInv'
  <2>1. ASSUME origin # <<>>, NEW n \in 1..CursorAt'.report
        PROVE  ReadUpTo(n, CursorAt)'
    <3>1. ReadUpTo(n, q)'
      BY <2>1
    <3> QED
      BY <3>1 DEF ReadUpTo, ItemsRead
  <2>2. ~unreadable'
    BY DEF TextInv, ReadInv
  <2> QED
    BY <2>1, <2>2 DEF ReadInv
<1> QED
  BY <1>2, <1>3, <1>4, <1>5 DEF TextInv

(* The next line, unless it is the empty one, is that of the place which   *)
(* follows the one where the reader is.                                    *)
LEMMA NextPlace ==
  ASSUME TextInv, turn = "read", cursor < Len(text), D!NextLine.line # "empty"
  PROVE  \E p \in Places, q \in Places :
           /\ cursor + 1 \in 1..Len(origin) /\ origin[cursor + 1] = q
           /\ p.report \in 0..Len(written)
           /\ InReports(q) /\ Follows(p, q) /\ D!NextLine = LineAt(q)
           /\ p.report # 0 => InReports(p)
           /\ section = p.section /\ Len(result) = p.report
           /\ \A n \in 1..p.report : ReadUpTo(n, p)
<1>1. /\ TextTypes /\ WrittenInv /\ OriginInv /\ ReadInv /\ ~unreadable
      /\ Len(text) = Len(origin) + 1 /\ text[Len(text)] = [line |-> "empty"]
      /\ Len(origin) \in Nat /\ cursor \in 0..Len(text)
      /\ D!NextLine = text[cursor + 1]
  BY ReportFacts DEF TextInv, ReadInv, OriginInv, TextTypes, D!NextLine
<1>2. cursor + 1 # Len(text)
  BY <1>1
<1>3. cursor \in 0..Len(origin) /\ cursor + 1 \in 1..Len(origin) /\ origin # <<>>
  BY <1>1, <1>2
<1>4. PICK p, q : p = PlaceOf(cursor) /\ q = origin[cursor + 1]
  OBVIOUS
<1>5. p = CursorAt
  BY <1>3, <1>4 DEF CursorAt
<1>6. p \in Places /\ (p.report # 0 => InReports(p)) /\ p.report \in 0..Len(written)
  BY <1>1, <1>3, <1>4, PlacesKnown
<1>7. q \in Places /\ InReports(q) /\ D!NextLine = LineAt(q)
  BY <1>1, <1>3, <1>4, ReportFacts DEF OriginInv
<1>8. Follows(p, q)
  <2>1. Follows(PlaceOf(cursor + 1 - 1), origin[cursor + 1])
    BY <1>1, <1>3 DEF OriginInv
  <2>2. cursor + 1 - 1 = cursor
    BY <1>3
  <2> QED
    BY <1>4, <2>1, <2>2
<1>9. section = p.section /\ Len(result) = p.report /\ \A n \in 1..p.report : ReadUpTo(n, p)
  BY <1>1, <1>3, <1>5 DEF ReadInv
<1> QED
  BY <1>3, <1>4, <1>6, <1>7, <1>8, <1>9

(* Which of the three ways to the next place it is, its line tells.        *)
LEMMA NextKind ==
  ASSUME TextTypes, WrittenInv, NEW p \in Places, NEW q \in Places,
         InReports(q), Follows(p, q)
  PROVE  /\ LineAt(q).line = "worker" =>
              D!ReportDone(p) /\ q = D!Place(p.report + 1, 0, 0)
         /\ LineAt(q).line = "section" =>
              /\ p.report # 0 /\ p.section < 4 /\ D!SectionDone(p)
              /\ q = D!Place(p.report, p.section + 1, 0)
         /\ LineAt(q).line = "item" =>
              /\ p.report # 0 /\ p.section # 0 /\ p.item < Len(D!ItemsAt(p))
              /\ q = D!Place(p.report, p.section, p.item + 1)
         /\ LineAt(q).line # "empty"
<1>1. LineAt(q).line = IF q.section = 0 THEN "worker" ELSE IF q.item = 0 THEN "section" ELSE "item"
  BY PlaceFacts
<1>2. p.report \in Nat /\ p.section \in 0..4 /\ p.item \in Nat
  BY DEF Places
<1>3. \A n, s, i : /\ D!Place(n, s, i).report = n /\ D!Place(n, s, i).section = s
                   /\ D!Place(n, s, i).item = i
  BY DEF D!Place
<1>4. CASE D!ReportDone(p) /\ q = D!Place(p.report + 1, 0, 0)
  BY <1>1, <1>3, <1>4
<1>5. CASE /\ p.report # 0 /\ p.section < 4 /\ D!SectionDone(p)
           /\ q = D!Place(p.report, p.section + 1, 0)
  <2>1. q.section # 0 /\ q.item = 0
    BY <1>2, <1>3, <1>5
  <2> QED
    BY <1>1, <1>5, <2>1
<1>6. CASE /\ p.report # 0 /\ p.section # 0 /\ p.item < Len(D!ItemsAt(p))
           /\ q = D!Place(p.report, p.section, p.item + 1)
  <2>1. q.section # 0 /\ q.item # 0
    BY <1>2, <1>3, <1>6
  <2> QED
    BY <1>1, <1>6, <2>1
<1> QED
  BY <1>4, <1>5, <1>6 DEF Follows

(* What a report consists of.                                              *)
Names == WorkerName \cup {""}

LEMMA ReportParts ==
  \A r \in D!ReportType :
    r.name \in Names /\ r.blanks \in Nat /\ r.items \in [D!Sections -> Seq(D!ItemType)]
<1>1. D!ReportType = [name : Names, blanks : Nat, items : [D!Sections -> Seq(D!ItemType)]]
  BY DEF D!ReportType, Names
<1> QED
  BY <1>1

LEMMA ReportMade ==
  \A n \in Names, b \in Nat, f \in [D!Sections -> Seq(D!ItemType)] :
    [name |-> n, blanks |-> b, items |-> f] \in D!ReportType
<1>1. D!ReportType = [name : Names, blanks : Nat, items : [D!Sections -> Seq(D!ItemType)]]
  BY DEF D!ReportType, Names
<1> QED
  BY <1>1

LEMMA ReportChanged ==
  \A r \in D!ReportType, f \in [D!Sections -> Seq(D!ItemType)] :
    /\ [r EXCEPT !.items = f] \in D!ReportType
    /\ [r EXCEPT !.items = f].name = r.name
    /\ [r EXCEPT !.items = f].items = f
<1>1. D!ReportType = [name : Names, blanks : Nat, items : [D!Sections -> Seq(D!ItemType)]]
  BY DEF D!ReportType, Names
<1> QED
  BY <1>1

(* A report that nothing was read of yet.                                  *)
LEMMA NewReportTyped ==
  ASSUME NEW name \in Names, NEW blanks \in Nat
  PROVE  /\ D!NewReport(name, blanks) \in D!ReportType
         /\ D!NewReport(name, blanks).name = name
         /\ \A s \in D!Sections : D!NewReport(name, blanks).items[s] = <<>>
<1> DEFINE none == [s \in D!Sections |-> <<>>]
<1>1. none \in [D!Sections -> Seq(D!ItemType)] /\ \A s \in D!Sections : none[s] = <<>>
  BY EmptySeq
<1>2. D!NewReport(name, blanks) = [name |-> name, blanks |-> blanks, items |-> none]
  BY DEF D!NewReport
<1> HIDE DEF none
<1>3. D!NewReport(name, blanks) \in D!ReportType
  BY <1>1, <1>2, ReportMade
<1> QED
  BY <1>1, <1>2, <1>3

LEMMA WorkerRead ==
  ASSUME TextInv, D!ReadWorker
  PROVE  TextInv'
<1>1. /\ TextTypes /\ WrittenInv /\ OriginInv /\ turn = "read" /\ cursor < Len(text)
      /\ D!NextLine.line = "worker" /\ cursor' = cursor + 1 /\ section' = 0
      /\ result' = Append(result, D!NewReport(D!NextLine.name, D!NextLine.blanks))
      /\ UNCHANGED <<reports, worker, spot, text, written, origin, unreadable, turn>>
  BY DEF TextInv, D!ReadWorker, D!ReadsLine, D!writer
<1>2. D!NextLine.line # "empty"
  BY <1>1
<1>3. PICK p \in Places, q \in Places :
           /\ cursor + 1 \in 1..Len(origin) /\ origin[cursor + 1] = q
           /\ p.report \in 0..Len(written)
           /\ InReports(q) /\ Follows(p, q) /\ D!NextLine = LineAt(q)
           /\ p.report # 0 => InReports(p)
           /\ section = p.section /\ Len(result) = p.report
           /\ \A n \in 1..p.report : ReadUpTo(n, p)
  BY <1>1, <1>2, NextPlace
<1>4. D!ReportDone(p) /\ q = D!Place(p.report + 1, 0, 0)
  BY <1>1, <1>3, NextKind
<1>5. /\ q.report = p.report + 1 /\ q.section = 0 /\ q.item = 0
      /\ p.report \in Nat /\ p.section \in 0..4 /\ p.item \in Nat
  BY <1>4 DEF D!Place, Places
<1>6. q.report \in 1..Len(written) /\ written[q.report] \in 1..Len(reports)
  BY <1>1, <1>3, PlaceFacts
<1> DEFINE w == reports[written[q.report]]
           new == D!NewReport(w.name, w.blanks + 1)
<1>7. w \in D!ReportType
  BY <1>1, <1>6, ReportFacts
<1>8. w.name \in Names /\ w.blanks + 1 \in Nat
  <2> HIDE DEF w
  <2> QED
    BY <1>7, ReportParts
<1>9. result' = Append(result, new)
  <2>1. D!NextLine = [line |-> "worker", name |-> w.name, blanks |-> w.blanks + 1]
    BY <1>3, <1>5 DEF LineAt, D!LineOf
  <2>2. D!NextLine.name = w.name /\ D!NextLine.blanks = w.blanks + 1
    BY <2>1
  <2> QED
    BY <1>1, <2>2
<1>10. /\ new \in D!ReportType /\ new.name = w.name
       /\ \A s \in D!Sections : new.items[s] = <<>>
  BY <1>8, NewReportTyped
<1>11. result \in Seq(D!ReportType)
  BY <1>1 DEF TextTypes
<1> HIDE DEF new
<1>12. /\ result' \in Seq(D!ReportType) /\ Len(result') = p.report + 1
       /\ \A n \in 1..p.report : result'[n] = result[n]
       /\ result'[p.report + 1] = new
  BY <1>3, <1>9, <1>10, <1>11, AppendProperties
<1>13. ASSUME NEW n \in 1..p.report
       PROVE  ReadUpTo(n, q)'
  <2>1. p.report # 0 /\ InReports(p)
    BY <1>3, <1>5
  <2>2. p.section = 4 /\ p.item = Len(D!ItemsAt(p))
    BY <1>4, <2>1 DEF D!ReportDone
  <2>3. ASSUME NEW s \in D!Sections
        PROVE  ItemsRead(n, s, q) = ItemsRead(n, s, p)
    <3>1. n < q.report /\ s \in 1..4 /\ (n < p.report \/ n = p.report)
      BY <1>5 DEF D!Sections
    <3>2. ItemsRead(n, s, q) = Len(reports[written[n]].items[s])
      BY <3>1 DEF ItemsRead
    <3>3. s < p.section \/ s = p.section
      BY <2>2, <3>1
    <3>4. ItemsRead(n, s, p) = Len(reports[written[n]].items[s])
      BY <2>2, <3>1, <3>3 DEF ItemsRead, D!ItemsAt
    <3> QED
      BY <3>2, <3>4
  <2> QED
    BY <1>1, <1>3, <1>12, <2>3, ReportStays
<1>14. ReadUpTo(q.report, q)'
  <2>1. \A s \in D!Sections : s \in 1..4 /\ ItemsRead(q.report, s, q)' = 0
    BY <1>5 DEF D!Sections, ItemsRead
  <2>2. result'[q.report] = new /\ new.name = reports'[written'[q.report]].name
    BY <1>1, <1>5, <1>10, <1>12
  <2>3. \A s \in D!Sections : /\ Len(result'[q.report].items[s]) = 0
                              /\ \A j \in 1..0 : FALSE
    BY <1>10, <2>2
  <2> QED
    BY <2>1, <2>2, <2>3 DEF ReadUpTo
<1>15. \A n \in 1..q.report : ReadUpTo(n, q)'
  <2>1. \A n \in 1..q.report : n \in 1..p.report \/ n = q.report
    BY <1>5
  <2> QED
    BY <1>13, <1>14, <2>1
<1>16. q = CursorAt' /\ cursor' \in 0..Len(text)
  BY <1>1, <1>3, CursorMoves
<1>17. section' \in 0..4 /\ section' = q.section /\ Len(result') = q.report
  BY <1>1, <1>5, <1>12
<1> QED
  BY <1>1, <1>12, <1>15, <1>16, <1>17, ReaderMoves

LEMMA SectionRead ==
  ASSUME TextInv, D!ReadSection
  PROVE  TextInv'
<1>1. /\ TextTypes /\ WrittenInv /\ OriginInv /\ turn = "read" /\ cursor < Len(text)
      /\ D!NextLine.line = "section" /\ cursor' = cursor + 1 /\ section' = D!NextLine.section
      /\ UNCHANGED <<reports, worker, spot, text, written, origin, result, unreadable, turn>>
  BY DEF TextInv, D!ReadSection, D!ReadsLine, D!writer
<1>2. D!NextLine.line # "empty"
  BY <1>1
<1>3. PICK p \in Places, q \in Places :
           /\ cursor + 1 \in 1..Len(origin) /\ origin[cursor + 1] = q
           /\ p.report \in 0..Len(written)
           /\ InReports(q) /\ Follows(p, q) /\ D!NextLine = LineAt(q)
           /\ p.report # 0 => InReports(p)
           /\ section = p.section /\ Len(result) = p.report
           /\ \A n \in 1..p.report : ReadUpTo(n, p)
  BY <1>1, <1>2, NextPlace
<1>4. /\ p.report # 0 /\ p.section < 4 /\ D!SectionDone(p)
      /\ q = D!Place(p.report, p.section + 1, 0)
  BY <1>1, <1>3, NextKind
<1>5. /\ q.report = p.report /\ q.section = p.section + 1 /\ q.item = 0
      /\ p.report \in Nat /\ p.section \in 0..4 /\ p.item \in Nat
  BY <1>4 DEF D!Place, Places
<1>6. section' = q.section
  <2>1. D!NextLine = [line |-> "section", section |-> q.section]
    BY <1>3, <1>5 DEF LineAt, D!LineOf
  <2> QED
    BY <1>1, <2>1
<1>7. ASSUME NEW n \in 1..q.report
      PROVE  ReadUpTo(n, q)'
  <2>1. p.section # 0 => p.item = Len(D!ItemsAt(p))
    BY <1>4 DEF D!SectionDone
  <2>2. ASSUME NEW s \in D!Sections
        PROVE  ItemsRead(n, s, q) = ItemsRead(n, s, p)
    <3>1. s \in 1..4 /\ n \in 1..p.report
      BY <1>5 DEF D!Sections
    <3>2. CASE n < p.report
      BY <1>5, <3>2 DEF ItemsRead
    <3>3. CASE n = p.report /\ s < p.section
      BY <1>4, <1>5, <3>1, <3>3 DEF ItemsRead
    <3>4. CASE n = p.report /\ s = p.section
      <4>1. p.section # 0 /\ s < q.section /\ ~(n < p.report) /\ ~(s < p.section)
        BY <1>5, <3>1, <3>4
      <4>2. ItemsRead(n, s, q) = Len(reports[written[n]].items[s])
        BY <4>1 DEF ItemsRead
      <4>3. ItemsRead(n, s, p) = p.item
        BY <3>4, <4>1 DEF ItemsRead
      <4> QED
        BY <2>1, <3>4, <4>1, <4>2, <4>3 DEF D!ItemsAt
    <3>5. CASE n = p.report /\ s > p.section
      BY <1>5, <3>1, <3>5 DEF ItemsRead
    <3> QED
      BY <1>5, <3>1, <3>2, <3>3, <3>4, <3>5
  <2> QED
    BY <1>1, <1>3, <1>5, <2>2, ReportStays
<1>8. q = CursorAt' /\ cursor' \in 0..Len(text) /\ section' \in 0..4
  <2>1. q = CursorAt' /\ cursor' \in 0..Len(text)
    BY <1>1, <1>3, CursorMoves
  <2> QED
    BY <1>4, <1>5, <1>6, <2>1
<1>9. result' \in Seq(D!ReportType)
  BY <1>1 DEF TextTypes
<1> QED
  BY <1>1, <1>3, <1>5, <1>6, <1>7, <1>8, <1>9, ReaderMoves

(* The next item of a section is added to what was read of it.             *)
ItemTo(rs, n, s, r) == [rs EXCEPT ![n].items[s] = Append(@, r)]

LEMMA ItemAdded ==
  ASSUME TextTypes, NEW n \in 1..Len(result), NEW s \in D!Sections, NEW r \in D!ItemType,
         result' = ItemTo(result, n, s, r)
  PROVE  /\ result' \in Seq(D!ReportType) /\ Len(result') = Len(result)
         /\ \A m \in 1..Len(result) : m # n => result'[m] = result[m]
         /\ result'[n].name = result[n].name
         /\ \A t \in D!Sections : t # s => result'[n].items[t] = result[n].items[t]
         /\ Len(result'[n].items[s]) = Len(result[n].items[s]) + 1
         /\ \A j \in 1..Len(result[n].items[s]) : result'[n].items[s][j] = result[n].items[s][j]
         /\ result'[n].items[s][Len(result[n].items[s]) + 1] = r
<1>1. /\ result[n] \in D!ReportType /\ result \in Seq(D!ReportType) /\ DOMAIN result = 1..Len(result)
      /\ Len(result) \in Nat
  BY DEF TextTypes
<1>2. /\ result[n].name \in Names /\ result[n].blanks \in Nat
      /\ result[n].items \in [D!Sections -> Seq(D!ItemType)]
  BY <1>1, ReportParts
<1> DEFINE old == result[n].items[s]
           a == Append(old, r)
           new == [result[n] EXCEPT !.items[s] = a]
<1>3. old \in Seq(D!ItemType)
  BY <1>2
<1>4. /\ a \in Seq(D!ItemType) /\ Len(a) = Len(old) + 1
      /\ \A j \in 1..Len(old) : a[j] = old[j]
      /\ a[Len(old) + 1] = r
  BY <1>3, AppendProperties
<1>5. result' = [result EXCEPT ![n] = new]
  BY DEF ItemTo
<1> HIDE DEF a
<1>6. /\ new \in D!ReportType /\ new.name = result[n].name
      /\ new.items[s] = a
      /\ \A t \in D!Sections : t # s => new.items[t] = result[n].items[t]
  <2> DEFINE items == [result[n].items EXCEPT ![s] = a]
  <2>1. items \in [D!Sections -> Seq(D!ItemType)] /\ items[s] = a
    BY <1>2, <1>4
  <2>2. \A t \in D!Sections : t # s => items[t] = result[n].items[t]
    BY <1>2
  <2>3. new = [result[n] EXCEPT !.items = items]
    OBVIOUS
  <2> HIDE DEF items, new
  <2>4. new \in D!ReportType /\ new.name = result[n].name /\ new.items = items
    BY <1>1, <2>1, <2>3, ReportChanged
  <2> QED
    BY <2>1, <2>2, <2>4
<1> HIDE DEF new
<1>7. /\ result' \in Seq(D!ReportType) /\ Len(result') = Len(result) /\ result'[n] = new
      /\ \A m \in 1..Len(result) : m # n => result'[m] = result[m]
  BY <1>1, <1>5, <1>6, ExceptSeq
<1> QED
  BY <1>4, <1>6, <1>7

LEMMA NoItemTyped == D!NoItem \in D!ItemType
<1>1. D!Nil \in D!Reference
  BY DEF D!Nil, D!Reference
<1>2. <<>> \in Seq([kind : D!Kinds, n : Int]) /\ 0 \in Int
  BY EmptySeq
<1> QED
  BY <1>1, <1>2 DEF D!NoItem, D!Item, D!ItemType

(* What an item line adds is the item that was written, or nothing of one  *)
(* that could not be read.                                                 *)
LEMMA ItemRead ==
  ASSUME TextInv, D!ReadItemLine \/ D!ReadUnlogged
  PROVE  TextInv'
<1>0. PICK r : /\ result' = [result EXCEPT ![Len(result)].items[section] = Append(@, r)]
               /\ \/ r = D!ReadItem(D!NextLine)
                  \/ r = D!NoItem /\ ~D!Readable(D!NextLine)
  BY DEF D!ReadItemLine, D!ReadUnlogged, D!Adds, D!Fails
<1>1. /\ TextTypes /\ WrittenInv /\ OriginInv /\ turn = "read" /\ cursor < Len(text)
      /\ D!NextLine.line = "item" /\ cursor' = cursor + 1
      /\ result' = [result EXCEPT ![Len(result)].items[section] = Append(@, r)]
      /\ UNCHANGED <<reports, worker, spot, text, written, origin, section, unreadable, turn>>
  BY <1>0 DEF TextInv, D!ReadItemLine, D!ReadUnlogged, D!Adds, D!ReadsLine, D!writer
<1>2. D!NextLine.line # "empty"
  BY <1>1
<1>3. PICK p \in Places, q \in Places :
           /\ cursor + 1 \in 1..Len(origin) /\ origin[cursor + 1] = q
           /\ p.report \in 0..Len(written)
           /\ InReports(q) /\ Follows(p, q) /\ D!NextLine = LineAt(q)
           /\ p.report # 0 => InReports(p)
           /\ section = p.section /\ Len(result) = p.report
           /\ \A n \in 1..p.report : ReadUpTo(n, p)
  BY <1>1, <1>2, NextPlace
<1>4. /\ p.report # 0 /\ p.section # 0 /\ p.item < Len(D!ItemsAt(p))
      /\ q = D!Place(p.report, p.section, p.item + 1)
  BY <1>1, <1>3, NextKind
<1>5. /\ q.report = p.report /\ q.section = p.section /\ q.item = p.item + 1
      /\ p.report \in Nat /\ p.section \in D!Sections /\ p.section \in 0..4 /\ p.item \in Nat
  BY <1>4 DEF D!Place, Places, D!Sections
<1>6. written[p.report] \in 1..Len(reports) /\ Len(D!ItemsAt(p)) \in Nat
  BY <1>1, <1>3, <1>4, PlaceFacts
<1>7. PICK e : e = reports[written[p.report]].items[p.section][p.item + 1]
  OBVIOUS
<1>8. e \in D!ItemType
  <2>1. D!ItemsAt(p) = reports[written[p.report]].items[p.section]
    BY DEF D!ItemsAt
  <2>2. p.item + 1 \in 1..Len(D!ItemsAt(p))
    BY <1>4, <1>5, <1>6
  <2>3. \A w \in 1..Len(reports) : \A s \in D!Sections :
          \A j \in 1..Len(reports[w].items[s]) : reports[w].items[s][j] \in D!ItemType
    BY <1>1, ReportFacts
  <2> QED
    BY <1>5, <1>6, <1>7, <2>1, <2>2, <2>3
<1>9. D!NextLine = D!ItemLine(e)
  <2>1. q.section # 0 /\ q.item # 0
    BY <1>4, <1>5
  <2>2. D!NextLine = D!ItemLine(reports[written[q.report]].items[q.section][q.item])
    BY <1>3, <2>1 DEF LineAt, D!LineOf
  <2> QED
    BY <1>5, <1>7, <2>2
<1>10. r \in D!ItemType /\ D!ReadAs(r, e)
  <2>1. CASE r = D!ReadItem(D!NextLine)
    BY <1>8, <1>9, <2>1, ItemReadBack DEF D!ReadAs
  <2>2. CASE r = D!NoItem /\ ~D!Readable(D!NextLine)
    BY <1>8, <1>9, <2>2, NoItemTyped, ItemReadBack DEF D!ReadAs
  <2> QED
    BY <1>0, <2>1, <2>2
<1>11. p.report \in 1..Len(result) /\ result' = ItemTo(result, p.report, p.section, r)
  BY <1>1, <1>3, <1>4, <1>5, <1>7 DEF ItemTo
<1>12. /\ result' \in Seq(D!ReportType) /\ Len(result') = Len(result)
       /\ \A m \in 1..Len(result) : m # p.report => result'[m] = result[m]
       /\ result'[p.report].name = result[p.report].name
       /\ \A t \in D!Sections : t # p.section => result'[p.report].items[t] = result[p.report].items[t]
       /\ Len(result'[p.report].items[p.section]) = Len(result[p.report].items[p.section]) + 1
       /\ \A j \in 1..Len(result[p.report].items[p.section]) :
            result'[p.report].items[p.section][j] = result[p.report].items[p.section][j]
       /\ result'[p.report].items[p.section][Len(result[p.report].items[p.section]) + 1] = r
  <2>1. PICK n, s : n = p.report /\ s = p.section
    OBVIOUS
  <2>2. /\ n \in 1..Len(result) /\ s \in D!Sections /\ r \in D!ItemType
        /\ result' = ItemTo(result, n, s, r)
    BY <1>5, <1>10, <1>11, <2>1
  <2>3. /\ result' \in Seq(D!ReportType) /\ Len(result') = Len(result)
        /\ \A m \in 1..Len(result) : m # n => result'[m] = result[m]
        /\ result'[n].name = result[n].name
        /\ \A t \in D!Sections : t # s => result'[n].items[t] = result[n].items[t]
        /\ Len(result'[n].items[s]) = Len(result[n].items[s]) + 1
        /\ \A j \in 1..Len(result[n].items[s]) : result'[n].items[s][j] = result[n].items[s][j]
        /\ result'[n].items[s][Len(result[n].items[s]) + 1] = r
    <3>1. TextTypes
      BY <1>1
    <3> QED
      BY <2>2, <3>1, ItemAdded
  <2> QED
    BY <2>1, <2>3
<1>13. ASSUME NEW n \in 1..p.report, n # p.report
       PROVE  ReadUpTo(n, q)'
  <2>1. n < p.report /\ n \in 1..Len(result)
    BY <1>3, <1>5, <1>13
  <2>2. \A s \in D!Sections : ItemsRead(n, s, q) = ItemsRead(n, s, p)
    BY <1>5, <2>1 DEF ItemsRead
  <2>3. UNCHANGED <<reports, written>> /\ ReadUpTo(n, p)
    BY <1>1, <1>3, <1>13
  <2>4. result'[n] = result[n]
    BY <1>12, <1>13, <2>1
  <2> QED
    BY <2>2, <2>3, <2>4, ReportStays
<1>14. ReadUpTo(p.report, q)'
  <2>1. p.report \in 1..p.report
    BY <1>4, <1>5
  <2>2. /\ result[p.report].name = reports[written[p.report]].name
        /\ \A s \in D!Sections :
             /\ Len(result[p.report].items[s]) = ItemsRead(p.report, s, p)
             /\ \A j \in 1..ItemsRead(p.report, s, p) :
                  D!ReadAs(result[p.report].items[s][j], reports[written[p.report]].items[s][j])
    BY <1>3, <2>1 DEF ReadUpTo
  <2>3. ~(p.report < p.report) /\ ~(p.section < p.section)
    BY <1>5
  <2>4. ItemsRead(p.report, p.section, p) = p.item
    BY <2>3 DEF ItemsRead
  <2>5. ItemsRead(p.report, p.section, q)' = p.item + 1
    BY <1>5, <2>3 DEF ItemsRead
  <2>6. ASSUME NEW s \in D!Sections
        PROVE  /\ Len(result'[p.report].items[s]) = ItemsRead(p.report, s, q)'
               /\ \A j \in 1..ItemsRead(p.report, s, q)' :
                    D!ReadAs(result'[p.report].items[s][j],
                               reports'[written'[p.report]].items[s][j])
    <3>1. CASE s = p.section
      <4>1. Len(result[p.report].items[s]) = p.item
        BY <2>2, <2>4, <3>1
      <4>2. ASSUME NEW j \in 1..(p.item + 1)
            PROVE  D!ReadAs(result'[p.report].items[s][j], reports[written[p.report]].items[s][j])
        <5>1. CASE j \in 1..p.item
          <6>1. result'[p.report].items[s][j] = result[p.report].items[s][j]
            BY <1>12, <3>1, <4>1, <5>1
          <6>2. D!ReadAs(result[p.report].items[s][j], reports[written[p.report]].items[s][j])
            BY <2>2, <2>4, <3>1, <5>1
          <6> QED
            BY <6>1, <6>2
        <5>2. CASE j = p.item + 1
          <6>1. result'[p.report].items[s][j] = r /\ reports[written[p.report]].items[s][j] = e
            BY <1>7, <1>12, <3>1, <4>1, <5>2
          <6> QED
            BY <1>10, <6>1
        <5> QED
          BY <1>5, <5>1, <5>2
      <4> QED
        BY <1>1, <1>12, <2>5, <3>1, <4>1, <4>2
    <3>2. CASE s # p.section
      <4>1. result'[p.report].items[s] = result[p.report].items[s]
        BY <1>12, <3>2
      <4>2. ItemsRead(p.report, s, q)' = ItemsRead(p.report, s, p)
        BY <1>1, <1>5, <3>2 DEF ItemsRead
      <4> QED
        BY <1>1, <2>2, <4>1, <4>2
    <3> QED
      BY <3>1, <3>2
  <2>7. result'[p.report].name = reports'[written'[p.report]].name
    BY <1>1, <1>12, <2>2
  <2> QED
    BY <2>6, <2>7 DEF ReadUpTo
<1>15. ASSUME NEW n \in 1..q.report
       PROVE  ReadUpTo(n, q)'
  BY <1>5, <1>13, <1>14
<1>16. q = CursorAt' /\ cursor' \in 0..Len(text)
  BY <1>1, <1>3, CursorMoves
<1>17. section' \in 0..4 /\ section' = q.section /\ Len(result') = q.report
  BY <1>1, <1>3, <1>5, <1>12
<1> QED
  BY <1>1, <1>12, <1>15, <1>16, <1>17, ReaderMoves

(* An item that cannot be read is why the reading ends.                    *)
LEMMA PanicRead ==
  ASSUME TextInv, D!Panic
  PROVE  TextInv'
<1>1. /\ TextTypes /\ WrittenInv /\ OriginInv /\ turn = "read" /\ cursor < Len(text)
      /\ D!NextLine.line = "item" /\ ~D!Readable(D!NextLine) /\ cursor' = cursor + 1
      /\ unreadable' = TRUE /\ result' = <<>> /\ turn' = "done"
      /\ UNCHANGED <<reports, worker, spot, text, written, origin, section>>
  BY DEF TextInv, D!Panic, D!ReadsLine, D!writer
<1>2. D!NextLine.line # "empty"
  BY <1>1
<1>3. PICK p \in Places, q \in Places :
           /\ cursor + 1 \in 1..Len(origin) /\ origin[cursor + 1] = q
           /\ p.report \in 0..Len(written)
           /\ InReports(q) /\ Follows(p, q) /\ D!NextLine = LineAt(q)
           /\ p.report # 0 => InReports(p)
           /\ section = p.section /\ Len(result) = p.report
           /\ \A n \in 1..p.report : ReadUpTo(n, p)
  BY <1>1, <1>2, NextPlace
<1>4. /\ p.report # 0 /\ p.section # 0 /\ p.item < Len(D!ItemsAt(p))
      /\ q = D!Place(p.report, p.section, p.item + 1)
  BY <1>1, <1>3, NextKind
<1>5. /\ q.report = p.report /\ q.section = p.section /\ q.item = p.item + 1
      /\ p.report \in Nat /\ p.section \in D!Sections /\ p.item \in Nat
  BY <1>4 DEF D!Place, Places, D!Sections
<1>6. /\ p.report \in 1..Len(written) /\ written[p.report] \in 1..Len(reports)
      /\ Len(D!ItemsAt(p)) \in Nat
  BY <1>1, <1>3, <1>4, PlaceFacts
<1>7. PICK e : e = reports[written[p.report]].items[p.section][p.item + 1]
  OBVIOUS
<1>8. D!ItemsAt(p) = reports[written[p.report]].items[p.section]
  BY DEF D!ItemsAt
<1>9. p.item + 1 \in 1..Len(D!ItemsAt(p))
  BY <1>4, <1>5, <1>6
<1>10. /\ p.item + 1 \in DOMAIN reports[written[p.report]].items[p.section]
       /\ e \in D!ItemType
  <2>1. \A w \in 1..Len(reports) : \A s \in D!Sections :
          /\ DOMAIN reports[w].items[s] = 1..Len(reports[w].items[s])
          /\ \A j \in 1..Len(reports[w].items[s]) : reports[w].items[s][j] \in D!ItemType
    BY <1>1, ReportFacts
  <2> QED
    BY <1>5, <1>6, <1>7, <1>8, <1>9, <2>1
<1>11. D!NextLine = D!ItemLine(e)
  <2>1. q.section # 0 /\ q.item # 0
    BY <1>4, <1>5
  <2>2. D!NextLine = D!ItemLine(reports[written[q.report]].items[q.section][q.item])
    BY <1>3, <2>1 DEF LineAt, D!LineOf
  <2> QED
    BY <1>5, <1>7, <2>2
<1>12. ~(D!Clear(e) /\ D!Supported(e))
  BY <1>1, <1>10, <1>11, ItemReadBack
<1>13. p.report \in DOMAIN written
  BY <1>1, <1>6, ReportFacts
<1>14. Unclear'
  BY <1>1, <1>5, <1>7, <1>10, <1>12, <1>13 DEF Unclear
<1>15. TextTypes'
  <2>1. cursor' \in 0..Len(text') /\ unreadable' \in BOOLEAN /\ result' \in Seq(D!ReportType)
    BY <1>1, EmptySeq DEF TextTypes
  <2> QED
    BY <1>1, <2>1 DEF TextTypes
<1>16. WrittenInv'
  BY <1>1 DEF WrittenInv, D!Managed
<1>17. OriginInv'
  BY <1>1, TextStays
<1>18. ReadInv'
  BY <1>1, <1>14 DEF ReadInv
<1> QED
  BY <1>15, <1>16, <1>17, <1>18 DEF TextInv

(* After the empty line, and at the end, the reader is where the writer    *)
(* was.                                                                    *)
LEMMA ReaderBehind ==
  ASSUME TextInv, turn = "read", cursor >= Len(origin)
  PROVE  /\ CursorAt = spot
         /\ origin # <<>> => /\ section = spot.section /\ Len(result) = spot.report
                             /\ spot.report # 0
                             /\ \A n \in 1..spot.report : ReadUpTo(n, spot)
<1>1. /\ TextTypes /\ OriginInv /\ ReadInv /\ ~unreadable
      /\ Len(origin) \in Nat /\ cursor \in Nat /\ Len(text) \in Nat /\ spot = PlaceOf(Len(origin))
      /\ origin # <<>> => Len(origin) # 0
  BY ReportFacts DEF TextInv, ReadInv, OriginInv, TextTypes
<1>2. CursorAt = spot
  <2>1. CASE cursor = Len(origin)
    BY <1>1, <2>1 DEF CursorAt
  <2>2. CASE cursor # Len(origin)
    <3>1. ~(cursor <= Len(origin))
      BY <1>1, <2>2
    <3> QED
      BY <1>1, <3>1 DEF CursorAt
  <2> QED
    BY <2>1, <2>2
<1>3. origin # <<>> => spot.report # 0
  BY <1>1, SpotKnown
<1> QED
  BY <1>1, <1>2, <1>3 DEF ReadInv

LEMMA EmptyRead ==
  ASSUME TextInv, D!ReadEmpty
  PROVE  TextInv'
<1>0. PICK new : new = D!NewReport("", 0)
  OBVIOUS
<1>1. /\ TextTypes /\ WrittenInv /\ OriginInv /\ turn = "read" /\ cursor < Len(text)
      /\ D!NextLine.line = "empty" /\ cursor' = cursor + 1
      /\ result' = IF result = <<>> THEN <<new>> ELSE result
      /\ UNCHANGED <<reports, worker, spot, text, written, origin, section, unreadable, turn>>
  BY <1>0 DEF TextInv, D!ReadEmpty, D!ReadsLine, D!writer
<1>2. /\ Len(text) = Len(origin) + 1 /\ Len(origin) \in Nat /\ cursor \in Nat
      /\ D!NextLine = text[cursor + 1] /\ section \in 0..4
  BY <1>1, ReportFacts DEF OriginInv, TextTypes, D!NextLine
<1>3. cursor = Len(origin)
  <2> SUFFICES ASSUME cursor # Len(origin)
               PROVE  FALSE
    OBVIOUS
  <2>1. cursor + 1 \in 1..Len(origin)
    BY <1>1, <1>2
  <2>2. PICK q : q = origin[cursor + 1]
    OBVIOUS
  <2>3. q \in Places /\ InReports(q) /\ D!NextLine = LineAt(q)
    BY <1>1, <1>2, <2>1, <2>2, ReportFacts DEF OriginInv
  <2>4. LineAt(q).line # "empty"
    BY <1>1, <2>3, PlaceFacts
  <2> QED
    BY <1>1, <2>3, <2>4
<1>4. /\ CursorAt = spot
      /\ origin # <<>> => /\ section = spot.section /\ Len(result) = spot.report
                          /\ spot.report # 0
                          /\ \A n \in 1..spot.report : ReadUpTo(n, spot)
  <2>1. cursor >= Len(origin)
    BY <1>2, <1>3
  <2> QED
    BY <1>1, <2>1, ReaderBehind
<1>5. origin # <<>> => result # <<>> /\ result' = result
  BY <1>1, <1>4
<1>6. PICK q : q = spot
  OBVIOUS
<1>7. origin # <<>> => /\ section' = q.section /\ Len(result') = q.report
                       /\ \A n \in 1..q.report : ReadUpTo(n, q)'
  <2> SUFFICES ASSUME origin # <<>>
               PROVE  /\ section' = q.section /\ Len(result') = q.report
                      /\ \A n \in 1..q.report : ReadUpTo(n, q)'
    OBVIOUS
  <2>1. ASSUME NEW n \in 1..q.report
        PROVE  ReadUpTo(n, q)'
    <3>1. ReadUpTo(n, q)
      BY <1>4, <1>6, <2>1 DEF ReadUpTo, ItemsRead
    <3>2. \A s \in D!Sections : ItemsRead(n, s, q) = ItemsRead(n, s, q)
      OBVIOUS
    <3>3. UNCHANGED <<reports, written>> /\ result'[n] = result[n]
      BY <1>1, <1>5
    <3> QED
      BY <3>1, <3>2, <3>3, ReportStays
  <2> QED
    BY <1>1, <1>4, <1>5, <1>6, <2>1
<1>8. q = CursorAt' /\ cursor' \in 0..Len(text)
  <2>1. cursor' = Len(origin) + 1 /\ ~(cursor' <= Len(origin))
    BY <1>1, <1>2, <1>3
  <2>2. spot = PlaceOf(Len(origin))
    BY <1>1 DEF OriginInv
  <2>3. q = CursorAt'
    BY <1>1, <1>6, <2>1, <2>2 DEF CursorAt, PlaceOf
  <2> QED
    BY <1>2, <2>1, <2>3
<1>9. result' \in Seq(D!ReportType)
  <2>1. "" \in Names /\ 0 \in Nat
    BY DEF Names
  <2>2. new \in D!ReportType
    BY <1>0, <2>1, NewReportTyped
  <2>3. <<new>> \in Seq(D!ReportType)
    BY <2>2
  <2>4. result' = <<new>> \/ result' = result
    BY <1>1
  <2> QED
    BY <1>1, <2>3, <2>4 DEF TextTypes
<1>10. section' \in 0..4
  BY <1>1, <1>2
<1> QED
  BY <1>1, <1>7, <1>8, <1>9, <1>10, ReaderMoves

LEMMA EndRead ==
  ASSUME TextInv, D!ReadEnd
  PROVE  TextInv'
<1>1. /\ TextTypes /\ OriginInv /\ turn = "read" /\ cursor = Len(text) /\ turn' = "done"
      /\ UNCHANGED <<reports, worker, spot, text, written, origin, cursor, section, result, unreadable>>
  BY DEF TextInv, D!ReadEnd, D!writer, D!reader
<1>2. Len(text) = Len(origin) + 1 /\ Len(origin) \in Nat /\ cursor >= Len(origin)
  BY <1>1, ReportFacts DEF OriginInv, TextTypes
<1>3. /\ CursorAt = spot
      /\ origin # <<>> => /\ section = spot.section /\ Len(result) = spot.report
                          /\ \A n \in 1..spot.report : ReadUpTo(n, spot)
  BY <1>1, <1>2, ReaderBehind
<1>4. PICK q : q = spot
  OBVIOUS
<1>5. origin # <<>> => \A n \in 1..q.report : ReadUpTo(n, q)'
  <2> SUFFICES ASSUME origin # <<>>, NEW n \in 1..q.report
               PROVE  ReadUpTo(n, q)'
    OBVIOUS
  <2>1. ReadUpTo(n, q)
    BY <1>3, <1>4 DEF ReadUpTo, ItemsRead
  <2> QED
    BY <1>1, <2>1 DEF ReadUpTo, ItemsRead
<1>6. q = CursorAt'
  BY <1>1, <1>3, <1>4 DEF CursorAt, PlaceOf
<1>7. cursor' \in 0..Len(text) /\ result' \in Seq(D!ReportType) /\ section' \in 0..4
  BY <1>1 DEF TextTypes
<1> QED
  BY <1>1, <1>3, <1>4, <1>5, <1>6, <1>7, ReaderMoves

LEMMA TextNext ==
  ASSUME TextInv, [D!Next]_(D!vars)
  PROVE  TextInv'
<1>1. CASE D!Next
  BY <1>1, WorkerWritten, SectionWritten, ItemWritten, EndWritten, WorkerRead, SectionRead,
     ItemRead, PanicRead, EmptyRead, EndRead DEF D!Next
<1>2. CASE UNCHANGED D!vars
  <2>1. UNCHANGED <<reports, worker, spot, text, written, origin, cursor, section, result,
                    unreadable, turn>>
    BY <1>2 DEF D!vars, D!writer, D!reader
  <2>2. TextTypes' /\ WrittenInv'
    BY <2>1 DEF TextInv, TextTypes, WrittenInv, D!Managed
  <2>3. OriginInv'
    BY <2>1, TextStays DEF TextInv
  <2>4. ReadInv'
    <3>1. (Unclear <=> Unclear') /\ CursorAt = CursorAt'
      BY <2>1 DEF Unclear, CursorAt, PlaceOf
    <3>2. PICK q : q = CursorAt
      OBVIOUS
    <3>3. \A n : ReadUpTo(n, q)' = ReadUpTo(n, q)
      BY <2>1 DEF ReadUpTo, ItemsRead
    <3>4. \A n : ReadUpTo(n, CursorAt) => ReadUpTo(n, CursorAt)'
      BY <2>1, <3>1, <3>2, <3>3 DEF ReadUpTo, ItemsRead
    <3> QED
      BY <2>1, <3>1, <3>4 DEF TextInv, ReadInv
  <2> QED
    BY <2>2, <2>3, <2>4 DEF TextInv
<1> QED
  BY <1>1, <1>2

LEMMA TextInvariant == Programs => [](program = "text" => TextInv)
<1>1. ProgramsInit => (program = "text" => TextInv)
  BY TextInit DEF ProgramsInit
<1>2. ASSUME program = "text" => TextInv,
             [ProgramsNext]_<<program, vars, prune, tag, logs, daily>>
      PROVE  (program = "text" => TextInv)'
  <2>1. UNCHANGED program
    BY <1>2 DEF ProgramsNext
  <2>2. program = "text" => [D!Next]_(D!vars)
    BY <1>2 DEF ProgramsNext, daily, D!vars, D!writer, D!reader
  <2> QED
    BY <1>2, <2>1, <2>2, TextNext
<1> QED
  BY <1>1, <1>2, PTL DEF Programs

(* A text that was read to its end has every managed report in it, and     *)
(* every item of these was read.                                           *)
LEMMA AllRead ==
  ASSUME TextInv, turn = "done", ~unreadable, origin # <<>>
  PROVE  /\ Len(result) = Len(written)
         /\ \A n \in DOMAIN written : D!SameReport(result[n], reports[written[n]])
<1>1. /\ TextTypes /\ WrittenInv /\ OriginInv /\ ReadInv
      /\ Len(text) = Len(origin) + 1 /\ cursor = Len(text) /\ Len(origin) \in Nat
      /\ spot = PlaceOf(Len(origin)) /\ D!ReportDone(spot)
      /\ DOMAIN written = 1..Len(written) /\ Len(written) \in Nat
  BY ReportFacts DEF TextInv, OriginInv, ReadInv
<1>2. ~(cursor <= Len(origin))
  BY <1>1
<1>3. CursorAt = spot
  BY <1>1, <1>2 DEF CursorAt
<1>4. /\ spot.report = Len(written) /\ spot.report # 0 /\ Len(result) = spot.report
      /\ \A n \in 1..spot.report : ReadUpTo(n, spot)
  <2>1. spot.report = Len(written) /\ spot.report # 0
    BY <1>1, SpotKnown
  <2> QED
    BY <1>1, <1>3, <2>1 DEF ReadInv
<1>5. spot.section = 4 /\ spot.item = Len(D!ItemsAt(spot))
  BY <1>1, <1>4 DEF D!ReportDone
<1>6. ASSUME NEW n \in DOMAIN written
      PROVE  D!SameReport(result[n], reports[written[n]])
  <2>1. n \in 1..spot.report /\ n \in 1..Len(result) /\ (n < spot.report \/ n = spot.report)
    BY <1>1, <1>4
  <2>2. ASSUME NEW s \in D!Sections
        PROVE  ItemsRead(n, s, spot) = Len(reports[written[n]].items[s])
    <3>1. s < spot.section \/ s = spot.section
      BY <1>5 DEF D!Sections
    <3> QED
      BY <1>5, <2>1, <3>1 DEF ItemsRead, D!ItemsAt
  <2>3. ReadUpTo(n, spot)
    BY <1>4, <2>1
  <2>4. result[n] \in D!ReportType
    BY <1>1, <2>1 DEF TextTypes
  <2>5. \A s \in D!Sections : DOMAIN result[n].items[s] = 1..Len(result[n].items[s])
    <3>1. result[n].items \in [D!Sections -> Seq(D!ItemType)]
      BY <2>4, ReportParts
    <3>2. \A s \in D!Sections : result[n].items[s] \in Seq(D!ItemType)
      BY <3>1
    <3> QED
      BY <3>2
  <2> QED
    BY <2>2, <2>3, <2>5 DEF ReadUpTo, D!SameReport
<1> QED
  BY <1>1, <1>4, <1>6

(* What WriteDailyToHRFile wrote of the reports of the workers, whatever   *)
(* they are, ReadDailyFromHRFile reads again: every worker that is managed *)
(* in their order, with as many items under each status, each of them the  *)
(* work item that was written, with the hours and the comment if it was    *)
(* clear.  An item without anything in the place of another, when the      *)
(* error could not be logged, and a text that is not read at all, have an  *)
(* item that is not clear or not supported behind them.                    *)
THEOREM ReportsReadBack == Programs => []ReadsBack
<1>1. ASSUME TextInv, turn = "done", D!ManagedReports # {}
      PROVE  IF unreadable
             THEN \E w \in D!ManagedReports : \E s \in D!Sections : \E j \in DOMAIN reports[w].items[s] :
                    ~(D!Clear(reports[w].items[s][j]) /\ D!Supported(reports[w].items[s][j]))
             ELSE /\ Len(result) = Len(written)
                  /\ {written[n] : n \in DOMAIN written} = D!ManagedReports
                  /\ \A m, n \in DOMAIN written : m < n => written[m] < written[n]
                  /\ \A n \in DOMAIN written : D!SameReport(result[n], reports[written[n]])
  <2>1. /\ TextTypes /\ WrittenInv /\ ReadInv /\ worker = Len(reports)
        /\ DOMAIN reports = 1..Len(reports)
    BY <1>1, ReportFacts DEF TextInv, WrittenInv
  <2>2. \A n \in DOMAIN written : written[n] \in D!ManagedReports
    BY <2>1 DEF WrittenInv, D!ManagedReports
  <2>3. \A w \in D!ManagedReports : \E n \in DOMAIN written : written[n] = w
    BY <2>1 DEF WrittenInv, D!ManagedReports
  <2>4. CASE unreadable
    BY <2>1, <2>2, <2>4 DEF ReadInv, Unclear
  <2>5. CASE ~unreadable
    <3>1. origin # <<>>
      <4>1. Len(written) # 0
        BY <1>1, <2>1, <2>3, ReportFacts
      <4>2. Len(origin) # 0
        BY <1>1, <4>1, SpotKnown DEF D!Nowhere, D!Place
      <4> QED
        BY <4>2
    <3>2. /\ Len(result) = Len(written)
          /\ \A n \in DOMAIN written : D!SameReport(result[n], reports[written[n]])
      BY <1>1, <2>5, <3>1, AllRead
    <3>3. {written[n] : n \in DOMAIN written} = D!ManagedReports
      BY <2>2, <2>3
    <3>4. \A m, n \in DOMAIN written : m < n => written[m] < written[n]
      BY <2>1 DEF WrittenInv
    <3> QED
      BY <2>5, <3>2, <3>3, <3>4
  <2> QED
    BY <2>4, <2>5
<1>2. (program = "text" => TextInv) => ReadsBack
  BY <1>1 DEF ReadsBack, D!ReadsBack
<1> QED
  BY <1>2, TextInvariant, PTL
=============================================================================
