------------------------------ MODULE PrunePods ------------------------------
(***************************************************************************)
(* The jobs of src/kub_api/kub_api.go: CreateJob, CreatePod, DeleteJob and *)
(* PrunePods, which lists the pods of a job, then watches them and deletes *)
(* each one that finishes, until it has counted as many deletions as pods. *)
(*                                                                         *)
(* The cluster is external: a pod deleted in the foreground stays, marked, *)
(* until it is collected; the pods of a deleted job are collected too.  A  *)
(* watch without a resource version first reports the existing pods.       *)
(***************************************************************************)
EXTENDS Integers, Sequences, FiniteSets, SequencesExt

CONSTANTS
  Name,    \* names of pods: CreatePod makes them of the job's and an ordinal
  MaxUid,  \* bound: pods created
  NoPod

VARIABLES
  job,         \* "none", "present" or "deleted"
  making,      \* the name CreatePod is at, the job read and the pod not created
  pod,         \* name -> [uid, finished, deleting], or NoPod
  uids,        \* pods created so far
  watch,       \* the state of the watch: "none", "open" or "closed"
  queue,       \* its events that PrunePods has not received
  pruner,      \* where PrunePods is, or how it ended
  listed,      \* the pods of its list, which podCount counts
  podsDeleted,
  event,       \* the pod of the event PrunePods is handling
  deletions    \* history: the pod of the event and the pod that was deleted

cluster == <<job, making, pod, uids>>
channel == <<watch, queue>>
pruning == <<listed, podsDeleted, event, deletions>>
vars == <<cluster, channel, pruner, pruning>>

Existing == {n \in Name : pod[n] # NoPod}
podCount == Cardinality(listed)

Init ==
  /\ job = "none" /\ making = NoPod
  /\ pod = [n \in Name |-> NoPod] /\ uids = 0
  /\ watch = "none" /\ queue = <<>>
  /\ pruner = "list" /\ listed = {} /\ podsDeleted = 0 /\ event = NoPod
  /\ deletions = {}

(* An event is a pod as it was then.  An object that is not a pod (the     *)
(* status of a failed watch) is NoPod.                                     *)
EventOf(n, p) == [name |-> n, uid |-> p.uid, finished |-> p.finished]

Report(e) == queue' = IF watch = "open" THEN Append(queue, e) ELSE queue

Change(n, p) ==
  /\ pod' = [pod EXCEPT ![n] = p]
  /\ Report(EventOf(n, p))

-----------------------------------------------------------------------------
CreateJob ==
  /\ job = "none"
  /\ job' = "present"
  /\ UNCHANGED <<making, pod, uids, channel, pruner, pruning>>

DeleteJob ==
  /\ job = "present"
  /\ job' = "deleted"
  /\ UNCHANGED <<making, pod, uids, channel, pruner, pruning>>

(* CreatePod reads the job ...                                             *)
GetJob(n) ==
  /\ making = NoPod /\ job = "present"
  /\ making' = n
  /\ UNCHANGED <<job, pod, uids, channel, pruner, pruning>>

(* ... and creates the pod.  It may exist already, or the request fails.   *)
CreatePod ==
  /\ making # NoPod
  /\ making' = NoPod
  /\ \/ /\ pod[making] = NoPod /\ uids < MaxUid
        /\ uids' = uids + 1
        /\ Change(making, [uid |-> uids', finished |-> FALSE, deleting |-> FALSE])
     \/ UNCHANGED <<pod, uids, queue>>
  /\ UNCHANGED <<job, watch, pruner, pruning>>

-----------------------------------------------------------------------------
Finish(n) ==
  /\ pod[n] # NoPod /\ ~pod[n].finished
  /\ Change(n, [pod[n] EXCEPT !.finished = TRUE])
  /\ UNCHANGED <<job, making, uids, watch, pruner, pruning>>

Collect(n) ==
  /\ pod[n] # NoPod
  /\ pod[n].deleting \/ job = "deleted"
  /\ pod' = [pod EXCEPT ![n] = NoPod]
  /\ Report(EventOf(n, pod[n]))
  /\ UNCHANGED <<job, making, uids, watch, pruner, pruning>>

(* The server ends a watch after some time, or because of an error.        *)
CloseWatch ==
  /\ watch = "open"
  /\ watch' = "closed"
  /\ \E end \in {<<>>, <<NoPod>>} : queue' = queue \o end
  /\ UNCHANGED <<cluster, pruner, pruning>>

-----------------------------------------------------------------------------
List ==
  /\ pruner = "list"
  /\ \/ pruner' = "watch" /\ listed' = {pod[n].uid : n \in Existing}
     \/ pruner' = "failed" /\ UNCHANGED listed
  /\ UNCHANGED <<cluster, channel, podsDeleted, event, deletions>>

Watch ==
  /\ pruner = "watch"
  /\ \/ /\ pruner' = "loop" /\ watch' = "open"
        /\ queue' = SetToSeq({EventOf(n, pod[n]) : n \in Existing})
     \/ pruner' = "failed" /\ UNCHANGED channel
  /\ UNCHANGED <<cluster, pruning>>

(* The test at the end of the loop's body.                                 *)
Counted(deleted) == pruner' = IF deleted >= podCount THEN "all" ELSE "loop"

(* Mutation: every event of a pod leads to its deletion.                   *)
ReceiveAny ==
  /\ pruner = "loop" /\ queue # <<>>
  /\ queue' = Tail(queue)
  /\ event' = Head(queue)
  /\ IF event' = NoPod THEN pruner' = "loop" ELSE pruner' = "delete"
  /\ UNCHANGED <<cluster, watch, listed, podsDeleted, deletions>>

Receive ==
  /\ pruner = "loop" /\ queue # <<>>
  /\ queue' = Tail(queue)
  /\ event' = Head(queue)
  /\ CASE event' = NoPod -> pruner' = "loop"
       [] event' # NoPod /\ event'.finished -> pruner' = "delete"
       [] OTHER -> Counted(podsDeleted)
  /\ UNCHANGED <<cluster, watch, listed, podsDeleted, deletions>>

(* The pod is deleted by its name.  One that is being deleted already is   *)
(* deleted once more.                                                      *)
Deleted(n) ==
  /\ pod[n] # NoPod
  /\ IF pod[n].deleting THEN UNCHANGED <<pod, queue>>
     ELSE Change(n, [pod[n] EXCEPT !.deleting = TRUE])
  /\ deletions' = deletions \union
       {[seen |-> event.uid, uid |-> pod[n].uid, finished |-> pod[n].finished]}

(* An error, when there is no such pod or the request or its answer is     *)
(* lost, is not counted and not repeated.                                  *)
Delete ==
  /\ pruner = "delete"
  /\ \/ Deleted(event.name) /\ podsDeleted' = podsDeleted + 1
     \/ Deleted(event.name) /\ UNCHANGED podsDeleted
     \/ UNCHANGED <<pod, queue, deletions, podsDeleted>>
  /\ Counted(podsDeleted')
  /\ UNCHANGED <<job, making, uids, watch, listed, event>>

WatchEnded ==
  /\ pruner = "loop" /\ watch = "closed" /\ queue = <<>>
  /\ pruner' = "closed"
  /\ UNCHANGED <<cluster, channel, pruning>>

PrunePodsStep == List \/ Watch \/ Receive \/ Delete \/ WatchEnded

Next ==
  \/ CreateJob \/ DeleteJob \/ CreatePod \/ CloseWatch \/ PrunePodsStep
  \/ \E n \in Name : GetJob(n) \/ Finish(n) \/ Collect(n)

Spec == Init /\ [][Next]_vars

-----------------------------------------------------------------------------
(* A running pod is deleted only when it took the name of a finished one   *)
(* between that one's event and the deletion: deletions go by name, and    *)
(* the pods of a job are created again under the names they had.           *)
RunningSpared ==
  \A d \in deletions : d.finished \/ d.uid > d.seen

(* "All pods have been deleted.": when PrunePods says so, and no pod was    *)
(* created after it made its list, none of the pods of the list is still   *)
(* there without having been deleted.                                      *)
AllDeleted ==
  pruner = "all" /\ listed = 1..uids =>
    \A n \in Existing : pod[n].uid \in listed => pod[n].deleting
=============================================================================
