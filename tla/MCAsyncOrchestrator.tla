------------------------ MODULE MCAsyncOrchestrator -------------------------
(* Instances of AsyncOrchestrator for TLC.  There is no symmetry set: both *)
(* runs check liveness, and FreshTask chooses among the tasks.             *)
EXTENDS AsyncOrchestrator

(* FairCancelSpec with a bound: the owner adds the first task, as          *)
(* CleanLogGroupsExpired does, and the tasks that run add the others.      *)
OneRoot == pc'[Owner] = "addLock" => pc[Owner] = "addLock" \/ created = {}

RootNext ==
  \/ New
  \/ \E p \in Adders : AddStep(p) /\ OneRoot
  \/ WaitStep
  \/ StarterStep
  \/ \E w \in Workers : WorkerStep(w)
  \/ Cancel

RootSpec == Init /\ [][RootNext]_vars /\ Fairness /\ CancelFairness

=============================================================================
