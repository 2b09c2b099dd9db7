----------------------------- MODULE TaskForest -----------------------------
(***************************************************************************)
(* What an AsyncOrchestrator promises to the program that owns it          *)
(* (src/aws_api/cleaner/cleaner.go): tasks form a forest that grows while  *)
(* it is being executed.  The owner plants the roots and then waits; only  *)
(* a task that is running may plant more.  Every task runs at most once    *)
(* and the wait ends only when no task is left.                            *)
(***************************************************************************)
CONSTANT Task

VARIABLES
  stage,    \* [Task -> Stage]: how far each task is
  closed,   \* the owner called Wait: it plants no more roots
  joined    \* Wait returned

vars == <<stage, closed, joined>>

Stage == {"unborn", "queued", "running", "done"}

TypeOK ==
  /\ stage \in [Task -> Stage]
  /\ closed \in BOOLEAN
  /\ joined \in BOOLEAN

AtStage(s) == {t \in Task : stage[t] = s}

Init ==
  /\ stage = [t \in Task |-> "unborn"]
  /\ closed = FALSE
  /\ joined = FALSE

Move(t, from, to) ==
  /\ stage[t] = from
  /\ stage' = [stage EXCEPT ![t] = to]
  /\ UNCHANGED <<closed, joined>>

(* AddTask, called by the owner before Wait or from inside a running task. *)
Plant(t) ==
  /\ ~closed \/ AtStage("running") # {}
  /\ Move(t, "unborn", "queued")

(* A worker takes the task; its Work function returns. *)
Start(t) == Move(t, "queued", "running")
Complete(t) == Move(t, "running", "done")

Close ==
  /\ ~closed
  /\ closed' = TRUE
  /\ UNCHANGED <<stage, joined>>

(* Wait returns: everything that was planted is done. *)
Join ==
  /\ closed
  /\ ~joined
  /\ AtStage("queued") \cup AtStage("running") = {}
  /\ joined' = TRUE
  /\ UNCHANGED <<stage, closed>>

Next ==
  \/ \E t \in Task : Plant(t) \/ Start(t) \/ Complete(t)
  \/ Close
  \/ Join

Spec == Init /\ [][Next]_vars

-----------------------------------------------------------------------------
(* A join is final: when Wait has returned nothing is queued or running,   *)
(* and no later step gives the forest another task or changes one.         *)
JoinIsFinal ==
  [][joined => UNCHANGED stage]_vars

JoinedInv ==
  joined => /\ closed
            /\ AtStage("queued") \cup AtStage("running") = {}

=============================================================================
