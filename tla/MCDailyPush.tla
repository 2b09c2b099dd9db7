----------------------------- MODULE MCDailyPush -----------------------------
(* A task, a new one and the story they belong to.                         *)
EXTENDS DailyPush, TLC

CONSTANTS t1, s1

MCStoryOf == t1 :> s1 @@ NewTask :> s1
=============================================================================
