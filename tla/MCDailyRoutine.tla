--------------------------- MODULE MCDailyRoutine ---------------------------
(* Two work items that are new or active, and up to two crashes.           *)
EXTENDS DailyRoutine

=============================================================================
