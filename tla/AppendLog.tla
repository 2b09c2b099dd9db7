----------------------------- MODULE AppendLog ------------------------------
(***************************************************************************)
(* What an AsyncList promises (src/list/list_async.go): the inserts of one *)
(* call happen in some order, each exactly once, at the end of the list,   *)
(* and before the call returns.                                            *)
(***************************************************************************)
EXTENDS Naturals, Sequences

CONSTANTS
  Item,     \* everything that is ever inserted
  Call,     \* the calls of Insert are 1..Call, one after the other
  CallOf    \* [Item -> 1..Call]

VARIABLES
  log,      \* the contents of the list, first to last
  returned  \* how many calls have returned

vars == <<log, returned>>

Logged == {log[k] : k \in DOMAIN log}

Init == log = <<>> /\ returned = 0

Add(d) ==
  /\ CallOf[d] = returned + 1
  /\ d \notin Logged
  /\ log' = Append(log, d)
  /\ UNCHANGED returned

Return ==
  /\ returned < Call
  /\ \A d \in Item : CallOf[d] = returned + 1 => d \in Logged
  /\ returned' = returned + 1
  /\ UNCHANGED log

Next == Return \/ \E d \in Item : Add(d)

Spec == Init /\ [][Next]_vars

=============================================================================
