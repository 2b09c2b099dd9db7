----------------------------- MODULE AsyncList ------------------------------
(***************************************************************************)
(* AsyncList of src/list/list_async.go: a singly linked list that grows at *)
(* its end.  Insert launches one goroutine InsertSingle per item and waits *)
(* for all of them; the goroutines walk the list without a lock and share  *)
(* one mutex, made by the Insert call, to link a node at the end.  The     *)
(* owner of the list calls Insert one batch after the other, and Len after *)
(* each, as testListAsync of src/cmd/trees/main.go does.                   *)
(*                                                                         *)
(* Next is read outside the mutex while it may be written under it: such a *)
(* read returns the old nil or the new node.                               *)
(***************************************************************************)
EXTENDS Naturals, Sequences, FiniteSets

CONSTANTS
  Item,     \* the items, one goroutine and one node each
  Call,     \* the number of Insert calls
  CallOf,   \* the call that inserts each item
  Root,     \* the node the list was created with
  Nil       \* no node, no goroutine

ASSUME ItemAssumption ==
  /\ IsFiniteSet(Item)
  /\ Call \in Nat
  /\ CallOf \in [Item -> 1..Call]
  /\ Root \notin Item
  /\ Nil \notin Item \cup {Root}

Node == Item \cup {Root}

VARIABLES
  next,      \* the field Next of every node
  pc,        \* where each InsertSingle goroutine is
  at,        \* its receiver l
  mutex,     \* the holder of the running call's InsertLock
  wg,        \* the running call's WaitGroup counter
  call,      \* the number of the running call
  main,      \* what the owner is doing: launch, wait, len, end
  cursor,    \* Len: its receiver l
  count,     \* Len: its counter
  order      \* the items in the order they were linked (history)

vars == <<next, pc, at, mutex, wg, call, main, cursor, count, order>>

goVars == <<pc, at>>
mainVars == <<call, main, cursor, count>>

InsertPC == {"unborn", "check", "lock", "recheck", "link", "unlock", "defer",
             "done"}

Batch(c) == {d \in Item : CallOf[d] = c}

Init ==
  /\ next = [n \in Node |-> Nil]
  /\ pc = [d \in Item |-> "unborn"]
  /\ at = [d \in Item |-> Root]
  /\ mutex = Nil
  /\ wg = 0
  /\ call = 1
  /\ main = IF Call = 0 THEN "end" ELSE "launch"
  /\ cursor = Root
  /\ count = 0
  /\ order = <<>>

-----------------------------------------------------------------------------
(* Insert(dataList) and Len(), called by the owner of the list.            *)

(* Mutation: wg.Add(1) is forgotten.                                       *)
LaunchUncounted(d) ==
  /\ main = "launch"
  /\ CallOf[d] = call
  /\ pc[d] = "unborn"
  /\ pc' = [pc EXCEPT ![d] = "check"]
  /\ UNCHANGED <<next, at, mutex, wg, mainVars, order>>

(* wg.Add(1) before the goroutine is launched.                             *)
Launch(d) ==
  /\ main = "launch"
  /\ CallOf[d] = call
  /\ pc[d] = "unborn"
  /\ wg' = wg + 1
  /\ pc' = [pc EXCEPT ![d] = "check"]
  /\ UNCHANGED <<next, at, mutex, mainVars, order>>

LaunchedAll ==
  /\ main = "launch"
  /\ \A d \in Batch(call) : pc[d] # "unborn"
  /\ main' = "wait"
  /\ UNCHANGED <<next, goVars, mutex, wg, call, cursor, count, order>>

(* Mutation: the loop launches the goroutines and nobody waits for them.   *)
ReturnAtOnce ==
  /\ main = "wait"
  /\ main' = "len"
  /\ cursor' = Root
  /\ count' = 0
  /\ UNCHANGED <<next, goVars, mutex, wg, call, order>>

(* wg.Wait() returns, and Insert with it.                                  *)
Return ==
  /\ main = "wait"
  /\ wg = 0
  /\ main' = "len"
  /\ cursor' = Root
  /\ count' = 0
  /\ UNCHANGED <<next, goVars, mutex, wg, call, order>>

LenStep ==
  /\ main = "len"
  /\ next[cursor] # Nil
  /\ cursor' = next[cursor]
  /\ count' = count + 1
  /\ UNCHANGED <<next, goVars, mutex, wg, call, main, order>>

(* Len has returned count; the owner goes on with its next batch.          *)
LenDone ==
  /\ main = "len"
  /\ next[cursor] = Nil
  /\ call' = call + 1
  /\ main' = IF call = Call THEN "end" ELSE "launch"
  /\ UNCHANGED <<next, goVars, mutex, wg, cursor, count, order>>

-----------------------------------------------------------------------------
(* InsertSingle(data, locker, wg), a goroutine per item.  Its recursive    *)
(* call on l.Next is a step of at[d] to the next node.                     *)

Goto(d, from, to) ==
  /\ pc[d] = from
  /\ pc' = [pc EXCEPT ![d] = to]

(* Mutation: defer wg.Done() stands before the recursive call.             *)
CheckNextDone(d) ==
  /\ next[at[d]] # Nil
  /\ Goto(d, "check", "check")
  /\ at' = [at EXCEPT ![d] = next[at[d]]]
  /\ wg' = wg - 1
  /\ UNCHANGED <<next, mutex, mainVars, order>>

(* if l.Next != nil, read without the lock *)
CheckNext(d) ==
  /\ next[at[d]] # Nil
  /\ Goto(d, "check", "check")
  /\ at' = [at EXCEPT ![d] = next[at[d]]]
  /\ UNCHANGED <<next, mutex, wg, mainVars, order>>

(* the same read returns nil, which may be the old value *)
CheckNil(d) ==
  /\ Goto(d, "check", "lock")
  /\ UNCHANGED <<next, at, mutex, wg, mainVars, order>>

(* Mutation: InsertSingle does not take the lock.                          *)
LockFree(d) ==
  /\ Goto(d, "lock", "recheck")
  /\ mutex' = d
  /\ UNCHANGED <<next, at, wg, mainVars, order>>

Lock(d) ==
  /\ mutex = Nil
  /\ Goto(d, "lock", "recheck")
  /\ mutex' = d
  /\ UNCHANGED <<next, at, wg, mainVars, order>>

(* Mutation: the lock is kept while the list is walked on.                 *)
RecheckKeeps(d) ==
  /\ pc[d] = "recheck"
  /\ IF next[at[d]] # Nil
     THEN /\ pc' = [pc EXCEPT ![d] = "check"]
          /\ at' = [at EXCEPT ![d] = next[at[d]]]
     ELSE /\ pc' = [pc EXCEPT ![d] = "link"]
          /\ UNCHANGED at
  /\ UNCHANGED <<next, mutex, wg, mainVars, order>>

(* Mutation: l.Next is not read again under the lock.                      *)
RecheckNot(d) ==
  /\ Goto(d, "recheck", "link")
  /\ UNCHANGED <<next, at, mutex, wg, mainVars, order>>

(* the second if l.Next != nil, under the lock *)
Recheck(d) ==
  /\ pc[d] = "recheck"
  /\ IF next[at[d]] # Nil
     THEN /\ mutex' = Nil
          /\ pc' = [pc EXCEPT ![d] = "check"]
          /\ at' = [at EXCEPT ![d] = next[at[d]]]
     ELSE /\ pc' = [pc EXCEPT ![d] = "link"]
          /\ UNCHANGED <<at, mutex>>
  /\ UNCHANGED <<next, wg, mainVars, order>>

(* newLink := AsyncList{Data: data}; l.Next = &newLink *)
Link(d) ==
  /\ Goto(d, "link", "unlock")
  /\ next' = [next EXCEPT ![at[d]] = d]
  /\ order' = Append(order, d)
  /\ UNCHANGED <<at, mutex, wg, mainVars>>

Unlock(d) ==
  /\ Goto(d, "unlock", "defer")
  /\ mutex' = Nil
  /\ UNCHANGED <<next, at, wg, mainVars, order>>

(* the deferred wg.Done() *)
Done(d) ==
  /\ Goto(d, "defer", "done")
  /\ wg' = wg - 1
  /\ UNCHANGED <<next, at, mutex, mainVars, order>>

-----------------------------------------------------------------------------
MainStep ==
  \/ \E d \in Item : Launch(d)
  \/ LaunchedAll
  \/ Return
  \/ LenStep
  \/ LenDone

InsertSingle(d) ==
  \/ CheckNext(d)
  \/ CheckNil(d)
  \/ Lock(d)
  \/ Recheck(d)
  \/ Link(d)
  \/ Unlock(d)
  \/ Done(d)

(* The program has nothing left to do: the owner and every goroutine ended. *)
Ended == main = "end" /\ UNCHANGED vars

Next == MainStep \/ (\E d \in Item : InsertSingle(d)) \/ Ended

(* A runnable goroutine runs (WF); sync.Mutex hands itself to a waiter     *)
(* that has been passed over for too long (SF).                            *)
Fairness ==
  /\ WF_vars(MainStep)
  /\ \A d \in Item : WF_vars(InsertSingle(d)) /\ SF_vars(Lock(d))

Spec == Init /\ [][Next]_vars

FairSpec == Spec /\ Fairness

-----------------------------------------------------------------------------
(* Type invariant of the list and its goroutines.                          *)
TypeOK ==
  /\ next \in [Node -> Item \cup {Nil}]
  /\ pc \in [Item -> InsertPC]
  /\ at \in [Item -> Node]
  /\ mutex \in Item \cup {Nil}
  /\ wg \in Nat
  /\ call \in 1..(Call + 1)
  /\ main \in {"launch", "wait", "len", "end"}
  /\ cursor \in Node
  /\ count \in Nat
  /\ order \in Seq(Item)

Linked == {order[k] : k \in DOMAIN order}

(* The pointers form one chain from Root through the items in the order    *)
(* they were linked: no node is dropped, shared or linked in a cycle by    *)
(* goroutines that raced for the same end of the list.                     *)
NodeAt(k) == IF k = 0 THEN Root ELSE order[k]

ChainIntact ==
  /\ \A k, l \in DOMAIN order : order[k] = order[l] => k = l
  /\ \A k \in 0..Len(order) :
       next[NodeAt(k)] = IF k = Len(order) THEN Nil ELSE order[k + 1]

(* When Insert returns, exactly the items of the calls so far are in the   *)
(* list, and no goroutine of the call is left.                             *)
ReturnComplete ==
  main \in {"len", "end"} =>
    /\ Linked = {d \in Item : CallOf[d] <= call}
    /\ \A d \in Linked : pc[d] = "done"

(* Len, called when Insert has returned, counts every inserted item once.  *)
LenExact ==
  main = "len" /\ next[cursor] = Nil =>
    count = Cardinality({d \in Item : CallOf[d] <= call})

(* A link is never overwritten: the list only grows at its end.            *)
LinksAreFinal ==
  [][\A n \in Node : next[n] # Nil => next'[n] = next[n]]_next

(* Every Insert call returns, so the owner gets through all its batches.   *)
InsertReturns == <>(main = "end")

(* The list implements the append-only log of AppendLog.                   *)
Log == INSTANCE AppendLog
         WITH log <- order,
              returned <- IF main = "len" THEN call ELSE call - 1

ImplementsLog == Log!Spec

=============================================================================
