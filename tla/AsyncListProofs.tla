-------------------------- MODULE AsyncListProofs ---------------------------
(***************************************************************************)
(* Proofs about AsyncList, for any number of Insert calls with any finite  *)
(* batches of items.                                                       *)
(***************************************************************************)
EXTENDS AsyncList, FiniteSetTheorems, TLAPS

(* The mutex is held by the goroutine between Lock and Unlock.             *)
Mutex == \A d \in Item : pc[d] \in {"recheck", "link", "unlock"} <=> mutex = d

(* A goroutine stands on a node of the list, and links only at the end.    *)
Standing ==
  \A d \in Item : /\ at[d] \in Linked \cup {Root}
                  /\ pc[d] = "link" => next[at[d]] = Nil

(* An item is linked once its goroutine has passed Link; a node that is    *)
(* not linked yet points nowhere.                                          *)
Passed ==
  \A d \in Item : /\ d \in Linked <=> pc[d] \in {"unlock", "defer", "done"}
                  /\ d \notin Linked => next[d] = Nil

(* The goroutines that are launched and have not called wg.Done.           *)
Live == {d \in Item : pc[d] \notin {"unborn", "done"}}

Counted == wg = Cardinality(Live)

(* Batches before the running call are done, those after it not launched.  *)
InCalls ==
  /\ call \in 1..Call \/ (main = "end" /\ call = Call + 1)
  /\ main = "end" => call = Call + 1
  /\ \A d \in Item : /\ CallOf[d] < call => pc[d] = "done"
                     /\ CallOf[d] > call => pc[d] = "unborn"
  /\ main = "wait" => \A d \in Batch(call) : pc[d] # "unborn"
  /\ main = "len" => \A d \in Batch(call) : pc[d] = "done"

(* Len has walked count nodes from the root.                               *)
Walked == main = "len" => count \in 0..Len(order) /\ cursor = NodeAt(count)

Inv ==
  /\ TypeOK
  /\ ChainIntact
  /\ Mutex
  /\ Standing
  /\ Passed
  /\ Counted
  /\ InCalls
  /\ Walked

-----------------------------------------------------------------------------
(* Facts about the set of counted goroutines and about the chain.          *)

LEMMA LiveFinite == ASSUME TypeOK PROVE IsFiniteSet(Live)
BY ItemAssumption, FS_Subset DEF Live

(* A step of a goroutine that stays live keeps the counter right.          *)
LEMMA CountedStable ==
  ASSUME Inv, wg' = wg, 
         \A d \in Item : pc'[d] \in {"unborn", "done"} <=> pc[d] \in {"unborn", "done"}
  PROVE  Counted'
<1>1. Live' = Live
  BY DEF Live
<1> QED
  BY <1>1 DEF Inv, Counted

(* Every node of the list but the last points to an item.                  *)
LEMMA ChainNodes ==
  ASSUME Inv
  PROVE  /\ Len(order) \in Nat
         /\ \A k \in 0..Len(order) : NodeAt(k) \in Node
         /\ \A n \in Linked \cup {Root} :
              \E k \in 0..Len(order) : n = NodeAt(k)
         /\ \A n \in Linked \cup {Root} :
              next[n] # Nil => next[n] \in Linked
         /\ \A n \in Linked \cup {Root} :
              next[n] = Nil => n = NodeAt(Len(order))
<1>1. Len(order) \in Nat /\ DOMAIN order = 1..Len(order)
  BY DEF Inv, TypeOK
<1>2. \A k \in 1..Len(order) : order[k] \in Item
  BY <1>1 DEF Inv, TypeOK
<1>3. \A k \in 0..Len(order) : NodeAt(k) \in Node
  BY <1>1, <1>2 DEF NodeAt, Node
<1>4. \A n \in Linked \cup {Root} : \E k \in 0..Len(order) : n = NodeAt(k)
  <2>1. Root = NodeAt(0) /\ 0 \in 0..Len(order)
    BY <1>1 DEF NodeAt
  <2>2. \A k \in 1..Len(order) : k \in 0..Len(order) /\ order[k] = NodeAt(k)
    BY <1>1 DEF NodeAt
  <2> QED
    BY <1>1, <2>1, <2>2 DEF Linked
<1>5. ASSUME NEW n \in Linked \cup {Root}
      PROVE  /\ next[n] # Nil => next[n] \in Linked
             /\ next[n] = Nil => n = NodeAt(Len(order))
  <2>1. PICK k \in 0..Len(order) : n = NodeAt(k)
    BY <1>4
  <2>2. next[n] = IF k = Len(order) THEN Nil ELSE order[k + 1]
    BY <2>1 DEF Inv, ChainIntact
  <2>3. k # Len(order) => k + 1 \in DOMAIN order
    <3>1. \A m \in Nat : \A j \in 0..m : j # m => j + 1 \in 1..m
      OBVIOUS
    <3> QED
      BY <1>1, <3>1
  <2>4. k # Len(order) => order[k + 1] \in Linked /\ order[k + 1] # Nil
    BY <1>1, <1>2, <2>3, ItemAssumption DEF Linked
  <2> QED
    BY <2>1, <2>2, <2>4
<1> QED
  BY <1>1, <1>3, <1>4, <1>5

(* The positions of a list that grows from n to n + 1 nodes.               *)
LEMMA Positions ==
  ASSUME NEW n \in Nat, NEW k \in 0..(n + 1)
  PROVE  /\ k = n + 1 \/ k = n \/ k \in 0..(n - 1)
         /\ n # n + 1
         /\ k \in 0..(n - 1) => /\ k \in 0..n /\ k # n /\ k # n + 1
                               /\ k + 1 \in 1..n
OBVIOUS

LEMMA CallNumbers ==
  ASSUME Inv
  PROVE  call \in Int /\ \A d \in Item : CallOf[d] \in Int
BY ItemAssumption DEF Inv, TypeOK

LEMMA InitInv == Init => Inv
<1> SUFFICES ASSUME Init PROVE Inv
  OBVIOUS
<1> USE ItemAssumption DEF Init
<1>1. order \in Seq(Item) /\ DOMAIN order = {} /\ Len(order) = 0
  OBVIOUS
<1>2. Linked = {}
  BY <1>1 DEF Linked
<1>3. Live = {}
  BY DEF Live
<1>4. TypeOK
  BY <1>1 DEF TypeOK, InsertPC, Node
<1>5. ChainIntact
  BY <1>1 DEF ChainIntact, NodeAt, Node
<1>6. Mutex /\ Standing /\ Passed
  BY <1>2 DEF Mutex, Standing, Passed, Node
<1>7. Counted
  BY <1>3, FS_EmptySet DEF Counted
<1>8. InCalls /\ Walked
  BY DEF InCalls, Walked, Batch
<1> QED
  BY <1>4, <1>5, <1>6, <1>7, <1>8 DEF Inv

-----------------------------------------------------------------------------
(* One lemma per action, one step per conjunct of the invariant.           *)

(* A goroutine is launched on the root node.                               *)
LEMMA LaunchStep ==
  ASSUME Inv, NEW d \in Item, Launch(d)
  PROVE  Inv'
<1> USE ItemAssumption DEF Launch, mainVars
<1>1. TypeOK'
  BY DEF Inv, TypeOK, InsertPC, Node, InCalls
<1>2. ChainIntact'
  BY DEF Inv, ChainIntact, NodeAt
<1>3. Mutex'
  BY DEF Inv, TypeOK, Mutex
<1>4. Standing'
  BY DEF Inv, TypeOK, Standing, Linked
<1>5. Passed'
  BY DEF Inv, TypeOK, Passed, Linked
<1>6. Counted'
  <2>1. Live' = Live \cup {d} /\ d \notin Live
    BY DEF Live, Inv, TypeOK
  <2> QED
    BY <2>1, LiveFinite, FS_AddElement, FS_CardinalityType
       DEF Inv, TypeOK, Counted
<1>7. InCalls'
  BY DEF Inv, TypeOK, InCalls, Batch
<1>8. Walked'
  BY DEF Inv, TypeOK, Walked, NodeAt
<1> QED
  BY <1>1, <1>2, <1>3, <1>4, <1>5, <1>6, <1>7, <1>8 DEF Inv

(* Every goroutine of the batch is launched.                               *)
LEMMA LaunchedAllStep ==
  ASSUME Inv, LaunchedAll
  PROVE  Inv'
<1> USE ItemAssumption DEF LaunchedAll, goVars
<1>1. TypeOK'
  BY DEF Inv, TypeOK, InsertPC, Node, InCalls
<1>2. ChainIntact'
  BY DEF Inv, ChainIntact, NodeAt
<1>3. Mutex'
  BY DEF Inv, TypeOK, Mutex
<1>4. Standing'
  BY DEF Inv, TypeOK, Standing, Linked
<1>5. Passed'
  BY DEF Inv, TypeOK, Passed, Linked
<1>6. Counted'
  BY CountedStable DEF Inv, TypeOK
<1>7. InCalls'
  BY DEF Inv, TypeOK, InCalls, Batch
<1>8. Walked'
  BY DEF Inv, TypeOK, Walked, NodeAt
<1> QED
  BY <1>1, <1>2, <1>3, <1>4, <1>5, <1>6, <1>7, <1>8 DEF Inv

(* wg.Wait returns: no goroutine of the batch is live.                     *)
LEMMA ReturnStep ==
  ASSUME Inv, Return
  PROVE  Inv'
<1> USE ItemAssumption DEF Return, goVars
<1>1. TypeOK'
  BY DEF Inv, TypeOK, InsertPC, Node, InCalls
<1>2. ChainIntact'
  BY DEF Inv, ChainIntact, NodeAt
<1>3. Mutex'
  BY DEF Inv, TypeOK, Mutex
<1>4. Standing'
  BY DEF Inv, TypeOK, Standing, Linked
<1>5. Passed'
  BY DEF Inv, TypeOK, Passed, Linked
<1>6. Counted'
  BY CountedStable DEF Inv, TypeOK
<1>7. InCalls'
  <2>1. Live = {}
    BY LiveFinite, FS_EmptySet DEF Inv, Counted
  <2>2. \A d \in Batch(call) : pc[d] = "done"
    BY <2>1 DEF Inv, InCalls, Live, Batch
  <2> QED
    BY <2>2 DEF Inv, InCalls
<1>8. Walked'
  BY DEF Inv, TypeOK, Walked, NodeAt
<1> QED
  BY <1>1, <1>2, <1>3, <1>4, <1>5, <1>6, <1>7, <1>8 DEF Inv

(* Len walks on.                                                           *)
LEMMA LenStepStep ==
  ASSUME Inv, LenStep
  PROVE  Inv'
<1> USE ItemAssumption DEF LenStep, goVars
<1>1. TypeOK'
  BY DEF Inv, TypeOK, InsertPC, Node, InCalls
<1>2. ChainIntact'
  BY DEF Inv, ChainIntact, NodeAt
<1>3. Mutex'
  BY DEF Inv, TypeOK, Mutex
<1>4. Standing'
  BY DEF Inv, TypeOK, Standing, Linked
<1>5. Passed'
  BY DEF Inv, TypeOK, Passed, Linked
<1>6. Counted'
  BY CountedStable DEF Inv, TypeOK
<1>7. InCalls'
  BY DEF Inv, TypeOK, InCalls, Batch
<1>8. Walked'
  <2>1. count \in 0..Len(order) /\ cursor = NodeAt(count) /\ Len(order) \in Nat
    BY ChainNodes DEF Inv, Walked
  <2>2. count # Len(order) /\ next[cursor] = order[count + 1]
    BY <2>1 DEF Inv, ChainIntact
  <2> QED
    BY <2>1, <2>2 DEF Walked, NodeAt
<1> QED
  BY <1>1, <1>2, <1>3, <1>4, <1>5, <1>6, <1>7, <1>8 DEF Inv

(* Len returns; the next batch starts.                                     *)
LEMMA LenDoneStep ==
  ASSUME Inv, LenDone
  PROVE  Inv'
<1> USE ItemAssumption DEF LenDone, goVars
<1>1. TypeOK'
  BY DEF Inv, TypeOK, InsertPC, Node, InCalls
<1>2. ChainIntact'
  BY DEF Inv, ChainIntact, NodeAt
<1>3. Mutex'
  BY DEF Inv, TypeOK, Mutex
<1>4. Standing'
  BY DEF Inv, TypeOK, Standing, Linked
<1>5. Passed'
  BY DEF Inv, TypeOK, Passed, Linked
<1>6. Counted'
  BY CountedStable DEF Inv, TypeOK
<1>7. InCalls'
  BY DEF Inv, TypeOK, InCalls, Batch
<1>8. Walked'
  BY DEF Inv, TypeOK, Walked, NodeAt
<1> QED
  BY <1>1, <1>2, <1>3, <1>4, <1>5, <1>6, <1>7, <1>8 DEF Inv

(* A goroutine walks on to a node of the list.                             *)
LEMMA CheckNextStep ==
  ASSUME Inv, NEW d \in Item, CheckNext(d)
  PROVE  Inv'
<1> USE ItemAssumption DEF CheckNext, Goto, mainVars
<1>1. TypeOK'
  BY DEF Inv, TypeOK, InsertPC, Node, InCalls
<1>2. ChainIntact'
  BY DEF Inv, ChainIntact, NodeAt
<1>3. Mutex'
  BY DEF Inv, TypeOK, Mutex
<1>4. Standing'
  <2>1. next[at[d]] # Nil => next[at[d]] \in Linked
    BY ChainNodes DEF Inv, Standing
  <2>2. Linked' = Linked
    BY DEF Linked
  <2> QED
    BY <2>1, <2>2 DEF Inv, TypeOK, Standing
<1>5. Passed'
  BY DEF Inv, TypeOK, Passed, Linked
<1>6. Counted'
  BY CountedStable DEF Inv, TypeOK
<1>7. InCalls'
  BY DEF Inv, TypeOK, InCalls, Batch
<1>8. Walked'
  BY DEF Inv, TypeOK, Walked, NodeAt
<1> QED
  BY <1>1, <1>2, <1>3, <1>4, <1>5, <1>6, <1>7, <1>8 DEF Inv

(* A goroutine believes it is at the end.                                  *)
LEMMA CheckNilStep ==
  ASSUME Inv, NEW d \in Item, CheckNil(d)
  PROVE  Inv'
<1> USE ItemAssumption DEF CheckNil, Goto, mainVars
<1>1. TypeOK'
  BY DEF Inv, TypeOK, InsertPC, Node, InCalls
<1>2. ChainIntact'
  BY DEF Inv, ChainIntact, NodeAt
<1>3. Mutex'
  BY DEF Inv, TypeOK, Mutex
<1>4. Standing'
  BY DEF Inv, TypeOK, Standing, Linked
<1>5. Passed'
  BY DEF Inv, TypeOK, Passed, Linked
<1>6. Counted'
  BY CountedStable DEF Inv, TypeOK
<1>7. InCalls'
  BY DEF Inv, TypeOK, InCalls, Batch
<1>8. Walked'
  BY DEF Inv, TypeOK, Walked, NodeAt
<1> QED
  BY <1>1, <1>2, <1>3, <1>4, <1>5, <1>6, <1>7, <1>8 DEF Inv

(* It takes the mutex.                                                     *)
LEMMA LockStep ==
  ASSUME Inv, NEW d \in Item, Lock(d)
  PROVE  Inv'
<1> USE ItemAssumption DEF Lock, Goto, mainVars
<1>1. TypeOK'
  BY DEF Inv, TypeOK, InsertPC, Node, InCalls
<1>2. ChainIntact'
  BY DEF Inv, ChainIntact, NodeAt
<1>3. Mutex'
  BY DEF Inv, TypeOK, Mutex
<1>4. Standing'
  BY DEF Inv, TypeOK, Standing, Linked
<1>5. Passed'
  BY DEF Inv, TypeOK, Passed, Linked
<1>6. Counted'
  BY CountedStable DEF Inv, TypeOK
<1>7. InCalls'
  BY DEF Inv, TypeOK, InCalls, Batch
<1>8. Walked'
  BY DEF Inv, TypeOK, Walked, NodeAt
<1> QED
  BY <1>1, <1>2, <1>3, <1>4, <1>5, <1>6, <1>7, <1>8 DEF Inv

(* It looks again; only at the end of the list it goes on to link.         *)
LEMMA RecheckStep ==
  ASSUME Inv, NEW d \in Item, Recheck(d)
  PROVE  Inv'
<1> USE ItemAssumption DEF Recheck, mainVars
<1>1. TypeOK'
  BY DEF Inv, TypeOK, InsertPC, Node, InCalls
<1>2. ChainIntact'
  BY DEF Inv, ChainIntact, NodeAt
<1>3. Mutex'
  <2>1. mutex = d /\ d # Nil
    BY DEF Inv, Mutex
  <2>2. \A e \in Item : e # d => pc'[e] = pc[e]
    BY DEF Inv, TypeOK
  <2>3. CASE next[at[d]] # Nil
    <3>1. pc'[d] = "check" /\ mutex' = Nil
      BY <2>3 DEF Inv, TypeOK
    <3> QED
      BY <2>1, <2>2, <3>1 DEF Inv, Mutex
  <2>4. CASE next[at[d]] = Nil
    <3>1. pc'[d] = "link" /\ mutex' = mutex
      BY <2>4 DEF Inv, TypeOK
    <3> QED
      BY <2>1, <2>2, <3>1 DEF Inv, Mutex
  <2> QED
    BY <2>3, <2>4
<1>4. Standing'
  <2>1. next[at[d]] # Nil => next[at[d]] \in Linked
    BY ChainNodes DEF Inv, Standing
  <2>2. Linked' = Linked
    BY DEF Linked
  <2> QED
    BY <2>1, <2>2 DEF Inv, TypeOK, Standing
<1>5. Passed'
  <2>1. \A e \in Item : e # d => pc'[e] = pc[e]
    BY DEF Inv, TypeOK
  <2>2. pc'[d] \in {"check", "link"}
    BY DEF Inv, TypeOK
  <2>3. Linked' = Linked
    BY DEF Linked
  <2> QED
    BY <2>1, <2>2, <2>3 DEF Inv, Passed
<1>6. Counted'
  BY CountedStable DEF Inv, TypeOK
<1>7. InCalls'
  BY DEF Inv, TypeOK, InCalls, Batch
<1>8. Walked'
  BY DEF Inv, TypeOK, Walked, NodeAt
<1> QED
  BY <1>1, <1>2, <1>3, <1>4, <1>5, <1>6, <1>7, <1>8 DEF Inv

(* It links its node behind the last one.                                  *)
LEMMA LinkStep ==
  ASSUME Inv, NEW d \in Item, Link(d)
  PROVE  Inv'
<1> USE ItemAssumption DEF Link, Goto, mainVars
<1>1. /\ at[d] \in Linked \cup {Root}
      /\ next[at[d]] = Nil
      /\ d \notin Linked
      /\ next[d] = Nil
  BY DEF Inv, Standing, Passed
<1>2. at[d] = NodeAt(Len(order))
  BY <1>1, ChainNodes
<1>3. /\ Len(order) \in Nat
      /\ DOMAIN order = 1..Len(order)
      /\ order' \in Seq(Item)
      /\ Len(order') = Len(order) + 1
      /\ DOMAIN order' = 1..(Len(order) + 1)
      /\ \A k \in 1..Len(order) : order'[k] = order[k]
      /\ order'[Len(order) + 1] = d
  BY DEF Inv, TypeOK
<1>4. Linked' = Linked \cup {d}
  <2>1. \A k \in DOMAIN order' : k \in DOMAIN order \/ k = Len(order) + 1
    BY <1>3
  <2>2. Len(order) + 1 \in DOMAIN order'
    BY <1>3
  <2>3. \A k \in DOMAIN order : k \in DOMAIN order'
    BY <1>3
  <2> QED
    BY <1>3, <2>1, <2>2, <2>3 DEF Linked
<1>5. TypeOK'
  BY <1>3 DEF Inv, TypeOK, InsertPC, Node
<1>6. ChainIntact'
  <2>1. \A k \in DOMAIN order : order[k] # d /\ order[k] \in Linked
    BY <1>1 DEF Linked
  <2>2. ASSUME NEW k \in DOMAIN order', NEW l \in DOMAIN order',
               order'[k] = order'[l]
        PROVE  k = l
    <3>1. \A m \in DOMAIN order' :
            \/ m = Len(order) + 1 /\ order'[m] = d
            \/ m \in DOMAIN order /\ order'[m] = order[m]
      BY <1>3
    <3> QED
      BY <2>1, <2>2, <3>1 DEF Inv, ChainIntact
  <2>3. ASSUME NEW k \in 0..Len(order')
        PROVE  next'[NodeAt(k)'] = IF k = Len(order') THEN Nil ELSE order'[k + 1]
    <3>1. CASE k = Len(order')
      <4>1. NodeAt(k)' = d
        BY <1>3, <3>1 DEF NodeAt
      <4>2. at[d] # d
        BY <1>1, ItemAssumption
      <4> QED
        BY <1>1, <3>1, <4>1, <4>2 DEF Inv, TypeOK, Node
    <3>2. CASE k = Len(order)
      <4>1. NodeAt(k)' = at[d]
        <5>1. CASE Len(order) = 0
          BY <1>2, <3>2, <5>1 DEF NodeAt
        <5>2. CASE Len(order) # 0
          <6>1. Len(order) \in 1..Len(order)
            BY <1>3, <5>2
          <6> QED
            BY <1>2, <1>3, <3>2, <5>2, <6>1 DEF NodeAt
        <5> QED
          BY <5>1, <5>2
      <4>2. at[d] \in Node
        BY DEF Inv, TypeOK
      <4>3. next'[at[d]] = d
        BY <4>2 DEF Inv, TypeOK
      <4>4. k # Len(order') /\ order'[k + 1] = d
        BY <1>3, <3>2, Positions
      <4> QED
        BY <4>1, <4>3, <4>4
    <3>3. CASE k \in 0..(Len(order) - 1)
      <4>1. NodeAt(k)' = NodeAt(k) /\ NodeAt(k) \in Node
        BY <1>3, <3>3, ChainNodes DEF NodeAt
      <4>2. next[NodeAt(k)] = order[k + 1] /\ order[k + 1] \in Item
        <5>1. k \in 0..Len(order) /\ k # Len(order) /\ k + 1 \in DOMAIN order
          BY <1>3, <3>3, Positions
        <5>2. order[k + 1] \in Item
          BY <5>1 DEF Inv, TypeOK
        <5> QED
          BY <5>1, <5>2 DEF Inv, ChainIntact
      <4>3. NodeAt(k) # at[d]
        BY <1>1, <4>2, ItemAssumption
      <4>4. next'[NodeAt(k)] = next[NodeAt(k)]
        BY <4>1, <4>3 DEF Inv, TypeOK
      <4>5. k # Len(order') /\ order'[k + 1] = order[k + 1]
        BY <1>3, <3>3
      <4> QED
        BY <4>1, <4>2, <4>4, <4>5
    <3>4. \/ k = Len(order')
          \/ k = Len(order)
          \/ k \in 0..(Len(order) - 1)
      BY <1>3, Positions
    <3> QED
      BY <3>1, <3>2, <3>3, <3>4
  <2> QED
    BY <2>2, <2>3 DEF ChainIntact
<1>7. Mutex'
  BY DEF Inv, TypeOK, Mutex
<1>8. Standing'
  <2>1. \A e \in Item : e # d => pc[e] # "link"
    BY DEF Inv, Mutex
  <2> QED
    BY <1>4, <2>1 DEF Inv, TypeOK, Standing
<1>9. Passed'
  <2>1. \A e \in Item : e \notin Linked' => e # at[d] /\ next'[e] = next[e]
    BY <1>1, <1>4, ItemAssumption DEF Inv, TypeOK, Node
  <2> QED
    BY <1>4, <2>1 DEF Inv, TypeOK, Passed
<1>10. Counted'
  BY CountedStable DEF Inv, TypeOK
<1>11. InCalls'
  BY DEF Inv, TypeOK, InCalls, Batch
<1>12. Walked'
  <2>1. CallOf[d] = call
    <3>1. call \in Int /\ CallOf[d] \in Int
      BY CallNumbers
    <3>2. pc[d] = "link"
      BY DEF Link, Goto
    <3>3. ~(CallOf[d] < call) /\ ~(CallOf[d] > call)
      BY <3>2 DEF Inv, InCalls
    <3> QED
      BY <3>1, <3>3
  <2>2. main # "len"
    BY <2>1 DEF Inv, InCalls, Batch
  <2> QED
    BY <2>2 DEF Walked
<1> QED
  BY <1>5, <1>6, <1>7, <1>8, <1>9, <1>10, <1>11, <1>12 DEF Inv

(* It gives the mutex back.                                                *)
LEMMA UnlockStep ==
  ASSUME Inv, NEW d \in Item, Unlock(d)
  PROVE  Inv'
<1> USE ItemAssumption DEF Unlock, Goto, mainVars
<1>1. TypeOK'
  BY DEF Inv, TypeOK, InsertPC, Node, InCalls
<1>2. ChainIntact'
  BY DEF Inv, ChainIntact, NodeAt
<1>3. Mutex'
  BY DEF Inv, TypeOK, Mutex
<1>4. Standing'
  BY DEF Inv, TypeOK, Standing, Linked
<1>5. Passed'
  BY DEF Inv, TypeOK, Passed, Linked
<1>6. Counted'
  BY CountedStable DEF Inv, TypeOK
<1>7. InCalls'
  BY DEF Inv, TypeOK, InCalls, Batch
<1>8. Walked'
  BY DEF Inv, TypeOK, Walked, NodeAt
<1> QED
  BY <1>1, <1>2, <1>3, <1>4, <1>5, <1>6, <1>7, <1>8 DEF Inv

(* It calls wg.Done.                                                       *)
LEMMA DoneStep ==
  ASSUME Inv, NEW d \in Item, Done(d)
  PROVE  Inv'
<1> USE ItemAssumption DEF Done, Goto, mainVars
<1>1. TypeOK'
  <2>1. d \in Live
    BY DEF Live
  <2>2. wg # 0
    BY <2>1, LiveFinite, FS_EmptySet DEF Inv, Counted
  <2> QED
    BY <2>2 DEF Inv, TypeOK, InsertPC
<1>2. ChainIntact'
  BY DEF Inv, ChainIntact, NodeAt
<1>3. Mutex'
  BY DEF Inv, TypeOK, Mutex
<1>4. Standing'
  BY DEF Inv, TypeOK, Standing, Linked
<1>5. Passed'
  BY DEF Inv, TypeOK, Passed, Linked
<1>6. Counted'
  <2>1. Live' = Live \ {d} /\ d \in Live
    BY DEF Live, Inv, TypeOK
  <2> QED
    BY <2>1, LiveFinite, FS_RemoveElement, FS_CardinalityType
       DEF Inv, TypeOK, Counted
<1>7. InCalls'
  BY DEF Inv, TypeOK, InCalls, Batch
<1>8. Walked'
  BY DEF Inv, TypeOK, Walked, NodeAt
<1> QED
  BY <1>1, <1>2, <1>3, <1>4, <1>5, <1>6, <1>7, <1>8 DEF Inv

-----------------------------------------------------------------------------
LEMMA StutterStep == ASSUME Inv, UNCHANGED vars PROVE Inv'
<1> USE DEF vars, Inv
<1>1. TypeOK' /\ Mutex' /\ InCalls'
  BY DEF TypeOK, Mutex, InCalls, Batch
<1>2. ChainIntact' /\ Walked'
  BY DEF ChainIntact, Walked, NodeAt
<1>3. Standing' /\ Passed' /\ Counted'
  BY DEF Standing, Passed, Counted, Linked, Live
<1> QED
  BY <1>1, <1>2, <1>3

LEMMA NextInv == ASSUME Inv, [Next]_vars PROVE Inv'
<1>1. CASE MainStep
  BY <1>1, LaunchStep, LaunchedAllStep, ReturnStep, LenStepStep, LenDoneStep
     DEF MainStep
<1>2. ASSUME NEW d \in Item, InsertSingle(d) PROVE Inv'
  BY <1>2, CheckNextStep, CheckNilStep, LockStep, RecheckStep, LinkStep,
     UnlockStep, DoneStep DEF InsertSingle
<1>3. CASE Ended \/ UNCHANGED vars
  BY <1>3, StutterStep DEF Ended
<1> QED
  BY <1>1, <1>2, <1>3 DEF Next

(* A position of the list is an item of the calls made so far, and back.   *)
LEMMA AllInserted ==
  ASSUME Inv
  PROVE  ReturnComplete
<1> SUFFICES ASSUME main \in {"len", "end"}
             PROVE  /\ Linked = {d \in Item : CallOf[d] <= call}
                    /\ \A d \in Linked : pc[d] = "done"
  BY DEF ReturnComplete
<1>1. call \in Int /\ \A d \in Item : CallOf[d] \in Int
  BY CallNumbers
<1>2. Linked \subseteq Item
  BY DEF Linked, Inv, TypeOK
<1>3. \A d \in Item : CallOf[d] <= call => pc[d] = "done"
  <2>1. \A d \in Item : CallOf[d] <= call => CallOf[d] < call \/ CallOf[d] = call
    BY <1>1
  <2>2. main = "end" => \A d \in Item : CallOf[d] < call
    BY ItemAssumption DEF Inv, InCalls
  <2> QED
    BY <1>1, <2>1, <2>2 DEF Inv, InCalls, Batch
<1>4. \A d \in Item : ~(CallOf[d] <= call) => pc[d] = "unborn"
  BY <1>1 DEF Inv, InCalls
<1> QED
  BY <1>2, <1>3, <1>4 DEF Inv, Passed

LEMMA CountIsExact ==
  ASSUME Inv
  PROVE  LenExact
<1> SUFFICES ASSUME main = "len", next[cursor] = Nil
             PROVE  count = Cardinality({d \in Item : CallOf[d] <= call})
  BY DEF LenExact
<1>1. Linked = {d \in Item : CallOf[d] <= call}
  BY AllInserted DEF ReturnComplete
<1>2. count \in 0..Len(order) /\ cursor = NodeAt(count) /\ Len(order) \in Nat
  BY ChainNodes DEF Inv, Walked
<1>3. count = Len(order)
  <2> SUFFICES ASSUME count # Len(order) PROVE FALSE
    OBVIOUS
  <2>1. count + 1 \in DOMAIN order
    BY <1>2 DEF Inv, TypeOK
  <2>2. order[count + 1] \in Item
    BY <2>1 DEF Inv, TypeOK
  <2>3. next[cursor] = order[count + 1]
    BY <1>2 DEF Inv, ChainIntact
  <2> QED
    BY <2>2, <2>3, ItemAssumption
<1>4. order \in Bijection(1..Len(order), Linked)
  <2>1. DOMAIN order = 1..Len(order) /\ order = [k \in 1..Len(order) |-> order[k]]
    BY DEF Inv, TypeOK
  <2>2. \A k \in 1..Len(order) : order[k] \in Linked
    BY <2>1 DEF Linked
  <2>3. order \in [1..Len(order) -> Linked]
    BY <2>1, <2>2
  <2>4. order \in Injection(1..Len(order), Linked)
    BY <2>1, <2>3 DEF Injection, IsInjective, Inv, ChainIntact
  <2>5. order \in Surjection(1..Len(order), Linked)
    BY <2>1, <2>3 DEF Surjection, Linked
  <2> QED
    BY <2>4, <2>5 DEF Bijection
<1>5. Cardinality(Linked) = Len(order)
  BY <1>2, <1>4, FS_CountingElements DEF ExistsBijection
<1> QED
  BY <1>1, <1>3, <1>5

-----------------------------------------------------------------------------
LEMMA Inductive == Spec => []Inv
<1>1. Init => Inv
  BY InitInv
<1>2. Inv /\ [Next]_vars => Inv'
  BY NextInv
<1> QED
  BY <1>1, <1>2, PTL DEF Spec

(* The goroutines and the list stay what TypeOK says; in particular the    *)
(* WaitGroup counter never goes below zero.                                *)
THEOREM TypeCorrect == Spec => []TypeOK
<1>1. Inv => TypeOK
  BY DEF Inv
<1> QED
  BY <1>1, Inductive, PTL

(* However the goroutines race for the end of the list, its pointers form  *)
(* one chain through every node that was linked.                           *)
THEOREM ListIsChain == Spec => []ChainIntact
<1>1. Inv => ChainIntact
  BY DEF Inv
<1> QED
  BY <1>1, Inductive, PTL

(* Insert returns only when every item of its batch is in the list.        *)
THEOREM InsertIsComplete == Spec => []ReturnComplete
<1>1. Inv => ReturnComplete
  BY AllInserted
<1> QED
  BY <1>1, Inductive, PTL

(* Len counts exactly the items inserted so far.                           *)
THEOREM LenIsExact == Spec => []LenExact
<1>1. Inv => LenExact
  BY CountIsExact
<1> QED
  BY <1>1, Inductive, PTL

(* InsertSingle overwrites only a nil pointer.                             *)
THEOREM GrowsAtEnd == Spec => LinksAreFinal
<1> DEFINE Grows == \A n \in Node : next[n] # Nil => next'[n] = next[n]
<1>1. ASSUME Inv, [Next]_vars PROVE Grows \/ next' = next
  <2>1. ASSUME NEW d \in Item, Link(d) PROVE Grows
    <3>1. next[at[d]] = Nil /\ next' = [next EXCEPT ![at[d]] = d]
      BY <1>1, <2>1 DEF Link, Goto, Inv, Standing
    <3> QED
      BY <1>1, <3>1 DEF Inv, TypeOK
  <2>2. ASSUME NEW d \in Item, InsertSingle(d), ~Link(d) PROVE next' = next
    BY <2>2 DEF InsertSingle, CheckNext, CheckNil, Lock, Recheck, Unlock, Done
  <2>3. MainStep \/ Ended \/ UNCHANGED vars => next' = next
    BY DEF MainStep, Ended, vars, Launch, LaunchedAll, Return, LenStep, LenDone
  <2> QED
    BY <1>1, <2>1, <2>2, <2>3 DEF Next
<1>2. Inv /\ [Next]_vars => [Grows]_next
  BY <1>1
<1> QED
  BY <1>2, Inductive, PTL DEF Spec, LinksAreFinal

-----------------------------------------------------------------------------
(* Linking a node is an insertion of the log; wg.Wait's return is the      *)
(* return of the call; everything else is invisible.                       *)
LEMMA RefineLink ==
  ASSUME Inv, NEW d \in Item, Link(d)
  PROVE  Log!Add(d)
<1>1. pc[d] = "link" /\ d \notin Linked
  BY DEF Link, Goto, Inv, Passed
<1>2. CallOf[d] = call /\ main # "len"
  <2>1. ~(CallOf[d] < call) /\ ~(CallOf[d] > call)
    BY <1>1 DEF Inv, InCalls
  <2>2. CallOf[d] = call
    BY <2>1, CallNumbers
  <2> QED
    BY <1>1, <2>2 DEF Inv, InCalls, Batch
<1>3. CallOf[d] = (call - 1) + 1
  BY <1>2, CallNumbers
<1>4. UNCHANGED <<main, call>> /\ order' = Append(order, d)
  BY DEF Link, mainVars
<1> QED
  BY <1>1, <1>2, <1>3, <1>4 DEF Log!Add, Log!Logged, Linked

LEMMA RefineReturn ==
  ASSUME Inv, Return
  PROVE  Log!Return
<1>1. Inv'
  BY ReturnStep
<1>2. /\ main = "wait" /\ main' = "len"
      /\ call' = call /\ order' = order /\ pc' = pc
  BY DEF Return, goVars
<1>3. \A d \in Item : CallOf[d] = call => pc'[d] = "done"
  BY <1>1, <1>2 DEF Inv, InCalls, Batch
<1>4. \A d \in Item : CallOf[d] = call => d \in Linked
  BY <1>2, <1>3 DEF Inv, Passed
<1>5. call \in 1..Call
  BY <1>2 DEF Inv, InCalls
<1>6. (call - 1) + 1 = call /\ call - 1 < Call
  BY <1>5, ItemAssumption
<1> QED
  BY <1>2, <1>4, <1>6 DEF Log!Return, Log!Logged, Linked

LEMMA RefineOther ==
  ASSUME Inv, [Next]_vars, ~Return, \A d \in Item : ~Link(d)
  PROVE  UNCHANGED Log!vars
<1>1. ASSUME LenDone PROVE UNCHANGED Log!vars
  <2>1. main = "len" /\ main' # "len" /\ call' = call + 1 /\ order' = order
    BY <1>1 DEF LenDone
  <2>2. call' - 1 = call
    BY <2>1, CallNumbers
  <2> QED
    BY <2>1, <2>2 DEF Log!vars
<1>2. ASSUME ~LenDone
      PROVE  UNCHANGED <<order, call>> /\ (main = "len" <=> main' = "len")
  <2>1. ASSUME NEW d \in Item, InsertSingle(d)
        PROVE  UNCHANGED <<order, call, main>>
    BY <2>1 DEF InsertSingle, CheckNext, CheckNil, Lock, Recheck, Unlock, Done,
                mainVars
  <2>2. CASE MainStep
    BY <1>2, <2>2 DEF MainStep, Launch, LaunchedAll, LenStep, mainVars
  <2>3. CASE Ended \/ UNCHANGED vars
    BY <2>3 DEF Ended, vars
  <2> QED
    BY <2>1, <2>2, <2>3 DEF Next
<1> QED
  BY <1>1, <1>2 DEF Log!vars

(* Every behaviour of the racing goroutines is one of the abstract         *)
(* append-only log: one atomic insertion per item, inside its call.        *)
THEOREM Refinement == Spec => ImplementsLog
<1>1. Init => Log!Init
  BY DEF Init, Log!Init
<1>2. ASSUME Inv, [Next]_vars PROVE [Log!Next]_Log!vars
  BY <1>2, RefineLink, RefineReturn, RefineOther DEF Log!Next
<1>3. Inv /\ [Next]_vars => [Log!Next]_Log!vars
  BY <1>2
<1> QED
  BY <1>1, <1>3, Inductive, PTL DEF Spec, ImplementsLog, Log!Spec

=============================================================================
