------------------------- MODULE WitDownloadProofs --------------------------
(***************************************************************************)
(* Proofs about WitDownload, for every size of the bulks, every limit of   *)
(* the id array and every number of work items.                            *)
(*                                                                         *)
(* That the work items come out in order is a fact about the arithmetic of *)
(* the bulks (Tiles: they lie end to end) and about the collector's        *)
(* position in it (Collected).  Everything rests on one lemma: channel c   *)
(* exists iff c * BulckSize < count.                                       *)
(***************************************************************************)
EXTENDS WitDownload, TLAPS

Last(c) == IF c + 1 \in Channel THEN (c + 1) * BulckSize ELSE count - 1

Tiles ==
  \A c \in Channel : worker[c] # "unborn" =>
    /\ bulk[c] = [lo |-> c * BulckSize, hi |-> Last(c)]
    /\ bulk[c].lo + fetched[c] <= bulk[c].hi

Launching ==
  /\ \E n \in Nat : i = n * BulckSize
  /\ main \in {"launch", "collect", "ok"} => count > 0
  /\ \A c \in Channel : IF worker[c] = "unborn" THEN fetched[c] = 0
                         ELSE c * BulckSize < i

(* How far the first c bulks reach.                                        *)
Upto(c) == IF c = 0 THEN 0 ELSE Last(c - 1)

Collected ==
  /\ j \in 0..ChannelsCount(count)
  /\ \A c \in Channel : c < j => worker[c] = "done"
  /\ allWits = Prefix(Upto(j))

Filed ==
  /\ file # None => j = ChannelsCount(count)
  /\ main = "ok" => file = allWits /\ j = ChannelsCount(count)

Inv ==
  /\ TypeOK
  /\ Tiles
  /\ Launching
  /\ Collected
  /\ Filed

-----------------------------------------------------------------------------
(* The arithmetic of the bulks.                                            *)

LEMMA Quotient ==
  ASSUME NEW n \in Nat
  PROVE  /\ n \div BulckSize \in Nat
         /\ BulckSize * (n \div BulckSize) <= n
         /\ n < BulckSize * (n \div BulckSize) + BulckSize
BY BulckAssumption, SMT

LEMMA Multiple ==
  ASSUME NEW c \in Nat
  PROVE  /\ (c * BulckSize) \div BulckSize = c
         /\ c * BulckSize \in Nat
         /\ (c + 1) * BulckSize = c * BulckSize + BulckSize
         /\ BulckSize * c = c * BulckSize
BY BulckAssumption, SMT

LEMMA Monotone ==
  ASSUME NEW c \in Nat, NEW d \in Nat, c < d
  PROVE  c * BulckSize + BulckSize <= d * BulckSize
BY BulckAssumption, SMT

(* The number of channels is the number of bulks it takes.                 *)
LEMMA ChannelsNat ==
  ASSUME NEW n \in Nat
  PROVE  /\ ChannelsCount(n) \in Nat
         /\ \A c \in Nat : c < ChannelsCount(n) <=> c * BulckSize < n
<1> DEFINE full == n \div BulckSize
<1>1. full \in Nat /\ full * BulckSize <= n /\ n < full * BulckSize + BulckSize
  BY Quotient, Multiple
<1>2. ChannelsCount(n) = IF full * BulckSize < n THEN full + 1 ELSE full
  BY <1>1, Multiple DEF ChannelsCount
<1> HIDE DEF full
<1>3. ASSUME NEW c \in Nat
      PROVE  c < ChannelsCount(n) <=> c * BulckSize < n
  <2>1. c * BulckSize \in Nat /\ full * BulckSize \in Nat
    BY <1>1, Multiple
  <2>2. CASE c < full
    BY <1>1, <1>2, <2>1, <2>2, Monotone, BulckAssumption
  <2>3. CASE c = full
    BY <1>1, <1>2, <2>1, <2>3
  <2>4. CASE full < c
    <3>1. full * BulckSize + BulckSize <= c * BulckSize
      BY <1>1, <2>4, Monotone
    <3> QED
      BY <1>1, <1>2, <2>1, <2>4, <3>1, BulckAssumption
  <2> QED
    BY <1>1, <2>2, <2>3, <2>4
<1> QED
  BY <1>1, <1>2, <1>3

LEMMA ChannelIff ==
  ASSUME TypeOK, NEW c \in Nat
  PROVE  c \in Channel <=> c * BulckSize < count
<1>1. count \in Nat /\ ChannelsCount(count) \in Nat
  BY ChannelsNat DEF TypeOK
<1>2. c \in Channel <=> c < ChannelsCount(count)
  BY <1>1 DEF Channel
<1> QED
  BY <1>1, <1>2, ChannelsNat

LEMMA LastInRange ==
  ASSUME TypeOK, count > 0, NEW c \in Channel
  PROVE  /\ c \in Nat
         /\ c * BulckSize \in 0..count
         /\ Last(c) \in 0..count
         /\ EndIndex(c * BulckSize, count) = Last(c)
         /\ c * BulckSize <= Last(c)
<1>1. c \in Nat /\ c + 1 \in Nat /\ count \in Nat
  BY ChannelsNat DEF Channel, TypeOK
<1>2. c * BulckSize < count /\ c * BulckSize \in Nat
  BY <1>1, ChannelIff, Multiple
<1>3. (c + 1) * BulckSize = c * BulckSize + BulckSize
  BY <1>1, Multiple
<1>4. c + 1 \in Channel <=> c * BulckSize + BulckSize < count
  BY <1>1, <1>3, ChannelIff
<1> QED
  BY <1>1, <1>2, <1>3, <1>4, BulckAssumption DEF Last, EndIndex

(* The items of a bulk continue those before it.                           *)
LEMMA PrefixConcat ==
  ASSUME NEW a \in Nat, NEW b \in Nat
  PROVE  Prefix(a) \o [k \in 1..b |-> a + k - 1] = Prefix(a + b)
<1> DEFINE t == [k \in 1..b |-> a + k - 1]
<1>1. Prefix(a) \in Seq(Int) /\ Len(Prefix(a)) = a
  BY DEF Prefix
<1>2. t \in Seq(Int) /\ Len(t) = b
  OBVIOUS
<1>3. DOMAIN (Prefix(a) \o t) = 1..(a + b)
  BY <1>1, <1>2
<1>4. ASSUME NEW k \in 1..(a + b)
      PROVE  (Prefix(a) \o t)[k] = k - 1
  BY <1>1, <1>2 DEF Prefix
<1>5. Prefix(a) \o t = [k \in 1..(a + b) |-> (Prefix(a) \o t)[k]]
  BY <1>1, <1>2, <1>3
<1> HIDE DEF t
<1>6. Prefix(a) \o t = [k \in 1..(a + b) |-> k - 1]
  BY <1>4, <1>5
<1> QED
  BY <1>6 DEF t, Prefix

LEMMA PrefixType ==
  ASSUME NEW n \in Nat
  PROVE  Prefix(n) \in Seq(Nat) /\ Len(Prefix(n)) = n
BY DEF Prefix

-----------------------------------------------------------------------------
LEMMA InitInv == Init => Inv
<1> SUFFICES ASSUME Init PROVE Inv
  OBVIOUS
<1> USE DEF Init
<1>1. TypeOK
  <2>1. count \in Nat /\ 0 \in 0..count
    BY BulckAssumption
  <2> QED
    BY <2>1 DEF TypeOK
<1>2. count \in Nat /\ ChannelsCount(count) \in Nat
  BY <1>1, ChannelsNat DEF TypeOK
<1>3. i = 0 * BulckSize
  BY BulckAssumption
<1>4. Prefix(0) = <<>>
  BY DEF Prefix
<1>5. Tiles /\ Launching
  BY <1>3 DEF Tiles, Launching
<1>6. Collected
  BY <1>2, <1>4 DEF Collected, Upto, Channel
<1>7. Filed
  BY DEF Filed
<1> QED
  BY <1>1, <1>5, <1>6, <1>7 DEF Inv

(* The steps that leave the bulks and the collector alone.                 *)
LEMMA MainStep ==
  ASSUME Inv, Query \/ QueryFails \/ Launched
  PROVE  Inv'
<1> USE DEF Inv, Query, QueryFails, Launched
<1>1. TypeOK' /\ Channel' = Channel
  BY DEF TypeOK, Channel
<1>2. Tiles'
  BY <1>1 DEF Tiles, Last
<1>3. Launching'
  BY <1>1, BulckAssumption DEF Launching, TypeOK
<1>4. Collected' /\ Filed'
  BY <1>1 DEF Collected, Filed, Upto, Last
<1> QED
  BY <1>1, <1>2, <1>3, <1>4

LEMMA LaunchStep ==
  ASSUME Inv, Launch
  PROVE  Inv'
<1> USE DEF Inv, Launch
<1>1. PICK n \in Nat : i = n * BulckSize
  BY DEF Launching
<1>2. i \div BulckSize = n
  BY <1>1, Multiple
<1>3. count > 0 /\ n \in Channel
  BY <1>1, ChannelIff DEF Launching
<1>4. worker[n] = "unborn" /\ fetched[n] = 0
  BY <1>1, <1>3, Multiple DEF Launching
<1>5. i \in 0..count /\ EndIndex(i, count) = Last(n) /\ Last(n) \in 0..count
      /\ i <= Last(n)
  BY <1>1, <1>3, LastInRange
<1>6. Channel' = Channel
  BY DEF Channel
<1>7. bulk' = [bulk EXCEPT ![n] = [lo |-> i, hi |-> Last(n)]]
      /\ worker' = [worker EXCEPT ![n] = "fetch"]
  BY <1>2, <1>5
<1>8. TypeOK'
  <2>1. bulk' \in [Channel -> [lo : 0..count, hi : 0..count]]
    <3> DEFINE given == [lo |-> i, hi |-> Last(n)]
               Bulk == [lo : 0..count, hi : 0..count]
    <3>1. given \in Bulk
      BY <1>5
    <3>2. bulk \in [Channel -> Bulk] /\ bulk' = [bulk EXCEPT ![n] = given]
      BY <1>7 DEF TypeOK
    <3> HIDE DEF given, Bulk
    <3>3. bulk' \in [Channel -> Bulk]
      BY <3>1, <3>2
    <3> QED
      BY <3>3 DEF Bulk
  <2>2. i' \in Nat
    BY BulckAssumption DEF TypeOK
  <2> QED
    BY <1>6, <1>7, <2>1, <2>2 DEF TypeOK
<1>9. Tiles'
  <2> SUFFICES ASSUME NEW c \in Channel, worker'[c] # "unborn"
               PROVE  /\ bulk'[c] = [lo |-> c * BulckSize, hi |-> Last(c)]
                      /\ bulk'[c].lo + fetched[c] <= bulk'[c].hi
    BY <1>6 DEF Tiles, Last
  <2>1. CASE c = n
    BY <2>1, <1>1, <1>4, <1>5, <1>7 DEF TypeOK
  <2>2. CASE c # n
    BY <2>2, <1>7 DEF TypeOK, Tiles
  <2> QED
    BY <2>1, <2>2
<1>10. Launching'
  <2>1. i' = (n + 1) * BulckSize /\ n + 1 \in Nat
    BY <1>1, Multiple
  <2>2. ASSUME NEW c \in Channel
        PROVE  IF worker'[c] = "unborn" THEN fetched[c] = 0
               ELSE c * BulckSize < i'
    <3>1. c \in Nat /\ c * BulckSize \in Nat
      BY <1>3, LastInRange
    <3>2. CASE c = n
      <4>1. i \in Nat /\ i < i'
        BY BulckAssumption DEF TypeOK
      <4> QED
        BY <1>1, <1>3, <1>7, <3>2, <4>1 DEF TypeOK
    <3>3. CASE c # n
      BY <1>1, <1>7, <3>1, <3>3, BulckAssumption DEF TypeOK, Launching
    <3> QED
      BY <3>2, <3>3
  <2> QED
    BY <1>3, <1>6, <2>1, <2>2 DEF Launching
<1>11. Collected' /\ Filed'
  BY <1>4, <1>6, <1>7 DEF Collected, Filed, Upto, Last, TypeOK
<1> QED
  BY <1>8, <1>9, <1>10, <1>11

LEMMA CollectStep ==
  ASSUME Inv, Collect
  PROVE  Inv'
<1> USE DEF Inv, Collect
<1>1. Channel' = Channel
  BY DEF Channel
<1>2. count > 0 /\ j \in Nat /\ ChannelsCount(count) \in Nat
      /\ j < ChannelsCount(count)
  <2>1. count \in Nat /\ j \in Nat
    BY DEF TypeOK
  <2>2. ChannelsCount(count) \in Nat
    BY <2>1, ChannelsNat
  <2> QED
    BY <2>1, <2>2 DEF Launching, Channel
<1>3. bulk[j] = [lo |-> j * BulckSize, hi |-> Last(j)]
  <2>1. j \in Channel /\ worker[j] # "unborn"
    OBVIOUS
  <2> QED
    BY <2>1 DEF Tiles
<1>4. Last(j) \in Nat /\ j * BulckSize \in Nat /\ fetched[j] \in Nat
      /\ j * BulckSize + fetched[j] = Last(j)
  BY <1>2, <1>3, LastInRange, Multiple DEF TypeOK
<1>5. Upto(j) = j * BulckSize
  <2>1. CASE j = 0
    BY <2>1, BulckAssumption DEF Upto
  <2>2. CASE j # 0
    <3>1. Last(j - 1) = ((j - 1) + 1) * BulckSize
      BY <1>2, <2>2 DEF Last, Channel
    <3> QED
      BY <1>2, <2>2, <3>1 DEF Upto
  <2> QED
    BY <2>1, <2>2
<1>6. Upto(j + 1) = Last(j)
  BY <1>2 DEF Upto
<1>7. allWits' = Prefix(Last(j))
  <2>1. allWits = Prefix(j * BulckSize)
    BY <1>5 DEF Collected
  <2>2. bulk[j].lo = j * BulckSize
    BY <1>3
  <2>3. allWits' = allWits \o [k \in 1..fetched[j] |-> bulk[j].lo + k - 1]
    OBVIOUS
  <2>4. allWits' = Prefix(j * BulckSize)
                     \o [k \in 1..fetched[j] |-> j * BulckSize + k - 1]
    BY <2>1, <2>2, <2>3
  <2>5. allWits' = Prefix(j * BulckSize + fetched[j])
    BY <1>4, <2>4, PrefixConcat
  <2> QED
    BY <1>4, <2>5
<1>8. TypeOK'
  <2>1. allWits' \in Seq(Nat)
    BY <1>4, <1>7, PrefixType
  <2>2. j' \in Nat /\ worker' \in [Channel -> {"unborn", "fetch", "failed", "done"}]
    BY <1>2 DEF TypeOK
  <2> QED
    BY <1>1, <2>1, <2>2 DEF TypeOK
<1>9. Tiles' /\ Launching'
  BY <1>1 DEF Tiles, Last, Launching, TypeOK
<1>10. Collected'
  <2>1. \A c \in Channel : c < j + 1 => c < j \/ c = j
    BY <1>2 DEF Channel
  <2>2. Upto(j)' = Last(j)
    BY <1>1, <1>2 DEF Upto, Last
  <2>3. allWits' = Prefix(Upto(j)')
    BY <1>7, <2>2
  <2>4. j' \in 0..ChannelsCount(count) /\ count' = count
    BY <1>2
  <2>5. \A c \in Channel : c < j' => worker'[c] = "done"
    BY <1>2, <2>1 DEF Collected, TypeOK
  <2> QED
    BY <1>1, <2>3, <2>4, <2>5 DEF Collected
<1>11. Filed'
  BY <1>2 DEF Filed
<1> QED
  BY <1>8, <1>9, <1>10, <1>11

LEMMA WriteStep ==
  ASSUME Inv, Write
  PROVE  Inv'
<1> USE DEF Inv, Write
<1>1. Channel' = Channel
  BY DEF Channel
<1>2. TypeOK'
  BY <1>1 DEF TypeOK
<1>3. Tiles' /\ Launching' /\ Collected'
  BY <1>1 DEF Tiles, Last, Launching, Collected, Upto
<1>4. j = ChannelsCount(count)
  <2>1. count \in Nat /\ j \in Nat
    BY DEF TypeOK
  <2>2. ChannelsCount(count) \in Nat
    BY <2>1, ChannelsNat
  <2>3. j \in 0..ChannelsCount(count) /\ j \notin Channel
    BY DEF Collected
  <2> QED
    BY <2>1, <2>2, <2>3 DEF Channel
<1>5. Filed'
  BY <1>4 DEF Filed
<1> QED
  BY <1>2, <1>3, <1>5

LEMMA WorkerStep ==
  ASSUME Inv, NEW c \in Channel, Worker(c)
  PROVE  Inv'
<1>1. UNCHANGED <<count, main, i, j, allWits, file, bulk>>
  BY DEF Worker, Fetch, FetchFails, mainVars
<1>2. Channel' = Channel
  BY <1>1 DEF Channel
<1>3. /\ worker[c] = "fetch"
      /\ bulk[c].lo + fetched[c] < bulk[c].hi
      /\ worker' \in {worker, [worker EXCEPT ![c] = "failed"]}
      /\ fetched' \in {fetched, [fetched EXCEPT ![c] = @ + 1]}
  BY DEF Worker, Fetch, FetchFails
<1>4. TypeOK'
  <2>1. worker' \in [Channel -> {"unborn", "fetch", "failed", "done"}]
    BY <1>3 DEF Inv, TypeOK
  <2>2. fetched' \in [Channel -> Nat]
    <3>1. fetched \in [Channel -> Nat] /\ fetched[c] + 1 \in Nat
      BY DEF Inv, TypeOK
    <3>2. CASE fetched' = fetched
      BY <3>1, <3>2
    <3>3. CASE fetched' = [fetched EXCEPT ![c] = fetched[c] + 1]
      BY <3>1, <3>3
    <3> QED
      BY <1>3, <3>2, <3>3
  <2> QED
    BY <1>1, <1>2, <2>1, <2>2 DEF Inv, TypeOK
<1>5. Tiles'
  <2>1. \A d \in Channel : bulk[d].lo \in Nat /\ bulk[d].hi \in Nat
                           /\ fetched[d] \in Nat
    BY DEF Inv, TypeOK
  <2>2. SUFFICES ASSUME NEW d \in Channel, worker'[d] # "unborn"
                 PROVE  /\ bulk[d] = [lo |-> d * BulckSize, hi |-> Last(d)]
                        /\ bulk[d].lo + fetched'[d] <= bulk[d].hi
    BY <1>1, <1>2 DEF Tiles, Last
  <2>3. worker[d] # "unborn"
    BY <1>3, <2>2 DEF Inv, TypeOK
  <2>4. /\ bulk[d] = [lo |-> d * BulckSize, hi |-> Last(d)]
        /\ bulk[d].lo + fetched[d] <= bulk[d].hi
    BY <2>3 DEF Inv, Tiles
  <2>5. bulk[d].lo + fetched'[d] <= bulk[d].hi
    <3>1. fetched'[d] \in {fetched[d], IF d = c THEN fetched[d] + 1 ELSE fetched[d]}
      BY <1>3 DEF Inv, TypeOK
    <3> QED
      BY <1>3, <2>1, <2>4, <3>1
  <2> QED
    BY <2>4, <2>5
<1>6. Launching'
  BY <1>1, <1>2, <1>3 DEF Inv, Launching, TypeOK
<1>7. Collected' /\ Filed'
  BY <1>1, <1>2, <1>3 DEF Inv, Collected, Filed, Upto, Last, TypeOK
<1> QED
  BY <1>4, <1>5, <1>6, <1>7 DEF Inv

LEMMA StepInv == Inv /\ [Next]_vars => Inv'
<1> SUFFICES ASSUME Inv, [Next]_vars PROVE Inv'
  OBVIOUS
<1>1. CASE Main
  BY <1>1, MainStep, LaunchStep, CollectStep, WriteStep DEF Main
<1>2. CASE \E c \in Channel : Worker(c)
  BY <1>2, WorkerStep
<1>3. CASE UNCHANGED vars
  BY <1>3 DEF vars, mainVars, Inv, TypeOK, Tiles, Launching, Collected, Filed,
              Upto, Last, Channel
<1> QED
  BY <1>1, <1>2, <1>3 DEF Next

LEMMA Invariance == Spec => []Inv
BY InitInv, StepInv, PTL DEF Spec

-----------------------------------------------------------------------------
(* No index of the loop, of a slice or of the array of channels leaves its *)
(* range, whatever the number of work items.                               *)
THEOREM TypeCorrect == Spec => []TypeOK
<1>1. Inv => TypeOK
  BY DEF Inv
<1> QED
  BY <1>1, Invariance, PTL

(* AllWits is always a prefix of the query's result, and a download that   *)
(* returns without an error has written all but the last work item.        *)
THEOREM DownloadsInOrder == Spec => []InOrder
<1>1. Inv => InOrder
  <2> SUFFICES ASSUME Inv PROVE InOrder
    OBVIOUS
  <2>1. count \in Nat /\ ChannelsCount(count) \in Nat /\ j \in Nat
    BY ChannelsNat DEF Inv, TypeOK
  <2>2. Upto(j) \in Nat
    <3>1. CASE j = 0
      BY <3>1 DEF Upto
    <3>2. CASE j # 0
      <4>1. j - 1 \in Channel /\ j - 1 \in Nat
        BY <2>1, <3>2 DEF Inv, Collected, Channel
      <4>2. (j - 1) * BulckSize < count /\ (j - 1) * BulckSize \in Nat
        BY <4>1, ChannelIff, Multiple DEF Inv
      <4>3. count > 0
        BY <2>1, <4>2
      <4> QED
        BY <3>2, <4>1, <4>3, LastInRange DEF Inv, Upto
    <3> QED
      BY <3>1, <3>2
  <2>3. allWits = Prefix(Len(allWits))
    BY <2>2, PrefixType DEF Inv, Collected
  <2>4. ASSUME main = "ok" PROVE file = Prefix(count - 1)
    <3>1. file = allWits /\ j = ChannelsCount(count) /\ count > 0
      BY <2>4 DEF Inv, Filed, Launching
    <3>2. 0 \in Channel
      BY <2>1, <3>1, ChannelIff, BulckAssumption DEF Inv
    <3>3. j # 0 /\ j \notin Channel
      BY <2>1, <3>1, <3>2 DEF Channel
    <3>4. Upto(j) = count - 1
      BY <2>1, <3>3 DEF Upto, Last
    <3> QED
      BY <3>1, <3>4 DEF Inv, Collected
  <2> QED
    BY <2>3, <2>4 DEF InOrder
<1> QED
  BY <1>1, Invariance, PTL

(* A failed bulk means that no file is written: a part of the work items   *)
(* never passes for all of them.                                           *)
THEOREM NoPartOfTheItems == Spec => []NoPartialFile
<1>1. Inv => NoPartialFile
  BY ChannelsNat DEF Inv, NoPartialFile, Filed, Collected, Channel, TypeOK
<1> QED
  BY <1>1, Invariance, PTL

=============================================================================
