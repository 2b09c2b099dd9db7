---------------------------- MODULE WitDownload -----------------------------
(***************************************************************************)
(* DownloadAllWits of src/azure_devops_api/azure_devops_api.go: query the  *)
(* ids of all work items, fetch them in bulks of BulckSize, one goroutine  *)
(* and one unbuffered channel per bulk, collect the bulks in order and     *)
(* write them to a file.                                                   *)
(*                                                                         *)
(* A work item is its position in the result of the query, from 0.  Every  *)
(* HTTP request may fail.  A goroutine whose request failed returns its    *)
(* error to nobody and sends nothing.                                      *)
(***************************************************************************)
EXTENDS Integers, Sequences

CONSTANTS
  BulckSize,   \* 50
  MaxIds,      \* the length of the array allIDs, 20000
  MaxCount,    \* bound: results of the query
  Torn,        \* a file that is not all there
  None         \* no file

ASSUME BulckAssumption ==
  /\ BulckSize \in Nat \ {0}
  /\ MaxIds \in Nat
  /\ MaxCount \in Nat

VARIABLES
  count,    \* len(WitIds)
  main,     \* DownloadAllWits: query, launch, collect, or how it ended
  i,        \* its loop variable
  bulk,     \* what each goroutine was given: WitIds[lo:hi]
  worker,   \* GetWorkItemsBySlice: unborn, fetch, failed, done
  fetched,  \* len(retWorkItems)
  j,        \* the next channel to receive from
  allWits,  \* AllWits
  file      \* dstFilePath

mainVars == <<count, main, i, j, allWits, file>>
vars == <<mainVars, bulk, worker, fetched>>

(* Mutation: one channel more than full bulks, whatever remains.           *)
ChannelsOneMore(n) == n \div BulckSize + 1

(* channelsCount for n work items *)
ChannelsCount(n) ==
  LET full == n \div BulckSize
  IN  IF BulckSize * full < n THEN full + 1 ELSE full

Channel == 0..(ChannelsCount(count) - 1)

(* Mutation: the end of the last bulk is not clamped; the slice's capacity *)
(* is that of the array, so Go would not notice.                           *)
EndIndexUnclamped(start, n) == start + BulckSize

(* The loop's endIndex.  The last bulk stops one short of its end.         *)
EndIndex(start, n) ==
  IF start + BulckSize >= n THEN n - 1 ELSE start + BulckSize

Init ==
  /\ count \in 0..MaxCount
  /\ main = "query"
  /\ i = 0
  /\ bulk = [c \in Channel |-> [lo |-> 0, hi |-> 0]]
  /\ worker = [c \in Channel |-> "unborn"]
  /\ fetched = [c \in Channel |-> 0]
  /\ j = 0
  /\ allWits = <<>>
  /\ file = None

-----------------------------------------------------------------------------
(* getWorkItemIDs: an empty result is an error, one longer than the array  *)
(* a panic.                                                                *)
Query ==
  /\ main = "query"
  /\ main' = CASE count = 0 -> "error"
               [] count > MaxIds -> "panic"
               [] OTHER -> "launch"
  /\ UNCHANGED <<count, i, bulk, worker, fetched, j, allWits, file>>

QueryFails ==
  /\ main = "query"
  /\ main' = "error"
  /\ UNCHANGED <<count, i, bulk, worker, fetched, j, allWits, file>>

(* go GetWorkItemsBySlice(config, ctx, WitIds[i:endIndex], channels[c])    *)
Launch ==
  LET c == i \div BulckSize
  IN  /\ main = "launch"
      /\ i < count
      /\ bulk' = [bulk EXCEPT ![c] = [lo |-> i, hi |-> EndIndex(i, count)]]
      /\ worker' = [worker EXCEPT ![c] = "fetch"]
      /\ i' = i + BulckSize
      /\ UNCHANGED <<count, main, fetched, j, allWits, file>>

Launched ==
  /\ main = "launch"
  /\ i >= count
  /\ main' = "collect"
  /\ UNCHANGED <<count, i, bulk, worker, fetched, j, allWits, file>>

(* Mutation: whichever bulk is ready is received.                          *)
CollectAny ==
  /\ main = "collect"
  /\ \E c \in Channel :
       /\ worker[c] = "fetch"
       /\ bulk[c].lo + fetched[c] = bulk[c].hi
       /\ allWits' = allWits \o [k \in 1..fetched[c] |-> bulk[c].lo + k - 1]
       /\ worker' = [worker EXCEPT ![c] = "done"]
  /\ j' = j + 1
  /\ UNCHANGED <<count, main, i, bulk, fetched, file>>

(* Mutation: a failed goroutine closes its channel, and nil is skipped.    *)
CollectSkips ==
  /\ main = "collect"
  /\ j \in Channel
  /\ \/ worker[j] = "failed" /\ UNCHANGED <<allWits, worker>>
     \/ /\ worker[j] = "fetch"
        /\ bulk[j].lo + fetched[j] = bulk[j].hi
        /\ allWits' = allWits \o [k \in 1..fetched[j] |-> bulk[j].lo + k - 1]
        /\ worker' = [worker EXCEPT ![j] = "done"]
  /\ j' = j + 1
  /\ UNCHANGED <<count, main, i, bulk, fetched, file>>

(* <-ch meets ch <- &retWorkItems of a goroutine that has fetched all.     *)
Collect ==
  /\ main = "collect"
  /\ j \in Channel
  /\ worker[j] = "fetch"
  /\ bulk[j].lo + fetched[j] = bulk[j].hi
  /\ allWits' = allWits \o [k \in 1..fetched[j] |-> bulk[j].lo + k - 1]
  /\ worker' = [worker EXCEPT ![j] = "done"]
  /\ j' = j + 1
  /\ UNCHANGED <<count, main, i, bulk, fetched, file>>

(* CacheToFile(&AllWits, dstFilePath)                                      *)
Write ==
  /\ main = "collect"
  /\ j \notin Channel
  /\ \/ main' = "ok" /\ file' = allWits
     \/ main' = "error" /\ file' \in {file, Torn}
  /\ UNCHANGED <<count, i, bulk, worker, fetched, j, allWits>>

(* One request of GetWorkItemsBySlice.                                     *)
Fetch(c) ==
  /\ worker[c] = "fetch"
  /\ bulk[c].lo + fetched[c] < bulk[c].hi
  /\ fetched' = [fetched EXCEPT ![c] = @ + 1]
  /\ UNCHANGED <<mainVars, bulk, worker>>

FetchFails(c) ==
  /\ worker[c] = "fetch"
  /\ bulk[c].lo + fetched[c] < bulk[c].hi
  /\ worker' = [worker EXCEPT ![c] = "failed"]
  /\ UNCHANGED <<mainVars, bulk, fetched>>

-----------------------------------------------------------------------------
Main == Query \/ QueryFails \/ Launch \/ Launched \/ Collect \/ Write

Worker(c) == Fetch(c) \/ FetchFails(c)

Ended == main \in {"ok", "error", "panic"}

Next == Main \/ \E c \in Channel : Worker(c)

(* A goroutine that can run does.                                          *)
Fairness ==
  /\ WF_vars(Main)
  /\ \A c \in 0..MaxCount : WF_vars(c \in Channel /\ Worker(c))

Spec == Init /\ [][Next]_vars

FairSpec == Spec /\ Fairness

-----------------------------------------------------------------------------
(* Type invariant of the download.                                         *)
TypeOK ==
  /\ count \in 0..MaxCount
  /\ main \in {"query", "launch", "collect", "ok", "error", "panic"}
  /\ i \in Nat
  /\ bulk \in [Channel -> [lo : 0..count, hi : 0..count]]
  /\ worker \in [Channel -> {"unborn", "fetch", "failed", "done"}]
  /\ fetched \in [Channel -> Nat]
  /\ j \in Nat
  /\ allWits \in Seq(Nat)
  /\ file \in Seq(Nat) \cup {None, Torn}

(* Whatever the order the bulks are fetched in, the work items come out in *)
(* the order of the query, none twice, and the file of a download that     *)
(* returns without an error holds all of them but the last.                *)
Prefix(n) == [k \in 1..n |-> k - 1]

InOrder ==
  /\ allWits = Prefix(Len(allWits))
  /\ main = "ok" => file = Prefix(count - 1)

(* A file is only written when no bulk failed: the download never passes   *)
(* off a part of the work items as all of them.                            *)
NoPartialFile ==
  file # None => \A c \in Channel : worker[c] = "done"

(* DownloadAllWits returns, or a bulk failed and it waits on that bulk's   *)
(* channel for ever.                                                       *)
Returns ==
  <>(Ended \/ \E c \in Channel : worker[c] = "failed")

(* All work items are downloaded, as the names of the function and of its  *)
(* test say.  They are not: the last one never is.                         *)
AllDownloaded ==
  main = "ok" => Len(file) = count

=============================================================================
