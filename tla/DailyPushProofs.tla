--------------------------- MODULE DailyPushProofs ---------------------------
(***************************************************************************)
(* Proofs about DailyPush, for any tasks and stories, any hours and any    *)
(* number of edits by the user and of changes by others.                   *)
(***************************************************************************)
EXTENDS DailyPush, WellFoundedInduction, TLAPS

(***************************************************************************)
(* The inductive invariant.                                                *)
(***************************************************************************)
Fetching == pc \in {"download", "generate", "copy"}
Pushing == pc \in {"push", "get", "patch", "comment"}

(* FetchDaily runs before there is an input file, and downloads before     *)
(* there is a cache.  What PushDaily does is said by the entries of the    *)
(* input, which does not change until it is over.                          *)
Stages ==
  /\ Fetching => input = None
  /\ pc = "download" => cache = None
  /\ Pushing => todo \subseteq DOMAIN Entries(input)
  /\ pc \in {"get", "patch", "comment"} => cur \in Item

(* Hours are counted from the work items as they are cached.               *)
CountedFromCache ==
  /\ cache = None => \A x \in Item : remote[x].invested = 0
  /\ IsFile(cache) => \A x \in Item : cache[x].invested = 0

(* An item that was commented on since its line was edited is as the line  *)
(* says; one that is about to be patched or commented on was not yet.      *)
Told(x) ==
  /\ told[x] > 0 => IsFile(input) /\ x \in DOMAIN Entries(input) /\ remote[x] = Merged(x)
  /\ pc = "patch" /\ cur = x => told[x] = 0 /\ snap = remote[x]
  /\ pc = "comment" /\ cur = x => told[x] = 0 /\ remote[x] = Merged(x)

(* Lines that the user has not edited are those of the report, and when    *)
(* one is there so are those of the sections before its own.               *)
Copied ==
  IsFile(input) =>
    /\ \A l \in DOMAIN input \ edited : l \in DOMAIN report /\ input[l] = report[l]
    /\ \A l \in DOMAIN input \ edited, k \in DOMAIN report \ edited :
         report[k].status < report[l].status => k \in DOMAIN input

Typed == TypeOK /\ Stages /\ CountedFromCache
ToldOnce == CommentOnce /\ \A x \in Item \ disturbed : Told(x)
SentOnly == Copied /\ SendsOnlyEdits

Inv == Typed /\ CountsOnce /\ ToldOnce /\ SentOnly

(***************************************************************************)
(* What the entries of a report are.                                       *)
(***************************************************************************)

(* A nonempty set of natural numbers has a least element.                  *)
LEMMA MinIsLeast ==
  ASSUME NEW S \in SUBSET Nat, S # {}
  PROVE  Min(S) \in S /\ \A y \in S : Min(S) <= y
<1>1. PICK x \in S : \A y \in S : ~ (<<y, x>> \in OpToRel(<, Nat))
  BY NatLessThanWellFounded, WFMin
<1>2. ASSUME NEW y \in S PROVE x <= y
  <2>1. <<y, x>> \in Nat \X Nat /\ <<y, x>>[1] = y /\ <<y, x>>[2] = x
    OBVIOUS
  <2>2. ~ (y < x)
    BY <1>1, <2>1 DEF OpToRel
  <2> QED
    BY <2>2
<1> QED
  BY <1>2 DEF Min

LEMMA Constants ==
  /\ MaxHours \in Nat /\ Closed \in Nat \ {0}
  /\ Status \subseteq Nat /\ Hours \subseteq Nat /\ 0 \in Hours /\ Keep \notin Hours
  /\ Item \subseteq Line /\ NewTask \in Line /\ NewTask \notin Item
  /\ \A x \in Item : x \in Task \/ x \in Story
  /\ \A x \in Line : x \notin Story => x \in Task \cup {NewTask}
BY DailyPushAssumption DEF Status, Hours, Keep, Item, Line

(* The section of a story is the one of a line under it.                   *)
LEMMA SectionOfLines ==
  ASSUME NEW f, IsReport(f), NEW s \in Story, LinesUnder(f, s) # {}
  PROVE  LET S == {f[l].status : l \in LinesUnder(f, s)}
         IN  Section(S) \in S /\ (\A y \in S : Section(S) <= y) /\ S \subseteq Status
<1> DEFINE S == {f[l].status : l \in LinesUnder(f, s)}
<1>1. S \subseteq Status /\ S # {}
  BY DEF IsReport, LinesUnder, Entry
<1>2. S \in SUBSET Nat
  BY <1>1, Constants
<1> HIDE DEF S
<1>3. Section(S) \in S /\ \A y \in S : Section(S) <= y
  BY <1>1, <1>2, MinIsLeast DEF Section
<1> QED
  BY <1>1, <1>3 DEF S

LEMMA BlankIsEntry == \A s \in Status : Blank(s) \in Entry
BY DEF Blank, Entry

LEMMA EntriesOfReport ==
  ASSUME NEW f, IsReport(f)
  PROVE  /\ DOMAIN Entries(f) = (DOMAIN f \ Story) \cup {s \in Story : LinesUnder(f, s) # {}}
         /\ DOMAIN Entries(f) \subseteq Line
         /\ \A x \in DOMAIN Entries(f) \ Story : x \in DOMAIN f /\ Entries(f)[x] = f[x]
         /\ \A s \in Story : s \in DOMAIN Entries(f) =>
              /\ LinesUnder(f, s) # {}
              /\ Entries(f)[s] = Blank(Section({f[l].status : l \in LinesUnder(f, s)}))
         /\ \A x \in DOMAIN Entries(f) : Entries(f)[x] \in Entry
<1>1. DOMAIN Entries(f) = (DOMAIN f \ Story) \cup {s \in Story : LinesUnder(f, s) # {}}
  BY DEF Entries
<1>2. \A x \in DOMAIN Entries(f) \ Story : x \in DOMAIN f /\ Entries(f)[x] = f[x]
  BY DEF Entries
<1>3. \A s \in Story : s \in DOMAIN Entries(f) =>
        /\ LinesUnder(f, s) # {}
        /\ Entries(f)[s] = Blank(Section({f[l].status : l \in LinesUnder(f, s)}))
  BY DEF Entries
<1>4. ASSUME NEW x \in DOMAIN Entries(f)
      PROVE  Entries(f)[x] \in Entry
  <2>1. CASE x \notin Story
    BY <1>2, <2>1 DEF IsReport
  <2>2. CASE x \in Story
    <3>1. Section({f[l].status : l \in LinesUnder(f, x)}) \in Status
      BY <1>3, <2>2, SectionOfLines
    <3> QED
      BY <1>3, <2>2, <3>1, BlankIsEntry
  <2> QED
    BY <2>1, <2>2
<1>5. DOMAIN Entries(f) \subseteq Line
  BY <1>1, Constants DEF IsReport, Item
<1> QED
  BY <1>1, <1>2, <1>3, <1>4, <1>5

(* What is sent for a work item is a work item, whose hours are those of   *)
(* one line.                                                               *)
LEMMA MergedIsTyped ==
  ASSUME TypeOK, CountedFromCache, IsFile(cache), IsFile(input),
         NEW x \in Item, x \in DOMAIN Entries(input)
  PROVE  Merged(x) \in Remote /\ Merged(x).invested \in Hours
<1>1. /\ cache[x] \in Remote /\ cache[x].invested = 0
      /\ Entries(input)[x] \in Entry
  BY EntriesOfReport DEF TypeOK, CountedFromCache
<1> DEFINE e == Entries(input)[x]
           c == cache[x]
<1>2. /\ e.status \in Status /\ e.left \in Hours \cup {Keep} /\ e.given \in Hours \cup {Keep}
  BY <1>1 DEF Entry
<1>3. /\ c.left \in Hours /\ c.invested = 0
  BY <1>1 DEF Remote
<1>4. Merged(x) = [status |-> e.status,
                   left |-> IF e.left = Keep THEN c.left ELSE e.left,
                   invested |-> IF e.given = Keep THEN c.invested ELSE c.invested + e.given]
  BY DEF Merged, Invested
<1> HIDE DEF e, c
<1>5. /\ Merged(x).status \in Status
      /\ Merged(x).left \in Hours
      /\ Merged(x).invested \in Hours
  <2>1. /\ Merged(x).status = e.status
        /\ Merged(x).left = IF e.left = Keep THEN c.left ELSE e.left
        /\ Merged(x).invested = IF e.given = Keep THEN c.invested ELSE c.invested + e.given
    BY <1>4
  <2>2. 0 \in Hours /\ \A h \in Hours : 0 + h = h
    BY Constants
  <2> QED
    BY <1>2, <1>3, <2>1, <2>2
<1>6. Hours \subseteq 0..2 * MaxHours
  BY Constants DEF Hours
<1> QED
  BY <1>4, <1>5, <1>6 DEF Remote

(* A patch makes the item what is sent, when it is still what was read.    *)
LEMMA PatchedIsTyped ==
  ASSUME TypeOK, CountedFromCache, IsFile(cache), IsFile(input),
         cur \in Item, cur \in DOMAIN Entries(input), snap \in Remote
  PROVE  /\ Patched \in [Item -> Remote]
         /\ \A x \in Item \ {cur} : Patched[x] = remote[x]
         /\ Patched[cur].invested \in Hours \cup {remote[cur].invested}
         /\ snap = remote[cur] => Patched[cur] = Merged(cur)
<1> DEFINE m == Merged(cur)
           r == remote[cur]
           p == [k \in DOMAIN r |-> IF m[k] # snap[k] THEN m[k] ELSE r[k]]
<1>1. r \in Remote /\ m \in Remote /\ m.invested \in Hours
  BY MergedIsTyped DEF TypeOK
<1>2. Patched = [remote EXCEPT ![cur] = p]
  BY DEF Patched
<1>3. remote \in [Item -> Remote]
  BY DEF TypeOK
<1> HIDE DEF m, r
<1>4. /\ DOMAIN r = {"status", "left", "invested"}
      /\ DOMAIN m = {"status", "left", "invested"}
  BY <1>1 DEF Remote
<1>5. /\ p.status \in {m.status, r.status} /\ p.left \in {m.left, r.left}
      /\ p.invested \in {m.invested, r.invested}
      /\ p = [status |-> p.status, left |-> p.left, invested |-> p.invested]
  BY <1>4
<1>6. p \in Remote
  BY <1>1, <1>5 DEF Remote
<1>7. snap = r => p = m
  <2> SUFFICES ASSUME snap = r PROVE p = m
    OBVIOUS
  <2>1. m = [k \in {"status", "left", "invested"} |-> m[k]]
    BY <1>1, <1>4 DEF Remote
  <2>2. p = [k \in {"status", "left", "invested"} |-> m[k]]
    BY <1>4
  <2> QED
    BY <2>1, <2>2
<1> HIDE DEF p
<1>8. Patched \in [Item -> Remote] /\ Patched[cur] = p /\ \A x \in Item \ {cur} : Patched[x] = remote[x]
  BY <1>2, <1>3, <1>6
<1> QED
  BY <1>1, <1>5, <1>7, <1>8 DEF m, r

(***************************************************************************)
(* Every step keeps the types and the stages.                              *)
(***************************************************************************)
LEMMA SameSent ==
  ASSUME UNCHANGED <<cache, input>>
  PROVE  \A x \in Item : Merged(x)' = Merged(x)
BY DEF Merged, Invested

LEMMA TypedInit == Init => Typed
<1> SUFFICES ASSUME Init PROVE Typed
  OBVIOUS
<1>1. TypeOK
  <2>1. remote \in [Item -> Remote]
    <3>1. MaxHours \in Hours /\ 0 \in 0..2 * MaxHours
      BY Constants DEF Hours
    <3> QED
      BY <3>1 DEF Init, Remote
  <2> QED
    BY <2>1 DEF Init, TypeOK, IsFile
<1>2. Stages
  BY DEF Init, Stages, Fetching, Pushing
<1>3. CountedFromCache
  BY DEF Init, CountedFromCache, IsFile
<1> QED
  BY <1>1, <1>2, <1>3 DEF Typed

(* Where nothing is written, an entry is dropped from those to send, or    *)
(* all of them are.                                                        *)
LEMMA TypedStays ==
  ASSUME Typed, UNCHANGED <<remote, cache, report, input>>,
         pc' \in {"idle", "download", "generate", "push", "get", "patch", "comment"},
         told' \in [Item -> Nat],
         Fetching' => input = None,
         pc' = "download" => cache = None,
         todo' \subseteq Line,
         Pushing' => /\ IsFile(input) /\ IsFile(cache) /\ todo' \subseteq DOMAIN Entries(input),
         pc' \in {"get", "patch", "comment"} => cur' \in todo' /\ cur' \in Item,
         pc' = "patch" => snap' \in Remote
  PROVE  Typed'
<1>1. TypeOK'
  <2>1. Pushing' => DOMAIN cache = Item /\ todo' \ {NewTask} \subseteq Item
    <3> SUFFICES ASSUME Pushing' PROVE DOMAIN cache = Item /\ todo' \ {NewTask} \subseteq Item
      OBVIOUS
    <3>1. cache \in [Item -> Remote]
      BY DEF Typed, TypeOK
    <3>2. todo' \ {NewTask} \subseteq Item
      BY DEF Line
    <3> QED
      BY <3>1, <3>2
  <2> QED
    BY <2>1 DEF Typed, TypeOK, Pushing
<1>2. Stages'
  BY DEF Stages, Fetching, Pushing
<1>3. CountedFromCache'
  BY DEF Typed, CountedFromCache
<1> QED
  BY <1>1, <1>2, <1>3 DEF Typed

LEMMA PushLooksUp ==
  ASSUME Typed, Pushing
  PROVE  /\ IsFile(input) /\ IsFile(report) /\ IsFile(cache)
         /\ IsReport(input) /\ IsReport(report) /\ cache \in [Item -> Remote]
         /\ todo \subseteq Line /\ todo \subseteq DOMAIN Entries(input)
         /\ pc \in {"get", "patch", "comment"} => cur \in todo /\ cur \in Item
         /\ pc = "patch" => snap \in Remote
         /\ ~Fetching
BY DEF Typed, TypeOK, Stages, Pushing, Fetching

LEMMA TypedNext == Typed /\ [Next]_vars => Typed'
<1> SUFFICES ASSUME Typed, [Next]_vars PROVE Typed'
  OBVIOUS
<1>1. /\ told \in [Item -> Nat] /\ todo \subseteq Line /\ remote \in [Item -> Remote]
      /\ pc \in {"idle", "download", "generate", "copy", "push", "get", "patch", "comment"}
  BY DEF Typed, TypeOK
<1>2. CASE UNCHANGED vars
  <2>1. TypeOK'
    BY <1>2 DEF vars, files, user, env, Typed, TypeOK
  <2>2. Stages' /\ CountedFromCache'
    BY <1>2 DEF vars, files, user, env, Typed, Stages, CountedFromCache, Fetching, Pushing
  <2> QED
    BY <2>1, <2>2 DEF Typed
<1>3. CASE Fetch \/ GenerateError \/ Crash
  <2>1. /\ UNCHANGED <<remote, cache, report, input, told>>
        /\ pc' \in {"idle", "download", "generate"} /\ todo' \subseteq Line
        /\ Fetching' => input = None
        /\ pc' = "download" => cache = None
    BY <1>1, <1>3 DEF Fetch, GenerateError, Crash, files, Fetching
  <2> QED
    BY <1>1, <2>1, TypedStays DEF Pushing
<1>4. CASE Download
  <2>1. /\ pc = "download" /\ cache = None /\ cache' = remote /\ pc' = "generate"
        /\ input = None /\ UNCHANGED <<remote, report, input, todo, cur, snap, told>>
        /\ \A x \in Item : remote[x].invested = 0
    BY <1>4 DEF Download, Typed, Stages, CountedFromCache, Fetching
  <2>2. ~IsFile(report) /\ ~IsFile(input)
    BY <2>1 DEF Typed, TypeOK, IsFile
  <2>3. TypeOK'
    BY <1>1, <2>1, <2>2 DEF TypeOK, IsFile
  <2>4. Stages' /\ CountedFromCache'
    BY <2>1 DEF Stages, Fetching, Pushing, CountedFromCache
  <2> QED
    BY <2>3, <2>4 DEF Typed
<1>5. CASE DownloadTorn
  <2>1. /\ pc = "download" /\ cache = None /\ cache' = Torn /\ pc' = "idle"
        /\ input = None /\ UNCHANGED <<remote, report, input, todo, cur, snap, told>>
        /\ \A x \in Item : remote[x].invested = 0
    BY <1>5 DEF DownloadTorn, Typed, Stages, CountedFromCache, Fetching
  <2>2. ~IsFile(report) /\ ~IsFile(input) /\ ~IsFile(cache')
    BY <2>1 DEF Typed, TypeOK, IsFile
  <2>3. TypeOK'
    BY <1>1, <2>1, <2>2 DEF TypeOK, IsFile
  <2>4. Stages' /\ CountedFromCache'
    BY <2>1, <2>2 DEF Stages, Fetching, Pushing, CountedFromCache, IsFile
  <2> QED
    BY <2>3, <2>4 DEF Typed
<1>6. CASE Generate
  <2>1. /\ pc = "generate" /\ IsFile(cache) /\ pc' = "copy" /\ input = None
        /\ UNCHANGED <<remote, cache, input, todo, cur, snap, told>>
    BY <1>6 DEF Generate, Typed, Stages, Fetching
  <2>2. IsFile(report') => IsReport(report')
    <3> SUFFICES ASSUME IsFile(report') PROVE IsReport(report')
      OBVIOUS
    <3>1. PICK own \in OwnLines : \E S \in SUBSET (Task \union own) :
            report' = [l \in S |-> Blank(cache[l].status)]
      BY <1>6 DEF Generate, IsFile
    <3>2. PICK S \in SUBSET Item : report' = [l \in S |-> Blank(cache[l].status)]
      BY <3>1 DEF OwnLines, Item
    <3>3. \A l \in Item : cache[l].status \in Status
      BY <2>1 DEF Typed, TypeOK, Remote
    <3> QED
      BY <3>2, <3>3, BlankIsEntry, Constants DEF IsReport
  <2>3. TypeOK'
    BY <1>1, <2>1, <2>2 DEF Typed, TypeOK, IsFile
  <2>4. Stages' /\ CountedFromCache'
    BY <2>1 DEF Typed, Stages, Fetching, Pushing, CountedFromCache
  <2> QED
    BY <2>3, <2>4 DEF Typed
<1>7. CASE Copy
  <2>1. /\ pc' = "idle" /\ UNCHANGED <<remote, cache, report, todo, cur, snap, told>>
    BY <1>7 DEF Copy
  <2>2. IsFile(input') => IsReport(input') /\ IsFile(report)
    <3> SUFFICES ASSUME IsFile(input') PROVE IsReport(input') /\ IsFile(report)
      OBVIOUS
    <3>1. IsFile(report) /\ \E S \in Beginnings(report) : input' = Restrict(report, S)
      BY <1>7 DEF Copy, IsFile
    <3>2. IsReport(report)
      BY <3>1 DEF Typed, TypeOK
    <3> QED
      BY <3>1, <3>2 DEF Beginnings, Restrict, IsReport
  <2>3. TypeOK'
    BY <1>1, <2>1, <2>2 DEF Typed, TypeOK
  <2>4. Stages' /\ CountedFromCache'
    BY <2>1 DEF Typed, Stages, Fetching, Pushing, CountedFromCache
  <2> QED
    BY <2>3, <2>4 DEF Typed
<1>8. CASE Push
  <2>1. /\ IsFile(report) /\ IsFile(input) /\ IsFile(cache) /\ pc' = "push"
        /\ todo' = Changed(Entries(report), Entries(input))
        /\ UNCHANGED <<remote, cache, report, input, cur, snap, told>>
    BY <1>8 DEF Push, files
  <2>2. IsReport(input)
    BY <2>1 DEF Typed, TypeOK
  <2>3. todo' \subseteq DOMAIN Entries(input) /\ todo' \subseteq Line
    BY <2>1, <2>2, EntriesOfReport DEF Changed
  <2> QED
    BY <1>1, <2>1, <2>3, TypedStays DEF Fetching
<1>9. CASE (\E x \in Item : Take(x)) \/ TakeNew \/ Return
  <2>1. /\ pc = "push" /\ UNCHANGED <<remote, cache, report, input, told>>
        /\ pc' \in {"idle", "get"} /\ todo' \subseteq todo
        /\ pc' = "get" => cur' \in todo' /\ cur' \in Item
    BY <1>9 DEF Take, TakeNew, Return, files
  <2>2. IsFile(input) /\ IsFile(cache) /\ todo \subseteq DOMAIN Entries(input)
    BY <2>1, PushLooksUp DEF Pushing
  <2>3. ~Fetching'
    BY <2>1 DEF Fetching
  <2> QED
    BY <1>1, <2>1, <2>2, <2>3, TypedStays
<1>10. CASE Get
  <2>1. /\ pc = "get" /\ UNCHANGED <<remote, cache, report, input, told>>
        /\ \/ snap' = remote[cur] /\ pc' = "patch" /\ UNCHANGED <<todo, cur>>
           \/ pc' = "push" /\ todo' = todo \ {cur}
    BY <1>10 DEF Get, NextEntry, files
  <2>2. /\ IsFile(input) /\ IsFile(cache) /\ todo \subseteq DOMAIN Entries(input)
        /\ cur \in todo /\ cur \in Item
    BY <2>1, PushLooksUp DEF Pushing
  <2>3. remote[cur] \in Remote /\ ~Fetching'
    BY <1>1, <2>1, <2>2 DEF Fetching
  <2> QED
    BY <1>1, <2>1, <2>2, <2>3, TypedStays
<1>11. CASE Patch \/ (pc = "patch" /\ RequestFails)
  <2>1. /\ pc = "patch" /\ UNCHANGED <<cache, report, input, told>>
        /\ remote' \in {remote, Patched}
        /\ \/ pc' = "comment" /\ UNCHANGED <<todo, cur>>
           \/ pc' = "push" /\ todo' = todo \ {cur}
    BY <1>11 DEF Patch, RequestFails, NextEntry, files
  <2>2. /\ IsFile(input) /\ IsFile(cache) /\ todo \subseteq DOMAIN Entries(input)
        /\ cur \in todo /\ cur \in Item /\ snap \in Remote
    BY <2>1, PushLooksUp DEF Pushing
  <2>3. remote' \in [Item -> Remote]
    BY <1>1, <2>1, <2>2, PatchedIsTyped DEF Typed
  <2>4. TypeOK'
    BY <1>1, <2>1, <2>2, <2>3 DEF Typed, TypeOK
  <2>5. Stages' /\ CountedFromCache'
    BY <2>1, <2>2 DEF Typed, Stages, Fetching, Pushing, CountedFromCache, IsFile
  <2> QED
    BY <2>4, <2>5 DEF Typed
<1>12. CASE Comment \/ (pc \in {"get", "comment"} /\ RequestFails)
  <2>1. /\ pc \in {"get", "comment"} /\ UNCHANGED <<remote, cache, report, input>>
        /\ pc' = "push" /\ todo' = todo \ {cur}
    BY <1>12 DEF Comment, RequestFails, NextEntry, files
  <2>2. \/ UNCHANGED told
        \/ \E n \in {0, 1} : told' = [told EXCEPT ![cur] = @ + n]
    BY <1>12 DEF Comment, RequestFails
  <2>3. IsFile(input) /\ IsFile(cache) /\ todo \subseteq DOMAIN Entries(input) /\ cur \in Item
    BY <2>1, PushLooksUp DEF Pushing
  <2>4. told' \in [Item -> Nat]
    BY <1>1, <2>2, <2>3
  <2>5. ~Fetching'
    BY <2>1 DEF Fetching
  <2> QED
    BY <1>1, <2>1, <2>3, <2>4, <2>5, TypedStays
<1>13. CASE \E l \in Line : Edit(l)
  <2>1. PICK l \in Line : Edit(l)
    BY <1>13
  <2>2. /\ pc = "idle" /\ IsFile(input) /\ IsReport(input) /\ IsFile(report)
        /\ UNCHANGED <<pc, remote, cache, report, todo, cur, snap>>
        /\ told' = [x \in Item |-> IF x \in Behind(l) THEN 0 ELSE told[x]]
    BY <2>1 DEF Edit, Typed, TypeOK
  <2>3. IsReport(input')
    BY <2>1, <2>2 DEF Edit, IsReport, Restrict
  <2>4. told' \in [Item -> Nat]
    BY <1>1, <2>2
  <2>5. TypeOK'
    BY <2>2, <2>3, <2>4 DEF Typed, TypeOK
  <2>6. Stages' /\ CountedFromCache'
    BY <2>2 DEF Typed, Stages, Fetching, Pushing, CountedFromCache
  <2> QED
    BY <2>5, <2>6 DEF Typed
<1>14. CASE \E x \in Item : OthersEdit(x)
  <2>1. PICK x \in Item, r \in [status : Status, left : Hours, invested : Hours] :
          remote' = [remote EXCEPT ![x] = r]
    BY <1>14 DEF OthersEdit
  <2>2. cache # None /\ UNCHANGED <<pc, cache, report, input, todo, cur, snap, told>>
    BY <1>14 DEF OthersEdit, files
  <2>3. Hours \subseteq 0..2 * MaxHours
    BY Constants DEF Hours
  <2>4. r \in Remote
    BY <2>3 DEF Remote
  <2>5. remote' \in [Item -> Remote]
    BY <1>1, <2>1, <2>4
  <2>6. TypeOK'
    BY <2>2, <2>5 DEF Typed, TypeOK
  <2>7. Stages' /\ CountedFromCache'
    BY <2>2 DEF Typed, Stages, Fetching, Pushing, CountedFromCache
  <2> QED
    BY <2>6, <2>7 DEF Typed
<1>15. RequestFails => pc \in {"get", "patch", "comment"}
  BY DEF RequestFails
<1> QED
  BY <1>2, <1>3, <1>4, <1>5, <1>6, <1>7, <1>8, <1>9, <1>10, <1>11, <1>12, <1>13, <1>14, <1>15
  DEF Next, FetchDaily, PushDaily, Environment

(* No action but these writes to Azure DevOps or to the cache.             *)
LEMMA Writers ==
  ASSUME Typed, [Next]_vars
  PROVE  \/ UNCHANGED <<remote, cache, disturbed>>
         \/ Download \/ DownloadTorn
         \/ /\ pc = "patch" /\ pc' \in {"comment", "push"} /\ remote' \in {remote, Patched}
            /\ UNCHANGED <<cache, input, told, disturbed>>
            /\ pc' = "comment" => remote' = Patched /\ cur' = cur
            /\ pc' = "push" => cur' = None
         \/ \E x \in Item : OthersEdit(x)
<1> USE DEF files, user, env
<1>1. CASE UNCHANGED vars
  BY <1>1 DEF vars
<1>2. CASE Fetch \/ Generate \/ GenerateError \/ Copy \/ Crash
  BY <1>2 DEF Fetch, Generate, GenerateError, Copy, Crash
<1>3. CASE Push \/ TakeNew \/ Return \/ Get \/ Comment \/ \E x \in Item : Take(x)
  BY <1>3 DEF Push, TakeNew, Return, Get, Comment, Take
<1>4. CASE Patch
  BY <1>4 DEF Patch
<1>5. CASE RequestFails
  BY <1>5 DEF RequestFails, NextEntry
<1>6. CASE \E l \in Line : Edit(l)
  BY <1>6 DEF Edit
<1> QED
  BY <1>1, <1>2, <1>3, <1>4, <1>5, <1>6 DEF Next, FetchDaily, PushDaily, Environment

LEMMA DownloadsAreFresh ==
  ASSUME Typed, Download \/ DownloadTorn
  PROVE  /\ cache = None /\ input = None /\ cache' \in {remote, Torn}
         /\ UNCHANGED <<remote, report, input, told, edited, disturbed, todo>>
         /\ pc' \in {"generate", "idle"}
BY DEF Typed, Stages, Fetching, Download, DownloadTorn, files, user, env

(***************************************************************************)
(* The hours of a line are counted once.                                   *)
(***************************************************************************)
LEMMA CountsNext == Typed /\ CountsOnce /\ [Next]_vars => CountsOnce'
<1> SUFFICES ASSUME Typed, CountsOnce, [Next]_vars PROVE CountsOnce'
  OBVIOUS
<1> USE DEF CountsOnce
<1>1. CASE UNCHANGED <<remote, cache, disturbed>>
  BY <1>1
<1>2. CASE Download \/ DownloadTorn
  <2> SUFFICES ASSUME IsFile(cache'), NEW x \in Item
               PROVE  remote'[x].invested - cache'[x].invested \in Hours
    OBVIOUS
  <2>1. cache' = remote /\ remote' = remote /\ remote[x].invested = 0
    BY <1>2, DownloadsAreFresh DEF Typed, CountedFromCache, IsFile
  <2> QED
    BY <2>1, Constants
<1>3. CASE /\ pc = "patch" /\ remote' \in {remote, Patched}
           /\ UNCHANGED <<cache, input, told, disturbed>>
  <2> SUFFICES ASSUME NEW x \in Item \ disturbed
               PROVE  remote'[x].invested - cache[x].invested \in Hours
    BY <1>3
  <2>1. /\ IsFile(cache) /\ IsFile(input) /\ cur \in Item /\ cur \in DOMAIN Entries(input)
        /\ snap \in Remote
    BY <1>3, PushLooksUp DEF Pushing
  <2>2. remote[x].invested - cache[x].invested \in Hours /\ cache[x].invested = 0
    BY <2>1 DEF Typed, CountedFromCache
  <2>3. /\ \A y \in Item \ {cur} : Patched[y] = remote[y]
        /\ Patched[cur].invested \in Hours \cup {remote[cur].invested}
    BY <2>1, PatchedIsTyped DEF Typed
  <2>4. remote'[x].invested = remote[x].invested \/ remote'[x].invested \in Hours
    BY <1>3, <2>3
  <2>5. \A h \in Hours : h - 0 = h
    BY Constants
  <2> QED
    BY <2>2, <2>4, <2>5
<1>4. CASE \E x \in Item : OthersEdit(x)
  <2>1. PICK x \in Item : OthersEdit(x)
    BY <1>4
  <2>2. /\ cache' = cache /\ disturbed' = disturbed \cup {x}
        /\ \A y \in Item \ {x} : remote'[y] = remote[y]
    BY <2>1 DEF OthersEdit, files, Typed, TypeOK
  <2> QED
    BY <2>2
<1> QED
  BY <1>1, <1>2, <1>3, <1>4, Writers

LEMMA CountsInit == Init => CountsOnce
BY DEF Init, CountsOnce, IsFile

(***************************************************************************)
(* A comment is added once.                                                *)
(***************************************************************************)

(* An edit of a line changes only what is sent for the items behind it.    *)
LEMMA EditsElsewhere ==
  ASSUME Typed, NEW l \in Line, Edit(l), NEW x \in Item \ Behind(l),
         x \in DOMAIN Entries(input)
  PROVE  /\ IsFile(input') /\ x \in DOMAIN Entries(input')
         /\ Merged(x)' = Merged(x)
<1>1. /\ IsReport(input) /\ cache' = cache
  BY DEF Typed, TypeOK, Edit
<1>2. /\ input' = [k \in DOMAIN input' |-> input'[k]]
      /\ \A k \in Line \ {l} : (k \in DOMAIN input' <=> k \in DOMAIN input)
      /\ \A k \in Line \ {l} : k \in DOMAIN input => input'[k] = input[k]
  BY DEF Edit, Restrict
<1>3. IsReport(input')
  BY <1>1 DEF Edit, IsReport, Restrict
<1>4. IsFile(input')
  <2>1. DOMAIN input' \in SUBSET Line /\ input' \in [DOMAIN input' -> Entry]
    BY <1>2, <1>3 DEF IsReport
  <2> QED
    BY <2>1, DailyPushAssumption DEF IsFile
<1>5. CASE x \notin Story
  <2>1. x # l /\ x \in Line
    BY <1>5, Constants DEF Behind
  <2>2. x \in DOMAIN Entries(input') /\ Entries(input')[x] = Entries(input)[x]
    BY <1>1, <1>2, <1>3, <1>5, <2>1, EntriesOfReport
  <2> QED
    BY <1>1, <1>4, <2>2 DEF Merged, Invested
<1>6. CASE x \in Story
  <2>1. x # l /\ (l \notin Story => StoryOf[l] # x)
    BY <1>6 DEF Behind, Item
  <2>2. LinesUnder(input', x) = LinesUnder(input, x) /\ l \notin LinesUnder(input, x)
    BY <1>1, <1>2, <1>3, <2>1 DEF LinesUnder, IsReport
  <2>3. {input'[k].status : k \in LinesUnder(input', x)}
          = {input[k].status : k \in LinesUnder(input, x)}
    BY <1>1, <1>2, <2>2 DEF LinesUnder, IsReport
  <2>4. x \in DOMAIN Entries(input') /\ Entries(input')[x] = Entries(input)[x]
    <3>1. Entries(input)[x] = Blank(Section({input[k].status : k \in LinesUnder(input, x)}))
      BY <1>1, <1>6, EntriesOfReport
    <3>2. x \in DOMAIN Entries(input')
      BY <1>1, <1>3, <1>6, <2>2, EntriesOfReport
    <3>3. Entries(input')[x] = Blank(Section({input'[k].status : k \in LinesUnder(input', x)}))
      BY <1>3, <1>6, <3>2, EntriesOfReport
    <3> QED
      BY <2>3, <3>1, <3>2, <3>3
  <2> QED
    BY <1>1, <1>4, <2>4 DEF Merged, Invested
<1> QED
  BY <1>5, <1>6

LEMMA ToldInit == Init => ToldOnce
BY DEF Init, ToldOnce, CommentOnce, Told

LEMMA ToldNext == Typed /\ ToldOnce /\ [Next]_vars => ToldOnce'
<1> SUFFICES ASSUME Typed, ToldOnce, [Next]_vars PROVE ToldOnce'
  OBVIOUS
<1> USE DEF ToldOnce, CommentOnce, files, user, env
<1>1. told \in [Item -> Nat] /\ remote \in [Item -> Remote] /\ told' \in [Item -> Nat]
  BY TypedNext DEF Typed, TypeOK
<1>2. CASE UNCHANGED vars
  BY <1>2, SameSent DEF vars, Told
<1>3. CASE \/ Fetch \/ Generate \/ GenerateError \/ Crash
           \/ Push \/ TakeNew \/ Return \/ \E x \in Item : Take(x)
  <2>1. UNCHANGED <<remote, cache, input, told, disturbed>> /\ pc' \notin {"patch", "comment"}
    BY <1>3 DEF Fetch, Generate, GenerateError, Crash, Push, TakeNew, Return, Take
  <2> QED
    BY <2>1, SameSent DEF Told
<1>4. CASE Download \/ DownloadTorn \/ Copy
  <2>1. /\ input = None /\ pc' \notin {"patch", "comment"}
        /\ UNCHANGED <<told, disturbed>>
    BY <1>4, DownloadsAreFresh DEF Copy, Typed, Stages, Fetching
  <2>2. \A x \in Item \ disturbed : ~(told[x] > 0)
    BY <2>1 DEF Told, IsFile
  <2> QED
    BY <2>1, <2>2 DEF Told
<1>5. CASE Get
  <2>1. /\ pc = "get" /\ UNCHANGED <<remote, cache, input, told, disturbed>>
        /\ \/ /\ remote[cur] # Merged(cur) /\ snap' = remote[cur] /\ pc' = "patch"
              /\ cur' = cur
           \/ pc' = "push"
    BY <1>5 DEF Get, NextEntry
  <2>2. cur \in Item
    BY <2>1, PushLooksUp DEF Pushing
  <2>3. ASSUME NEW x \in Item \ disturbed, remote[x] # Merged(x)
        PROVE  told[x] = 0
    BY <1>1, <2>3 DEF Told
  <2> QED
    BY <2>1, <2>2, <2>3, SameSent DEF Told
<1>6. CASE /\ pc = "patch" /\ pc' \in {"comment", "push"} /\ remote' \in {remote, Patched}
           /\ UNCHANGED <<cache, input, told, disturbed>>
           /\ pc' = "comment" => remote' = Patched /\ cur' = cur
  <2>1. /\ IsFile(cache) /\ IsFile(input) /\ cur \in Item /\ cur \in DOMAIN Entries(input)
        /\ snap \in Remote
    BY <1>6, PushLooksUp DEF Pushing
  <2>2. /\ \A x \in Item \ {cur} : Patched[x] = remote[x]
        /\ snap = remote[cur] => Patched[cur] = Merged(cur)
    BY <2>1, PatchedIsTyped DEF Typed
  <2>3. \A x \in Item : Merged(x)' = Merged(x)
    BY <1>6, SameSent
  <2> SUFFICES ASSUME NEW x \in Item \ disturbed
               PROVE  told[x] <= 1 /\ Told(x)'
    BY <1>6
  <2>4. CASE x # cur
    <3>1. remote'[x] = remote[x] /\ ~(pc' = "comment" /\ cur' = x)
      BY <1>6, <2>2, <2>4
    <3> QED
      BY <1>6, <2>3, <3>1 DEF Told
  <2>5. CASE x = cur
    <3>1. told[x] = 0 /\ snap = remote[cur]
      BY <1>6, <2>5 DEF Told
    <3>2. pc' = "comment" => remote'[x] = Merged(x)
      BY <1>6, <2>2, <2>5, <3>1
    <3> QED
      BY <1>6, <2>3, <3>1, <3>2 DEF Told
  <2> QED
    BY <2>4, <2>5
<1>7. CASE Comment \/ (pc \in {"get", "comment"} /\ RequestFails)
  <2>1. /\ UNCHANGED <<remote, cache, input, disturbed>> /\ pc' = "push"
        /\ pc \in {"get", "comment"}
    BY <1>7 DEF Comment, RequestFails, NextEntry
  <2>2. \/ UNCHANGED told
        \/ pc = "comment" /\ \E n \in {0, 1} : told' = [told EXCEPT ![cur] = @ + n]
    BY <1>7 DEF Comment, RequestFails
  <2>3. cur \in Item /\ IsFile(input) /\ cur \in DOMAIN Entries(input)
    BY <2>1, PushLooksUp DEF Pushing
  <2> SUFFICES ASSUME NEW x \in Item \ disturbed
               PROVE  told'[x] <= 1 /\ Told(x)'
    BY <2>1
  <2>4. \A y \in Item : Merged(y)' = Merged(y)
    BY <2>1, SameSent
  <2>5. CASE told'[x] = told[x]
    BY <2>1, <2>4, <2>5 DEF Told
  <2>6. CASE pc = "comment" /\ x = cur /\ \E n \in {0, 1} : told'[x] = told[x] + n
    <3>1. told[x] = 0 /\ remote[x] = Merged(x)
      BY <2>6 DEF Told
    <3> QED
      BY <2>1, <2>3, <2>4, <2>6, <3>1 DEF Told
  <2> QED
    BY <1>1, <2>2, <2>5, <2>6
<1>8. CASE \E l \in Line : Edit(l)
  <2>1. PICK l \in Line : Edit(l)
    BY <1>8
  <2>2. /\ told' = [x \in Item |-> IF x \in Behind(l) THEN 0 ELSE told[x]]
        /\ UNCHANGED <<remote, disturbed>> /\ pc' = "idle"
    BY <2>1 DEF Edit
  <2> SUFFICES ASSUME NEW x \in Item \ disturbed
               PROVE  told'[x] <= 1 /\ Told(x)'
    BY <2>2
  <2>3. CASE x \in Behind(l)
    BY <2>2, <2>3 DEF Told
  <2>4. CASE x \notin Behind(l)
    <3>1. told'[x] = told[x] /\ remote'[x] = remote[x]
      BY <2>2, <2>4
    <3>2. CASE told[x] > 0
      <4>1. x \in DOMAIN Entries(input) /\ remote[x] = Merged(x)
        BY <3>2 DEF Told
      <4>2. IsFile(input') /\ x \in DOMAIN Entries(input') /\ Merged(x)' = Merged(x)
        BY <2>1, <2>4, <4>1, EditsElsewhere
      <4> QED
        BY <2>2, <3>1, <4>1, <4>2 DEF Told
    <3>3. CASE ~(told[x] > 0)
      BY <2>2, <3>1, <3>3 DEF Told
    <3> QED
      BY <3>2, <3>3
  <2> QED
    BY <2>3, <2>4
<1>9. CASE \E x \in Item : OthersEdit(x)
  <2>1. PICK y \in Item : OthersEdit(y)
    BY <1>9
  <2>2. /\ disturbed' = disturbed \cup {y} /\ UNCHANGED <<pc, cache, input, cur, snap, told>>
        /\ \A x \in Item \ {y} : remote'[x] = remote[x]
    BY <1>1, <2>1 DEF OthersEdit
  <2> QED
    BY <2>2, SameSent DEF Told
<1>10. Patch \/ (pc = "patch" /\ RequestFails) =>
         /\ pc = "patch" /\ pc' \in {"comment", "push"} /\ remote' \in {remote, Patched}
         /\ UNCHANGED <<cache, input, told, disturbed>>
         /\ pc' = "comment" => remote' = Patched /\ cur' = cur
  BY DEF Patch, RequestFails, NextEntry
<1>11. RequestFails => pc \in {"get", "patch", "comment"}
  BY DEF RequestFails
<1> QED
  BY <1>2, <1>3, <1>4, <1>5, <1>6, <1>7, <1>8, <1>9, <1>10, <1>11
  DEF Next, FetchDaily, PushDaily, Environment

(***************************************************************************)
(* Only what the user has edited is sent.                                  *)
(***************************************************************************)

(* An entry that differs from the report's is behind a line the user has   *)
(* edited.  Of a story none of whose lines is, the lines in the input are  *)
(* some of the report's, and those left out are of no earlier section.     *)
LEMMA DiffersWhereEdited ==
  ASSUME Typed, Copied, IsFile(input), IsFile(report),
         NEW x \in DOMAIN Entries(input) \ {NewTask}, x \in DOMAIN Entries(report),
         \A l \in edited : x \notin Behind(l)
  PROVE  Entries(input)[x] = Entries(report)[x]
<1>1. IsReport(input) /\ IsReport(report)
  BY DEF Typed, TypeOK
<1>2. x \in Item
  BY <1>1, EntriesOfReport DEF Line
<1>3. x \notin edited
  BY <1>2 DEF Behind
<1>4. CASE x \notin Story
  BY <1>1, <1>3, <1>4, EntriesOfReport DEF Copied
<1>5. CASE x \in Story
  <2> DEFINE In == LinesUnder(input, x)
             Of == LinesUnder(report, x)
             A == {input[l].status : l \in In}
             B == {report[l].status : l \in Of}
  <2>1. /\ Entries(input)[x] = Blank(Section(A)) /\ In # {}
        /\ Entries(report)[x] = Blank(Section(B)) /\ Of # {}
    BY <1>1, <1>5, EntriesOfReport
  <2>2. /\ Section(A) \in A /\ A \subseteq Status /\ \A a \in A : Section(A) <= a
        /\ Section(B) \in B /\ B \subseteq Status /\ \A b \in B : Section(B) <= b
    BY <1>1, <1>5, <2>1, SectionOfLines
  <2>3. /\ \A l \in In : l \in DOMAIN input \ edited
        /\ \A l \in Of : l \in DOMAIN report \ edited
    BY <1>2, <1>3, <1>5 DEF LinesUnder, Behind
  <2>4. \A l \in In : l \in Of /\ input[l] = report[l]
    BY <2>3 DEF Copied, LinesUnder
  <2>5. \A k \in Of : k \in DOMAIN input => k \in In
    BY DEF LinesUnder
  <2>6. \A l \in In, k \in Of : report[k].status < report[l].status => k \in In
    BY <2>3, <2>4, <2>5 DEF Copied
  <2>7. A \subseteq B
    BY <2>4
  <2>8. PICK k \in Of : report[k].status = Section(B)
    BY <2>2
  <2>9. PICK l \in In : input[l].status = Section(A)
    BY <2>2
  <2>10. Section(A) \in Nat /\ Section(B) \in Nat /\ Section(B) <= Section(A)
    BY <2>2, <2>7, Constants
  <2>11. Section(A) <= Section(B)
    <3>1. CASE k \in In
      <4>1. Section(B) \in A
        BY <2>4, <2>8, <3>1
      <4> QED
        BY <2>2, <4>1
    <3>2. CASE k \notin In
      <4>1. ~(Section(B) < Section(A))
        BY <2>4, <2>6, <2>8, <2>9, <3>2
      <4> QED
        BY <2>10, <4>1
    <3> QED
      BY <3>1, <3>2
  <2>12. Section(A) = Section(B)
    BY <2>10, <2>11
  <2> QED
    BY <2>1, <2>12
<1> QED
  BY <1>4, <1>5

LEMMA SentInit == Init => SentOnly
BY DEF Init, SentOnly, Copied, SendsOnlyEdits, IsFile

LEMMA SentNext == Typed /\ SentOnly /\ [Next]_vars => SentOnly'
<1> SUFFICES ASSUME Typed, SentOnly, [Next]_vars PROVE SentOnly'
  OBVIOUS
<1> USE DEF SentOnly, files, user, env
<1>1. edited \subseteq edited'
  <2>1. CASE \E l \in Line : Edit(l)
    BY <2>1 DEF Edit
  <2>2. CASE UNCHANGED user
    BY <2>2
  <2> QED
    BY <2>1, <2>2 DEF Next, FetchDaily, PushDaily, Environment, vars, Fetch, Download, DownloadTorn,
       Generate, GenerateError, Copy, Push, TakeNew, Return, Get, Patch, Comment, RequestFails,
       Take, Crash, OthersEdit
<1>2. todo' \subseteq todo => SendsOnlyEdits'
  BY <1>1 DEF SendsOnlyEdits
<1>3. CASE /\ UNCHANGED <<input, report, edited>> /\ todo' \subseteq todo
  BY <1>2, <1>3 DEF Copied
<1>4. CASE Generate
  <2>1. input' = None /\ todo' = todo
    BY <1>4 DEF Generate, Typed, Stages, Fetching
  <2> QED
    BY <1>2, <2>1 DEF Copied, IsFile
<1>5. CASE Copy
  <2>1. todo' = todo /\ UNCHANGED <<report, edited>>
    BY <1>5 DEF Copy
  <2>2. Copied'
    <3> SUFFICES ASSUME IsFile(input') PROVE Copied'
      BY DEF Copied
    <3>1. PICK S \in Beginnings(report) : input' = Restrict(report, S)
      BY <1>5 DEF Copy, IsFile
    <3> QED
      BY <2>1, <3>1 DEF Copied, Beginnings, Restrict
  <2> QED
    BY <1>2, <2>1, <2>2
<1>6. CASE Push
  <2>1. /\ UNCHANGED <<input, report, edited>> /\ IsFile(input) /\ IsFile(report)
        /\ todo' = Changed(Entries(report), Entries(input))
        /\ Valid(Entries(report), Entries(input))
    BY <1>6 DEF Push
  <2>2. Copied'
    BY <2>1 DEF Copied
  <2>3. ASSUME NEW x \in todo', x # NewTask
        PROVE  \E l \in edited : x \in Behind(l)
    BY <2>1, <2>3, DiffersWhereEdited DEF Changed, Valid
  <2>4. SendsOnlyEdits'
    BY <2>1, <2>3 DEF SendsOnlyEdits
  <2> QED
    BY <2>2, <2>4
<1>7. CASE \E l \in Line : Edit(l)
  <2>1. PICK l \in Line : Edit(l)
    BY <1>7
  <2>2. /\ IsFile(input) /\ edited' = edited \cup {l} /\ todo' = todo /\ report' = report
    BY <2>1 DEF Edit
  <2>3. \A k \in Line \ {l} : /\ k \in DOMAIN input' <=> k \in DOMAIN input
                              /\ k \in DOMAIN input => input'[k] = input[k]
    BY <2>1 DEF Edit, Restrict
  <2>4. IsReport(input) /\ IsReport(report) /\ DOMAIN input' \subseteq Line
    BY <2>1, <2>2 DEF Typed, TypeOK, Edit, Restrict, IsReport
  <2>5. Copied'
    BY <2>2, <2>3, <2>4 DEF Copied, IsReport
  <2> QED
    BY <1>2, <2>2, <2>5
<1>8. CASE \/ UNCHANGED vars \/ Fetch \/ GenerateError \/ Download \/ DownloadTorn \/ Crash
           \/ TakeNew \/ Return \/ Get \/ Patch \/ Comment \/ RequestFails
           \/ (\E x \in Item : Take(x) \/ OthersEdit(x))
  <2>1. UNCHANGED <<input, report, edited>> /\ todo' \subseteq todo
    BY <1>8 DEF vars, Fetch, GenerateError, Download, DownloadTorn, Crash, TakeNew, Return, Get,
       Patch, Comment, RequestFails, NextEntry, Take, OthersEdit
  <2> QED
    BY <1>3, <2>1
<1> QED
  BY <1>4, <1>5, <1>6, <1>7, <1>8 DEF Next, FetchDaily, PushDaily, Environment

(***************************************************************************)
(* The theorems.                                                           *)
(***************************************************************************)
LEMMA Invariance == Spec => []Inv
<1>1. Init => Inv
  BY TypedInit, CountsInit, ToldInit, SentInit DEF Inv
<1>2. Inv /\ [Next]_vars => Inv'
  BY TypedNext, CountsNext, ToldNext, SentNext DEF Inv
<1> QED
  BY <1>1, <1>2, PTL DEF Spec

(* FetchDaily and PushDaily keep their files beside one another, and what  *)
(* a push looks up in the cache is there.                                  *)
THEOREM TypeCorrect == Spec => []TypeOK
<1>1. Inv => TypeOK
  BY DEF Inv, Typed
<1> QED
  BY <1>1, Invariance, PTL

(* However often PushDaily is run, and wherever it was interrupted, it     *)
(* adds the hours of a line once to those of the cached item.              *)
THEOREM HoursCountOnce == Spec => []CountsOnce
<1>1. Inv => CountsOnce
  BY DEF Inv
<1> QED
  BY <1>1, Invariance, PTL

(* However often PushDaily is run, it adds a comment at most once per edit *)
(* of its line, unless others change the work item.                        *)
THEOREM CommentsOnce == Spec => []CommentOnce
<1>1. Inv => CommentOnce
  BY DEF Inv, ToldOnce
<1> QED
  BY <1>1, Invariance, PTL

(* PushDaily sends only what the user has edited, whatever FetchDaily left *)
(* out of the report or of its copy.                                       *)
THEOREM EditsOnlySent == Spec => []SendsOnlyEdits
<1>1. Inv => SendsOnlyEdits
  BY DEF Inv, SentOnly
<1> QED
  BY <1>1, Invariance, PTL
==============================================================================
