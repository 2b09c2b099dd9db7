------------------------------ MODULE DailyPush ------------------------------
(***************************************************************************)
(* The HumanAPI's daily: FetchDaily caches a worker's work items and makes *)
(* the report of the day and a copy for the user to edit; PushDaily sends  *)
(* what the user changed (src/human_api/human_api.go), each work item by   *)
(* UpdateWobject (src/azure_devops_api/azure_devops_api.go): read the item,*)
(* patch the fields that differ, add a comment.                            *)
(*                                                                         *)
(* A report is a function from its lines: a task's line, a new task's      *)
(* line, or the line of a story of its own, which is there when the story  *)
(* has no task or Go's map gave it before its tasks.  The status is the    *)
(* section the line is in.  What a report says of a story is derived.      *)
(***************************************************************************)
EXTENDS Integers, FiniteSetsExt, Functions

CONSTANTS
  Task,       \* tasks and bugs of the worker
  Story,      \* their parents, and stories of the worker
  NewTask,    \* the entry "0": a line without an id
  StoryOf,    \* the parent of a task, of the new one too, or None
  Closed,     \* the last section: 1 is New
  MaxHours,   \* bound: hours in a line
  MaxEdits,   \* bound: edits of the user
  MaxOthers,  \* bound: changes by others
  None,       \* no file, no parent
  Torn        \* a file that cannot be read

Item == Task \union Story
Line == Item \union {NewTask}
Status == 1..Closed
Hours == 0..MaxHours
Keep == -1

Remote == [status : Status, left : Hours, invested : 0..2 * MaxHours]
Entry == [status : Status, left : Hours \union {Keep},
          given : Hours \union {Keep}, comment : BOOLEAN]

ASSUME DailyPushAssumption ==
  /\ Task \intersect Story = {}
  /\ NewTask \notin Item
  /\ StoryOf \in [Task \union {NewTask} -> Story \union {None}]
  /\ None \notin Line
  /\ \A S \in SUBSET Line : None \notin [S -> Entry] /\ Torn \notin [S -> Entry]
  /\ Closed \in Nat \ {0}
  /\ {MaxHours, MaxEdits, MaxOthers} \subseteq Nat

VARIABLES
  pc,        \* where the program is; idle when none runs
  remote,    \* the work items in Azure DevOps
  cache,     \* wobjects.json
  report,    \* report.hapi
  input,     \* input.hapi
  todo,      \* the entries ProvisionDailyWobjects has not come to
  cur,       \* the entry being updated
  snap,      \* currentWobject, what UpdateWobject has read
  edits,     \* number of edits
  edited,    \* lines the user has changed
  others,    \* number of changes by others
  disturbed, \* items others have changed since they were cached
  told,      \* comments on an item since the user last changed its line
  failed     \* a request of the last push has failed, or it was killed

files == <<cache, report, input>>
user == <<edits, edited>>
env == <<others, disturbed>>
vars == <<pc, remote, files, todo, cur, snap, user, env, told, failed>>

IsFile(f) == f \notin {None, Torn}

(* What WriteDailyToHRFile says of an untouched item, as it is read back.  *)
Blank(s) == [status |-> s, left |-> Keep, given |-> Keep, comment |-> FALSE]

LinesUnder(f, s) ==
  {l \in DOMAIN f : l = s \/ (l \notin Story /\ StoryOf[l] = s)}

(* Mutation: the last line under a story decides.                          *)
SectionLast(S) == Max(S)

(* The section of the first line under a story: New is read before Active. *)
Section(S) == Min(S)

(* GenerateWobjectsFromDailyReports: the entries of a report.              *)
Entries(f) ==
  [x \in (DOMAIN f \ Story) \union {s \in Story : LinesUnder(f, s) # {}} |->
     IF x \in Story THEN Blank(Section({f[l].status : l \in LinesUnder(f, x)}))
                    ELSE f[x]]

(* ValidateWobjectsUserInput.  A parent is not checked for its times.      *)
Valid(base, in) ==
  \A x \in DOMAIN in :
    /\ x # NewTask => x \in DOMAIN base
    /\ x \notin Story =>
         /\ in[x].left = 0 => in[x].status = Closed
         /\ x = NewTask => Keep \notin {in[x].left, in[x].given}

(* FilterChangedWobjects                                                   *)
Changed(base, in) == {x \in DOMAIN in : x = NewTask \/ in[x] # base[x]}

(* Mutation: the user's hours are added to what is there now.              *)
InvestedNow(x, given) == remote[x].invested + given

(* The hours given are added to those of the cached item.                  *)
Invested(x, given) == cache[x].invested + given

(* ProvisionDailyWobjects: the cached item with what the user has said.    *)
Merged(x) ==
  LET e == Entries(input)[x]
  IN  [status   |-> e.status,
       left     |-> IF e.left = Keep THEN cache[x].left ELSE e.left,
       invested |-> IF e.given = Keep THEN cache[x].invested
                                      ELSE Invested(x, e.given)]

(* What a copy that was cut off between two lines leaves: sections in order.*)
Beginnings(f) ==
  {S \in SUBSET DOMAIN f :
     \A l \in S, k \in DOMAIN f : f[k].status < f[l].status => k \in S}

Init ==
  /\ pc = "idle"
  /\ remote \in [Item -> [status : Status, left : {MaxHours}, invested : {0}]]
  /\ cache = None /\ report = None /\ input = None
  /\ todo = {} /\ cur = None /\ snap = None
  /\ edits = 0 /\ edited = {} /\ others = 0 /\ disturbed = {}
  /\ told = [x \in Item |-> 0]
  /\ failed = FALSE

-----------------------------------------------------------------------------
(* Mutation: every fetch downloads the items anew.                         *)
FetchAnew ==
  /\ pc = "idle"
  /\ input = None
  /\ pc' = "download"
  /\ UNCHANGED <<remote, files, todo, cur, snap, user, env, told, failed>>

(* FetchDaily, unless there is an input file: then it changes nothing.     *)
Fetch ==
  /\ pc = "idle"
  /\ input = None
  /\ pc' = IF cache = None THEN "download" ELSE "generate"
  /\ UNCHANGED <<remote, files, todo, cur, snap, user, env, told, failed>>

(* DownloadDailySprintWobjects.  Each item is read by a request of its own *)
(* and nothing the program does relates two items' values, so that they    *)
(* are read at once.                                                       *)
Download ==
  /\ pc = "download"
  /\ cache' = remote
  /\ pc' = "generate"
  /\ UNCHANGED <<remote, report, input, todo, cur, snap, user, env, told, failed>>

(* The write fails, or the program is killed in it.                        *)
DownloadTorn ==
  /\ pc = "download"
  /\ cache' = Torn
  /\ pc' = "idle"
  /\ UNCHANGED <<remote, report, input, todo, cur, snap, user, env, told, failed>>

(* The stories with a line: those without a task, and those that Go's map  *)
(* gave before their tasks.                                                *)
OwnLines ==
  {own \in SUBSET Story : \A s \in Story \ own : \E t \in Task : StoryOf[t] = s}

(* GenerateDailyReport.  The errors of the writes are dropped: lines may be *)
(* missing, or one may be cut off.  One of the cached items must be new.   *)
Generate ==
  /\ pc = "generate"
  /\ IsFile(cache)
  /\ \E own \in OwnLines :
       /\ \E l \in Task \union own : cache[l].status = 1
       /\ \/ \E S \in SUBSET (Task \union own) :
               report' = [l \in S |-> Blank(cache[l].status)]
          \/ report' = Torn
  /\ pc' = "copy"
  /\ UNCHANGED <<remote, cache, input, todo, cur, snap, user, env, told, failed>>

(* It returns an error: no cached items that it can read, or no new one.   *)
GenerateError ==
  /\ pc = "generate"
  /\ IsFile(cache) =>
       \E own \in OwnLines : \A l \in Task \union own : cache[l].status # 1
  /\ pc' = "idle"
  /\ UNCHANGED <<remote, files, todo, cur, snap, user, env, told, failed>>

(* copyFile, all of it or a beginning, which may end within a line.        *)
Copy ==
  /\ pc = "copy"
  /\ \/ IsFile(report) /\ \E S \in Beginnings(report) :
                            input' = Restrict(report, S)
     \/ input' = Torn
  /\ pc' = "idle"
  /\ UNCHANGED <<remote, cache, report, todo, cur, snap, user, env, told, failed>>

-----------------------------------------------------------------------------
(* PushDaily: both files must be readable and the input valid.  A cache    *)
(* that cannot be read ends it, without an error.                          *)
Push ==
  /\ pc = "idle"
  /\ IsFile(report) /\ IsFile(input) /\ IsFile(cache)
  /\ Valid(Entries(report), Entries(input))
  /\ todo' = Changed(Entries(report), Entries(input))
  /\ pc' = "push"
  /\ failed' = FALSE
  /\ UNCHANGED <<remote, files, cur, snap, user, env, told>>

(* The loop of ProvisionDailyWobjects takes the next entry, in any order.  *)
Take(x) ==
  /\ pc = "push"
  /\ x \in todo \ {NewTask}
  /\ cur' = x
  /\ pc' = "get"
  /\ UNCHANGED <<remote, files, todo, snap, user, env, told, failed>>

(* ProvisionWobject of the new task: its Id is "0", which is not empty, so *)
(* that nothing is created; there is no work item 0 to update.  The error  *)
(* ends the loop, and PushDaily ignores it.                                *)
TakeNew ==
  /\ pc = "push"
  /\ NewTask \in todo
  /\ todo' = {}
  /\ pc' = "idle"
  /\ UNCHANGED <<remote, files, cur, snap, user, env, told, failed>>

Return ==
  /\ pc = "push"
  /\ todo = {}
  /\ pc' = "idle"
  /\ UNCHANGED <<remote, files, todo, cur, snap, user, env, told, failed>>

(* UpdateWobject is over; ProvisionDailyWobjects drops its error.          *)
NextEntry ==
  /\ todo' = todo \ {cur}
  /\ cur' = None
  /\ snap' = None
  /\ pc' = "push"

(* Mutation: an item that is as it should be is patched and commented on.  *)
GetAlways ==
  /\ pc = "get"
  /\ snap' = remote[cur]
  /\ pc' = "patch"
  /\ UNCHANGED <<remote, files, todo, cur, user, env, told, failed>>

(* GetWobject, and the return when no field differs.                       *)
Get ==
  /\ pc = "get"
  /\ \/ /\ remote[cur] # Merged(cur)
        /\ snap' = remote[cur]
        /\ pc' = "patch"
        /\ UNCHANGED <<todo, cur>>
     \/ /\ remote[cur] = Merged(cur)
        /\ NextEntry
  /\ UNCHANGED <<remote, files, user, env, told, failed>>

Patched ==
  [remote EXCEPT ![cur] =
     [k \in DOMAIN @ |-> IF Merged(cur)[k] # snap[k] THEN Merged(cur)[k] ELSE @[k]]]

(* UpdateWit replaces the fields that differed from what was read.         *)
Patch ==
  /\ pc = "patch"
  /\ remote' = Patched
  /\ pc' = "comment"
  /\ UNCHANGED <<files, todo, cur, snap, user, env, told, failed>>

(* AddWitComment; an empty comment is none.                                *)
Comment ==
  /\ pc = "comment"
  /\ told' = [told EXCEPT ![cur] = @ + IF Entries(input)[cur].comment THEN 1 ELSE 0]
  /\ NextEntry
  /\ UNCHANGED <<remote, files, user, env, failed>>

(* A request fails, whether the service has carried it out or not.         *)
RequestFails ==
  /\ \/ pc = "get" /\ UNCHANGED <<remote, told>>
     \/ pc = "patch" /\ remote' \in {remote, Patched} /\ UNCHANGED told
     \/ /\ pc = "comment"
        /\ UNCHANGED <<remote, told>>
     \/ /\ pc = "comment"
        /\ Entries(input)[cur].comment
        /\ told' = [told EXCEPT ![cur] = @ + 1]
        /\ UNCHANGED remote
  /\ NextEntry
  /\ failed' = TRUE
  /\ UNCHANGED <<files, user, env>>

-----------------------------------------------------------------------------
(* The program is killed, or a request of FetchDaily fails.                *)
Crash ==
  /\ pc # "idle"
  /\ pc' = "idle"
  /\ todo' = {} /\ cur' = None /\ snap' = None
  /\ failed' = TRUE
  /\ UNCHANGED <<remote, files, user, env, told>>

(* The items whose entry depends on a line                                 *)
Behind(l) == ({l} \union {s \in Story : l \notin Story /\ StoryOf[l] = s}) \intersect Item

(* The user changes, moves or removes a line, or adds one.  A push reads   *)
(* the files once, so that an edit during it is an edit after it.          *)
Edit(l) ==
  /\ pc = "idle"
  /\ IsFile(input)
  /\ edits < MaxEdits
  /\ \/ \E e \in Entry :
          /\ l \in Story => e = Blank(e.status)
          /\ l \in DOMAIN input \union {NewTask}
          /\ input' = [k \in DOMAIN input \union {l} |-> IF k = l THEN e ELSE input[k]]
     \/ /\ l \in DOMAIN input
        /\ input' = Restrict(input, DOMAIN input \ {l})
  /\ edits' = edits + 1
  /\ edited' = edited \union {l}
  /\ told' = [x \in Item |-> IF x \in Behind(l) THEN 0 ELSE told[x]]
  /\ UNCHANGED <<pc, remote, cache, report, todo, cur, snap, env, failed>>

(* Somebody else changes a work item.  Until it is cached, what it was     *)
(* before does not matter.                                                 *)
OthersEdit(x) ==
  /\ cache # None
  /\ others < MaxOthers
  /\ \E r \in [status : Status, left : Hours, invested : Hours] :
       r # remote[x] /\ remote' = [remote EXCEPT ![x] = r]
  /\ others' = others + 1
  /\ disturbed' = disturbed \union {x}
  /\ UNCHANGED <<pc, files, todo, cur, snap, user, told, failed>>

FetchDaily == \/ Fetch \/ Download \/ DownloadTorn
              \/ Generate \/ GenerateError \/ Copy
PushDaily == \/ Push \/ TakeNew \/ Return \/ Get \/ Patch \/ Comment \/ RequestFails
             \/ \E x \in Item : Take(x)
Environment == \/ \E l \in Line : Edit(l)
               \/ \E x \in Item : OthersEdit(x)

Next == FetchDaily \/ PushDaily \/ Crash \/ Environment

Spec == Init /\ [][Next]_vars

-----------------------------------------------------------------------------
IsReport(f) == DOMAIN f \subseteq Line /\ \A l \in DOMAIN f : f[l] \in Entry

(* Types, and what there is at each place: there is an input file only     *)
(* beside the report it was copied from and the cache that one was made of, *)
(* and whatever a push looks up in the cache is there (currentWobject is    *)
(* dereferenced unchecked).                                                *)
TypeOK ==
  /\ pc \in {"idle", "download", "generate", "copy", "push", "get", "patch", "comment"}
  /\ remote \in [Item -> Remote]
  /\ IsFile(cache) => cache \in [Item -> Remote]
  /\ IsFile(report) => IsReport(report) /\ IsFile(cache)
  /\ IsFile(input) => IsReport(input) /\ IsFile(report)
  /\ todo \subseteq Line
  /\ pc \in {"push", "get", "patch", "comment"} =>
       IsFile(input) /\ todo \ {NewTask} \subseteq DOMAIN cache
  /\ pc \in {"get", "patch", "comment"} => cur \in todo
  /\ pc = "patch" => snap \in Remote
  /\ told \in [Item -> Nat]

(* An item nobody else has changed has at most the hours of one line added *)
(* to those it had when it was cached, however often the push is repeated  *)
(* and wherever it was interrupted.                                        *)
CountsOnce ==
  IsFile(cache) =>
    \A x \in Item \ disturbed :
      remote[x].invested - cache[x].invested \in Hours

(* Unless somebody else changes the item, a comment is added at most once  *)
(* per edit of its line: a repeated push finds nothing that differs and    *)
(* does not reach the comment.                                             *)
CommentOnce == \A x \in Item \ disturbed : told[x] <= 1

(* A push sends only items whose line the user has edited, and their       *)
(* stories: a copy that was cut off, a report with lines missing and the   *)
(* order of Go's map make no entry differ.                                 *)
SendsOnlyEdits ==
  todo \subseteq {NewTask} \union UNION {Behind(l) : l \in edited}

(* A push that met no failure has dealt with every entry that was changed, *)
(* the new ones included.                                                  *)
PushDelivers ==
  [][pc = "push" /\ pc' = "idle" /\ ~failed' => todo = {}]_vars
=============================================================================
