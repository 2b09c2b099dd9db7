---------------------------- MODULE DailyRoutine ----------------------------
(***************************************************************************)
(* DailyRoutine of src/human_api/human_api.go.  Each run of the program    *)
(* finds out from the files in the directory of the day what to do: the    *)
(* first one downloads the work items (pre_report.json), writes a report   *)
(* of them (base.hapi) and copies it for the user to edit (input.hapi);    *)
(* the later ones submit what the user changed.                            *)
(*                                                                         *)
(* A report is a function from its work items to what the report says of   *)
(* them (status, times, comment): one value.  Item are the work items of   *)
(* the configured worker and sprint that the download holds.  A run may    *)
(* crash, or hang in the download until it is killed, at any point; the    *)
(* user edits the input file, and others edit the work items, at any time. *)
(*                                                                         *)
(* check writes an error to /tmp/hapi.log and panics.  When that file      *)
(* cannot be written it returns, and the run goes on after the error.      *)
(***************************************************************************)
EXTENDS Naturals, Functions

CONSTANTS
  Item,      \* the work items
  NewItem,   \* the one entry under which items without an id are kept, "0"
  Val,       \* what a report can say of an item
  NewVal,    \* ... in its section NEW
  Bad,       \* an entry that the validation rejects
  Torn,      \* a file that cannot be parsed
  Orphaned,  \* a download in which a Task or Bug has a parent that is not in it
  None,      \* no file, nothing to submit
  MaxCrash   \* bound: crashes

ASSUME ItemAssumption ==
  /\ NewItem \notin Item
  /\ NewVal \in Val
  /\ Bad \notin Val
  /\ MaxCrash \in Nat

Report == UNION {[S -> Val] : S \in SUBSET Item}

Entry == Item \cup {NewItem}

Input == UNION {[S -> Val \cup {Bad}] : S \in SUBSET Entry}

VARIABLES
  remote,    \* the work items in Azure DevOps
  pre,       \* pre_report.json
  base,      \* base.hapi
  input,     \* input.hapi
  post,      \* post_report.json exists
  pc,        \* what the running program is doing; idle: none runs
  todo,      \* the requests of SubmitSprintStatus that are not sent yet
  submitted, \* a run has returned from the submission without an error
  unlogged,  \* history: a run went on after an error it could not log
  crashes    \* how many runs have crashed

files == <<pre, base, input, post>>
vars == <<remote, files, pc, todo, submitted, unlogged, crashes>>

Init ==
  /\ remote \in [Item -> Val]
  /\ pre = None
  /\ base = None
  /\ input = None
  /\ post = FALSE
  /\ pc = "idle"
  /\ todo = None
  /\ submitted = FALSE
  /\ unlogged = FALSE
  /\ crashes = 0

Goto(from, to) == pc = from /\ pc' = to

IsReport(f) == f \notin {None, Torn, Orphaned}

Empty == [x \in {} |-> NewVal]

(* The reports that leave out some of the items of f.                      *)
Pieces(f) == {Restrict(f, S) : S \in SUBSET DOMAIN f}

(* What a write of f that is cut off may leave.                            *)
CutOff(f) == {Torn} \cup IF IsReport(f) THEN Pieces(f) ELSE {}

-----------------------------------------------------------------------------
(* DailyRoutine: where a run starts.                                       *)

(* Mutation: the run looks for base.hapi to decide what to do.             *)
ExtractByBase ==
  /\ ~post
  /\ base = None
  /\ Goto("idle", IF pre = None THEN "download" ELSE "generate")
  /\ UNCHANGED <<remote, files, todo, submitted, unlogged, crashes>>

(* Mutation: a run starts from the pre-report even if there is an input.   *)
ExtractAgain ==
  /\ ~post
  /\ Goto("idle", IF pre = None THEN "download" ELSE "generate")
  /\ UNCHANGED <<remote, files, todo, submitted, unlogged, crashes>>

(* A run that ends in an error here changes nothing and is no step.        *)
Extract ==
  /\ ~post
  /\ input = None
  /\ pre = None => base = None
  /\ Goto("idle", IF pre = None THEN "download" ELSE "generate")
  /\ UNCHANGED <<remote, files, todo, submitted, unlogged, crashes>>

(* FilterChangedWobjects                                                   *)
Changed(in, from) == {e \in DOMAIN in : e \in DOMAIN from => in[e] # from[e]}

(* ValidateWobjectsUserInput                                               *)
Valid(in, from) ==
  \A e \in DOMAIN in : in[e] # Bad /\ (e = NewItem \/ e \in DOMAIN from)

(* GetWobjectsFromReportFile: a malformed input or base file is a panic.   *)
(* Where check returns, a file that cannot be read has no items, and where *)
(* the user left an item twice the later one counts; an item that is not   *)
(* one is a panic in either case (Parent[1] in an empty report).           *)
InputRead ==
  {in \in Input : in = input \/ in = Empty \/ input = Torn}

BaseRead == {from \in {base, Empty} : IsReport(from)}

(* All the files of a day are there.                                       *)
MaySubmit == ~post /\ pre # None /\ input # None /\ base # None

(* Mutation: entries the validation rejects are left out and the rest is   *)
(* sent.                                                                   *)
SubmitSome ==
  /\ MaySubmit
  /\ IsReport(input) /\ IsReport(base)
  /\ Goto("idle", "submit")
  /\ todo' = Restrict(input, Changed(input, base))
  /\ UNCHANGED <<remote, files, submitted, unlogged, crashes>>

(* DailyRoutineSubmit.  An invalid input is an error before anything is    *)
(* sent.                                                                   *)
Submit ==
  /\ MaySubmit
  /\ Goto("idle", "submit")
  /\ \E in \in InputRead, from \in BaseRead :
       /\ Valid(in, from)
       /\ todo' = Restrict(in, Changed(in, from))
       /\ unlogged' = (unlogged \/ in # input \/ from # base)
  /\ UNCHANGED <<remote, files, submitted, crashes>>

-----------------------------------------------------------------------------
(* DailyRoutineExtract                                                     *)

(* The error of the download is dropped.                                   *)
Download ==
  /\ Goto("download", "generate")
  /\ pre' \in {remote, Orphaned, None, Torn}
  /\ UNCHANGED <<remote, base, input, post, todo, submitted, unlogged, crashes>>

(* GenerateDailyReport panics unless pre_report.json can be read and has a *)
(* new item in it, and every Task or Bug in it a parent: for the parent    *)
(* that is missing, GenerateParentAndChildFromParentlessWobject has nil.   *)
Reportable == IsReport(pre) /\ \E i \in Item : pre[i] = NewVal

(* What it may leave of a report, of no items when there was nothing to    *)
(* read: then there is no worker either, and nothing in the file.          *)
Written ==
  IF pre = Orphaned THEN {} ELSE IF IsReport(pre) THEN CutOff(pre) ELSE {Empty}

GeneratePanics ==
  /\ ~Reportable
  /\ Goto("generate", "idle")
  /\ UNCHANGED <<remote, files, todo, submitted, unlogged, crashes>>

(* It does not, as check returns.                                          *)
GenerateUnlogged ==
  /\ ~Reportable /\ pre # Orphaned
  /\ Goto("generate", "copy")
  /\ base' \in {base} \cup Written
  /\ unlogged' = TRUE
  /\ UNCHANGED <<remote, pre, input, post, todo, submitted, crashes>>

(* Mutation: the input file is written first.                              *)
GenerateInput ==
  /\ Reportable
  /\ Goto("generate", "copy")
  /\ input' = pre
  /\ UNCHANGED <<remote, pre, base, post, todo, submitted, unlogged, crashes>>

Generate ==
  /\ Reportable
  /\ Goto("generate", "copy")
  /\ base' = pre
  /\ UNCHANGED <<remote, pre, input, post, todo, submitted, unlogged, crashes>>

(* base.hapi could not be opened, or written to its end: WriteDailyToHRFile *)
(* returns the error and nobody reads it.                                  *)
GenerateFails ==
  /\ Reportable
  /\ Goto("generate", "copy")
  /\ base' \in {base} \cup Written
  /\ UNCHANGED <<remote, pre, input, post, todo, submitted, unlogged, crashes>>

(* copyFile(baseFilePath, inputFilePath), which may fail half-way.         *)
Copy ==
  /\ base # None
  /\ Goto("copy", "idle")
  /\ input' = base
  /\ UNCHANGED <<remote, pre, base, post, todo, submitted, unlogged, crashes>>

CopyFails ==
  /\ Goto("copy", "idle")
  /\ input' \in {None} \cup IF base = None THEN {} ELSE CutOff(base)
  /\ UNCHANGED <<remote, pre, base, post, todo, submitted, unlogged, crashes>>

-----------------------------------------------------------------------------
(* SubmitSprintStatus: one request after the other, in no certain order.   *)

Patch(e) ==
  /\ Goto("submit", "submit")
  /\ e \in DOMAIN todo \cap Item
  /\ remote' = [remote EXCEPT ![e] = todo[e]]
  /\ todo' = Restrict(todo, DOMAIN todo \ {e})
  /\ UNCHANGED <<files, submitted, unlogged, crashes>>

(* The first error ends the run.  Azure may have applied the update (it is *)
(* the request for the parent link that failed), but there is no item 0.   *)
PatchFails(e) ==
  /\ Goto("submit", "idle")
  /\ e \in DOMAIN todo
  /\ remote' \in {remote, IF e \in Item THEN [remote EXCEPT ![e] = todo[e]]
                          ELSE remote}
  /\ todo' = None
  /\ UNCHANGED <<files, submitted, unlogged, crashes>>

(* Everything is sent, and no file is written.                             *)
Submitted ==
  /\ Goto("submit", "idle")
  /\ DOMAIN todo = {}
  /\ submitted' = TRUE
  /\ todo' = None
  /\ UNCHANGED <<remote, files, unlogged, crashes>>

-----------------------------------------------------------------------------
(* A crash may cut off the write, or the request, that is under way.       *)
Crash ==
  /\ pc # "idle"
  /\ crashes < MaxCrash
  /\ crashes' = crashes + 1
  /\ pc' = "idle"
  /\ pre' \in IF pc = "download" THEN {pre, Torn} ELSE {pre}
  /\ base' \in {base} \cup IF pc = "generate" THEN Written ELSE {}
  /\ unlogged' = (unlogged \/ (base' # base /\ ~Reportable))
  /\ input' \in {input} \cup IF pc = "copy" /\ base # None THEN CutOff(base)
                             ELSE {}
  /\ \/ UNCHANGED remote
     \/ /\ pc = "submit"
        /\ \E i \in DOMAIN todo \cap Item :
             remote' = [remote EXCEPT ![i] = todo[i]]
  /\ todo' = None
  /\ UNCHANGED <<post, submitted>>

(* The user edits, adds or deletes an entry of the input file.             *)
Edit(e) ==
  /\ IsReport(input)
  /\ \/ \E v \in Val \cup {Bad} :
          input' = [x \in DOMAIN input \cup {e} |-> IF x = e THEN v ELSE input[x]]
     \/ input' = Restrict(input, DOMAIN input \ {e})
  /\ UNCHANGED <<remote, pre, base, post, pc, todo, submitted, unlogged, crashes>>

(* The user leaves it unreadable, empties it, or starts over without it.   *)
Rewrite ==
  /\ input # None
  /\ input' \in {[x \in {} |-> Bad], Torn, None}
  /\ UNCHANGED <<remote, pre, base, post, pc, todo, submitted, unlogged, crashes>>

(* Somebody else works on an item.                                         *)
OthersEdit(i) ==
  /\ \E v \in Val : remote' = [remote EXCEPT ![i] = v]
  /\ UNCHANGED <<files, pc, todo, submitted, unlogged, crashes>>

-----------------------------------------------------------------------------
Run ==
  \/ Extract
  \/ Submit
  \/ Download
  \/ GeneratePanics
  \/ GenerateUnlogged
  \/ Generate
  \/ GenerateFails
  \/ Copy
  \/ CopyFails
  \/ \E e \in Entry : Patch(e) \/ PatchFails(e)
  \/ Submitted

Next ==
  \/ Run
  \/ Crash
  \/ \E e \in Entry : Edit(e)
  \/ Rewrite
  \/ \E i \in Item : OthersEdit(i)

(* The user runs the program again and again, and the disk does not fail   *)
(* every time.                                                             *)
Fairness == WF_vars(Run) /\ SF_vars(Generate) /\ SF_vars(Copy)

Spec == Init /\ [][Next]_vars

FairSpec == Spec /\ Fairness

-----------------------------------------------------------------------------
(* Type invariant of the directory and the run.                            *)
TypeOK ==
  /\ remote \in [Item -> Val]
  /\ pre \in [Item -> Val] \cup {None, Torn, Orphaned}
  /\ base \in Report \cup {None, Torn}
  /\ input \in Input \cup {None, Torn}
  /\ post \in BOOLEAN
  /\ pc \in {"idle", "download", "generate", "copy", "submit"}
  /\ todo \in Input \cup {None}
  /\ submitted \in BOOLEAN /\ unlogged \in BOOLEAN
  /\ crashes \in 0..MaxCrash

(* However runs crashed and whichever write failed, an input file lies     *)
(* beside the base report it was copied from, which says of an item only   *)
(* what the pre-report says.  The status is "undefined" (DailyRoutine's    *)
(* last error), for want of a pre-report, only after a run that could not  *)
(* log an error either, and then that report has no items.                 *)
StatusDefined ==
  input # None => /\ base # None /\ base \in Written
                  /\ IsReport(pre) \/ unlogged

(* Once there is an input file, no run and no crash changes it or what it  *)
(* is compared with: the user's edits are never overwritten.               *)
EditsKept ==
  [][input # None =>
       UNCHANGED <<pre, base>> /\ (input' # input => UNCHANGED <<pc, crashes>>)]_vars

(* A run writes to Azure only what a valid input file said when it was     *)
(* read: it never sends a value the validation rejects, or an item that    *)
(* the base report does not have or says the same of, also where it could  *)
(* not log that the input or the base report was unreadable.               *)
SendsOnlyChanges ==
  pc = "submit" =>
    \A e \in DOMAIN todo : /\ todo[e] \in Val
                           /\ e \in Item => e \in DOMAIN base /\ todo[e] # base[e]

(* Whatever crashes there were, runs that go on produce an input file,     *)
(* unless the pre-report is damaged, has no new item in it or lacks a      *)
(* parent, for no later run ever downloads it again; or the download fails *)
(* every time; or a base report was written without one, for then no run   *)
(* goes on.                                                                *)
Recovers ==
  \/ <>(input # None)
  \/ <>[](pre # None /\ ~Reportable)
  \/ []<>(pc = "generate" /\ pre = None)
  \/ <>[](pre = None /\ base # None)

(* "post report file exists. The routine finished": when the changes have  *)
(* been submitted, the routine is finished and no later run submits again. *)
(* Nothing writes that file.                                               *)
Finishes == [][submitted => pc' # "submit"]_vars

=============================================================================
