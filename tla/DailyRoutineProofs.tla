------------------------- MODULE DailyRoutineProofs -------------------------
(***************************************************************************)
(* Proofs about DailyRoutine, for every set of work items and values and   *)
(* any number of crashes.                                                  *)
(*                                                                         *)
(* StatusDefined is not inductive: that a base report is one of the        *)
(* pre-report beside it, or of none that a run could not log, holds because *)
(* a pre-report is only downloaded when there is no base report, and       *)
(* neither is written while there is an input file.  Phases says so of     *)
(* every place the program can be in.                                      *)
(***************************************************************************)
EXTENDS DailyRoutine, TLAPS

Phases ==
  /\ pc \in {"download", "generate", "copy"} => input = None
  /\ pc = "download" => base = None
  /\ base # None => base \in Written /\ (IsReport(pre) \/ unlogged)
  /\ pc = "submit" => todo \in Input

Inv ==
  /\ TypeOK
  /\ Phases
  /\ StatusDefined
  /\ SendsOnlyChanges

-----------------------------------------------------------------------------
(* Reports and inputs as partial functions.                                *)

LEMMA InputIntro ==
  ASSUME NEW S \in SUBSET Entry, NEW f \in [S -> Val \cup {Bad}]
  PROVE  f \in Input
BY DEF Input

LEMMA InputElim ==
  ASSUME NEW f \in Input
  PROVE  /\ DOMAIN f \in SUBSET Entry
         /\ f \in [DOMAIN f -> Val \cup {Bad}]
BY DEF Input

LEMMA ReportElim ==
  ASSUME NEW f \in Report
  PROVE  /\ DOMAIN f \in SUBSET Item
         /\ f \in [DOMAIN f -> Val]
         /\ f \in Input
<1>1. PICK S \in SUBSET Item : f \in [S -> Val]
  BY DEF Report
<1>2. S \in SUBSET Entry /\ f \in [S -> Val \cup {Bad}]
  BY <1>1 DEF Entry
<1> QED
  BY <1>1, <1>2, InputIntro

LEMMA RestrictInput ==
  ASSUME NEW f \in Input, NEW S \in SUBSET DOMAIN f
  PROVE  Restrict(f, S) \in Input
<1>1. S \in SUBSET Entry /\ Restrict(f, S) \in [S -> Val \cup {Bad}]
  BY InputElim DEF Restrict
<1> QED
  BY <1>1, InputIntro

LEMMA PieceOfReport ==
  ASSUME NEW f \in Report, NEW g \in Pieces(f)
  PROVE  g \in Report
<1>1. PICK S \in SUBSET DOMAIN f : g = Restrict(f, S)
  BY DEF Pieces
<1>2. S \in SUBSET Item /\ g \in [S -> Val]
  BY <1>1, ReportElim DEF Restrict
<1> QED
  BY <1>2 DEF Report

LEMMA WholeReport ==
  ASSUME NEW f \in [Item -> Val]
  PROVE  f \in Report /\ f \in Pieces(f)
<1>1. f = Restrict(f, Item)
  BY DEF Restrict
<1> QED
  BY <1>1 DEF Report, Pieces

LEMMA CutOffReport ==
  ASSUME NEW f \in Report \cup {Torn}
  PROVE  CutOff(f) \subseteq Report \cup {Torn}
BY PieceOfReport DEF CutOff, IsReport

LEMMA WrittenReport ==
  ASSUME TypeOK
  PROVE  Written \subseteq Report \cup {Torn}
<1>1. IsReport(pre) => pre \in Report
  BY WholeReport DEF TypeOK, IsReport
<1>2. Empty \in Report
  BY DEF Empty, Report
<1> QED
  BY <1>1, <1>2, CutOffReport DEF Written

(* What may be written of a pre-report stays the same while it does.       *)
LEMMA WrittenStays == UNCHANGED pre => Written' = Written /\ (IsReport(pre)' <=> IsReport(pre))
BY DEF Written, CutOff, IsReport

(* What is copied, whole or not, is something an input file may be.        *)
LEMMA CopyOfBase ==
  ASSUME TypeOK, base # None
  PROVE  base \in Input \cup {Torn} /\ CutOff(base) \subseteq Input \cup {Torn}
<1>1. base \in Report \cup {Torn}
  BY DEF TypeOK
<1> QED
  BY <1>1, CutOffReport, ReportElim

-----------------------------------------------------------------------------
LEMMA InitInv == Init => Inv
<1> SUFFICES ASSUME Init PROVE Inv
  OBVIOUS
<1> USE DEF Init
<1>0. crashes \in 0..MaxCrash
  BY ItemAssumption
<1>1. TypeOK
  BY <1>0 DEF TypeOK
<1>2. Phases /\ StatusDefined /\ SendsOnlyChanges
  BY DEF Phases, StatusDefined, SendsOnlyChanges
<1> QED
  BY <1>1, <1>2 DEF Inv

(* One lemma per action.                                                   *)

LEMMA ExtractStep ==
  ASSUME Inv, Extract
  PROVE  Inv'
<1> USE DEF Inv, Extract, Goto, files
<1>1. TypeOK'
  BY DEF TypeOK
<1>2. Phases' /\ StatusDefined' /\ SendsOnlyChanges'
  BY WrittenStays DEF Phases, StatusDefined, SendsOnlyChanges
<1> QED
  BY <1>1, <1>2

(* What is sent is what a valid input says of the items it changes.        *)
LEMMA SubmitStep ==
  ASSUME Inv, Submit
  PROVE  Inv'
<1> USE DEF Inv, Submit, MaySubmit, Goto, files
<1>1. PICK in \in InputRead, from \in BaseRead :
        /\ Valid(in, from)
        /\ todo' = Restrict(in, Changed(in, from))
        /\ unlogged' = (unlogged \/ in # input \/ from # base)
  OBVIOUS
<1>2. in \in Input /\ Changed(in, from) \in SUBSET DOMAIN in
  BY DEF InputRead, Changed
<1>3. todo' \in Input
  BY <1>1, <1>2, RestrictInput
<1>4. unlogged' \in BOOLEAN /\ (unlogged => unlogged')
  BY <1>1 DEF TypeOK
<1>5. TypeOK'
  BY <1>3, <1>4 DEF TypeOK
<1>6. Phases' /\ StatusDefined'
  BY <1>3, <1>4 DEF Phases, StatusDefined, Written, CutOff, IsReport
<1>7. SendsOnlyChanges'
  <2> SUFFICES ASSUME NEW e \in DOMAIN todo'
               PROVE  /\ todo'[e] \in Val
                      /\ e \in Item => e \in DOMAIN base /\ todo'[e] # base[e]
    BY DEF SendsOnlyChanges
  <2>1. e \in Changed(in, from) /\ e \in DOMAIN in /\ todo'[e] = in[e]
    BY <1>1, <1>2 DEF Restrict
  <2>2. in[e] \in Val
    BY <1>1, <1>2, <2>1, InputElim DEF Valid
  <2>3. e \in Item => e \in DOMAIN from
    BY <1>1, <2>1, ItemAssumption DEF Valid
  <2>4. e \in DOMAIN from => from = base
    BY DEF BaseRead, Empty
  <2> QED
    BY <2>1, <2>2, <2>3, <2>4 DEF Changed
<1> QED
  BY <1>5, <1>6, <1>7

LEMMA DownloadStep ==
  ASSUME Inv, Download
  PROVE  Inv'
<1> USE DEF Inv, Download, Goto
<1>1. TypeOK'
  BY DEF TypeOK
<1>2. Phases' /\ StatusDefined' /\ SendsOnlyChanges'
  BY DEF Phases, StatusDefined, SendsOnlyChanges
<1> QED
  BY <1>1, <1>2

LEMMA GeneratePanicsStep ==
  ASSUME Inv, GeneratePanics
  PROVE  Inv'
<1> USE DEF Inv, GeneratePanics, Goto, files
<1>1. TypeOK'
  BY DEF TypeOK
<1>2. Phases' /\ StatusDefined' /\ SendsOnlyChanges'
  BY WrittenStays DEF Phases, StatusDefined, SendsOnlyChanges
<1> QED
  BY <1>1, <1>2

LEMMA GenerateUnloggedStep ==
  ASSUME Inv, GenerateUnlogged
  PROVE  Inv'
<1> USE DEF Inv, GenerateUnlogged, Goto
<1>1. base' \in Report \cup {None, Torn}
  BY WrittenReport DEF TypeOK
<1>2. TypeOK'
  BY <1>1 DEF TypeOK
<1>3. Phases'
  BY DEF Phases, Written, IsReport, CutOff
<1>4. StatusDefined' /\ SendsOnlyChanges'
  BY DEF Phases, StatusDefined, SendsOnlyChanges
<1> QED
  BY <1>2, <1>3, <1>4

LEMMA GenerateStep ==
  ASSUME Inv, Generate \/ GenerateFails
  PROVE  Inv'
<1> USE DEF Inv, Generate, GenerateFails, Goto
<1>1. IsReport(pre) /\ pre \in [Item -> Val]
  BY DEF Reportable, IsReport, TypeOK
<1>2. pre \in Report /\ pre \in Written
  BY <1>1, WholeReport DEF CutOff, Written, IsReport
<1>3. base' \in {base} \cup Written
  BY <1>2
<1>4. base' \in Report \cup {None, Torn}
  BY <1>3, WrittenReport DEF TypeOK
<1>5. TypeOK'
  BY <1>4 DEF TypeOK
<1>6. Phases'
  BY <1>1, <1>3 DEF Phases, IsReport, CutOff, Written
<1>7. StatusDefined' /\ SendsOnlyChanges'
  BY DEF Phases, StatusDefined, SendsOnlyChanges
<1> QED
  BY <1>5, <1>6, <1>7

LEMMA CopyStep ==
  ASSUME Inv, Copy \/ CopyFails
  PROVE  Inv'
<1> USE DEF Inv, Copy, CopyFails, Goto
<1>1. input' \in Input \cup {None, Torn}
  BY CopyOfBase
<1>2. input' # None => base # None
  OBVIOUS
<1>3. TypeOK'
  BY <1>1 DEF TypeOK
<1>4. Phases' /\ StatusDefined' /\ SendsOnlyChanges'
  BY <1>2 DEF Phases, StatusDefined, SendsOnlyChanges, IsReport, CutOff, Written
<1> QED
  BY <1>3, <1>4

LEMMA PatchStep ==
  ASSUME Inv, NEW e \in Entry, Patch(e)
  PROVE  Inv'
<1> USE DEF Inv, Patch, Goto, files
<1>1. todo \in Input
  BY DEF Phases
<1>2. todo[e] \in Val
  BY DEF SendsOnlyChanges
<1>3. todo' \in Input
  BY <1>1, RestrictInput
<1>4. TypeOK'
  BY <1>2, <1>3 DEF TypeOK
<1>5. Phases' /\ StatusDefined'
  BY <1>3, WrittenStays DEF Phases, StatusDefined, IsReport
<1>6. SendsOnlyChanges'
  BY DEF SendsOnlyChanges, Restrict
<1> QED
  BY <1>4, <1>5, <1>6

LEMMA PatchFailsStep ==
  ASSUME Inv, NEW e \in Entry, PatchFails(e)
  PROVE  Inv'
<1> USE DEF Inv, PatchFails, Goto, files
<1>1. todo[e] \in Val
  BY DEF SendsOnlyChanges
<1>2. TypeOK'
  BY <1>1 DEF TypeOK
<1>3. Phases' /\ StatusDefined' /\ SendsOnlyChanges'
  BY WrittenStays DEF Phases, StatusDefined, SendsOnlyChanges
<1> QED
  BY <1>2, <1>3

LEMMA SubmittedStep ==
  ASSUME Inv, Submitted
  PROVE  Inv'
<1> USE DEF Inv, Submitted, Goto, files
<1>1. TypeOK'
  BY DEF TypeOK
<1>2. Phases' /\ StatusDefined' /\ SendsOnlyChanges'
  BY WrittenStays DEF Phases, StatusDefined, SendsOnlyChanges
<1> QED
  BY <1>1, <1>2

(* A crash cuts off one write; none of them is to a file that an input     *)
(* file depends on.                                                        *)
LEMMA CrashStep ==
  ASSUME Inv, Crash
  PROVE  Inv'
<1> USE DEF Inv, Crash
<1>1. remote' \in [Item -> Val]
  BY DEF TypeOK, SendsOnlyChanges
<1>2. base' \in Report \cup {None, Torn}
  BY WrittenReport DEF TypeOK
<1>3. input' \in Input \cup {None, Torn}
  <2>1. CASE pc = "copy" /\ base # None
    BY <2>1, CopyOfBase DEF TypeOK
  <2>2. CASE ~(pc = "copy" /\ base # None)
    BY <2>2 DEF TypeOK
  <2> QED
    BY <2>1, <2>2
<1>4. TypeOK'
  BY <1>1, <1>2, <1>3, ItemAssumption DEF TypeOK
<1>5. pre' # pre => base' = None
  BY DEF Phases
<1>6. base' # base => base' \in Written /\ (IsReport(pre) \/ unlogged')
  BY DEF Reportable
<1>7. base' # None => base' \in Written' /\ (IsReport(pre)' \/ unlogged')
  BY <1>5, <1>6 DEF Phases, IsReport, CutOff, Written
<1>8. Phases'
  BY <1>7 DEF Phases
<1>9. input' # None => base' # None
  <2>1. CASE input' = input
    <3>1. base' = base \/ input = None
      BY DEF Phases
    <3> QED
      BY <2>1, <3>1 DEF StatusDefined
  <2>2. CASE input' # input
    <3>1. pc = "copy" /\ base # None
      BY <2>2
    <3>2. base' = base
      BY <3>1
    <3> QED
      BY <3>1, <3>2
  <2> QED
    BY <2>1, <2>2
<1>10. StatusDefined'
  BY <1>7, <1>9 DEF StatusDefined
<1>11. SendsOnlyChanges'
  BY DEF SendsOnlyChanges
<1> QED
  BY <1>4, <1>8, <1>10, <1>11

LEMMA EditStep ==
  ASSUME Inv, NEW e \in Entry, Edit(e)
  PROVE  Inv'
<1> USE DEF Inv, Edit
<1>1. input \in Input /\ input # None
  BY DEF TypeOK, IsReport
<1>2. input' \in Input
  <2>1. CASE \E v \in Val \cup {Bad} :
               input' = [x \in DOMAIN input \cup {e} |->
                           IF x = e THEN v ELSE input[x]]
    <3>1. DOMAIN input \cup {e} \in SUBSET Entry
      BY <1>1, InputElim
    <3>2. input' \in [DOMAIN input \cup {e} -> Val \cup {Bad}]
      BY <1>1, <2>1, InputElim
    <3> QED
      BY <3>1, <3>2, InputIntro
  <2>2. CASE input' = Restrict(input, DOMAIN input \ {e})
    BY <1>1, <2>2, RestrictInput
  <2> QED
    BY <2>1, <2>2
<1>3. TypeOK'
  BY <1>2 DEF TypeOK
<1>4. Phases' /\ StatusDefined' /\ SendsOnlyChanges'
  BY <1>1, WrittenStays DEF Phases, StatusDefined, SendsOnlyChanges
<1> QED
  BY <1>3, <1>4

LEMMA RewriteStep ==
  ASSUME Inv, Rewrite
  PROVE  Inv'
<1> USE DEF Inv, Rewrite
<1>1. [x \in {} |-> Bad] \in Input
  BY DEF Input
<1>2. TypeOK'
  BY <1>1 DEF TypeOK
<1>3. Phases' /\ StatusDefined' /\ SendsOnlyChanges'
  BY WrittenStays DEF Phases, StatusDefined, SendsOnlyChanges
<1> QED
  BY <1>2, <1>3

LEMMA OthersEditStep ==
  ASSUME Inv, NEW i \in Item, OthersEdit(i)
  PROVE  Inv'
<1> USE DEF Inv, OthersEdit, files
<1>1. TypeOK'
  BY DEF TypeOK
<1>2. Phases' /\ StatusDefined' /\ SendsOnlyChanges'
  BY WrittenStays DEF Phases, StatusDefined, SendsOnlyChanges
<1> QED
  BY <1>1, <1>2

LEMMA StepInv == Inv /\ [Next]_vars => Inv'
<1> SUFFICES ASSUME Inv, [Next]_vars PROVE Inv'
  OBVIOUS
<1>1. CASE Run
  BY <1>1, ExtractStep, SubmitStep, DownloadStep, GeneratePanicsStep,
     GenerateUnloggedStep, GenerateStep, CopyStep, PatchStep, PatchFailsStep, SubmittedStep DEF Run
<1>2. CASE Crash
  BY <1>2, CrashStep
<1>3. CASE \E e \in Entry : Edit(e)
  BY <1>3, EditStep
<1>4. CASE \E i \in Item : OthersEdit(i)
  BY <1>4, OthersEditStep
<1>6. CASE Rewrite
  BY <1>6, RewriteStep
<1>5. CASE UNCHANGED vars
  BY <1>5 DEF vars, files, Inv, TypeOK, Phases, StatusDefined, Written, CutOff, IsReport,
              SendsOnlyChanges
<1> QED
  BY <1>1, <1>2, <1>3, <1>4, <1>5, <1>6 DEF Next

LEMMA Invariance == Spec => []Inv
BY InitInv, StepInv, PTL DEF Spec

-----------------------------------------------------------------------------
(* The files, the run and the requests always have their types.            *)
THEOREM TypeCorrect == Spec => []TypeOK
<1>1. Inv => TypeOK
  BY DEF Inv
<1> QED
  BY <1>1, Invariance, PTL

(* Whatever writes failed or were cut off by crashes, an input file lies   *)
(* beside a base report that says only what the pre-report says, and the   *)
(* error "undefined status" of DailyRoutine, for want of a pre-report, is  *)
(* reached only after a run that could not write /tmp/hapi.log.            *)
THEOREM StatusIsDefined == Spec => []StatusDefined
<1>1. Inv => StatusDefined
  BY DEF Inv
<1> QED
  BY <1>1, Invariance, PTL

(* DailyRoutineSubmit sends nothing that the validation rejects and no     *)
(* item that the user left as it was.                                      *)
THEOREM OnlyChangesAreSent == Spec => []SendsOnlyChanges
<1>1. Inv => SendsOnlyChanges
  BY DEF Inv
<1> QED
  BY <1>1, Invariance, PTL

(* No run and no crash overwrites the user's edits, or the reports they    *)
(* are compared with.                                                      *)
THEOREM EditsAreKept == Spec => EditsKept
<1> DEFINE Kept == input # None =>
                     /\ UNCHANGED <<pre, base>>
                     /\ input' # input => UNCHANGED <<pc, crashes>>
<1>1. Inv /\ [Next]_vars => [Kept]_vars
  <2> SUFFICES ASSUME Inv, Next, input # None PROVE Kept
    OBVIOUS
  <2>1. pc \notin {"download", "generate", "copy"}
    BY DEF Inv, Phases
  <2>2. CASE Run
    BY <2>1, <2>2 DEF Run, Extract, Submit, Download, GeneratePanics,
       GenerateUnlogged, Generate, GenerateFails, Copy, CopyFails, Patch, PatchFails, Submitted, Goto, files
  <2>3. CASE Crash
    BY <2>1, <2>3 DEF Crash
  <2>4. CASE \E e \in Entry : Edit(e)
    BY <2>4 DEF Edit
  <2>5. CASE \E i \in Item : OthersEdit(i)
    BY <2>5 DEF OthersEdit, files
  <2>6. CASE Rewrite
    BY <2>6 DEF Rewrite
  <2> QED
    BY <2>2, <2>3, <2>4, <2>5, <2>6 DEF Next
<1> QED
  BY <1>1, Invariance, PTL DEF Spec, EditsKept

=============================================================================
