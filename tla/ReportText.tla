----------------------------- MODULE ReportText ------------------------------
(***************************************************************************)
(* The text of a daily report (src/human_api/daily_handler.go): what       *)
(* WriteDailyToHRFile writes for the reports of the workers, and what      *)
(* ReadDailyFromHRFile makes of it.  The routine of the day writes one,    *)
(* the user edits it, and the routine reads it (human_api.go:227, 410);    *)
(* here it is read as it was written.                                      *)
(*                                                                         *)
(* A text is a sequence of lines and the actions of an item are the parts  *)
(* between its commas; a part is told from another by how it begins.  No   *)
(* title contains a delimiter or the end of a line, and no write fails.    *)
(***************************************************************************)
EXTENDS Integers, Sequences

CONSTANTS
  WorkerName, \* the names of workers
  Type,       \* the types of work items, of which the reader supports some
  Reports     \* sequences of reports of workers, of which one is written

Sections == 1..4   \* NEW, ACTIVE, BLOCKED, CLOSED

(* A part: digits, or these after a sign; or a word, whose kind is "digit" *)
(* or "+" when it begins with one; or nothing but blanks.                  *)
Kinds == {"number", "-number", "+number", "digit", "+", "word", "blank"}
Part(kind, n) == [kind |-> kind, n |-> n]
Number(n) == Part(IF n < 0 THEN "-number" ELSE "number", n)
Plus(n) == Part("+number", n)
Word == Part("word", 0)

(* An item of a report.  A parent or child that is not there has no type   *)
(* and the id -1.                                                          *)
Item(parent, child, left, invested, comment) ==
  [parent |-> parent, child |-> child,
   left |-> left, invested |-> invested, comment |-> comment]

(* The id of a worker is a name after some blanks.  The type "-1" is that  *)
(* of what is not there, once it was read; "nil" stands for no reference   *)
(* at all, as in the item that comes with an error.                        *)
Reference == [type : Type \cup {"", "-1", "nil"}, id : Int]
Nil == [type |-> "nil", id |-> 0]
NoItem == Item(Nil, Nil, 0, 0, <<>>)
ItemType == [parent : Reference, child : Reference, left : Int, invested : Int,
             comment : Seq([kind : Kinds, n : Int])]
ReportType == [name : WorkerName \cup {""}, blanks : Nat, items : [Sections -> Seq(ItemType)]]

VARIABLES
  reports,     \* what is written
  worker,      \* the reports that were gone through
  spot,        \* where in the reports the last line is from
  text,        \* the file
  cursor,      \* the lines that were read
  section,     \* the one they are in
  result,      \* the reports that were read
  unreadable,  \* the text could not be read
  turn,
  written, origin \* history: the reports that are in the text, and where its lines are from

writer == <<reports, worker, spot, text, written, origin>>
reader == <<cursor, section, result, unreadable>>
vars == <<writer, reader, turn>>

(* A line of the n-th report that is written: of its worker, or of a       *)
(* section, or of the i-th item in that section.                           *)
Place(n, s, i) == [report |-> n, section |-> s, item |-> i]
Nowhere == Place(0, 0, 0)

Init ==
  /\ reports \in Reports
  /\ worker = 0 /\ spot = Nowhere /\ text = <<>> /\ written = <<>> /\ origin = <<>>
  /\ cursor = 0 /\ section = 0 /\ result = <<>> /\ unreadable = FALSE
  /\ turn = "write"

-----------------------------------------------------------------------------
(* WriteWorkerWobjStatusDailyToHRFile.  Hours of 0 are not written, and    *)
(* the plus of hours invested only after hours left.                       *)
ActionsOf(item) ==
  LET left == IF item.left = 0 THEN <<>> ELSE <<Number(item.left)>>
      invested == IF item.invested = 0 THEN <<>>
                  ELSE IF left = <<>> THEN <<Number(item.invested)>> ELSE <<Plus(item.invested)>>
  IN left \o invested \o item.comment

ItemLine(item) ==
  [line |-> "item", parent |-> item.parent, child |-> item.child, actions |-> ActionsOf(item)]

(* The worker's name is written after a blank.                             *)
LineOf(report, s, i) ==
  CASE s = 0 -> [line |-> "worker", name |-> report.name, blanks |-> report.blanks + 1]
    [] s # 0 /\ i = 0 -> [line |-> "section", section |-> s]
    [] s # 0 /\ i # 0 -> ItemLine(report.items[s][i])

Managed(report) == report.name # ""

ItemsAt(p) == reports[written[p.report]].items[p.section]
SectionDone(p) == p.section # 0 => p.item = Len(ItemsAt(p))
ReportDone(p) == p.report # 0 => p.section = 4 /\ p.item = Len(ItemsAt(p))

WriteLine(report, p) ==
  /\ spot' = p /\ origin' = Append(origin, p)
  /\ text' = Append(text, LineOf(report, p.section, p.item))

(* WriteDailyToHRFile, report by report                                    *)
WriteWorker ==
  /\ turn = "write" /\ ReportDone(spot) /\ worker < Len(reports)
  /\ worker' = worker + 1
  /\ IF Managed(reports[worker + 1])
     THEN /\ written' = Append(written, worker + 1)
          /\ WriteLine(reports[worker + 1], Place(spot.report + 1, 0, 0))
     ELSE UNCHANGED <<spot, text, written, origin>>
  /\ UNCHANGED <<reports, reader, turn>>

WriteSection ==
  /\ turn = "write" /\ spot # Nowhere /\ spot.section < 4 /\ SectionDone(spot)
  /\ WriteLine(reports[worker], Place(spot.report, spot.section + 1, 0))
  /\ UNCHANGED <<reports, worker, written, reader, turn>>

WriteItem ==
  /\ turn = "write" /\ ~SectionDone(spot)
  /\ WriteLine(reports[worker], Place(spot.report, spot.section, spot.item + 1))
  /\ UNCHANGED <<reports, worker, written, reader, turn>>

(* After the last end of a line there is an empty one.                     *)
WriteEnd ==
  /\ turn = "write" /\ ReportDone(spot) /\ worker = Len(reports)
  /\ text' = Append(text, [line |-> "empty"])
  /\ turn' = "read"
  /\ UNCHANGED <<reports, worker, spot, written, origin, reader>>

-----------------------------------------------------------------------------
(* GenerateWobjectActionsFromHapiSubLine: hours left are digits in the     *)
(* first part, hours invested a plus and digits in the part after that,    *)
(* the rest is the comment.  Hours that are not there are -1.              *)
AfterLeft(parts) ==
  IF parts # <<>> /\ parts[1].kind = "number" THEN Tail(parts) ELSE parts

ReadActions(parts) ==
  LET rest == AfterLeft(parts)
      hasInvested == rest # <<>> /\ rest[1].kind = "+number"
  IN [left |-> IF parts # <<>> /\ parts[1].kind = "number" THEN parts[1].n ELSE -1,
      invested |-> IF hasInvested THEN rest[1].n ELSE -1,
      comment |-> IF hasInvested THEN Tail(rest) ELSE rest]

(* Digits or a plus that go on as a word are an error; the first character *)
(* of a blank part where hours may be is out of range.                     *)
ReadableActions(parts) ==
  LET rest == AfterLeft(parts)
  IN parts # <<>> => /\ parts[1].kind \notin {"digit", "blank"}
                     /\ rest # <<>> => rest[1].kind \notin {"+", "blank"}

OutOfRange(parts) == AfterLeft(parts) # <<>> /\ AfterLeft(parts)[1].kind = "blank"

(* The actions without the blanks around them.                             *)
Trimmed(parts) == IF Len(parts) = 1 /\ parts[1].kind = "blank" THEN <<>> ELSE parts

(* SplitReportWobjectSubLineToTokens.  Without a type only "-1 #-1" can be *)
(* read, which is then of the type "-1".                                   *)
Types == {"UserStory", "Task", "Feature", "DevOpsSupport", "Bug"}
Known(ref) == ref.type \in Types \/ (ref.type = "" /\ ref.id = -1)
Tokens(ref) == IF ref.type = "" THEN [ref EXCEPT !.type = "-1"] ELSE ref

(* GenerateWobjectReportFromHapiLine reads a line, or returns an error.    *)
Readable(l) == Known(l.parent) /\ Known(l.child) /\ ReadableActions(Trimmed(l.actions))

Fails(l) ==
  ~Readable(l) /\ (Known(l.parent) /\ Known(l.child) => ~OutOfRange(Trimmed(l.actions)))

ReadItem(l) ==
  LET a == ReadActions(Trimmed(l.actions))
  IN Item(Tokens(l.parent), Tokens(l.child), a.left, a.invested, a.comment)

-----------------------------------------------------------------------------
(* ReadDailyFromHRFile, line by line.  SplitHapiLinesToWorkerChunks begins *)
(* a report at the first line and at every line of a worker, and           *)
(* SpitChunkByTypes sorts the lines in between by the section they are in. *)
(* In a text that was written, items come after a section, and sections    *)
(* after a worker.                                                         *)
NextLine == text[cursor + 1]

ReadsLine(kind) ==
  /\ turn = "read" /\ cursor < Len(text) /\ NextLine.line = kind
  /\ cursor' = cursor + 1
  /\ UNCHANGED writer

NewReport(name, blanks) ==
  [name |-> name, blanks |-> blanks, items |-> [s \in Sections |-> <<>>]]

ReadWorker ==
  /\ ReadsLine("worker")
  /\ result' = Append(result, NewReport(NextLine.name, NextLine.blanks))
  /\ section' = 0
  /\ UNCHANGED <<unreadable, turn>>

(* Mutation: the first section of a worker goes on.                        *)
ReadSectionOnce ==
  /\ ReadsLine("section")
  /\ section' = IF section = 0 THEN NextLine.section ELSE section
  /\ UNCHANGED <<result, unreadable, turn>>

ReadSection ==
  /\ ReadsLine("section")
  /\ section' = NextLine.section
  /\ UNCHANGED <<result, unreadable, turn>>

Adds(item) ==
  /\ result' = [result EXCEPT ![Len(result)].items[section] = Append(@, item)]
  /\ UNCHANGED <<section, unreadable, turn>>

ReadItemLine ==
  /\ ReadsLine("item")
  /\ Readable(NextLine)
  /\ Adds(ReadItem(NextLine))

(* One item that cannot be read ends the reading of the file in a panic.   *)
Panic ==
  /\ ReadsLine("item")
  /\ ~Readable(NextLine)
  /\ unreadable' = TRUE /\ result' = <<>> /\ turn' = "done"
  /\ UNCHANGED section

(* But check returns when it cannot write the error to its file, and then  *)
(* what came with the error is taken for the item.                         *)
ReadUnlogged ==
  /\ ReadsLine("item")
  /\ Fails(NextLine)
  /\ Adds(NoItem)

(* A text of nothing but the empty line is a report of nobody.             *)
ReadEmpty ==
  /\ ReadsLine("empty")
  /\ result' = IF result = <<>> THEN <<NewReport("", 0)>> ELSE result
  /\ UNCHANGED <<section, unreadable, turn>>

ReadEnd ==
  /\ turn = "read" /\ cursor = Len(text)
  /\ turn' = "done"
  /\ UNCHANGED <<writer, reader>>

Next ==
  \/ WriteWorker \/ WriteSection \/ WriteItem \/ WriteEnd
  \/ ReadWorker \/ ReadSection \/ ReadItemLine \/ Panic \/ ReadUnlogged
  \/ ReadEmpty \/ ReadEnd

Spec == Init /\ [][Next]_vars

-----------------------------------------------------------------------------
(* An item whose actions the reader takes for what they are: hours are     *)
(* given or 0, hours invested only with hours left, and the comment does   *)
(* not begin like hours that are not there.                                *)
Clear(item) ==
  LET first == IF item.comment = <<>> THEN "word" ELSE item.comment[1].kind
  IN /\ item.left > 0 \/ (item.left = 0 /\ item.invested = 0)
     /\ item.invested >= 0
     /\ item.left = 0 => first \notin {"number", "digit"}
     /\ item.invested = 0 => first \notin {"+number", "+", "blank"}

Hours(n) == IF n = 0 THEN -1 ELSE n
SameHours(r, w) == r.left = Hours(w.left) /\ r.invested = Hours(w.invested)

Supported(item) == Known(item.parent) /\ Known(item.child)

SameItem(r, w) ==
  /\ r.parent.id = w.parent.id /\ r.child.id = w.child.id
  /\ Clear(w) => SameHours(r, w) /\ r.comment = w.comment

ReadAs(r, w) == SameItem(r, w) \/ (r = NoItem /\ ~(Clear(w) /\ Supported(w)))

SameReport(r, w) ==
  /\ r.name = w.name
  /\ \A s \in Sections :
       /\ Len(r.items[s]) = Len(w.items[s])
       /\ \A j \in DOMAIN r.items[s] : ReadAs(r.items[s][j], w.items[s][j])

ManagedReports == {w \in DOMAIN reports : Managed(reports[w])}

(* What was written is read again: every worker that is managed, in the    *)
(* order of the reports, and under each status as many items in the same   *)
(* order.  Each is the work item that was written, whatever hours and      *)
(* comment it carries, and if it is clear its hours and its comment are    *)
(* those; only an item that is not clear or of another type may have       *)
(* become one without anything, or be why the text is not read at all.     *)
(* (The name of a worker comes back with a blank before it.)               *)
ReadsBack ==
  turn = "done" /\ ManagedReports # {} =>
    IF unreadable
    THEN \E w \in ManagedReports : \E s \in Sections : \E j \in DOMAIN reports[w].items[s] :
           ~(Clear(reports[w].items[s][j]) /\ Supported(reports[w].items[s][j]))
    ELSE /\ Len(result) = Len(written)
         /\ {written[n] : n \in DOMAIN written} = ManagedReports
         /\ \A m, n \in DOMAIN written : m < n => written[m] < written[n]
         /\ \A n \in DOMAIN written : SameReport(result[n], reports[written[n]])
=============================================================================
