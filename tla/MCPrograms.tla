----------------------------- MODULE MCPrograms ------------------------------
(***************************************************************************)
(* Programs of the repository that do not call one another, for one run of *)
(* TLC: the Slack server, the pruning of pods, the tagging of resources,   *)
(* the log analyzer and the text of reports.  The one that runs is chosen  *)
(* at the start; what the others would use does not change.                *)
(***************************************************************************)
EXTENDS SlackServer, SequencesExt, TLC

CONSTANTS
  Name, MaxUid, NoPod,
  Resource, Region, Key, Wanted, MaxEdits, NoResource,
  RequestId, Groups, Second, Window, Cutoffs, Times, NoOutput, Torn,
  WorkerName, Type, Reports

VARIABLES
  program,
  job, making, pod, uids, watch, queue, pruner, listed, podsDeleted, event, deletions,
  function, home, tags, regions, objects, step, obj, seen, theirs, changed, found, unread, edits,
  action, group, cutoff, asked, at, targets, stream, line, started, events, saved, output, whole,
  reports, worker, spot, text, cursor, section, result, unreadable, turn, written, origin

prune == <<job, making, pod, uids, watch, queue, pruner, listed, podsDeleted, event, deletions>>
tag == <<function, home, tags, regions, objects, step, obj, seen, theirs, changed, found, unread,
         edits>>
logs == <<action, group, cutoff, asked, at, targets, stream, line, started, events, saved,
          output, whole>>
daily == <<reports, worker, spot, text, cursor, section, result, unreadable, turn, written, origin>>

-----------------------------------------------------------------------------
(* Log groups of two streams.  In the first one a run may lack its REPORT; *)
(* the second may run the same request again, or another one in the same   *)
(* millisecond, and may have a window without a line between its two runs. *)
(* Either may have lost its head, or not have ended.                       *)
Run(id, t) ==
  <<[kind |-> "START", id |-> id, time |-> t],
    [kind |-> "LOG", id |-> id, time |-> t + 1],
    [kind |-> "REPORT", id |-> id, time |-> t + 3]>>

Cut(s) ==
  {SubSeq(s, i, j) : i \in 1..3, j \in 4..Len(s)} \union {SubSeq(s, 1, j) : j \in 1..3}

LogGroups ==
  {g \in {<<s, t>> :
            s \in UNION {Cut(r \o Run("b", 4)) : r \in {Run("a", 0), Front(Run("a", 0))}},
            t \in UNION {Cut(Run(i, u) \o Run("d", u + d)) :
                           i \in {"b", "c"}, u \in {4, 6}, d \in {4, 12}}} :
     Last(g[1]).time <= Last(g[2]).time}

L == INSTANCE LambdaLogs

(* Log groups are sequences of streams; the times are not negative.        *)
ASSUME LogsAssumption ==
  /\ \A g \in Groups : g \in Seq(Seq(L!Line)) /\ \A c \in DOMAIN g : L!IsStream(g[c])
  /\ Second \in Nat \ {0} /\ Window \in Nat /\ Times \subseteq Nat
  /\ Torn \notin Seq(L!Line)

-----------------------------------------------------------------------------
(* Reports of one worker or two, of whom one may not be managed; a parent  *)
(* or child may be missing, as it was made or as it was read, or of an     *)
(* unsupported type or of none, and a comment may begin like hours.        *)
Text == INSTANCE ReportText WITH Reports <- {}

Ref(type, id) == [type |-> type, id |-> id]

Pairs ==
  {<<Ref("UserStory", 1), Ref("Task", 2)>>, <<Ref("", -1), Ref("Bug", 3)>>,
   <<Ref("Epic", 4), Ref("", -1)>>, <<Ref("", 5), Ref("Task", 6)>>,
   <<Ref("UserStory", 7), Ref("-1", -1)>>}

Comments ==
  {<<>>, <<Text!Word, Text!Number(5)>>, <<Text!Number(5)>>, <<Text!Part("digit", 0)>>,
   <<Text!Plus(5), Text!Word>>, <<Text!Part("+", 0)>>, <<Text!Part("blank", 0)>>,
   <<Text!Part("blank", 0), Text!Word>>}

Items ==
  {Text!Item(p[1], p[2], left, invested, c) :
     p \in Pairs, left \in {0, 1}, invested \in {0, 2}, c \in Comments}

PlainItems == {e \in Items : e.comment = <<>> /\ e.parent.id = 1}

Report(name, new, active, closed) ==
  [name |-> name, blanks |-> 0,
   items |-> <<new, active, <<>>, closed>>]

DailyReports ==
  {<<Report("w", <<e>>, <<f>>, <<>>)>> : e \in Items, f \in PlainItems}
  \union {<<Report(v, <<>>, <<f>>, <<>>), Report("w", <<e>>, <<>>, <<f>>)>> :
            v \in {"", "v"}, e \in Items, f \in PlainItems}

D == INSTANCE ReportText

(* A worker whose name is empty has an empty id, and every item that is    *)
(* written has the three parts of its parent and of its child.             *)
ASSUME ReportsAssumption ==
  \A rs \in Reports :
    /\ rs \in Seq(D!ReportType)
    /\ \A w \in DOMAIN rs :
         /\ rs[w].name = "" => rs[w].blanks = 0
         /\ \A s \in D!Sections : \A j \in DOMAIN rs[w].items[s] :
              "nil" \notin {rs[w].items[s][j].parent.type, rs[w].items[s][j].child.type}

-----------------------------------------------------------------------------
P == INSTANCE PrunePods
T == INSTANCE ModifyTags

(* The keys to add are keys of tags.                                       *)
ASSUME TagsAssumption == Wanted \subseteq Key

TagsOff ==
  /\ function = None /\ home = None /\ tags = None /\ regions = None /\ objects = None
  /\ step = None /\ obj = None /\ seen = None /\ theirs = None /\ changed = None
  /\ found = None /\ unread = None /\ edits = None

LogsOff ==
  /\ action = None /\ group = None /\ cutoff = None /\ asked = None /\ at = None
  /\ targets = None /\ stream = None /\ line = None /\ started = None /\ events = None
  /\ saved = None /\ output = None /\ whole = None

TextOff ==
  /\ reports = None /\ worker = None /\ spot = None /\ text = None /\ cursor = None
  /\ section = None /\ result = None /\ unreadable = None /\ turn = None
  /\ written = None /\ origin = None

ProgramsInit ==
  /\ program \in {"slack", "prune", "tags", "logs", "text"}
  /\ Init /\ P!Init
  /\ IF program = "tags" THEN T!Init ELSE TagsOff
  /\ IF program = "logs" THEN L!Init ELSE LogsOff
  /\ IF program = "text" THEN D!Init ELSE TextOff

ProgramsNext ==
  /\ UNCHANGED program
  /\ \/ program = "slack" /\ Next /\ UNCHANGED <<prune, tag, logs, daily>>
     \/ program = "prune" /\ P!Next /\ UNCHANGED <<vars, tag, logs, daily>>
     \/ program = "tags" /\ T!Next /\ UNCHANGED <<vars, prune, logs, daily>>
     \/ program = "logs" /\ L!Next /\ UNCHANGED <<vars, prune, tag, daily>>
     \/ program = "text" /\ D!Next /\ UNCHANGED <<vars, prune, tag, logs>>

Programs == ProgramsInit /\ [][ProgramsNext]_<<program, vars, prune, tag, logs, daily>>

(* Requests are interchangeable.                                           *)
Symmetry == Permutations(Request)

-----------------------------------------------------------------------------
(* A pod is deleted while it runs only if it took the name of a finished   *)
(* one between that one's event and the deletion (PrunePods).              *)
RunningSpared == P!RunningSpared

(* The tags others made are kept where the function is to keep them, and a *)
(* function that succeeds leaves no resource without its tags, but those   *)
(* others changed or whose tags it could not fetch (modify_tags.go).       *)
TagsRight == program = "tags" => T!TagsRight

(* The saved files are the runs of the streams that were read, and what is *)
(* written for a point in time is the run then or the one after it, or the *)
(* one before it if no line is near after the point (log_analizer.go).     *)
LogsRight == program = "logs" => L!LogsRight

(* A report that was written is read again item by item: the same work     *)
(* items with clear hours and comments, or nothing of one that is not      *)
(* clear or not supported (WriteDailyToHRFile, ReadDailyFromHRFile).       *)
ReadsBack == program = "text" => D!ReadsBack
=============================================================================
