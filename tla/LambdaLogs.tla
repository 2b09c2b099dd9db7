----------------------------- MODULE LambdaLogs ------------------------------
(***************************************************************************)
(* The log analyzer (src/aws_api/log_analizer/log_analizer.go), which cuts *)
(* the streams of a log group into the runs of a Lambda function.  Its two *)
(* actions are GetAllLamdasLogs, which saves every run in a file named by  *)
(* the time of its first line, and GetLamdaLogs, which saves the run at a  *)
(* point in time.                                                          *)
(*                                                                         *)
(* A run of an id writes START, other lines and REPORT to one stream.  A   *)
(* stream may begin and end in the middle of a run: its head was removed   *)
(* with the retention, its last run has not ended.                         *)
(***************************************************************************)
EXTENDS Integers, Sequences, SequencesExt

CONSTANTS
  RequestId, \* the ids of runs
  Groups,    \* log groups: streams, the last one with the newest last line
  Second,    \* times are in milliseconds; this many are a second
  Window,    \* 15 minutes
  Cutoffs,   \* SaveAllLamdasLogs skips streams that begin before one of these
  Times,     \* that a user may ask for
  NoOutput,
  Torn       \* what a failed write leaves: an empty file, a part, or all of it

VARIABLES
  action,    \* "all" or "point"
  group,     \* its streams, in the order of the listing
  cutoff,
  asked,     \* the time the user asked for
  at,        \* "group", "list", "streams", "lines", "picked"; or "ok", "error", "panic"
  targets,   \* the streams left to read
  stream,    \* the one that is read
  line,      \* the lines of it that were read
  started, events, \* the lines of a run, kept between lines and, by the
             \* closure of SaveAllLamdasLogs, between streams
  saved,     \* the files it has written, by their names
  output,    \* the lines GetLamdaLogs wrote last, and the stream they are from
  whole      \* history: every stream was read to its end

asking == <<action, group, cutoff, asked>>
reading == <<targets, stream, line>>
run == <<started, events>>
vars == <<asking, at, reading, run, saved, output, whole>>

Line == [kind : {"START", "LOG", "REPORT"}, id : RequestId, time : Nat]

(* One instance of the function writes to a stream, and handles one        *)
(* request at a time: times do not decrease, and a line that starts no run *)
(* belongs to the run of the line before it.                               *)
IsStream(s) ==
  /\ s \in Seq(Line) /\ s # <<>>
  /\ \A i, j \in DOMAIN s : i < j => s[i].time <= s[j].time
  /\ \A i \in DOMAIN s \ {1} : s[i].kind # "START" => s[i].id = s[i - 1].id

(* ParseArgsLambdaLogsAction keeps the seconds.                            *)
PointInTime == asked - (asked % Second)

Init ==
  /\ action \in {"all", "point"}
  /\ \E g \in Groups : group = IF action = "all" THEN g ELSE Reverse(g)
  /\ cutoff \in IF action = "all" THEN Cutoffs ELSE {0}
  /\ asked \in IF action = "all" THEN {0} ELSE Times
  /\ at = "group" /\ targets = {} /\ stream = 0 /\ line = 0
  /\ started = FALSE /\ events = <<>> /\ saved = <<>>
  /\ output = NoOutput /\ whole = TRUE

(* InitLogGroup finds the function and its log group, fails, or goes on    *)
(* with nothing found.                                                     *)
InitLogGroup ==
  /\ at = "group"
  /\ at' \in {"list", "error", "panic"}
  /\ UNCHANGED <<asking, reading, run, saved, output, whole>>

(* SaveAllLamdasLogs skips old streams.  GetLamdaLogs has the newest ones  *)
(* first: one that ends before the point ends the listing, one that begins *)
(* after it is passed over.                                                *)
Selected ==
  IF action = "all" THEN {c \in DOMAIN group : group[c][1].time >= cutoff}
  ELSE {c \in DOMAIN group :
          /\ \A d \in 1..c : group[d][Len(group[d])].time >= PointInTime
          /\ group[c][1].time <= PointInTime}

ListStreams ==
  /\ at = "list"
  /\ \/ at' = "streams" /\ targets' = Selected
     \/ at' = "error" /\ UNCHANGED targets
  /\ UNCHANGED <<asking, stream, line, run, saved, output, whole>>

(* Only GetLamdaLogs begins each stream anew.                              *)
OpenStream ==
  /\ at = "streams" /\ at' = "lines"
  /\ \E c \in targets :
       /\ \A d \in targets : c <= d
       /\ stream' = c /\ targets' = targets \ {c} /\ line' = 0
  /\ IF action = "all" THEN UNCHANGED run ELSE started' = FALSE /\ events' = <<>>
  /\ UNCHANGED <<asking, saved, output, whole>>

Current == group[stream]
NextLine == Current[line + 1]

(* YieldStreamEvents hands on the lines one after the other.               *)
ReadsLine(a) ==
  /\ at = "lines" /\ action = a /\ line < Len(Current)
  /\ line' = line + 1

LinesEnd ==
  /\ at = "lines" /\ line = Len(Current)
  /\ at' = IF action = "all" THEN "streams" ELSE "picked"
  /\ UNCHANGED <<asking, reading, run, saved, output, whole>>

(* A page that cannot be read.  For SaveAllLamdasLogs this ends the        *)
(* listing without an error: nothing says that later streams were not      *)
(* read.  GetLamdaLogs drops the error.                                    *)
LinesFail ==
  /\ at = "lines"
  /\ at' = IF action = "all" THEN "ok" ELSE "picked"
  /\ whole' = FALSE
  /\ UNCHANGED <<asking, reading, run, saved, output>>

-----------------------------------------------------------------------------
(* Mutation: the lines of a saved run are kept.                            *)
SaveFileKeeps(lines) ==
  /\ started' = FALSE /\ events' = lines
  /\ saved' = [t \in DOMAIN saved \union {lines[1].time} |->
                 IF t = lines[1].time THEN lines ELSE saved[t]]

(* GetAllLamdasLogs: the closure of SaveAllLamdasLogs.                     *)
SaveFile(lines) ==
  /\ started' = FALSE /\ events' = <<>>
  /\ saved' = [t \in DOMAIN saved \union {lines[1].time} |->
                 IF t = lines[1].time THEN lines ELSE saved[t]]

SameMessage(l1, l2) == l1.kind = l2.kind /\ l1.id = l2.id

(* A START within a run that does not repeat the line before it.           *)
Refused ==
  NextLine.kind = "START" /\ started /\ ~SameMessage(events[Len(events)], NextLine)

SkipLine ==
  /\ ReadsLine("all")
  /\ NextLine.kind # "START" /\ ~started
  /\ UNCHANGED <<asking, at, targets, stream, run, saved, output, whole>>

KeepLine ==
  /\ ReadsLine("all")
  /\ NextLine.kind = "START" \/ started
  /\ ~Refused
  /\ LET lines == Append(events, NextLine)
     IN IF NextLine.kind = "REPORT" THEN SaveFile(lines)
        ELSE started' = TRUE /\ events' = lines /\ UNCHANGED saved
  /\ UNCHANGED <<asking, at, targets, stream, output, whole>>

(* The file cannot be opened, or the write fails after the file, an older  *)
(* one of that name too, was truncated.  This ends the listing as well,    *)
(* and what was gathered is not looked at any more.                        *)
SaveFails ==
  /\ ReadsLine("all")
  /\ NextLine.kind = "REPORT" /\ started
  /\ \/ UNCHANGED saved
     \/ LET name == events[1].time
        IN saved' = [t \in DOMAIN saved \union {name} |-> IF t = name THEN Torn ELSE saved[t]]
  /\ at' = "ok" /\ whole' = FALSE
  /\ UNCHANGED <<asking, targets, stream, run, output>>

(* The error ends the listing, as one of reading does.                     *)
RefuseLine ==
  /\ ReadsLine("all")
  /\ Refused
  /\ at' = "ok" /\ whole' = FALSE
  /\ UNCHANGED <<asking, targets, stream, run, saved, output>>

-----------------------------------------------------------------------------
(* GetLamdaLogs: the lines of the window around the point are gone through *)
(* for the run that is in progress at the first line not before the point. *)
InWindow(l) == l.time \in (PointInTime - Window)..(PointInTime + Window - 1)

PassLine ==
  /\ ReadsLine("point")
  /\ ~InWindow(NextLine)
  /\ UNCHANGED <<asking, at, targets, stream, run, saved, output, whole>>

PickLine ==
  /\ ReadsLine("point")
  /\ InWindow(NextLine)
  /\ IF started /\ NextLine.kind = "START" THEN at' = "error" /\ UNCHANGED run
     ELSE /\ events' = Append(IF NextLine.kind = "START" THEN <<>> ELSE events, NextLine)
          /\ started' = (started \/ NextLine.time >= PointInTime)
          /\ at' = IF started /\ NextLine.kind = "REPORT" THEN "picked" ELSE "lines"
  /\ UNCHANGED <<asking, targets, stream, saved, output, whole>>

(* The third word of a line is the id in START and REPORT; other lines may *)
(* have any, or be too short to have one.                                  *)
AnyWord(l1, l2) == "LOG" \in {l1.kind, l2.kind}

(* Without lines, or words, there is a panic.  A write that fails may have *)
(* truncated the file.                                                     *)
WriteOutput ==
  /\ at = "picked"
  /\ LET first == events[1]
         last == events[Len(events)]
     IN \/ /\ events # <<>> /\ (AnyWord(first, last) \/ first.id = last.id)
           /\ \/ at' = "streams" /\ output' = [lines |-> events, stream |-> stream]
              \/ at' = "error" /\ output' \in {output, Torn}
        \/ /\ events # <<>> /\ (AnyWord(first, last) \/ first.id # last.id)
           /\ at' = "error" /\ UNCHANGED output
        \/ /\ events # <<>> => AnyWord(first, last)
           /\ at' = "panic" /\ UNCHANGED output
  /\ UNCHANGED <<asking, reading, run, saved, whole>>

-----------------------------------------------------------------------------
Finished ==
  /\ at = "streams" /\ targets = {}
  /\ at' = "ok"
  /\ UNCHANGED <<asking, reading, run, saved, output, whole>>

(* The next page of the streams cannot be read.                            *)
Fails ==
  /\ at = "streams" /\ action = "all"
  /\ at' = "error"
  /\ UNCHANGED <<asking, reading, run, saved, output, whole>>

Next ==
  \/ InitLogGroup \/ ListStreams \/ OpenStream \/ LinesEnd \/ LinesFail
  \/ SkipLine \/ KeepLine \/ SaveFails \/ RefuseLine
  \/ PassLine \/ PickLine \/ WriteOutput
  \/ Finished \/ Fails

Spec == Init /\ [][Next]_vars

-----------------------------------------------------------------------------
Starts(s) == {i \in DOMAIN s : s[i].kind = "START"}

(* The lines of s from i to j are a run of the function.                   *)
IsRun(s, i, j) ==
  /\ i < j /\ s[i].kind = "START" /\ s[j].kind = "REPORT" /\ s[i].id = s[j].id
  /\ \A k \in (i + 1)..(j - 1) : s[k].kind = "LOG"

(* Its head is there, but it was cut off or has not ended.                 *)
Interrupted(s, i) == ~ \E j \in DOMAIN s : IsRun(s, i, j)

Past == {group[c] : c \in Selected}

(* GetAllLamdasLogs keeps what it gathers from one stream to the next.  An *)
(* interrupted run spoils the file that begins with it nevertheless, and   *)
(* no other: each file has a single START message and a single REPORT, and *)
(* is exactly one run if the run it begins with has ended.  A failed write *)
(* spoils one file, the last one.  When nothing fails each run that has    *)
(* ended is saved, or another one that began in the same millisecond, or   *)
(* it is in the file of an interrupted run of the same id.                 *)
RunsSaved ==
  action = "all" =>
    /\ \A t \in DOMAIN saved :
         IF saved[t] = Torn
         THEN at = "ok" /\ ~whole /\ \A u \in DOMAIN saved \ {t} : saved[u] # Torn
         ELSE /\ \A k \in DOMAIN saved[t] :
                   /\ saved[t][k].kind = "REPORT" <=> k = Len(saved[t])
                   /\ saved[t][k].kind = "START" =>
                        \A m \in 1..k : SameMessage(saved[t][m], saved[t][1])
              /\ \E s \in Past : \E i \in Starts(s) :
                   /\ saved[t][1] = s[i] /\ s[i].time = t
                   /\ \A j \in DOMAIN s : IsRun(s, i, j) => saved[t] = SubSeq(s, i, j)
    /\ at = "ok" /\ whole =>
         \A s \in Past : \A i \in Starts(s) :
           \/ Interrupted(s, i) \/ s[i].time \in DOMAIN saved
           \/ \E u \in Past : \E k \in Starts(u) :
                Interrupted(u, k) /\ u[k].id = s[i].id /\ u[k].time \in DOMAIN saved

(* GetLamdaLogs.  What it writes are lines of one run that follow one      *)
(* another, and no line before them is of the point in time or later.      *)
(* When the streams were read to their ends the lines reach the point,     *)
(* unless the stream has no line in the window from the point on: then     *)
(* they are of the run before it.  A failed write ends it with an error.   *)
PointInTimeRight ==
  output \notin {NoOutput, Torn} =>
    LET s == group[output.stream]
    IN \E i, j \in DOMAIN s :
         /\ i <= j /\ output.lines = SubSeq(s, i, j)
         /\ \A k \in i..j : s[k].id = s[i].id
         /\ \A k \in 1..(i - 1) : s[k].time < PointInTime
         /\ whole => \/ s[j].time >= PointInTime
                     \/ \A k \in DOMAIN s : s[k].time >= PointInTime => ~InWindow(s[k])

LogsRight == RunsSaved /\ PointInTimeRight
=============================================================================
