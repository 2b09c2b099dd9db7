SPECIFICATION Programs
CONSTANTS
  Request = {r1, r2}
  MaxVersion = 1
  None = None
  Aborted = Aborted
  Name = {p1, p2}
  MaxUid = 2
  NoPod = NoPod
  Resource = {a, b}
  Region = {g1, g2}
  Key = {k1, k2}
  Wanted = {k1}
  MaxEdits = 1
  NoResource = NoResource
  RequestId = {"a", "b", "c", "d"}
  Groups <- LogGroups
  Second = 2
  Window = 4
  Cutoffs = {0, 1}
  Times = {0, 1, 3, 4, 6, 7, 9}
  NoOutput = NoOutput
  Torn = Torn
  WorkerName = {"v", "w"}
  Type = {"UserStory", "Task", "Bug", "Epic"}
  Reports <- DailyReports
SYMMETRY Symmetry
INVARIANTS
  AnswersTrue
  StalenessBounded
  RunningSpared
  TagsRight
  LogsRight
  ReadsBack
CHECK_DEADLOCK FALSE
