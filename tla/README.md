# TLA+ models of go_misc

go_misc is a collection of Go programs around AWS, Azure DevOps, Kubernetes and
Slack. Most of it is sequential glue. This directory models the parts that
decide something: goroutines that share state, loops that page through a remote
service, and programs whose state is in files that a crash may leave behind.

Run everything from this directory: `tlc -workers 2 -config X.cfg MCModule.tla`
checks a run, `tlapm XProofs.tla` a proof module. `PROJECT.json` maps every
definition to the lines it models and lists the runs, the mutants (one plausible
bug per property, which the run must catch), the hazards and the theorems.

## 1. Inventory

| Component (under src/) | State | Operations | What is hard | What makes it correct |
|---|---|---|---|---|
| `aws_api/cleaner/cleaner.go` | map of tasks and id counter under a one-token channel, flags of a task, buffered channel of the pool, context | AsyncOrchestratorNew, AddTask, Wait, TaskStarter, WorkerPool.AddTask, Work | tasks add tasks while Wait counts them; flags without a lock; a channel assigned after its readers start | Wait returns exactly when all is done; nothing lost, nothing run twice; no deadlock on the full pool |
| `list/list_async.go` | pointers, a mutex per Insert call, a wait group | Insert, InsertSingle, Len, Print | a walk that reads unlocked and rechecks under the lock | one chain, append only; Insert returns after all its items |
| `aws_api/aws_tcpdump.go`, `aws_api/clients/cloudwatchlogs_client.go` | Done flag, map interface -> cancel per subnet, page tokens, work pool | Start, subnet loops, interface recorders, summary | interfaces that come and go, API errors, retries with old tokens, shutdown | until Done every recorder can be stopped; no event skipped; what is stopped ends |
| `azure_devops_api/azure_devops_api.go`: download | array of ids, channels, file | DownloadAllWits, getWorkItemIDs, GetWorkItemsBySlice | bulks finish in any order, one may fail; boundary of the last bulk | all items, once, in order, or an error |
| `human_api/human_api.go`: DailyRoutine; `azure_devops_api.go`: SubmitSprintStatus | four files per day; the work items | extract, generate, copy, validate, submit | any run may be killed; dropped errors, and some that do not end a run; the user edits meanwhile | the files can always be interpreted; edits survive; only valid changes are sent, once |
| `human_api/human_api.go`: HumanAPI | cached work items (JSON), daily file (JSON, HAPI text) | FetchDaily, PushDaily, ProvisionDailyWobjects | the cache is stale when written back; errors half-way; retries | no lost update, no duplicate item |
| `azure_devops_api.go`: AzureDevopsAPI | cached client, teams | ProvisionWobject, UpdateWobject, queries | read-modify-write of remote items, relations added twice | an update changes what it says |
| `human_api/daily_handler.go` | none | WriteDailyToHRFile, ReadDailyFromHRFile | optional fields told apart by position | the reader inverts the writer on items that can be told apart, and shifts nothing else on the others |
| `human_api/slack_server/server.go` | one server value shared by all requests | hapiMain, hapiInteractive, handlers in goroutines | unsynchronised replacement of the APIs, calls that fail half-way, panics, an exit in one request | a user is told of an item only when it is as asked for; no request works with a configuration older than every request then in progress |
| `kub_api/kub_api.go` | the cluster | CreateJob, DeleteJob, CreatePod, PrunePods, Provision* | list, then watch; events counted as pods; deletion by name | all pods of the list are deleted when it says so; no running pod is deleted |
| `aws_api/log_analizer/log_analizer.go` | closure variables over a paged stream | LambdaLogsAction, GetAllLamdasLogsAction, SaveAllLamdasLogs | state that outlives a stream, errors that stop the paging | a file is one run that has ended, or begins with an interrupted one; every run of the streams read is saved; the run at a point in time is that run |
| `aws_api/modify_tags.go`, with the clients | the tags of the resources, in the cloud | AddTags* | tags read some time before they are written, whole tag sets, five ways to treat an error | others' tags are kept; a success leaves nothing untagged |
| the other `aws_api/clients/*` | none | one AWS call each, some paged | - | - |
| `aws_api/common.go`, `tree/*`, `replacement_engine/*` | none / a tree / none | Retry, insert and find, substitution | boundaries; Go's map order | reference definitions |
| `cmd/*`, `action_manager`, `apono_api`, `slack_api`, `logger`, `configuration_policy`, `json_api`, `plotter_api`, `common_utils`, `human_api_types`, other `list/*` | none | - | - | not modelled: arguments, I/O, formatting |

How they interact: the command line programs call one component each. The
cleaner and the recorder call the AWS clients with callbacks. DailyRoutine calls
the download and the submission of `azure_devops_api`; the HumanAPI calls
AzureDevopsAPI through an interface; the Slack server calls the HumanAPI and the
Slack API from the goroutine of each request. Beyond that components share
nothing, so that each has a model of its own.

## 2. The modules

### TaskForest, AsyncOrchestrator (cleaner.go)

`TaskForest` is what an orchestrator promises: tasks form a forest that grows
while it is executed; only the owner (before Wait) and running tasks plant; a
task runs once; the join happens when nothing is left and is final.

`AsyncOrchestrator` has one program counter per goroutine: the owner, TaskStarter
and every worker. Each access to shared state is a step of its own. `sem` is
SyncSemaphore, a channel of capacity one used as a mutex; `tasks` and `taskId`
are the map and the counter; `started` and `finished` are the flags that Wait,
TaskStarter and the workers read and write without a lock. AddTask is three
steps (take the semaphore, store, count and release), Wait reads one flag per
step, WorkerPool.AddTask sets Started and then sends in two. `chanMade` is the
assignment of the field WorkerPool.Tasks, which WorkerPoolNew does after it has
launched the workers: a worker that evaluates its first select before that is
`blocked` on a nil channel. A task's Work function is any code that adds tasks
and returns.

`Spec` is the program as the repository runs it. `CancelSpec` adds a call of
WorkerPool.CancelFunc, which is exported and which nothing calls.

### AppendLog, AsyncList (list_async.go)

`AppendLog` is an append-only log: a call's items are appended in any order, each
once, before the call returns. `AsyncList` runs the goroutines InsertSingle: an
unlocked read of Next (which may give the old nil), the lock, the second read
under it, and the link. The owner calls Insert one batch after the other and Len
after each. The refinement reads the log off the history `order`, and an
invariant ties `order` to the pointers.

### TcpDump (aws_tcpdump.go, cloudwatchlogs_client.go)

One goroutine per subnet (`loop`, `known`, `cancelOf`, `toAdd`, `toStop`), one per
recorder (`pc`, `rec`). A stream is the number of its events; a page token is a
position in it. The cloud is the environment: which interfaces a poll reports, when
a stream appears and grows, and which call fails is arbitrary. `done` is set by a
signal or by a recorder's error; the loops then return, and the recorders they leave
behind read on until the process ends (`Exit`, two seconds after a signal).
`Stoppable` says that a recorder's loop has not returned and has its cancel
function.

### WitDownload (azure_devops_api.go)

A work item is its position in the query's result. `bulk[c]` is the slice that
goroutine c was given, with the code's arithmetic for the number of channels and
the end of a bulk. A failed goroutine sends nothing.

### DailyRoutine (human_api.go, daily_handler.go, azure_devops_api.go)

The state is the four files of the day and the work items in Azure. `Extract` and
`Submit` are the two ways a run can go on from the files it finds; a run that ends
in an error changes nothing and is no step. A write that fails or is cut off leaves
a damaged file or a report with fewer entries (`CutOff`). An error is a panic in
`check`, unless `/tmp/hapi.log` cannot be written: then `check` returns and the run
goes on with nothing read (`GenerateUnlogged`; `InputRead` and `BaseRead` in
`Submit`), which `unlogged` remembers. A download in which a Task or Bug has a
parent that is not in it is `Orphaned`: every run that makes a report of it panics.
`Crash` kills the run at any point; `Edit` and `Rewrite` are the user, `OthersEdit`
everybody else. What a report says of an item is one value; the text format is not
modelled. The copy of the report's JSON that ConvertHRToDailyJson leaves beside the
file is rewritten whenever the file is read, and left out.

### DailyPush (human_api.go, daily_handler.go, azure_devops_api.go)

`cache`, `report` and `input` are the files wobjects.json, report.hapi and
input.hapi; a report is a function from its lines. `Entries` is what the program
reads out of one: the lines of tasks as they are, and an entry for every story,
with the section of the first line under it as its status. A push takes the
changed entries in any order (Go's map); each is three requests: read (`Get`), patch
the fields that differ from what was read (`Patch`), comment (`Comment`). Each may
fail, with or without effect. `edited`, `disturbed`, `told` and `failed` are history
for the properties. A second line without an id takes the place of the first in
the program's map, so that one `NewTask` is enough. The day does not change: another
day has files of its own. `Init` fixes the hours of the items, since others can
change everything after the items have been cached.

### SlackServer (server.go, slack_api.go, azure_devops_api.go)

`pc[r]` is where the goroutine of a request is: each call that reads a file, a
shared field or a service is a step. The configuration files are one `version`, of
which any file may be `broken`; `slackAPI` and `humanAPI` are the shared fields, as
the version that the client in them was made from. A request stores the client it
made and then reads the field again, when another request may have replaced it:
GetUser reads it once, ProvisionWobject once. What follows is ProvisionWobject of an
item without an id: create, comment, read, patch if the status asked for is not the
new item's, comment again. `CallFails` is every error return, with and without
effect in the service; `Panic` is a dereference of the configuration of Slack that
could not be read, which net/http recovers. The file of the HumanAPI is not among
those that may be broken: WithProjectManagerAPI sets the configuration, empty or
not, after the file could not be read, and a request uses nothing of it. `Fatal` is
log.Fatalf in a client of Azure DevOps, which ends all requests. `floor[r]` is
history: the oldest version at the arrival of any request that was in progress when
r arrived.

### PrunePods (kub_api.go)

`pod` is the cluster: a name holds at most one pod, a pod has a `uid`, and a name
can be used again. `queue` holds the events the watch has sent. `pruner`, `listed`,
`podsDeleted` and `event` are PrunePods; the cluster runs between any two of its
steps. `deletions` is history.

### ModifyTags (modify_tags.go, clients/*)

The functions differ in three ways of their client (where it finds the tags a
resource has, what it writes, what an error in the middle of a list does) and two
of their own (what an error of tagging does, and whether they go over the regions
of PerRegion): a function is a record of these, and `Functions` is the set of all
of them. One function runs, resource after resource, while others change tags
and delete resources.

### LambdaLogs (log_analizer.go)

A stream is a sequence of lines with a kind, an id and a time. Streams are read one
after the other (`stream`) and line by line (`line`); any line may be the one where
reading fails (`LinesFail`). A write that fails leaves a file that is empty, cut off
or whole, over an earlier one or not, and ends the program (`SaveFails`, `Torn`).
`started` and `events` are the lines that are kept from line to line: by the closure
of SaveAllLamdasLogs, which also keeps them from stream to stream, and by
GetLamdaLogs, which begins anew with each stream. `saved` holds the files of the
former by their names, `output` what the latter wrote last. `whole` is history:
every stream was read to its end.

### ReportText (daily_handler.go)

A text is a sequence of lines; the actions of an item are the parts between its
commas, told apart by how they begin, as the reader does. The writer appends line
after line (`WriteWorker`, `WriteSection`, `WriteItem`, `WriteEnd`; `spot` is the
place in the reports of its last line), the reader takes line after line
(`ReadWorker`, `ReadSection`, `ReadItemLine`, `ReadEmpty`, `ReadEnd`; `cursor` and
`section` are where it is, `result` is what it has read). An item that cannot be
read is `Panic` or, where `check` returns, an item without anything (`ReadUnlogged`,
`NoItem`). A text is written and read once, as the routine of the day does with
base.hapi. The copy of it that the user edits is DailyRoutine's. `written` and
`origin` are history: the reports that are in the text, and the place each line is
from.

### MCPrograms

These five programs do not call one another. `MCPrograms` instantiates them for
one run of TLC and chooses the one that runs at the start; the variables of the
others keep their initial values.

## 3. The runs

| Run | Instance | Distinct states | Shows |
|---|---|---|---|
| orchestrator | 2 workers, 3 tasks | 39,967 | TypeOK, WaitSound, NoTaskLost, HandedOnce; implements TaskForest; WaitReturns |
| orchestrator_cancel | 1 worker, 4 tasks, cancel | 31,454 | Backpressure, AddReturns, CancelQuiesces |
| async_list | batches of 4 and 2 | 42,053 | TypeOK, ChainIntact, ReturnComplete, LenExact, LinksAreFinal; implements AppendLog; InsertReturns |
| tcpdump | 1 interface, 2 recorders, pool 1, page 1, 1 event | 66,500 | TypeOK, NoOrphan, NoGap, CancelledEnds, DoneStops |
| wit_download | bulks of 3, array of 10, 0..11 ids | 2,513 | TypeOK, InOrder, NoPartialFile, Returns |
| wit_download_all | bulks of 2, 0..3 ids | violation | AllDownloaded fails |
| daily_routine | 2 items, 2 values, 2 crashes | 383,160 | TypeOK, StatusDefined, SendsOnlyChanges, EditsKept, Recovers |
| daily_routine_finish | the same | violation | Finishes fails |
| daily_push | 1 task, 1 new, 1 story, 2 sections, 2 edits, 1 change by others | 2,293,856 | TypeOK, CountsOnce, CommentOnce, SendsOnlyEdits |
| daily_push_new | the same | violation | PushDelivers fails |
| programs | see below | 1,117,772 | AnswersTrue, StalenessBounded, RunningSpared, TagsRight, LogsRight, ReadsBack |
| prune_pods_all | 2 names, 2 pods | violation | AllDeleted fails |

Why these bounds:

- *orchestrator*: three tasks are the least with which a task adds a task while
  another is queued and a third runs; two workers can race each other at AddTask
  and at Finished. The channel holds two tasks. *orchestrator_cancel* has one
  worker so that three tasks fill the pool: one running, one in the channel, one
  in TaskStarter's hand, which is when the send blocks. The fourth is for the running
  task to add just then: AddTask must not wait for TaskStarter. The owner adds only the
  first task, as CleanLogGroupsExpired does, and the tasks that run add the others
  (`RootSpec`).
- *async_list*: four goroutines can stand at the check, in the queue for the lock,
  under the lock and past it at once; the second batch starts from a list that
  is not empty.
- *tcpdump*: two recorders are the old and the new one of an interface that went
  and came back, competing for a pool of one. `MaxEvent` bounds a stream, so that
  a recorder cannot page for ever behind a growing stream; CancelledEnds rests on
  it. Larger instances (3 events and pages of 2; 2 interfaces) were checked by
  hand without an error, with up to six million states.
- *wit_download*: 0..11 ids with bulks of 3 have every remainder, no bulk, a full
  last bulk, and (10, 11) the boundary of the id array.
- *daily_routine*: one item that changes and one that does not; the second crash
  hits a run that repairs what the first left behind. `MaxCrash` is the bound.
  Errors that cannot be logged are not bounded.

- *daily_push*: a story with three possible lines (its own, the task's, the new
  one's) in two sections is the least with which the derived status depends on
  which lines are there. Two edits: one before and one after a push. Two tasks
  with one edit were checked by hand too. `MaxHours` = 1 tells one addition of the
  hours from two.

- *programs*, Slack: two requests and one change of the files are the least with
  which a request replaces the client of another by an older one. The requests are
  interchangeable (symmetry).
- *programs*, pods: two pods are a pod and its successor under one name, or two
  pods of one list. `MaxUid` bounds the pods created.
- *programs*, tags: two resources in one region or in two, one key to add and one
  that is not, and one change (`MaxEdits`) at any moment.
- *programs*, logs: groups of two streams, each of up to two runs. Either may lack
  its beginning or its end, an interrupted run may be followed by another, the
  second stream may hold the same request again, and two runs may begin in one
  millisecond. A second is two milliseconds and the window of fifteen minutes is
  four: no run exceeds it, and the time between two runs may.
- *programs*, reports: one worker or two, of whom one may have no name (`WorkerName`
  has the names of the others, `Type` one type that the reader does not know); an item
  with every kind of beginning of a comment, every combination of hours given or
  not, an unsupported type, a missing parent or child, one without a type but with
  an id, and one as the reader returns it (type "-1").

Deadlock is checked except where the system really stops: after a cancel all
goroutines are gone (orchestrator_cancel), after Exit the process is (tcpdump), a
download with a failed bulk waits on its channel for ever (wit_download), an input
file cut off within a line makes every later FetchDaily and PushDaily change
nothing until somebody repairs it (daily_push), and the programs of MCPrograms end.

### Fairness

A goroutine that can run is run: WF on its steps. Beyond that:

- *Semaphore and work pool* (SF on AddLock, WaitLock, StarterLock, Acquire): Go
  queues the senders of a channel in FIFO order.
- *select* (SF on WaitCancelled, StarterStop, WorkerStop): with several ready
  cases Go chooses at random.
- *Mutex* (SF on Lock): sync.Mutex hands itself to a waiter that has been passed
  over for a millisecond.
- *Work functions return* (WF on a worker's steps), and the owner calls Wait.
- *The user* runs the daily routine again (WF on Run), and the disk does not fail
  every time (SF on Generate, Copy). Downloads may fail every time, hold no new item
  or lack a parent, and a base report may be left without a pre-report; Recovers
  says so. Nothing is assumed about crashes but their bound.
- Nothing is assumed of the cloud or of signals.

## 4. What disagrees with the code's own words

- *wit_download_all*: the end of the last bulk is `WitCount - 1`, used as an
  exclusive bound (azure_devops_api.go:391): DownloadAllWits never downloads the
  last work item. InOrder states what it does do: all but the last, in order.
- *daily_routine_finish*: "post report file exists. The routine finished"
  (human_api.go:103), but no code writes that file: after a submission every
  later run submits again.
- *daily_push_new*: new items pass the validation ("must provide LeftTime for new",
  human_api.go:483) and are handed over for "Creating wobject" (human_api.go:1115),
  but their Id is "0" and ProvisionWobject creates only items with an empty Id
  (azure_devops_api.go:1334). The error ends the loop and is dropped.
- *prune_pods_all*: "All pods have been deleted." (kub_api.go:540) is said when the
  number of deletions reaches the number of pods listed. Deleting a pod in the
  foreground changes it first, and that event has it deleted and counted once more.

Met while modelling, and part of the models, but without a run of their own:

- *Slack*: `TestHapiMainWobjInit` sends "wobj init", which the code does not know: it
  knows only "wobj menu", and answers 400. A form without a text is a panic. The
  202 of /interactive is written before the work but stays in the response's
  buffer until the handler returns. The description of a new item is added as a
  comment twice when its status is not "New".
- *Slack*: the error of reading the configuration of Slack is dropped, and the nil that
  is left is dereferenced. That of the HumanAPI's file is dropped as well, but
  WithProjectManagerAPI then sets the empty configuration (human_api.go:750), so that
  the request goes on, with defaults.
- *The routine of the day*: `check` panics only if it could log the error before
  (human_api.go:38). Otherwise the run goes on: with a missing or damaged pre-report it
  writes a base report without items and copies it, and every later run ends in
  "undefined status" or has nothing to submit. StatusDefined tells these runs from the
  others. A Task or Bug whose parent was not downloaded is a nil that
  GenerateParentAndChildFromParentlessWobject dereferences (human_api.go:238), in every
  run of that day; the item that is never downloaded (above) may be that parent.
- *Recorders*: once `Done` is set the loops return and forget nothing, but nobody reads
  their maps any more: the recorders they leave behind end with the process only.
- *Reports*: time invested without time left is written without its plus, and read
  back as time left. Times that were not given are read as -1. A missing parent or
  child is read with the type "-1", which cannot be read once it is written again. A
  worker's id comes back with a blank before it. A comment that begins with a blank
  part, with more behind it or hours left before it, is an index out of range
  (`OutOfRange`). Where `check` returns, an item that cannot be read becomes one
  without anything. ParseAPI's hr_to_daily_json ends in log.Fatalf before it
  converts (daily_handler.go:63), so that no command reads a report back; the
  routine of the day and the HumanAPI do.
- *Logs*: the point in time keeps only its seconds. One that falls between two runs
  gives the run after it, if that one begins within fifteen minutes of the point, and
  otherwise the run before it; one between the last line of a run and its REPORT gives
  "unsupported state" when another run follows. A stream that cannot be read, or a
  file that cannot be written, ends GetAllLamdasLogs with success; the file is left
  truncated (log_analizer.go:362), also where it held an earlier run. What was
  gathered of an interrupted run begins the next file of the same request.
- *Tags*: CloudWatch, its logs, DynamoDB, ElastiCache and ECS take an error of
  fetching the tags for success; the listing of ECS tasks can be cut short without
  an error; S3 writes the whole tag set over a change made since it was read.
- *Pods*: PrunePods deletes by name, so that it can delete a running pod that took
  the name of a finished one. RunningSpared says that nothing else is.

## 5. The proofs

The theorems hold for every value of the constants that satisfies the module's
assumptions: any tasks, any finite set of workers, any items and batches, any bulk
size, any number of crashes, requests, recorders, pods and resources.

**AsyncOrchestratorProofs.** TypeOK, NoTaskLost, HandedOnce, WaitSound and
Backpressure are proved for CancelSpec, from one inductive invariant. Its parts are
`Mutex` (who is between acquire and release holds the token), `UsedIDs` (the ids of
the map are those below the counter, plus the one being stored), `Adding` (an
AddTask call in progress has a task that is in the map from AddStore on, and not
before, and no two calls have the same), `Starting` and `Working` (which places a
task may be in, given its flags), `Counting` (whatever Wait has counted is
finished) and `AllDone`. WaitSound is not inductive: when Wait decides it holds
only that the counted ids are all ids; `Counting` makes that "all tasks of the map
are finished", then no worker is running, hence nobody is adding, hence the map has
every task. Backpressure counts: a task that is started and unfinished is in
TaskStarter's hand, in the channel or with a worker that runs, and no two of these
places hold the same task (`UnderWay`, `UnderWayBound`); the channel's capacity and
HandedOnce do the rest. `Refinement` maps every step of Spec to a step of
TaskForest or a stutter; `JoinIsFinal` carries TaskForest's promise over to the
code. The refinement is stated for Spec: after a cancel Wait returns with tasks
left.

**AsyncListProofs.** ChainIntact needs that the goroutine that links stands at the
end (`Standing`, from the second read under `Mutex`), and that a node that is not
linked yet points nowhere (`Passed`). ReturnComplete needs that the wait group is
the number of live goroutines (`Counted`) and where the calls are (`InCalls`).
LenExact: `Walked` says that Len has passed `count` nodes of the chain.
LinksAreFinal and the refinement of AppendLog follow from the same invariant.

**WitDownloadProofs.** One arithmetic lemma (`ChannelIff`: channel c exists iff
`c * BulckSize < count`) makes the bulks lie end to end (`Tiles`); `Collected` says
what the collector has after j channels. TypeOK here also means that no channel,
bulk or slice is out of range.

**DailyRoutineProofs.** `Phases` says of each place in the program which files
there can be: a base report is one that `Generate` can have left (`Written`) of the
pre-report beside it, which is readable unless an error was not logged, and the
first three phases run only while there is no input file. SendsOnlyChanges holds
whatever could not be logged: what is sent is compared with the base report, or with
one without items, against which nothing but a new item is valid.

**SlackServerProofs.** A request's own story is told apart from what requests do to
each other. `Phases` says what a handler has at each place (no item before Create,
an item after it, a client while it makes or uses one); `Telling` follows the item
from its creation to the answer: it has a comment from Get on and the chosen status
at SecondComment, and a handler that returns is `Settled`. AnswersTrue is then a
property of each request alone, but for `Fatal`, which ends all of them.
StalenessBounded is about pairs of requests: `Floors` says that the floor of a
request is no later than the arrival of any request in progress, `Fresh` that a
client is no older than the arrival of the request that made it. A request that
reads another's client from a shared field therefore finds one no older than its
own floor.

**TcpDumpProofs.** NoOrphan follows from `Owned` (a recorder that runs and was not
cancelled is in the map of its subnet, with its cancel function) and `Returned` (a
loop returns only when Done is set). `Owned` needs `Mapped` (a subnet's map and the cancel functions
have the same keys), `Loops` (what a loop is about to add is not in its map, and
what it is stopping has been cancelled before it leaves the map) and `Recording`
(what runs has an interface). `Offline` covers a program without live recording.
`Pooled` counts: the tokens in the work pool are the recorders that are reading,
which is PoolIsExact, and what keeps `pool` in its range in TypeOK. NoGap is not
inductive; `Behind` adds that reading starts where the recorder has come to.

**DailyPushProofs.** `Stages` says which files there are while a part of the
program runs. CountsOnce is inductive with `CountedFromCache`: no hours are counted
in the cache, and a patch either writes the hours of the cached item plus those of
the line or leaves what is there (`MergedIsTyped`, `PatchedIsTyped`), so that no
path adds twice. CommentOnce needs `Told`: an item that was commented on is already
as its line says, so that a repeated push finds no difference; an item about to be
patched was not commented on yet. SendsOnlyEdits needs `Copied`: the lines of the
input that were not edited are the report's, and no section is there without the
lines of the sections before it, so that a story's derived status (the section of
its first line, `MinIsLeast`) differs only where a line was edited
(`DiffersWhereEdited`).

**ProgramsProofs** is about the four other programs of MCPrograms, in the behaviours
of all five. PrunePods: RunningSpared needs that what an event says stays true
(`EventTrue`: the name of a finished pod holds nothing, a finished pod, or a
younger one), of the event in hand and of those in the queue. ModifyTags:
`Position` says what a function has yet to do (the regions and the objects of the
current one), and that the tags of those resources are what others made them;
`SeesTags` that what the function has read is what is there unless others changed
it; and `CompleteSoFar` that every resource found so far is tagged or still to do.
OthersKept and Complete, the two halves of TagsRight, follow for all functions at
once from three facts about their clients (`ClientFacts`).

LambdaLogs: `Gathered` says that the lines the closure keeps begin with a START, have
no REPORT, and repeat only that START (`Headed`). `Began` says what they are: the
lines of one run of the stream that is read, from its START to the current line, or
lines that begin with the START of an interrupted run (`Spoiled`), which alone pass
from stream to stream. `Files` says the same of the files, but for one whose write
failed, which is the last. `Progress` says that every run of the streams behind has
ended in a file, was interrupted, or is in the file of an interrupted run of the same
id (`Kept`), and so has every run of the current stream but the one being gathered
(`Pending`). These are RunsSaved. For GetLamdaLogs, `Picking` says that what it has
picked are the last lines of the window that were read, since the START of their run,
and that `started` tells whether the last of them has reached the point; at the end
of the stream that is PointInTimeRight.

ReportText: `WrittenInv` says that the reports in the text are the managed ones in
order, `OriginInv` that every line of the text is the line of its place and that the
places follow one another (`Follows`) up to where the writer is. The reader knows
neither: that it takes a line for what it is comes from the kind of the line, and
`NextPlace` gives the place. `ReadUpTo` says what has been read of each report up to the
place of the cursor, and `Unclear` why a text could not be read. What happens to one
item is in `ClearActions` (the actions of a clear item are read as what was written)
and `ItemReadBack`; an item that comes with an error is `NoItem`, which stands only
where the item written was not clear or not supported (`ReadAs`). Since writer and
reader go line by line, so do the proofs: no induction over a sequence is needed.

Every invariant of the runs that pass is stated by a theorem. The inductive invariants
were checked on the runs' instances before they were
proved. What the proofs assume of the constants, beyond types and bounds:

- what stands for nil, for a missing file and for a damaged one is not among the
  values it takes the place of (`SlackServerAssumption`, `DailyPushAssumption`,
  `RecorderAssumption`): they are model values in the runs;
- a stream may get at least one event, and the pool and a page have room for one
  (`RecorderAssumption`);
- the keys to be tagged are among the keys there are (`TagsAssumption`);
- a log group is a sequence of streams, in which times do not decrease and a line that
  starts no run belongs to the run of the line before it; a second is longer than
  nothing (`LogsAssumption`);
- a worker whose name is empty has an empty id, and every item written has a parent
  and a child, if only ones that are not there (`ReportsAssumption`).

Only model-checked:

- everything about liveness (WaitReturns, AddReturns, CancelQuiesces,
  InsertReturns, CancelledEnds, DoneStops, Returns, Recovers): the prover has no
  rules for fairness and ENABLED;
- what does not hold (section 4): each is a counterexample of a small instance.

## 6. Plan

Done so far: the orchestrator, the list, the recorder, the download, the routine,
the daily of the HumanAPI, the Slack server, the pods, the tags, the log analyzer
and the report text. What is left, the most important first:

1. An abstract specification of the recorder, for the refinement.
2. The requests of SubmitSprintStatus (the relations of parents), and the Provision
   functions of kub_api.go.
3. The log group cleaner over log streams that are written to meanwhile.

## 7. Not modelled

- Argument parsing, configuration, logging, plotting, JSON (`cmd/*`,
  `action_manager`, `configuration_policy`, `logger`, `plotter_api`, `json_api`,
  `common_utils`): I/O and formatting, nothing that decides anything.
- The wrappers of one SDK call (`iam`, `lambda`, `route53`, `sts`, and the clients of
  Azure DevOps but for what is mapped), and `apono_api`: their behaviour is the
  service's.
- `CheckTagsECSTaskdefinitions`, which only reports; the Provision functions of
  `kub_api.go`, each an apply of one object; `GetLogs`.
- The summary of recorded flow logs and the provisioning of flow logs in
  `aws_tcpdump.go`; the text substitution of `replacement_engine`.
- Writes of the text of a report that fail: ReportText reads what was written to its
  end. DailyRoutine has them (`GenerateFails`, `CopyFails`), over reports as values.
- `Retry` in `aws_api/common.go` and the trees, which only demonstrations use, and
  the exercises beside `list_async.go`.
- Functions that nothing calls.
