----------------------------- MODULE SlackServer -----------------------------
(***************************************************************************)
(* The Slack server (src/human_api/slack_server/server.go): every request  *)
(* is handled by a goroutine of its own.  A submitted work item is created *)
(* through ProvisionWobject (src/azure_devops_api/azure_devops_api.go) by  *)
(* clients that each request makes anew from the configuration files and   *)
(* stores in the fields slackAPI and humanAPI, which all requests share.   *)
(*                                                                         *)
(* The configuration files of Slack and of Azure DevOps are one version    *)
(* number; a request reads them at different moments.  The 202 of          *)
(* /interactive is written at the start but stays in the response's buffer *)
(* until the handler returns.                                              *)
(***************************************************************************)
EXTENDS Integers, Sequences, FiniteSetsExt

CONSTANTS
  Request,     \* the requests that arrive, each at most once
  MaxVersion,  \* bound: changes of the configuration files
  None,
  Aborted      \* the connection was closed without an answer

Version == 0..MaxVersion
File == {"slack", "azure"}
Status == {"New", "Active", "Other"}
Message == {"menu", "created"}
WorkItem == [version : Version, status : Status, comments : Nat]

(* nil is none of the values that it takes the place of.                   *)
ASSUME SlackServerAssumption ==
  /\ MaxVersion \in Nat
  /\ None \notin Version /\ None \notin Message /\ None \notin WorkItem
  /\ None \notin Status /\ None # Aborted

VARIABLES
  pc,       \* where the handler of a request is
  want,     \* the status the user has chosen for the new work item
  msg,      \* the message the handler is about to post
  version,  \* of the configuration files
  broken,   \* the files that cannot be read, in each version
  slackAPI, \* the shared client of Slack: the version it was made from
  humanAPI, \* the shared client of Azure DevOps
  api,      \* the client a handler is making, then the one it uses
  item,     \* the work item created for a request, in Azure DevOps
  told,     \* what was posted to the request's response URL
  answer,   \* the HTTP status of a request
  failed,   \* a call of the handler has failed
  began,    \* the version when the request arrived
  floor     \* the oldest of these, of the requests then in progress

shared == <<slackAPI, humanAPI>>
files == <<version, broken>>
history == <<began, floor>>
vars == <<pc, want, msg, files, shared, api, item, told, answer, failed, history>>

InProgress == {r \in Request : pc[r] \notin {"new", "done"}}

Init ==
  /\ pc = [r \in Request |-> "new"]
  /\ want = [r \in Request |-> None]
  /\ msg = [r \in Request |-> None]
  /\ version = 0 /\ broken = [v \in Version |-> {}]
  /\ slackAPI = None /\ humanAPI = None
  /\ api = [r \in Request |-> None]
  /\ item = [r \in Request |-> None]
  /\ told = [r \in Request |-> None]
  /\ answer = [r \in Request |-> None]
  /\ failed = [r \in Request |-> FALSE]
  /\ began = [r \in Request |-> 0] /\ floor = [r \in Request |-> 0]

Goto(r, l) == pc' = [pc EXCEPT ![r] = l]

Answer(r, code) == Goto(r, "done") /\ answer' = [answer EXCEPT ![r] = code]

(* A panic in a handler: net/http recovers it and closes the connection.   *)
Panic(r) ==
  /\ Answer(r, Aborted)
  /\ failed' = [failed EXCEPT ![r] = TRUE]

-----------------------------------------------------------------------------
(* /hapi.  The text is its first two words; None: the form has no text.    *)
Command ==
  [form : BOOLEAN, token : BOOLEAN, menu : BOOLEAN,
   text : {<<"", "">>, <<"wobj", "menu">>, <<"wobj", "other">>, <<"other", "">>, None}]

(* The answer to a command: the menu's file may be missing or damaged.     *)
CommandAnswer(c) ==
  IF ~c.form \/ ~c.token THEN 400
  ELSE IF c.text = None THEN Aborted
  ELSE IF c.text \in {<<"", "">>, <<"wobj", "menu">>} /\ c.menu THEN 200 ELSE 400

(* hapiMain uses nothing that requests share.                              *)
Main(r) ==
  /\ pc[r] = "new"
  /\ \E c \in Command : Answer(r, CommandAnswer(c))
  /\ UNCHANGED <<want, msg, files, shared, api, item, told, failed, history>>

-----------------------------------------------------------------------------
Menus == {<<"main->wobj">>, <<"main->wobj->create">>, <<"main->help">>}
Submit == <<"main->wobj->create->submit">>

(* A payload of /interactive; actions are those of its action ids that     *)
(* contain "->".                                                           *)
Payload ==
  [form : BOOLEAN, json : BOOLEAN, token : BOOLEAN, status : Status,
   actions : Menus \union {Submit, <<>>, <<"main->other">>, Submit \o Submit}]

(* Where handleInteractivePayload goes.  Its errors are logged only.       *)
Dispatch(p) ==
  IF ~p.json \/ ~p.token THEN "return"
  ELSE IF p.actions \in Menus THEN "menu"
  ELSE IF p.actions = Submit THEN "submit" ELSE "return"

(* hapiInteractive                                                         *)
Interactive(r) ==
  /\ pc[r] = "new"
  /\ \E p \in Payload :
       IF p.form
       THEN /\ Goto(r, Dispatch(p))
            /\ want' = [want EXCEPT ![r] = IF Dispatch(p) = "submit" THEN p.status ELSE None]
            /\ UNCHANGED answer
       ELSE Answer(r, 400) /\ UNCHANGED want
  /\ began' = [began EXCEPT ![r] = version]
  /\ floor' = [floor EXCEPT ![r] = Min({version} \union {began[q] : q \in InProgress})]
  /\ UNCHANGED <<msg, files, shared, api, item, told, failed>>

(* LoadGenericMenu                                                         *)
Menu(r) ==
  /\ pc[r] = "menu"
  /\ Goto(r, "reply")
  /\ msg' = [msg EXCEPT ![r] = "menu"]
  /\ UNCHANGED <<want, files, shared, api, item, told, answer, failed, history>>

(* HandleProvisionWobjectRequest up to its first call: the values of the   *)
(* form are complete and of known types.                                   *)
Fill(r) ==
  /\ pc[r] = "submit"
  /\ Goto(r, "slack")
  /\ UNCHANGED <<want, msg, files, shared, api, item, told, answer, failed, history>>

(* Mutation: the client is made once and kept.                             *)
SlackReadOnce(r) ==
  /\ pc[r] = "slack"
  /\ IF slackAPI = None THEN Goto(r, "slackStore") ELSE Goto(r, "user")
  /\ api' = [api EXCEPT ![r] = version]
  /\ UNCHANGED <<want, msg, files, shared, item, told, answer, failed, history>>

(* slackAPIInit: SlackAPINew drops the error of reading its file.          *)
SlackRead(r) ==
  /\ pc[r] = "slack"
  /\ Goto(r, "slackStore")
  /\ api' = [api EXCEPT ![r] = version]
  /\ UNCHANGED <<want, msg, files, shared, item, told, answer, failed, history>>

SlackStore(r) ==
  /\ pc[r] = "slackStore"
  /\ slackAPI' = api[r]
  /\ Goto(r, "user")
  /\ UNCHANGED <<want, msg, files, humanAPI, api, item, told, answer, failed, history>>

(* GetUser of the shared client, which another request may have replaced.  *)
(* One without a configuration is dereferenced all the same.               *)
GetUser(r) ==
  /\ pc[r] = "user"
  /\ IF "slack" \in broken[slackAPI] THEN Panic(r)
     ELSE Goto(r, "azure") /\ UNCHANGED <<answer, failed>>
  /\ UNCHANGED <<want, msg, files, shared, api, item, told, history>>

(* humanAPIInit.  AzureDevopsAPINew reads its file ...                     *)
AzureRead(r) ==
  /\ pc[r] = "azure"
  /\ Goto(r, IF "azure" \in broken[version] THEN "return" ELSE "connect")
  /\ api' = [api EXCEPT ![r] = version]
  /\ UNCHANGED <<want, msg, files, shared, item, told, answer, failed, history>>

(* ... and connects.  HumanAPINew drops the error of reading its own file, *)
(* but WithProjectManagerAPI sets the configuration, empty or not, and     *)
(* ProvisionWobject uses none of it: that file decides nothing.            *)
Connect(r) ==
  /\ pc[r] = "connect"
  /\ Goto(r, "store")
  /\ UNCHANGED <<want, msg, files, shared, api, item, told, answer, failed, history>>

HumanStore(r) ==
  /\ pc[r] = "store"
  /\ humanAPI' = api[r]
  /\ Goto(r, "provision")
  /\ UNCHANGED <<want, msg, files, slackAPI, api, item, told, answer, failed, history>>

-----------------------------------------------------------------------------
(* ProvisionWobject of the shared client: this is the last time that the   *)
(* shared field is read.  checkUserInputProvisionWobject comes first.      *)
Provision(r) ==
  /\ pc[r] = "provision"
  /\ api' = [api EXCEPT ![r] = humanAPI]
  /\ Goto(r, IF want[r] = "Other" THEN "return" ELSE "worker")
  /\ UNCHANGED <<want, msg, files, shared, item, told, answer, failed, history>>

(* GetWorkerByName finds exactly one worker, GetAreaPath knows the path.   *)
Worker(r) ==
  /\ pc[r] = "worker"
  /\ Goto(r, "sprint")
  /\ UNCHANGED <<want, msg, files, shared, api, item, told, answer, failed, history>>

(* GetWorkerSprint finds exactly one current sprint.                       *)
Sprint(r) ==
  /\ pc[r] = "sprint"
  /\ Goto(r, "create")
  /\ UNCHANGED <<want, msg, files, shared, api, item, told, answer, failed, history>>

Created(r) == [item EXCEPT ![r] = [version |-> api[r], status |-> "New", comments |-> 0]]
Commented(r) == [item EXCEPT ![r].comments = @ + 1]
Updated(r) == [item EXCEPT ![r].status = want[r]]

Create(r) ==
  /\ pc[r] = "create"
  /\ item' = Created(r)
  /\ Goto(r, "comment")
  /\ UNCHANGED <<want, msg, files, shared, api, told, answer, failed, history>>

Comment(r) ==
  /\ pc[r] = "comment"
  /\ item' = Commented(r)
  /\ Goto(r, "get")
  /\ UNCHANGED <<want, msg, files, shared, api, told, answer, failed, history>>

Done(r) == msg' = [msg EXCEPT ![r] = "created"] /\ Goto(r, "reply")

(* UpdateWobject of the new item: its status may differ from the one asked *)
(* for, its hours are 0 in both.                                           *)
Get(r) ==
  /\ pc[r] = "get"
  /\ IF item[r].status = want[r] THEN Done(r) ELSE Goto(r, "patch") /\ UNCHANGED msg
  /\ UNCHANGED <<want, files, shared, api, item, told, answer, failed, history>>

Patch(r) ==
  /\ pc[r] = "patch"
  /\ item' = Updated(r)
  /\ Goto(r, "comment2")
  /\ UNCHANGED <<want, msg, files, shared, api, told, answer, failed, history>>

(* The description is added as a comment a second time.                    *)
SecondComment(r) ==
  /\ pc[r] = "comment2"
  /\ item' = Commented(r)
  /\ Done(r)
  /\ UNCHANGED <<want, files, shared, api, told, answer, failed, history>>

-----------------------------------------------------------------------------
Posted(r) == [told EXCEPT ![r] = msg[r]]

(* sendResponseUrlMessage                                                  *)
Reply(r) ==
  /\ pc[r] = "reply"
  /\ told' = Posted(r)
  /\ Goto(r, "return")
  /\ UNCHANGED <<want, msg, files, shared, api, item, answer, failed, history>>

Return(r) ==
  /\ pc[r] = "return"
  /\ Answer(r, 202)
  /\ UNCHANGED <<want, msg, files, shared, api, item, told, failed, history>>

(* Mutation: an item that could not be updated counts as created.          *)
CallFailsSilently(r) ==
  /\ pc[r] \in {"menu", "submit", "user", "connect", "worker", "sprint",
                "create", "comment", "get", "patch", "comment2", "reply"}
  /\ IF pc[r] \in {"comment", "get", "patch", "comment2"} THEN Done(r)
     ELSE Goto(r, "return") /\ UNCHANGED msg
  /\ failed' = [failed EXCEPT ![r] = TRUE]
  /\ UNCHANGED <<want, files, shared, api, item, told, answer, history>>

(* A file, a value or a call fails; of a call the service may have carried *)
(* out what was asked.  The handler returns, and the user is told nothing. *)
CallFails(r) ==
  /\ \/ /\ pc[r] \in {"menu", "submit", "user", "connect", "worker", "sprint",
                      "create", "comment", "get", "patch", "comment2", "reply"}
        /\ UNCHANGED <<item, told>>
     \/ pc[r] = "create" /\ item' = Created(r) /\ UNCHANGED told
     \/ pc[r] \in {"comment", "comment2"} /\ item' = Commented(r) /\ UNCHANGED told
     \/ pc[r] = "patch" /\ item' = Updated(r) /\ UNCHANGED told
     \/ pc[r] = "reply" /\ told' = Posted(r) /\ UNCHANGED item
  /\ Goto(r, "return")
  /\ failed' = [failed EXCEPT ![r] = TRUE]
  /\ UNCHANGED <<want, msg, files, shared, api, answer, history>>

(* log.Fatalf in a client of Azure DevOps: the process exits with all the  *)
(* requests it is handling, and is started again.                          *)
Fatal(r) ==
  /\ pc[r] \in {"connect", "sprint"}
  /\ pc' = [q \in Request |-> IF q \in InProgress THEN "done" ELSE pc[q]]
  /\ answer' = [q \in Request |-> IF q \in InProgress THEN Aborted ELSE answer[q]]
  /\ slackAPI' = None /\ humanAPI' = None
  /\ UNCHANGED <<want, msg, files, api, item, told, failed, history>>

(* Somebody changes the configuration files.                               *)
Reconfigure ==
  /\ version < MaxVersion
  /\ version' = version + 1
  /\ \E b \in SUBSET File : broken' = [broken EXCEPT ![version + 1] = b]
  /\ UNCHANGED <<pc, want, msg, shared, api, item, told, answer, failed, history>>

ProvisionWobject(r) == \/ Provision(r) \/ Worker(r) \/ Sprint(r) \/ Create(r) \/ Comment(r)
                       \/ Get(r) \/ Patch(r) \/ SecondComment(r)

HandleProvisionWobjectRequest(r) ==
  \/ Fill(r) \/ SlackRead(r) \/ SlackStore(r) \/ GetUser(r)
  \/ AzureRead(r) \/ Connect(r) \/ HumanStore(r) \/ ProvisionWobject(r)

Handler(r) == \/ Main(r) \/ Interactive(r) \/ Menu(r) \/ HandleProvisionWobjectRequest(r)
              \/ Reply(r) \/ Return(r) \/ CallFails(r) \/ Fatal(r)

Next == Reconfigure \/ \E r \in Request : Handler(r)

Spec == Init /\ [][Next]_vars

-----------------------------------------------------------------------------
(* A user is told that a work item was created only when it is in Azure    *)
(* DevOps with the status asked for and a comment; and an item nobody was  *)
(* told of, so that a user would submit it again, is the work of a request *)
(* that met a failure, its own or the exit of the process in another one:  *)
(* requests that replace each other's clients cause neither.               *)
AnswersTrue ==
  \A r \in Request :
    /\ told[r] = "created" =>
         item[r] # None /\ item[r].status = want[r] /\ item[r].comments > 0
    /\ pc[r] = "done" /\ item[r] # None /\ told[r] # "created" =>
         failed[r] \/ answer[r] = Aborted

(* The shared clients are read after another request may have replaced     *)
(* them, by older ones too.  What a request uses, and creates its item     *)
(* under, is nevertheless no older than the configuration at the arrival   *)
(* of the oldest request that was in progress when it arrived.             *)
StalenessBounded ==
  \A r \in Request :
    /\ pc[r] = "user" => slackAPI # None /\ slackAPI >= floor[r]
    /\ pc[r] = "provision" => humanAPI # None /\ humanAPI >= floor[r]
    /\ item[r] # None => item[r].version >= floor[r]
=============================================================================
