-------------------------- MODULE SlackServerProofs ---------------------------
(***************************************************************************)
(* Proofs about SlackServer, for any set of requests, finite or not, any   *)
(* number of changes of the configuration files, and any failures.         *)
(***************************************************************************)
EXTENDS SlackServer, WellFoundedInduction, TLAPS

(***************************************************************************)
(* The state of the requests is well-typed.                                *)
(***************************************************************************)

(* Where a handler is before its work item is created ...                  *)
Early == {"new", "menu", "submit", "slack", "slackStore", "user", "azure", "connect",
          "store", "provision", "worker", "sprint", "create"}

(* ... and where it may be once the item is there.                         *)
Late == {"comment", "get", "patch", "comment2"}

Place == Early \cup Late \cup {"reply", "return", "done"}

Typed ==
  /\ pc \in [Request -> Place]
  /\ want \in [Request -> Status \cup {None}]
  /\ msg \in [Request -> Message \cup {None}]
  /\ version \in Version
  /\ slackAPI \in Version \cup {None}
  /\ humanAPI \in Version \cup {None}
  /\ api \in [Request -> Version \cup {None}]
  /\ item \in [Request -> WorkItem \cup {None}]
  /\ told \in [Request -> Message \cup {None}]
  /\ DOMAIN answer = Request
  /\ failed \in [Request -> BOOLEAN]
  /\ began \in [Request -> Version]
  /\ floor \in [Request -> Version]

(* A request has an item exactly once it has created one; what it creates  *)
(* the item with, and sets its status to, was chosen before.               *)
Phases ==
  \A r \in Request :
    /\ pc[r] \in Early => item[r] = None
    /\ pc[r] \in Late => item[r] # None
    /\ pc[r] \in {"submit", "slack", "slackStore", "user", "azure", "connect", "store",
                  "provision", "worker", "sprint", "create"} \cup Late => want[r] # None
    /\ pc[r] \in {"worker", "sprint", "create"} => api[r] # None
    /\ pc[r] \in {"slackStore", "connect", "store"} => api[r] # None
    /\ pc[r] = "provision" => humanAPI # None
    /\ pc[r] = "reply" => msg[r] # None

(* A nonempty set of natural numbers has a least element.                  *)
LEMMA MinOfNaturals ==
  ASSUME NEW S \in SUBSET Nat, S # {}
  PROVE  Min(S) \in S /\ \A y \in S : Min(S) <= y
<1>1. PICK x \in S : \A y \in S : ~ (<<y, x>> \in OpToRel(<, Nat))
  BY NatLessThanWellFounded, WFMin
<1>2. ASSUME NEW y \in S PROVE x <= y
  <2>1. <<y, x>> \in Nat \X Nat /\ <<y, x>>[1] = y /\ <<y, x>>[2] = x
    OBVIOUS
  <2>2. ~ (y < x)
    BY <1>1, <2>1 DEF OpToRel
  <2> QED
    BY <2>2
<1> QED
  BY <1>2 DEF Min

(* The floor of a request that arrives is at or below the version then,    *)
(* and the version at the arrival of every request in progress.            *)
LEMMA FloorOfArrival ==
  ASSUME Typed
  PROVE  LET low == Min({version} \union {began[q] : q \in InProgress})
         IN  /\ low \in Version /\ low <= version
             /\ \A q \in InProgress : low <= began[q]
<1> DEFINE S == {version} \union {began[q] : q \in InProgress}
<1>1. S \in SUBSET Version /\ S # {} /\ Version \in SUBSET Nat
  BY SlackServerAssumption DEF Typed, InProgress, Version
<1>2. Min(S) \in S /\ \A y \in S : Min(S) <= y
  BY <1>1, MinOfNaturals
<1> QED
  BY <1>1, <1>2

LEMMA TypedInit == Init => Typed /\ Phases
<1> SUFFICES ASSUME Init PROVE Typed /\ Phases
  OBVIOUS
<1> USE SlackServerAssumption DEF Init, Early, Late, Place
<1>1. Typed
  BY DEF Typed, Version
<1>2. Phases
  BY DEF Phases
<1> QED
  BY <1>1, <1>2

(* A step that goes on with the item of a request, or gives up on it.      *)
LEMMA ItemGoesOn ==
  ASSUME Typed, Phases, NEW r \in Request, NEW l \in Late \cup {"return"},
         pc' = [pc EXCEPT ![r] = l],
         item' \in [Request -> WorkItem \cup {None}],
         \A q \in Request \ {r} : item'[q] = item[q],
         l \in Late => item'[r] # None /\ want[r] # None,
         told' \in [Request -> Message \cup {None}],
         failed' \in [Request -> BOOLEAN],
         UNCHANGED <<want, msg, version, slackAPI, humanAPI, api, answer, began, floor>>
  PROVE  Typed' /\ Phases'
<1>1. /\ pc' \in [Request -> Place] /\ pc'[r] = l
      /\ \A q \in Request \ {r} : pc'[q] = pc[q]
  BY DEF Typed, Place
<1>2. Typed'
  BY <1>1 DEF Typed
<1>3. l \notin Early /\ l # "reply"
  BY DEF Late, Early
<1>4. ASSUME NEW q \in Request
      PROVE  /\ pc'[q] \in Early => item'[q] = None
             /\ pc'[q] \in Late => item'[q] # None
             /\ pc'[q] \in {"submit", "slack", "slackStore", "user", "azure", "connect", "store",
                            "provision", "worker", "sprint", "create"} \cup Late => want'[q] # None
             /\ pc'[q] \in {"worker", "sprint", "create"} => api'[q] # None
             /\ pc'[q] \in {"slackStore", "connect", "store"} => api'[q] # None
             /\ pc'[q] = "provision" => humanAPI' # None
             /\ pc'[q] = "reply" => msg'[q] # None
  <2>1. CASE q = r
    BY <1>1, <1>3, <2>1 DEF Early
  <2>2. CASE q # r
    BY <1>1, <2>2 DEF Phases
  <2> QED
    BY <2>1, <2>2
<1>5. Phases'
  BY <1>4 DEF Phases
<1> QED
  BY <1>2, <1>5

(* A step of one handler moves that handler on, changes the shared clients *)
(* to the one it has made, and its own item, message and answer.  Only the *)
(* end of the process ends other handlers too.                             *)
LEMMA TypedNext == Typed /\ Phases /\ [Next]_vars => Typed' /\ Phases'
<1> SUFFICES ASSUME Typed, Phases, [Next]_vars PROVE Typed' /\ Phases'
  OBVIOUS
<1> USE SlackServerAssumption
    DEF Typed, Phases, Early, Late, Place, Goto, Answer, Panic, shared, files, history
<1>1. CASE Reconfigure
  BY <1>1 DEF Reconfigure, Version
<1>2. ASSUME NEW r \in Request, Main(r)
      PROVE  Typed' /\ Phases'
  BY <1>2 DEF Main
<1>3. ASSUME NEW r \in Request, Interactive(r)
      PROVE  Typed' /\ Phases'
  <2>1. PICK p \in Payload :
          IF p.form
          THEN /\ Goto(r, Dispatch(p))
               /\ want' = [want EXCEPT ![r] =
                             IF Dispatch(p) = "submit" THEN p.status ELSE None]
               /\ UNCHANGED answer
          ELSE Answer(r, 400) /\ UNCHANGED want
    BY <1>3 DEF Interactive
  <2>2. p.status \in Status
    BY DEF Payload
  <2>3. Dispatch(p) \in {"menu", "submit", "return"}
    BY DEF Dispatch
  <2>4. pc[r] = "new" /\ UNCHANGED <<msg, files, shared, api, item, told, failed>>
    BY <1>3 DEF Interactive
  <2>5. Typed'
    <3>1. Min({version} \union {began[q] : q \in InProgress}) \in Version
      BY FloorOfArrival
    <3>2. began' \in [Request -> Version] /\ floor' \in [Request -> Version]
      BY <1>3, <3>1 DEF Interactive
    <3> QED
      BY <2>1, <2>2, <2>3, <2>4, <3>2
  <2>6. Phases'
    BY <2>1, <2>2, <2>3, <2>4
  <2> QED
    BY <2>5, <2>6
<1>4. ASSUME NEW r \in Request, Menu(r)
      PROVE  Typed' /\ Phases'
  BY <1>4 DEF Menu, Message
<1>5. ASSUME NEW r \in Request, Fill(r) \/ Worker(r) \/ Sprint(r)
      PROVE  Typed' /\ Phases'
  BY <1>5 DEF Fill, Worker, Sprint
<1>6. ASSUME NEW r \in Request, SlackRead(r) \/ AzureRead(r)
      PROVE  Typed' /\ Phases'
  BY <1>6 DEF SlackRead, AzureRead
<1>7. ASSUME NEW r \in Request, SlackStore(r) \/ HumanStore(r)
      PROVE  Typed' /\ Phases'
  BY <1>7 DEF SlackStore, HumanStore
<1>21. ASSUME NEW r \in Request, GetUser(r) \/ Connect(r)
       PROVE  Typed' /\ Phases'
  <2>1. /\ pc' \in [Request -> Place] /\ pc'[r] \in {"azure", "store", "done"}
        /\ pc'[r] = "store" => pc[r] = "connect"
        /\ \A q \in Request \ {r} : pc'[q] = pc[q]
        /\ pc[r] \in {"user", "connect"}
    BY <1>21 DEF GetUser, Connect
  <2>2. DOMAIN answer' = Request /\ failed' \in [Request -> BOOLEAN]
    BY <1>21 DEF GetUser, Connect
  <2>3. UNCHANGED <<want, msg, version, shared, api, item, told, began, floor>>
    BY <1>21 DEF GetUser, Connect
  <2> QED
    BY <2>1, <2>2, <2>3
<1>8. ASSUME NEW r \in Request, Provision(r)
      PROVE  Typed' /\ Phases'
  BY <1>8 DEF Provision
<1>9. ASSUME NEW r \in Request, pc[r] = "create", item' = Created(r)
      PROVE  item' \in [Request -> WorkItem \cup {None}] /\ item'[r] # None
  BY <1>9 DEF Created, WorkItem, Status
<1>10. ASSUME NEW r \in Request, pc[r] \in {"comment", "comment2"}, item' = Commented(r)
       PROVE  item' \in [Request -> WorkItem \cup {None}] /\ item'[r] # None
  BY <1>10 DEF Commented, WorkItem
<1>11. ASSUME NEW r \in Request, pc[r] = "patch", item' = Updated(r)
       PROVE  item' \in [Request -> WorkItem \cup {None}] /\ item'[r] # None
  BY <1>11 DEF Updated, WorkItem
<1>12. ASSUME NEW r \in Request, Create(r)
       PROVE  Typed' /\ Phases'
  <2>1. /\ pc[r] = "create" /\ Goto(r, "comment") /\ item' = Created(r)
        /\ UNCHANGED <<want, msg, files, shared, api, told, answer, failed, history>>
    BY <1>12 DEF Create
  <2>2. item' \in [Request -> WorkItem \cup {None}] /\ item'[r] # None
    BY <2>1, <1>9
  <2>3. \A q \in Request \ {r} : item'[q] = item[q]
    BY <2>1 DEF Created
  <2>4. want[r] # None
    BY <2>1
  <2> QED
    BY <2>1, <2>2, <2>3, <2>4, ItemGoesOn
<1>13. ASSUME NEW r \in Request, Comment(r)
       PROVE  Typed' /\ Phases'
  <2>1. /\ pc[r] = "comment" /\ Goto(r, "get") /\ item' = Commented(r)
        /\ UNCHANGED <<want, msg, files, shared, api, told, answer, failed, history>>
    BY <1>13 DEF Comment
  <2>2. item' \in [Request -> WorkItem \cup {None}] /\ item'[r] # None
    BY <2>1, <1>10
  <2>3. \A q \in Request \ {r} : item'[q] = item[q]
    BY <2>1 DEF Commented
  <2>4. want[r] # None
    BY <2>1
  <2> QED
    BY <2>1, <2>2, <2>3, <2>4, ItemGoesOn
<1>14. ASSUME NEW r \in Request, Get(r)
       PROVE  Typed' /\ Phases'
  BY <1>14 DEF Get, Done, Message
<1>15. ASSUME NEW r \in Request, Patch(r)
       PROVE  Typed' /\ Phases'
  BY <1>15, <1>11 DEF Patch, Updated
<1>16. ASSUME NEW r \in Request, SecondComment(r)
       PROVE  Typed' /\ Phases'
  BY <1>16, <1>10 DEF SecondComment, Commented, Done, Message
<1>17. ASSUME NEW r \in Request, Reply(r) \/ Return(r)
       PROVE  Typed' /\ Phases'
  BY <1>17 DEF Reply, Return, Posted
<1>18. ASSUME NEW r \in Request, CallFails(r)
       PROVE  Typed' /\ Phases'
  <2>1. /\ item' \in [Request -> WorkItem \cup {None}]
        /\ \A q \in Request \ {r} : item'[q] = item[q]
    <3>1. \/ UNCHANGED item
          \/ pc[r] = "create" /\ item' = Created(r)
          \/ pc[r] \in {"comment", "comment2"} /\ item' = Commented(r)
          \/ pc[r] = "patch" /\ item' = Updated(r)
      BY <1>18 DEF CallFails
    <3>2. item' \in [Request -> WorkItem \cup {None}]
      BY <3>1, <1>9, <1>10, <1>11
    <3>3. \A q \in Request \ {r} : item'[q] = item[q]
      BY <3>1 DEF Created, Commented, Updated
    <3> QED
      BY <3>2, <3>3
  <2>2. told' \in [Request -> Message \cup {None}]
    BY <1>18 DEF CallFails, Posted
  <2>3. /\ Goto(r, "return") /\ failed' \in [Request -> BOOLEAN] /\ "return" \notin Late
        /\ UNCHANGED <<want, msg, files, shared, api, answer, history>>
    BY <1>18 DEF CallFails
  <2> QED
    BY <2>1, <2>2, <2>3, ItemGoesOn
<1>19. ASSUME NEW r \in Request, Fatal(r)
       PROVE  Typed' /\ Phases'
  BY <1>19 DEF Fatal, InProgress
<1>20. CASE UNCHANGED vars
  BY <1>20 DEF vars
<1> QED
  BY <1>1, <1>2, <1>3, <1>4, <1>5, <1>6, <1>7, <1>8, <1>12, <1>13, <1>14, <1>15, <1>16, <1>17,
     <1>18, <1>19, <1>20, <1>21
     DEF Next, Handler, HandleProvisionWobjectRequest, ProvisionWobject

(* Every reachable state is well-typed.                                    *)
LEMMA TypeInvariance == Spec => [](Typed /\ Phases)
BY TypedInit, TypedNext, PTL DEF Spec

-----------------------------------------------------------------------------
(***************************************************************************)
(* What users are told.                                                    *)
(***************************************************************************)

(* The item of a request is as the user wants it.                          *)
Made(r) == item[r] # None /\ item[r].status = want[r] /\ item[r].comments > 0

(* A request that has an item has told so, or has met a failure.           *)
Settled(r) == item[r] = None \/ told[r] = "created" \/ failed[r]

Telling ==
  \A r \in Request :
    /\ pc[r] \in {"get", "patch", "comment2"} => item[r].comments > 0
    /\ pc[r] = "comment2" => item[r].status = want[r]
    /\ pc[r] \notin {"reply", "return", "done"} => msg[r] # "created"
    /\ msg[r] = "created" => Made(r)
    /\ told[r] = "created" => msg[r] = "created"
    /\ pc[r] = "reply" => msg[r] = "created" \/ item[r] = None
    /\ pc[r] = "return" => Settled(r)
    /\ pc[r] = "done" => Settled(r) \/ answer[r] = Aborted

LEMMA TellingNext ==
  ASSUME Typed, Phases, Telling, [Next]_vars
  PROVE  Telling'
<1> USE SlackServerAssumption
    DEF Typed, Phases, Telling, Made, Settled, Early, Late, Place, Goto, Answer, Panic, shared,
        files, history
<1>1. CASE Reconfigure
  BY <1>1 DEF Reconfigure
<1>2. ASSUME NEW r \in Request, Main(r)
      PROVE  Telling'
  BY <1>2 DEF Main
<1>3. ASSUME NEW r \in Request, Interactive(r)
      PROVE  Telling'
  <2>1. \/ /\ pc'[r] \in {"menu", "submit", "return"} /\ UNCHANGED answer
           /\ pc' = [pc EXCEPT ![r] = pc'[r]]
        \/ \E code \in {400} : Answer(r, code)
    BY <1>3 DEF Interactive, Dispatch
  <2>2. /\ pc[r] = "new" /\ UNCHANGED <<msg, item, told, failed>>
        /\ \A q \in Request \ {r} : want'[q] = want[q]
    BY <1>3 DEF Interactive
  <2> QED
    BY <2>1, <2>2
<1>4. ASSUME NEW r \in Request, Menu(r)
      PROVE  Telling'
  BY <1>4 DEF Menu
<1>5. ASSUME NEW r \in Request, Fill(r) \/ Worker(r) \/ Sprint(r)
      PROVE  Telling'
  BY <1>5 DEF Fill, Worker, Sprint
<1>6. ASSUME NEW r \in Request, SlackRead(r) \/ SlackStore(r) \/ GetUser(r)
      PROVE  Telling'
  BY <1>6 DEF SlackRead, SlackStore, GetUser
<1>7. ASSUME NEW r \in Request, AzureRead(r) \/ Connect(r) \/ HumanStore(r)
      PROVE  Telling'
  BY <1>7 DEF AzureRead, Connect, HumanStore
<1>8. ASSUME NEW r \in Request, Provision(r)
      PROVE  Telling'
  BY <1>8 DEF Provision
<1>9. ASSUME NEW r \in Request, Create(r)
      PROVE  Telling'
  BY <1>9 DEF Create, Created
<1>10. ASSUME NEW r \in Request, Comment(r)
       PROVE  Telling'
  BY <1>10 DEF Comment, Commented, WorkItem
<1>11. ASSUME NEW r \in Request, Get(r)
       PROVE  Telling'
  BY <1>11 DEF Get, Done
<1>12. ASSUME NEW r \in Request, Patch(r)
       PROVE  Telling'
  BY <1>12 DEF Patch, Updated, WorkItem
<1>13. ASSUME NEW r \in Request, SecondComment(r)
       PROVE  Telling'
  BY <1>13 DEF SecondComment, Commented, Done, WorkItem
<1>14. ASSUME NEW r \in Request, Reply(r) \/ Return(r)
       PROVE  Telling'
  BY <1>14 DEF Reply, Return, Posted
<1>15. ASSUME NEW r \in Request, CallFails(r)
       PROVE  Telling'
  <2>1. /\ pc[r] \in {"menu", "submit", "user", "connect", "worker", "sprint",
                      "create", "comment", "get", "patch", "comment2", "reply"}
        /\ \A q \in Request \ {r} : item'[q] = item[q] /\ told'[q] = told[q]
        /\ pc[r] = "reply" => item' = item
        /\ told'[r] = told[r] \/ (pc[r] = "reply" /\ told'[r] = msg[r])
    <3> HIDE DEF Phases, Telling
    <3>1. CASE UNCHANGED <<item, told>>
      BY <1>15, <3>1 DEF CallFails
    <3>2. CASE UNCHANGED told /\ pc[r] \in {"create", "comment", "comment2", "patch"}
      BY <1>15, <3>2 DEF CallFails, Created, Commented, Updated
    <3>3. CASE UNCHANGED item /\ pc[r] = "reply" /\ told' = Posted(r)
      BY <1>15, <3>3 DEF CallFails, Posted
    <3> QED
      BY <1>15, <3>1, <3>2, <3>3 DEF CallFails
  <2>2. /\ failed' = [failed EXCEPT ![r] = TRUE]
        /\ UNCHANGED <<want, msg, answer>>
        /\ pc' = [pc EXCEPT ![r] = "return"]
    BY <1>15 DEF CallFails
  <2> QED
    BY <2>1, <2>2
<1>16. ASSUME NEW r \in Request, Fatal(r)
       PROVE  Telling'
  BY <1>16 DEF Fatal, InProgress
<1>17. CASE UNCHANGED vars
  BY <1>17 DEF vars
<1> HIDE DEF Typed, Phases, Telling, Made, Settled, Goto, Answer, Panic
<1> QED
  BY <1>1, <1>2, <1>3, <1>4, <1>5, <1>6, <1>7, <1>8, <1>9, <1>10, <1>11, <1>12, <1>13, <1>14,
     <1>15, <1>16, <1>17
     DEF Next, Handler, HandleProvisionWobjectRequest, ProvisionWobject

(* A user is told that an item was created only when it was, as asked; an  *)
(* item nobody was told of is the work of a request that met a failure.    *)
THEOREM AnswersAreTrue == Spec => []AnswersTrue
<1>1. Init => Telling
  BY SlackServerAssumption DEF Init, Telling, Made, Settled, Message
<1>2. Typed /\ Phases /\ Telling /\ [Next]_vars => Telling'
  BY TellingNext
<1>3. Telling => AnswersTrue
  BY DEF Telling, Made, Settled, AnswersTrue
<1> QED
  BY <1>1, <1>2, <1>3, TypeInvariance, PTL DEF Spec

-----------------------------------------------------------------------------
(***************************************************************************)
(* How old the configuration may be that a request uses.                   *)
(***************************************************************************)

(* The floor of a request is at or below the version at the arrival of     *)
(* every request that is in progress with it: whatever client one of them  *)
(* stores was made from that version or a later one.                       *)
Floors ==
  /\ \A r \in Request : floor[r] <= began[r] /\ began[r] <= version
  /\ \A r, q \in InProgress : floor[r] <= began[q]

(* A client a request is making is no older than its arrival, the ones it  *)
(* uses are no older than its floor.                                       *)
Fresh ==
  /\ \A r \in Request :
       /\ pc[r] \in {"slackStore", "connect", "store"} => api[r] >= began[r]
       /\ pc[r] \in {"worker", "sprint", "create"} => api[r] >= floor[r]
  /\ StalenessBounded

(* But for its arrival and its end a request keeps its floor, and nobody   *)
(* comes to be in progress but by arriving.                                *)
LEMMA FloorsStable ==
  ASSUME Typed, Floors, UNCHANGED <<began, floor>>, version' \in Version, version <= version',
         \A q \in Request : pc'[q] \notin {"new", "done"} => pc[q] \notin {"new", "done"}
  PROVE  Floors'
<1> USE SlackServerAssumption DEF Typed, Floors, InProgress, Version
<1>1. InProgress' \subseteq InProgress
  OBVIOUS
<1>2. \A r \in Request : floor'[r] <= began'[r] /\ began'[r] <= version'
  OBVIOUS
<1> QED
  BY <1>1, <1>2

LEMMA FloorsNext ==
  ASSUME Typed, Phases, Floors, [Next]_vars
  PROVE  Floors'
<1> USE SlackServerAssumption DEF Goto, Answer, Panic, shared, files, history
<1>1. version \in Version /\ \A v \in Version : v <= v
  BY DEF Typed, Version
<1>2. CASE Reconfigure
  BY <1>1, <1>2, FloorsStable DEF Reconfigure, Version
<1>3. ASSUME NEW r \in Request, Main(r)
      PROVE  Floors'
  BY <1>1, <1>3, FloorsStable DEF Main, Typed
<1>4. ASSUME NEW r \in Request, Interactive(r)
      PROVE  Floors'
  <2> DEFINE low == Min({version} \union {began[q] : q \in InProgress})
  <2>1. low \in Version /\ low <= version /\ \A q \in InProgress : low <= began[q]
    BY FloorOfArrival
  <2> HIDE DEF low
  <2>2. /\ pc[r] = "new" /\ version' = version
        /\ \A q \in Request \ {r} : pc'[q] = pc[q]
    BY <1>4 DEF Interactive, Typed
  <2>3. /\ began' = [began EXCEPT ![r] = version]
        /\ floor' = [floor EXCEPT ![r] = low]
    BY <1>4 DEF Interactive, low
  <2>4. \A q \in InProgress' : q = r \/ q \in InProgress
    BY <2>2 DEF InProgress
  <2>5. \A q \in Request : floor[q] <= version
    BY <1>1 DEF Floors, Typed, Version
  <2>6. InProgress' \subseteq Request
    BY DEF InProgress
  <2> QED
    BY <1>1, <2>1, <2>2, <2>3, <2>4, <2>5, <2>6 DEF Floors, Typed
<1>5. ASSUME NEW r \in Request, ProvisionWobject(r)
      PROVE  Floors'
  BY <1>1, <1>5, FloorsStable
     DEF ProvisionWobject, Provision, Worker, Sprint, Create, Comment, Get, Patch,
         SecondComment, Done, Typed
<1>6. ASSUME NEW r \in Request, HandleProvisionWobjectRequest(r), ~ProvisionWobject(r)
      PROVE  Floors'
  BY <1>1, <1>6, FloorsStable
     DEF HandleProvisionWobjectRequest, Fill, SlackRead, SlackStore, GetUser, AzureRead,
         Connect, HumanStore, Typed
<1>7. ASSUME NEW r \in Request, Menu(r) \/ Reply(r) \/ Return(r) \/ CallFails(r)
      PROVE  Floors'
  BY <1>1, <1>7, FloorsStable DEF Menu, Reply, Return, CallFails, Typed
<1>8. ASSUME NEW r \in Request, Fatal(r)
      PROVE  Floors'
  BY <1>1, <1>8, FloorsStable DEF Fatal, InProgress
<1>9. CASE UNCHANGED vars
  BY <1>1, <1>9, FloorsStable DEF vars
<1> QED
  BY <1>2, <1>3, <1>4, <1>5, <1>6, <1>7, <1>8, <1>9 DEF Next, Handler

(* A handler that stores its client in the shared field may replace a      *)
(* newer one, but stores none that is too old for anyone in progress.      *)
LEMMA FreshNext ==
  ASSUME Typed, Phases, Floors, Fresh, [Next]_vars
  PROVE  Fresh'
<1> USE SlackServerAssumption
    DEF Typed, Phases, Fresh, StalenessBounded, Early, Late, Place, Goto, Answer, Panic, shared,
        files, history
<1>0. Version \subseteq Int /\ \A v \in Version : v >= v
  BY DEF Version
<1>1. CASE Reconfigure
  BY <1>1 DEF Reconfigure
<1>2. ASSUME NEW r \in Request, Main(r)
      PROVE  Fresh'
  BY <1>2 DEF Main
<1>3. ASSUME NEW r \in Request, Interactive(r)
      PROVE  Fresh'
  <2>1. /\ pc[r] = "new" /\ UNCHANGED <<shared, api, item>>
        /\ pc'[r] \in {"menu", "submit", "return", "done"}
        /\ \A q \in Request \ {r} :
             pc'[q] = pc[q] /\ began'[q] = began[q] /\ floor'[q] = floor[q]
    BY <1>3 DEF Interactive, Dispatch
  <2> QED
    BY <2>1
<1>4. ASSUME NEW r \in Request, SlackRead(r)
      PROVE  Fresh'
  BY <1>4, <1>0 DEF SlackRead, Floors
<1>5. ASSUME NEW r \in Request, SlackStore(r)
      PROVE  Fresh'
  <2>1. /\ pc[r] = "slackStore" /\ slackAPI' = api[r] /\ pc' = [pc EXCEPT ![r] = "user"]
        /\ UNCHANGED <<humanAPI, api, item, began, floor>>
    BY <1>5 DEF SlackStore
  <2>2. \A q \in Request : pc'[q] = "user" => floor[q] <= began[r]
    BY <2>1 DEF Floors, InProgress
  <2>3. api[r] \in Version /\ api[r] >= began[r]
    BY <2>1
  <2>4. ASSUME NEW q \in Request, pc'[q] = "user"
        PROVE  api[r] >= floor[q]
    <3>1. floor[q] \in Int /\ began[r] \in Int /\ api[r] \in Int
      BY <1>0, <2>3
    <3> QED
      BY <2>2, <2>3, <2>4, <3>1
  <2> QED
    BY <2>1, <2>3, <2>4
<1>6. ASSUME NEW r \in Request, GetUser(r) \/ Connect(r)
      PROVE  Fresh'
  BY <1>6 DEF GetUser, Connect
<1>7. ASSUME NEW r \in Request, AzureRead(r)
      PROVE  Fresh'
  BY <1>7, <1>0 DEF AzureRead, Floors
<1>8. ASSUME NEW r \in Request, HumanStore(r)
      PROVE  Fresh'
  <2>1. /\ pc[r] = "store" /\ humanAPI' = api[r] /\ pc' = [pc EXCEPT ![r] = "provision"]
        /\ UNCHANGED <<slackAPI, api, item, began, floor>>
    BY <1>8 DEF HumanStore
  <2>2. \A q \in Request : pc'[q] = "provision" => floor[q] <= began[r]
    BY <2>1 DEF Floors, InProgress
  <2>3. api[r] \in Version /\ api[r] >= began[r]
    BY <2>1
  <2>4. ASSUME NEW q \in Request, pc'[q] = "provision"
        PROVE  api[r] >= floor[q]
    <3>1. floor[q] \in Int /\ began[r] \in Int /\ api[r] \in Int
      BY <1>0, <2>3
    <3> QED
      BY <2>2, <2>3, <2>4, <3>1
  <2> QED
    BY <2>1, <2>3, <2>4
<1>9. ASSUME NEW r \in Request, Provision(r)
      PROVE  Fresh'
  BY <1>9 DEF Provision
<1>10. ASSUME NEW r \in Request, Create(r)
       PROVE  Fresh'
  BY <1>10 DEF Create, Created
<1>11. ASSUME NEW r \in Request,
              Comment(r) \/ Get(r) \/ Patch(r) \/ SecondComment(r)
       PROVE  Fresh'
  <2>1. \A q \in Request :
           item'[q] # None => item[q] # None /\ item'[q].version = item[q].version
    BY <1>11 DEF Comment, Get, Patch, SecondComment, Commented, Updated, WorkItem
  <2> QED
    BY <1>11, <2>1 DEF Comment, Get, Patch, SecondComment, Done
<1>12. ASSUME NEW r \in Request,
              Menu(r) \/ Fill(r) \/ Worker(r) \/ Sprint(r) \/ Reply(r) \/ Return(r)
       PROVE  Fresh'
  BY <1>12 DEF Menu, Fill, Worker, Sprint, Reply, Return
<1>13. ASSUME NEW r \in Request, CallFails(r)
       PROVE  Fresh'
  <2>1. \A q \in Request : item'[q] # None => item'[q].version >= floor[q]
    BY <1>13 DEF CallFails, Created, Commented, Updated, WorkItem
  <2> QED
    BY <1>13, <2>1 DEF CallFails
<1>14. ASSUME NEW r \in Request, Fatal(r)
       PROVE  Fresh'
  BY <1>14 DEF Fatal, InProgress
<1>15. CASE UNCHANGED vars
  BY <1>15 DEF vars
<1> QED
  BY <1>1, <1>2, <1>3, <1>4, <1>5, <1>6, <1>7, <1>8, <1>9, <1>10, <1>11, <1>12, <1>13, <1>14,
     <1>15
     DEF Next, Handler, HandleProvisionWobjectRequest, ProvisionWobject

(* A request uses no client, and creates no item through one, that is      *)
(* older than the configuration at the arrival of the oldest request in    *)
(* progress when it arrived, although requests replace each other's        *)
(* clients, newer ones by older ones too.                                  *)
THEOREM StalenessIsBounded == Spec => []StalenessBounded
<1>1. Init => Floors /\ Fresh
  BY SlackServerAssumption DEF Init, Floors, Fresh, StalenessBounded, InProgress
<1>2. Typed /\ Phases /\ Floors /\ Fresh /\ [Next]_vars => Floors' /\ Fresh'
  BY FloorsNext, FreshNext
<1>3. Fresh => StalenessBounded
  BY DEF Fresh
<1> QED
  BY <1>1, <1>2, <1>3, TypeInvariance, PTL DEF Spec

=============================================================================
