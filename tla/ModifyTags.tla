----------------------------- MODULE ModifyTags ------------------------------
(***************************************************************************)
(* The functions of src/aws_api/modify_tags.go.  Each one describes the    *)
(* resources of a service and then tags them one after the other, through  *)
(* a client of src/aws_api/clients.  They differ in where they find the    *)
(* tags a resource has, in what they write and in what an error does; one  *)
(* of them runs.  Others change tags and delete resources at any time.     *)
(***************************************************************************)
EXTENDS Integers

CONSTANTS
  Resource,
  Region,     \* for the tasks of ECS: the clusters of each region
  Key,
  Wanted,     \* the keys to add, each with the value "ours"
  MaxEdits,   \* bound: what others change
  NoResource

Value == {"ours", "other", "unset"}

-----------------------------------------------------------------------------
(* The clients.                                                            *)
(*   reads:  the tags are those of the description; or are fetched, where  *)
(*           an error ends the call with it, or, for "tried", without it;  *)
(*           or are not looked at                                          *)
(*   writes: the keys that are not there, or also those that differ; or,   *)
(*           for "whole", all the tags in the place of those there         *)
(*   lists:  all of a region, or of everywhere; or some, where an error in *)
(*           the middle of a list only ends it                             *)
Client(reads, writes, lists) == [reads |-> reads, writes |-> writes, lists |-> lists]

EC2 == Client("described", "absent", "all")
RDS == Client("described", "absent", "all")
ELBV2 == Client("fetched", "absent", "all")
S3 == Client("fetched", "whole", "everywhere")
Autoscaling == Client("nothing", "differing", "all")
Secretsmanager == Client("described", "differing", "all")
CloudwatchLogs == Client("tried", "differing", "all")
Cloudwatch == Client("tried", "differing", "all")
DynamoDB == Client("tried", "differing", "all")
Elasticache == Client("tried", "differing", "all")
ECS == Client("tried", "differing", "some")

(* The functions.                                                          *)
(*   error:   what an error of tagging a resource does                     *)
(*   regions: whether it goes over PerRegion, or has one Region            *)
Function(c, error, all) == [client |-> c, error |-> error, regions |-> all]

AddTagsNetworkInterfaces == Function(EC2, "unless gone", TRUE)
AddTagsInstances == Function(EC2, "returned", FALSE)
AddTagsImages == AddTagsInstances
AddTagsLoadBalancers == Function(ELBV2, "returned", FALSE)
AddTagsAutoScalingGroups == Function(Autoscaling, "returned", FALSE)
AddTagsRDSClusters == Function(RDS, "returned", FALSE)
AddTagsS3Buckets == Function(S3, "returned", FALSE)
AddTagsCloudwatchLogGroups == Function(CloudwatchLogs, "panic", FALSE)
AddTagsECSTasks == Function(ECS, "returned", TRUE)
AddTagsSecrets == Function(Secretsmanager, "returned", TRUE)
AddTagsCloudwatchAlarms == Function(Cloudwatch, "panic", FALSE)
AddTagsDynamoDBTables == Function(DynamoDB, "panic", TRUE)
AddTagsElasticacheClusters == Function(Elasticache, "panic", TRUE)

Functions ==
  {AddTagsNetworkInterfaces, AddTagsInstances, AddTagsImages, AddTagsLoadBalancers,
   AddTagsAutoScalingGroups, AddTagsRDSClusters, AddTagsS3Buckets,
   AddTagsCloudwatchLogGroups, AddTagsECSTasks, AddTagsSecrets,
   AddTagsCloudwatchAlarms, AddTagsDynamoDBTables, AddTagsElasticacheClusters}

-----------------------------------------------------------------------------
VARIABLES
  function,  \* the one that runs
  home,      \* the region of a resource
  tags,      \* the tags of a resource, or NoResource when it was deleted
  regions,   \* the regions the function has not come to
  objects,   \* the tags, as described, of the resources left to tag
  step,      \* "regions", "objects", "read", "write"; or "ok", "error", "panic"
  obj,       \* the resource the function is at
  seen,      \* the tags it found there
  theirs,    \* history: the tags as others made them
  changed,   \* history: what others changed since the function saw its tags
  found,     \* history: the resources described
  unread,    \* history: those whose tags could not be fetched
  edits

environment == <<tags, theirs, edits>>
fixed == <<function, home>>
vars == <<fixed, environment, regions, objects, step, obj, seen, changed, found, unread>>

Present == {r \in Resource : tags[r] # NoResource}
client == function.client

Init ==
  /\ function \in Functions
  /\ home \in [Resource -> Region]
  /\ tags \in [Resource -> {t \in [Key -> Value] : \A k \in Key \ Wanted : t[k] # "ours"}]
  /\ regions \in IF function.regions THEN {Region} ELSE {{g} : g \in Region}
  /\ objects = <<>> /\ step = "regions" /\ obj = NoResource /\ seen = NoResource
  /\ theirs = tags /\ changed = {} /\ found = {} /\ unread = {} /\ edits = 0

-----------------------------------------------------------------------------
Return ==
  /\ step = "regions" /\ regions = {}
  /\ step' = "ok"
  /\ UNCHANGED <<fixed, environment, regions, objects, obj, seen, changed, found, unread>>

(* The listing of a region.  PerRegion is a map: its order is any order.   *)
Describe ==
  /\ step = "regions"
  /\ \E g \in regions, listed \in SUBSET Present :
       /\ LET there == {r \in Present : client.lists = "everywhere" \/ home[r] = g}
          IN listed \subseteq there /\ (client.lists # "some" => listed = there)
       /\ regions' = regions \ {g}
       /\ objects' = [r \in listed |-> tags[r]]
  /\ step' = "objects"
  /\ found' = found \union DOMAIN objects'
  /\ changed' = changed \ DOMAIN objects'
  /\ UNCHANGED <<fixed, environment, obj, seen, unread>>

DescribeFails ==
  /\ step = "regions" /\ regions # {}
  /\ step' = "error"
  /\ UNCHANGED <<fixed, environment, regions, objects, obj, seen, changed, found, unread>>

NextObject ==
  /\ step = "objects"
  /\ IF DOMAIN objects = {} THEN step' = "regions" /\ UNCHANGED <<objects, obj>>
     ELSE \E r \in DOMAIN objects :
            /\ step' = "read" /\ obj' = r
            /\ objects' = [q \in DOMAIN objects \ {r} |-> objects[q]]
  /\ seen' = IF step' # "read" THEN NoResource
             ELSE IF client.reads = "described" THEN objects[obj'] ELSE [k \in Key |-> "unset"]
  /\ UNCHANGED <<fixed, environment, regions, changed, found, unread>>

(* GetTags of the clients.                                                 *)
Read ==
  /\ step = "read"
  /\ step' = "write"
  /\ IF client.reads \in {"fetched", "tried"}
     THEN obj \in Present /\ seen' = tags[obj] /\ changed' = changed \ {obj}
     ELSE UNCHANGED <<seen, changed>>
  /\ UNCHANGED <<fixed, environment, regions, objects, obj, found, unread>>

ReadFails ==
  /\ step = "read"
  /\ \/ client.reads = "fetched" /\ step' = "error" /\ UNCHANGED unread
     \/ client.reads = "tried" /\ step' = "objects" /\ unread' = unread \union {obj}
  /\ UNCHANGED <<fixed, environment, regions, objects, obj, seen, changed, found>>

-----------------------------------------------------------------------------
(* The keys that CreateTags, AddTags and ProvisionTags of the clients send.*)
Missing ==
  {k \in Wanted : seen[k] = "unset" \/ (client.writes = "differing" /\ seen[k] # "ours")}

(* Mutation: PutBucketTagging is given the new tags only.                  *)
WrittenAnew ==
  [k \in Key |-> IF k \in Missing THEN "ours"
                 ELSE IF client.writes = "whole" THEN "unset" ELSE tags[obj][k]]

Written ==
  [k \in Key |-> IF k \in Missing THEN "ours"
                 ELSE IF client.writes = "whole" THEN seen[k] ELSE tags[obj][k]]

Write ==
  /\ step = "write"
  /\ step' = "objects"
  /\ IF Missing = {} THEN UNCHANGED tags
     ELSE obj \in Present /\ tags' = [tags EXCEPT ![obj] = Written]
  /\ UNCHANGED <<fixed, theirs, edits, regions, objects, obj, seen, changed, found, unread>>

(* The request fails, or its answer is lost.  Of network interfaces, one   *)
(* that does not exist is passed over.                                     *)
WriteFails ==
  /\ step = "write" /\ Missing # {}
  /\ tags' \in {tags} \union {[tags EXCEPT ![q] = Written] : q \in {obj} \intersect Present}
  /\ step' = CASE function.error = "panic" -> "panic"
             [] function.error = "unless gone" /\ obj \notin Present -> "objects"
             [] OTHER -> "error"
  /\ UNCHANGED <<fixed, theirs, edits, regions, objects, obj, seen, changed, found, unread>>

-----------------------------------------------------------------------------
Running == step \in {"regions", "objects", "read", "write"}

OthersRetag(r, k) ==
  /\ Running /\ edits < MaxEdits /\ r \in Present
  /\ \E v \in {"other", "unset"} \ {tags[r][k]} :
       /\ tags' = [tags EXCEPT ![r][k] = v]
       /\ theirs' = [theirs EXCEPT ![r][k] = v]
  /\ changed' = changed \union {r}
  /\ edits' = edits + 1
  /\ UNCHANGED <<fixed, regions, objects, step, obj, seen, found, unread>>

OthersDelete(r) ==
  /\ Running /\ edits < MaxEdits /\ r \in Present
  /\ tags' = [tags EXCEPT ![r] = NoResource]
  /\ edits' = edits + 1
  /\ UNCHANGED <<fixed, theirs, regions, objects, step, obj, seen, changed, found, unread>>

Tagging == \/ Return \/ Describe \/ DescribeFails \/ NextObject
        \/ Read \/ ReadFails \/ Write \/ WriteFails

Next == Tagging \/ \E r \in Resource : OthersDelete(r) \/ \E k \in Key : OthersRetag(r, k)

Spec == Init /\ [][Next]_vars

-----------------------------------------------------------------------------
(* A tag others made is lost only where the function is to set that key,   *)
(* and either it sets keys that differ or the change came after it had     *)
(* seen the tags; or where the whole tag set was written over such a       *)
(* change.                                                                 *)
OthersKept ==
  \A r \in Present, k \in Key :
    tags[r][k] # theirs[r][k] =>
      \/ /\ k \in Wanted /\ tags[r][k] = "ours"
         /\ theirs[r][k] = "unset" \/ client.writes = "differing" \/ r \in changed
      \/ client.writes = "whole" /\ r \in changed

(* A function that succeeds leaves no resource it has described without    *)
(* the tags, unless others changed it, or its tags could not be fetched,   *)
(* which some of the clients do not report.                                *)
Complete ==
  step = "ok" =>
    \A r \in (Present \intersect found) \ (unread \union changed), k \in Wanted :
      /\ tags[r][k] # "unset"
      /\ client.writes = "differing" => tags[r][k] = "ours"

TagsRight == OthersKept /\ Complete
=============================================================================
