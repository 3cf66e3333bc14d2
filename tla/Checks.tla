------------------------------- MODULE Checks -------------------------------
(***************************************************************************)
(* The leaf verifiers under verification/verifiers: what one evaluation    *)
(* pass of each of them makes of the world it is shown.  A verifier turns  *)
(* an answer of the cluster (or of a git repository, or of a probe pod)    *)
(* into "pass", "fail" or "error"; "error" means that nothing was          *)
(* observed, and every score further down keeps it apart from "fail".      *)
(*                                                                         *)
(* A check is [type, op, value, across, path, wildcard, ...] as _check_-   *)
(* shape lets it be; an answer is a record of what the calls return.  A    *)
(* fetched object is a sequence of elements (what the path's last wildcard *)
(* selects; one element, the object, when the path has none), and an       *)
(* element is the sequence of values its suffix resolves to.               *)
(***************************************************************************)
EXTENDS Integers, Sequences

Statuses == {"pass", "fail", "error"}

OrderingOps == {"gt", "gte", "lt", "lte"}
ValueOps == OrderingOps \cup {"eq", "ne", "contains", "matches"}

(***************************************************************************)
(* Values.  A value is [kind, num, spelling, hit]: a number, a quantity    *)
(* such as "192Mi", a bare numeric string such as "1.2", a word or a       *)
(* list; "hit" says whether the check's right-hand side occurs in it.      *)
(***************************************************************************)
Readable(v) == v.kind \in {"int", "quantity", "numeric"}

IsQuantityString(v) == v.kind = "quantity"

Coerces(a, e) == "int" \in {a.kind, e.kind} \/ IsQuantityString(a) \/ IsQuantityString(e)

Equal(a, e) == IF Coerces(a, e) /\ Readable(a) /\ Readable(e) THEN a.num = e.num ELSE a = e

Ordered(op, a, e) ==
  /\ Readable(a) /\ Readable(e)
  /\ \/ op = "gt"  /\ a.num > e.num
     \/ op = "gte" /\ a.num >= e.num
     \/ op = "lt"  /\ a.num < e.num
     \/ op = "lte" /\ a.num <= e.num

ApplyOp(op, a, e) ==
  \/ op \in OrderingOps /\ Ordered(op, a, e)
  \/ op = "eq" /\ Equal(a, e)
  \/ op = "ne" /\ ~Equal(a, e)
  \/ op = "contains" /\ a.kind # "int" /\ a.hit
  \/ op = "matches" /\ a.kind \notin {"int", "list"} /\ a.hit

ApplyCheck(c, v) == c.op = "exists" \/ ApplyOp(c.op, v, c.value)

(***************************************************************************)
(* The places of a sequence of objects that hold an element, and those     *)
(* that hold a value.                                                      *)
(***************************************************************************)
ElementsOf(objects) ==
  UNION {{<<o, e>> : e \in DOMAIN objects[o]} : o \in DOMAIN objects}

ValuesOf(objects) ==
  UNION {{<<p[1], p[2], v>> : v \in DOMAIN objects[p[1]][p[2]]} : p \in ElementsOf(objects)}

ValueAt(objects, p) == objects[p[1]][p[2]][p[3]]

(* One element's contribution: under "every" an element whose suffix does *)
(* not resolve fails, under "none" it conforms. *)
ElementConforms(c, values) ==
  IF values = <<>> THEN c.across = "none"
  ELSE IF c.across = "every" THEN \A i \in DOMAIN values : ApplyCheck(c, values[i])
  ELSE \A i \in DOMAIN values : ~ApplyCheck(c, values[i])

AcrossElements(c, objects) ==
  IF ElementsOf(objects) = {} THEN c.across = "none"
  ELSE \A p \in ElementsOf(objects) : ElementConforms(c, objects[p[1]][p[2]])

AcrossValues(c, objects) ==
  LET flat == ValuesOf(objects) IN
  CASE c.op = "absent" -> flat = {}
    [] c.op # "absent" /\ flat = {} -> c.across = "none"
    [] c.op # "absent" /\ flat # {} /\ c.across = "unset" ->
         \E p \in flat : flat = {p} /\ ApplyCheck(c, ValueAt(objects, p))
    [] c.op # "absent" /\ flat # {} /\ c.across = "every" ->
         \A p \in flat : ApplyCheck(c, ValueAt(objects, p))
    [] OTHER -> \A p \in flat : ~ApplyCheck(c, ValueAt(objects, p))

EvaluatePath(c, objects) ==
  IF c.across # "unset" /\ c.wildcard THEN AcrossElements(c, objects)
                                      ELSE AcrossValues(c, objects)

Answered(passed) == IF passed THEN "pass" ELSE "fail"

(***************************************************************************)
(* resource_property: NotFound is an answer, an empty match set; any other *)
(* failure of kubectl get is an error.                                     *)
(***************************************************************************)
(* Distortion of ResourceHolds: an empty match set reaches the reduction. *)
ResourceHoldsFault(c, objects) ==
  IF c.op = "absent" /\ ~c.path THEN objects = <<>>
  ELSE IF c.path THEN EvaluatePath(c, objects) ELSE objects # <<>>

ResourceHolds(c, objects) ==
  IF c.op = "absent" /\ ~c.path THEN objects = <<>>
  ELSE objects # <<>> /\ (c.path => EvaluatePath(c, objects))

ResourceVerdict(c, a) ==
  IF a.get = "failed" THEN "error"
  ELSE Answered(ResourceHolds(c, IF a.get = "not_found" THEN <<>> ELSE a.objects))

(***************************************************************************)
(* git_repo_sync: the repository, its head, its root commits, the file at  *)
(* the ref, the YAML in it, and then the path over the list of documents.  *)
(***************************************************************************)
FileHolds(c, a) ==
  /\ a.file = "read"
  /\ c.path => EvaluatePath(c, a.objects)
  /\ c.op = "absent" => c.path

GitVerdict(c, a) ==
  CASE ~a.repository -> "fail"
    [] a.repository /\ ~a.head -> "error"
    [] a.repository /\ a.head /\ c.requireNewCommit /\ ~a.roots -> "error"
    [] a.repository /\ a.head /\ c.requireNewCommit /\ a.roots /\ a.atRoot -> "fail"
    [] OTHER -> IF ~c.file THEN Answered(c.op # "absent")
                ELSE IF a.file = "unreadable" THEN "error"
                ELSE Answered(FileHolds(c, a))

(***************************************************************************)
(* http_probe: curl in a pod of its own.  An attempt begun with no time    *)
(* left is an error, a curl that met the network and failed is a fail.     *)
(***************************************************************************)
ProbeVerdict(c, a) ==
  IF a.attempt \in {"no_time", "kubectl_failed", "raised", "no_marker"} THEN "error"
  ELSE Answered(/\ a.attempt = "answered"
                /\ a.status = c.status
                /\ c.body => a.bodyMatches)

(***************************************************************************)
(* pod_exec: one running pod, one command, one comparison of its output.   *)
(***************************************************************************)
RunningPods(a) == {p \in DOMAIN a.pods : a.pods[p].phase = "Running"}

ResolvesPod(c, a) == c.named \/ (a.get = "listed" /\ RunningPods(a) # {})

ExecVerdict(c, a) ==
  IF ~ResolvesPod(c, a) \/ a.exec = "failed" THEN "error"
  ELSE Answered(ApplyOp(c.op, a.output, c.value))

(***************************************************************************)
(* pod_healthy: kubectl wait, and when that fails the pods themselves, the *)
(* Ready condition before the phase.                                       *)
(***************************************************************************)
PodIsHealthy(pod) == IF pod.ready = "none" THEN pod.phase = "Running" ELSE pod.ready = "True"

CheckPodsStatus(pods) == pods # <<>> /\ \A p \in DOMAIN pods : PodIsHealthy(pods[p])

HealthyVerdict(c, a) ==
  IF a.wait = "met" THEN "pass"
  ELSE IF a.get = "failed" THEN "error"
  ELSE Answered(CheckPodsStatus(a.pods))

(***************************************************************************)
(* scaling_complete and identity_preserved: NotFound is a fail.            *)
(***************************************************************************)
ScalingVerdict(c, a) ==
  CASE a.get = "not_found" -> "fail"
    [] a.get = "failed" -> "error"
    [] OTHER -> Answered(/\ a.ready >= c.min
                         /\ c.bounded => a.ready <= c.max)

IdentityVerdict(c, a) ==
  CASE a.get = "not_found" -> "fail"
    [] a.get = "failed" -> "error"
    [] OTHER -> Answered(/\ a.baselineUid # "none" /\ a.baselineCreated # "none"
                         /\ a.uid = a.baselineUid /\ a.created = a.baselineCreated)

Verdict(c, a) ==
  CASE c.type = "resource_property"  -> ResourceVerdict(c, a)
    [] c.type = "git_repo_sync"      -> GitVerdict(c, a)
    [] c.type = "http_probe"         -> ProbeVerdict(c, a)
    [] c.type = "pod_exec"           -> ExecVerdict(c, a)
    [] c.type = "pod_healthy"        -> HealthyVerdict(c, a)
    [] c.type = "scaling_complete"   -> ScalingVerdict(c, a)
    [] c.type = "identity_preserved" -> IdentityVerdict(c, a)

=============================================================================
