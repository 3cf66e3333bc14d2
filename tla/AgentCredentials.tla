-------------------------- MODULE AgentCredentials --------------------------
(***************************************************************************)
(* devops_bench/k8s/agent_credentials.py: what a sandboxed run writes to   *)
(* its cluster before the agent starts and removes after it.  Every        *)
(* kubectl call is a step; a failing call (k8s/kubectl.py) may have had    *)
(* any part of its effect.  Several runs may meet on one cluster, live,    *)
(* ended or crashed: the objects have fixed names.                         *)
(*                                                                         *)
(* holder, marker, alone and before are kept for the properties only; the  *)
(* cluster itself knows that an object or a marker is there.               *)
(***************************************************************************)
EXTENDS Naturals, FiniteSets

CONSTANTS
  Runs, Nobody,
  Namespaces,
  Exempt,              \* the cluster's own: exempt by name or by label
  Plans,               \* what a task and the operator's environment ask for
  MaxFailures,         \* kubectl calls that fail, in a behaviour
  MaxCrashes           \* runs killed, in a behaviour

ASSUME CredentialsAssumption ==
  /\ Nobody \notin Runs
  /\ Exempt \subseteq Namespaces
  /\ Plans \subseteq [privileged : BOOLEAN, quota_writes : BOOLEAN,
                      pinned : BOOLEAN, allow_ambient : BOOLEAN,
                      allow_admin : BOOLEAN]
  /\ MaxFailures \in Nat /\ MaxCrashes \in Nat

VARIABLES
  served,              \* the cluster serves the policy API
  holder,              \* per object: the run that applied it last, or Nobody
  denied,              \* the namespaces of the pods the shell guard names
  level,               \* per namespace: its pod-security level
  marker,              \* per namespace: who set the psa-managed marker
  rogue,               \* namespaces with a pod the pod policy would deny
  pc, plan,
  todo,                \* namespaces left to label, or to unlabel
  pods,                \* what the scan for non-conformant pods returned
  credential,          \* what the rendered kubeconfig authenticates with
  unenforced,          \* the hatch let the run go on without enforcement
  clean,               \* teardown's `clean'
  before, alone,
  failures, crashes

Ordinary == Namespaces \ Exempt

cluster == <<served, holder, denied, level, marker>>
own     == <<plan, todo, pods, credential, unenforced, clean>>
ghosts  == <<before, alone>>
bounds  == <<failures, crashes>>
vars    == <<cluster, rogue, pc, own, ghosts, bounds>>

(***************************************************************************)
(* What the manifests define, by kind.  The quota role is always there;    *)
(* unbound it grants nothing.  The namespace carries the ServiceAccount.   *)
(***************************************************************************)
NamespaceGuards == {"guards", "guard bindings"}
PodPolicy      == {"pod policy", "pod policy binding"}
ShellGuard     == {"shell guard", "shell guard binding"}
Rbac           == {"bench-system", "roles", "role bindings"}
Quota          == {"quota binding"}

Objects == NamespaceGuards \cup PodPolicy \cup ShellGuard \cup Rbac \cup Quota

PolicyBindings == {"guard bindings", "pod policy binding", "shell guard binding"}
Policies       == {"guards", "pod policy", "shell guard"}
RoleBindings   == {"role bindings", "quota binding"}

Present == {o \in Objects : holder[o] # Nobody}

Provisioning == {"pin", "preflight", "api", "list", "guards", "policy", "scan",
                 "shell", "label", "identity", "quota", "token", "render"}
TearingDown  == {"policy bindings", "policies", "marked", "unlabel",
                 "role bindings", "roles", "namespace"}
Ended        == {"refused", "done", "dead"}
Pcs          == Provisioning \cup TearingDown \cup Ended \cup {"idle", "agent"}
Active(r)    == pc[r] \in Provisioning \cup TearingDown \cup {"agent"}

TypeOK ==
  /\ served \in BOOLEAN
  /\ holder \in [Objects -> Runs \cup {Nobody}]
  /\ denied \in SUBSET Namespaces
  /\ level \in [Ordinary -> {"none", "ours", "foreign"}]
  /\ marker \in [Ordinary -> Runs \cup {Nobody}]
  /\ rogue \in SUBSET Namespaces
  /\ pc \in [Runs -> Pcs]
  /\ plan \in [Runs -> Plans \cup {Nobody}]
  /\ todo \in [Runs -> SUBSET Ordinary]
  /\ pods \in [Runs -> SUBSET Namespaces]
  /\ credential \in [Runs -> {"none", "token", "admin", "refused"}]
  /\ unenforced \in [Runs -> BOOLEAN]
  /\ clean \in [Runs -> BOOLEAN]
  /\ before \in [Runs -> SUBSET Runs]
  /\ alone \in [Runs -> BOOLEAN]
  /\ failures \in 0 .. MaxFailures
  /\ crashes \in 0 .. MaxCrashes

Init ==
  /\ served \in BOOLEAN
  /\ holder = [o \in Objects |-> Nobody]
  /\ denied = {}
  /\ level \in [Ordinary -> {"none", "foreign"}]
  /\ marker = [n \in Ordinary |-> Nobody]
  /\ rogue = Exempt      \* the cluster's own components run such pods
  /\ pc = [r \in Runs |-> "idle"]
  /\ plan = [r \in Runs |-> Nobody]
  /\ todo = [r \in Runs |-> {}]
  /\ pods = [r \in Runs |-> {}]
  /\ credential = [r \in Runs |-> "none"]
  /\ unenforced = [r \in Runs |-> FALSE]
  /\ clean = [r \in Runs |-> TRUE]
  /\ before = [r \in Runs |-> {}]
  /\ alone = [r \in Runs |-> TRUE]
  /\ failures = 0
  /\ crashes = 0

-----------------------------------------------------------------------------
(* kubectl.  A call is pinned to the run's context and bounded by a         *)
(* timeout; a non-zero exit or the timeout raises SubprocessError.          *)

Goto(r, here, next) == pc[r] = here /\ pc' = [pc EXCEPT ![r] = next]

\* kubectl apply: the objects of a manifest, created or updated.
Applies(r, objects) ==
  holder' = [o \in Objects |-> IF o \in objects THEN r ELSE holder[o]]

\* kubectl delete --ignore-not-found.
Deletes(objects) ==
  holder' = [o \in Objects |-> IF o \in objects THEN Nobody ELSE holder[o]]

\* A failing apply or delete has gone through some of its objects.
PartlyApplies(r, objects) == \E some \in SUBSET objects : Applies(r, some)
PartlyDeletes(objects)    == \E some \in SUBSET objects : Deletes(some)

\* kubectl label --overwrite, and kubectl label key-.
Labels(r, n) ==
  /\ level' = [level EXCEPT ![n] = "ours"]
  /\ marker' = [marker EXCEPT ![n] = r]

Unlabels(n) ==
  /\ level' = [level EXCEPT ![n] = "none"]
  /\ marker' = [marker EXCEPT ![n] = Nobody]

\* kubectl create token: for a ServiceAccount that is there.
AccountExists == holder["bench-system"] # Nobody

CallFails == failures < MaxFailures /\ failures' = failures + 1
NoFailure == UNCHANGED failures

-----------------------------------------------------------------------------
(* provision_agent_credentials: checks that write nothing. *)

Start(r) ==
  /\ Goto(r, "idle", "pin")
  /\ plan' \in {[plan EXCEPT ![r] = p] : p \in Plans}
  /\ before' = [before EXCEPT ![r] = {s \in Runs : pc[s] \in Ended}]
  /\ alone' = [s \in Runs |-> IF s = r THEN \A q \in Runs : ~Active(q)
                              ELSE alone[s] /\ ~Active(s)]
  /\ UNCHANGED <<cluster, rogue, todo, pods, credential, unenforced, clean, bounds>>

Refuse(r) == credential' = [credential EXCEPT ![r] = "refused"]

\* The plan's context, or the ambient one by the hatch; the ambient context
\* may be unset.
PinPlanContext(r) ==
  /\ \/ /\ Goto(r, "pin", "preflight")
        /\ plan[r].pinned \/ plan[r].allow_ambient
        /\ UNCHANGED credential
     \/ /\ Goto(r, "pin", "refused")
        /\ ~plan[r].pinned
        /\ Refuse(r)
  /\ UNCHANGED <<cluster, rogue, plan, todo, pods, unenforced, clean, ghosts, bounds>>

\* The context embeds its CA and names its server, or the run is refused.
PreflightRenderInputs(r) ==
  /\ \/ Goto(r, "preflight", "api") /\ UNCHANGED credential
     \/ Goto(r, "preflight", "refused") /\ Refuse(r)
  /\ UNCHANGED <<cluster, rogue, plan, todo, pods, unenforced, clean, ghosts, bounds>>

-----------------------------------------------------------------------------
(* _provision: enforcement, then the identity.  An exception past the       *)
(* preflight tears down what the run may have written and is raised.        *)

Undo(r, here) == Goto(r, here, "policy bindings") /\ Refuse(r) /\ UNCHANGED unenforced

\* SubprocessError of enforce_pod_security; any other exception has no hatch.
EnforcementRaises(r, here) ==
  \/ /\ Goto(r, here, "identity")
     /\ plan[r].allow_admin
     /\ unenforced' = [unenforced EXCEPT ![r] = TRUE]
     /\ UNCHANGED credential
  \/ Undo(r, here)

EnforcementFails(r, here) == CallFails /\ EnforcementRaises(r, here)

\* A cluster too old for the policy is refused, hatch or not.
RequirePolicyApi(r) ==
  /\ \/ /\ served /\ NoFailure
        /\ Goto(r, "api", "list")
        /\ UNCHANGED <<credential, unenforced>>
     \/ ~served /\ NoFailure /\ Undo(r, "api")
     \/ EnforcementFails(r, "api")
  /\ UNCHANGED <<cluster, rogue, plan, todo, pods, clean, ghosts, crashes>>

\* Namespaces the cluster does not own and nobody has given a level.
LabellableNamespacesFault == Ordinary
NoExemptionFault == Exempt \cup {n \in Ordinary : level[n] = "none"}
LabellableNamespaces == {n \in Ordinary : level[n] = "none"}

\* Listed once; what is listed here is acted on several calls later.
ListNamespaces(r) ==
  /\ \/ /\ NoFailure
        /\ Goto(r, "list", "guards")
        /\ todo' = [todo EXCEPT ![r] = LabellableNamespaces]
        /\ UNCHANGED <<credential, unenforced>>
     \/ EnforcementFails(r, "list") /\ UNCHANGED todo
  /\ UNCHANGED <<cluster, rogue, plan, pods, clean, ghosts, crashes>>

ApplyGuards(r) ==
  /\ \/ /\ NoFailure
        /\ Applies(r, NamespaceGuards)
        /\ Goto(r, "guards", IF plan[r].privileged THEN "shell" ELSE "policy")
        /\ UNCHANGED <<credential, unenforced>>
     \/ /\ EnforcementFails(r, "guards")
        /\ PartlyApplies(r, NamespaceGuards)
  /\ UNCHANGED <<served, denied, level, marker, rogue, plan, todo, pods, clean,
                 ghosts, crashes>>

ApplyPodPolicy(r) ==
  /\ \/ /\ NoFailure
        /\ Applies(r, PodPolicy)
        /\ Goto(r, "policy", "scan")
        /\ UNCHANGED <<credential, unenforced>>
     \/ EnforcementFails(r, "policy") /\ PartlyApplies(r, PodPolicy)
  /\ UNCHANGED <<served, denied, level, marker, rogue, plan, todo, pods, clean,
                 ghosts, crashes>>

\* The pods admission can no longer deny: they are there already.
NonconformantPodsFault == {n \in rogue \cap Ordinary : level[n] = "none"}
NonconformantPods == rogue \cap Ordinary

ScanPods(r) ==
  /\ \/ /\ NoFailure
        /\ Goto(r, "scan", "shell")
        /\ pods' = [pods EXCEPT ![r] = NonconformantPods]
        /\ UNCHANGED <<credential, unenforced>>
     \/ EnforcementFails(r, "scan") /\ UNCHANGED pods
  /\ UNCHANGED <<cluster, rogue, plan, todo, clean, ghosts, crashes>>

\* Applied even when it names no pod: the last run's list must not stay.
ApplyShellGuard(r) ==
  /\ \/ /\ NoFailure
        /\ Applies(r, ShellGuard)
        /\ denied' = pods[r]
        /\ Goto(r, "shell", IF plan[r].privileged THEN "identity" ELSE "label")
        /\ UNCHANGED <<credential, unenforced>>
     \/ /\ EnforcementFails(r, "shell")
        /\ \E some \in SUBSET ShellGuard :
             /\ Applies(r, some)
             /\ denied' = IF "shell guard" \in some THEN pods[r] ELSE denied
  /\ UNCHANGED <<served, level, marker, rogue, plan, todo, pods, clean, ghosts,
                 crashes>>

\* One namespace after the other; a failing label is warned about.
LabelNamespace(r) ==
  /\ pc[r] = "label"
  /\ \/ /\ todo[r] = {}
        /\ Goto(r, "label", "identity")
        /\ UNCHANGED <<todo, level, marker, failures>>
     \/ \E n \in todo[r] :
          /\ todo' = [todo EXCEPT ![r] = @ \ {n}]
          /\ \/ NoFailure /\ Labels(r, n)
             \/ CallFails /\ (Labels(r, n) \/ UNCHANGED <<level, marker>>)
          /\ UNCHANGED pc
  /\ UNCHANGED <<served, holder, denied, rogue, plan, pods, credential,
                 unenforced, clean, ghosts, crashes>>

\* SubprocessError of the identity or the token: the operator's certificate by
\* the hatch, if the context carries one.
IdentityRaises(r, here) ==
  \/ /\ Goto(r, here, "render")
     /\ plan[r].allow_admin
     /\ credential' = [credential EXCEPT ![r] = "admin"]
     /\ UNCHANGED unenforced
  \/ Undo(r, here)

IdentityFails(r, here) == CallFails /\ IdentityRaises(r, here)

EnsureAgentIdentity(r) ==
  /\ \/ /\ NoFailure
        /\ Applies(r, Rbac)
        /\ Goto(r, "identity", "quota")
        /\ UNCHANGED <<credential, unenforced>>
     \/ IdentityFails(r, "identity") /\ PartlyApplies(r, Rbac)
  /\ UNCHANGED <<served, denied, level, marker, rogue, plan, todo, pods, clean,
                 ghosts, crashes>>

\* The binding is applied or deleted on every call.
QuotaSwitchFault(r) == IF plan[r].quota_writes THEN Applies(r, Quota) ELSE UNCHANGED holder
QuotaSwitch(r) == IF plan[r].quota_writes THEN Applies(r, Quota) ELSE Deletes(Quota)

SwitchQuotaWrites(r) ==
  /\ \/ /\ NoFailure
        /\ Goto(r, "quota", "token")
        /\ QuotaSwitch(r)
        /\ UNCHANGED <<credential, unenforced>>
     \/ IdentityFails(r, "quota") /\ (QuotaSwitch(r) \/ UNCHANGED holder)
  /\ UNCHANGED <<served, denied, level, marker, rogue, plan, todo, pods, clean,
                 ghosts, crashes>>

MintAgentToken(r) ==
  /\ \/ /\ AccountExists /\ NoFailure
        /\ Goto(r, "token", "render")
        /\ credential' = [credential EXCEPT ![r] = "token"]
        /\ UNCHANGED unenforced
     \/ ~AccountExists /\ NoFailure /\ IdentityRaises(r, "token")
     \/ IdentityFails(r, "token")
  /\ UNCHANGED <<cluster, rogue, plan, todo, pods, clean, ghosts, crashes>>

\* The CA and the server are read again, the cloud credential is minted
\* (_prepare_sandbox_spec); a failure here tears down as well.
RenderKubeconfig(r) ==
  /\ \/ NoFailure /\ Goto(r, "render", "agent") /\ UNCHANGED <<credential, unenforced>>
     \/ CallFails /\ Undo(r, "render")
  /\ UNCHANGED <<cluster, rogue, plan, todo, pods, clean, ghosts, crashes>>

-----------------------------------------------------------------------------
(* teardown_agent_credentials: on a cluster that outlives the run, in       *)
(* _run_one's `finally', and after a failed provisioning.  It never raises: *)
(* a failed call clears `clean' and the next call is made.                  *)

AgentEnds(r) ==
  /\ Goto(r, "agent", "policy bindings")
  /\ pods' = [pods EXCEPT ![r] = {}]
  /\ UNCHANGED <<cluster, rogue, plan, todo, credential, unenforced, clean, ghosts,
                 bounds>>

FailedCallFault(r) == CallFails /\ UNCHANGED clean
FailedCall(r) == CallFails /\ clean' = [clean EXCEPT ![r] = FALSE]

\* A kind the cluster does not serve has no objects to remove.
DeleteStep(r, here, next, objects) ==
  /\ Goto(r, here, next)
  /\ \/ NoFailure /\ Deletes(objects) /\ UNCHANGED clean
     \/ FailedCall(r) /\ PartlyDeletes(objects)
  /\ UNCHANGED <<served, denied, level, marker, rogue, plan, todo, pods,
                 credential, unenforced, ghosts, crashes>>

DeletePolicyBindings(r) == DeleteStep(r, "policy bindings", "policies", PolicyBindings)
DeletePolicies(r)       == DeleteStep(r, "policies", "marked", Policies)
DeleteRoleBindings(r)   == DeleteStep(r, "role bindings", "roles", RoleBindings)
DeleteRoles(r)          == DeleteStep(r, "roles", "namespace", {"roles"})
DeleteNamespace(r)      == DeleteStep(r, "namespace", "done", {"bench-system"})

\* Selected by the marker, so a crashed run's labels are found too.
ListMarkedNamespaces(r) ==
  /\ \/ /\ NoFailure
        /\ Goto(r, "marked", "unlabel")
        /\ todo' = [todo EXCEPT ![r] = {n \in Ordinary : marker[n] # Nobody}]
        /\ UNCHANGED clean
     \/ FailedCall(r) /\ Goto(r, "marked", "role bindings") /\ UNCHANGED todo
  /\ UNCHANGED <<cluster, rogue, plan, pods, credential, unenforced, ghosts, crashes>>

UnlabelNamespace(r) ==
  /\ pc[r] = "unlabel"
  /\ \/ /\ todo[r] = {}
        /\ Goto(r, "unlabel", "role bindings")
        /\ UNCHANGED <<todo, level, marker, clean, failures>>
     \/ \E n \in todo[r] :
          /\ todo' = [todo EXCEPT ![r] = @ \ {n}]
          /\ \/ NoFailure /\ Unlabels(n) /\ UNCHANGED clean
             \/ FailedCall(r) /\ (Unlabels(n) \/ UNCHANGED <<level, marker>>)
          /\ UNCHANGED pc
  /\ UNCHANGED <<served, holder, denied, rogue, plan, pods, credential,
                 unenforced, ghosts, crashes>>

-----------------------------------------------------------------------------
(* The rest of the world. *)

Crash(r) ==
  /\ Active(r) /\ crashes < MaxCrashes
  /\ pc' = [pc EXCEPT ![r] = "dead"]
  /\ crashes' = crashes + 1
  /\ todo' = [todo EXCEPT ![r] = {}]
  /\ pods' = [pods EXCEPT ![r] = {}]
  /\ UNCHANGED <<cluster, rogue, plan, credential, unenforced, clean, ghosts,
                 failures>>

PolicyInForce == PodPolicy \subseteq Present

\* A workload wants a pod the policy denies; it is denied once policy and binding
\* are there, and by a baseline level.
CreatePod(n) ==
  /\ n \notin rogue
  /\ ~PolicyInForce /\ level[n] # "ours"
  /\ rogue' = rogue \cup {n}
  /\ UNCHANGED <<cluster, pc, own, ghosts, bounds>>

\* Somebody else gives a namespace a level of its own, at any time, also in place
\* of one that a run has set; the marker stays.
SetLevel(n) ==
  /\ level[n] # "foreign"
  /\ level' = [level EXCEPT ![n] = "foreign"]
  /\ UNCHANGED <<served, holder, denied, marker, rogue, pc, own, ghosts, bounds>>

Provision(r) ==
  \/ PinPlanContext(r) \/ PreflightRenderInputs(r) \/ RequirePolicyApi(r)
  \/ ListNamespaces(r) \/ ApplyGuards(r) \/ ApplyPodPolicy(r) \/ ScanPods(r)
  \/ ApplyShellGuard(r) \/ LabelNamespace(r) \/ EnsureAgentIdentity(r)
  \/ SwitchQuotaWrites(r) \/ MintAgentToken(r) \/ RenderKubeconfig(r)

Teardown(r) ==
  \/ DeletePolicyBindings(r) \/ DeletePolicies(r) \/ ListMarkedNamespaces(r)
  \/ UnlabelNamespace(r) \/ DeleteRoleBindings(r) \/ DeleteRoles(r)
  \/ DeleteNamespace(r)

Next ==
  \/ \E r \in Runs : Start(r) \/ Provision(r) \/ AgentEnds(r) \/ Teardown(r) \/ Crash(r)
  \/ \E n \in Ordinary : CreatePod(n) \/ SetLevel(n)

Spec == Init /\ [][Next]_vars

-----------------------------------------------------------------------------
(* Properties. *)

\* What teardown_agent_credentials returns is true of the cluster: when it says
\* that a run left nothing, no object and no label is there that this run, or a
\* run that had ended or crashed before it started, wrote last.
CleanMeansRemoved ==
  \A r \in Runs : pc[r] = "done" /\ clean[r] =>
    /\ \A o \in Objects : holder[o] \notin {r} \cup before[r]
    /\ \A n \in Ordinary : marker[n] \notin {r} \cup before[r]

Scoped(r) == pc[r] = "agent" /\ credential[r] = "token" /\ alone[r]

\* An agent with the scoped credential, on a cluster its run has to itself, has
\* the guards over it; unless its task is privileged or the operator waived
\* enforcement, no pod that violates the policy is open to it: it could not be
\* created after the policy was applied, and was found by the scan if it was there.
EnforcedWhileAgentRuns ==
  \A r \in Runs : Scoped(r) /\ ~unenforced[r] =>
    /\ NamespaceGuards \cup ShellGuard \cup Rbac \subseteq Present
    /\ ~plan[r].privileged => PolicyInForce /\ rogue \cap Ordinary \subseteq denied
    /\ plan[r].privileged => denied = {}

\* The quota role is bound while the agent runs exactly when its task asks for
\* it, whatever an earlier run on the same cluster left bound.
QuotaFollowsTask ==
  \A r \in Runs : Scoped(r) => ("quota binding" \in Present <=> plan[r].quota_writes)

\* A run has n on the list it labels from, or on the one it unlabels from.
AboutToWrite(r, n) ==
  /\ n \in todo[r]
  /\ \/ pc[r] \in {"guards", "policy", "scan", "shell", "label"} /\ ~plan[r].privileged
     \/ pc[r] = "unlabel"

\* Somebody else's level, on a namespace that no run has marked or is about to write.
Settled(n) ==
  /\ level[n] = "foreign" /\ marker[n] = Nobody
  /\ \A r \in Runs : ~AboutToWrite(r, n)

\* Such a level is safe for good: no later run lists it, whatever crashed or failed
\* before, no teardown finds it, and no leftover list reaches it.  Of a level set
\* while a run has listed the namespace, or under its marker, see
\* ForeignLevelsSurvive.
SettledLevelsSurvive ==
  [][\A n \in Ordinary : Settled(n) => Settled(n)']_vars

-----------------------------------------------------------------------------
(* What a comment says and the code does not do. *)

\* The teardown "never touches a level someone else set" (_PSA_MANAGED_LABEL),
\* nor does a provisioning: "Namespaces already declaring any pod-security level
\* are left alone" (enforce_pod_security).
ForeignLevelsSurvive ==
  [][\A n \in Ordinary : level[n] = "foreign" => level'[n] = "foreign"]_vars

=============================================================================
