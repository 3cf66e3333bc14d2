----------------------- MODULE AgentCredentialsProofs -----------------------
(***************************************************************************)
(* Proofs about AgentCredentials, for any number of runs, namespaces,      *)
(* failing calls and crashes.                                              *)
(***************************************************************************)
EXTENDS AgentCredentials, TLAPS

\* The runs whose writes r answers for write no more.
PastRunsAreOver ==
  /\ \A r \in Runs : \A s \in before[r] : pc[s] \in Ended
  /\ \A r \in Runs : pc[r] = "idle" => before[r] = {}

\* What a teardown has removed by each of its steps, as long as no call failed.
AfterRoles         == {"namespace", "done"}
AfterRoleBindings  == {"roles", "namespace", "done"}
AfterUnlabel       == {"role bindings", "roles", "namespace", "done"}
AfterPolicies      == {"marked", "unlabel"} \cup AfterUnlabel
AfterBindings      == {"policies"} \cup AfterPolicies

Gone(r, objects) == \A o \in objects : holder[o] \notin {r} \cup before[r]

RemovedSoFar ==
  \A r \in Runs : clean[r] =>
    /\ pc[r] \in AfterBindings => Gone(r, PolicyBindings)
    /\ pc[r] \in AfterPolicies => Gone(r, Policies)
    /\ pc[r] = "unlabel" =>
         \A n \in Ordinary : marker[n] \in {r} \cup before[r] => n \in todo[r]
    /\ pc[r] \in AfterUnlabel =>
         \A n \in Ordinary : marker[n] \notin {r} \cup before[r]
    /\ pc[r] \in AfterRoleBindings => Gone(r, RoleBindings)
    /\ pc[r] \in AfterRoles => Gone(r, {"roles"})
    /\ pc[r] = "done" => Gone(r, {"bench-system"})

-----------------------------------------------------------------------------
\* The type invariant in parts: the cluster, the objects on it, what a run keeps,
\* where it is, and the two bounds.
ClusterOK ==
  /\ served \in BOOLEAN
  /\ denied \in SUBSET Namespaces
  /\ level \in [Ordinary -> {"none", "ours", "foreign"}]
  /\ marker \in [Ordinary -> Runs \cup {Nobody}]
  /\ rogue \in SUBSET Namespaces

HolderOK == holder \in [Objects -> Runs \cup {Nobody}]

RunOK ==
  /\ plan \in [Runs -> Plans \cup {Nobody}]
  /\ todo \in [Runs -> SUBSET Ordinary]
  /\ pods \in [Runs -> SUBSET Namespaces]
  /\ credential \in [Runs -> {"none", "token", "admin", "refused"}]
  /\ unenforced \in [Runs -> BOOLEAN]
  /\ clean \in [Runs -> BOOLEAN]
  /\ before \in [Runs -> SUBSET Runs]
  /\ alone \in [Runs -> BOOLEAN]

PcOK == pc \in [Runs -> Pcs]

BoundsOK == failures \in 0 .. MaxFailures /\ crashes \in 0 .. MaxCrashes

\* Every object has a holder or none: it is applied by a run or deleted.
LEMMA HolderStep == HolderOK /\ [Next]_vars => HolderOK'
<1> SUFFICES ASSUME HolderOK, [Next]_vars PROVE HolderOK'
  OBVIOUS
<1>0. /\ \A r \in Runs : \A os : Applies(r, os) => HolderOK'
      /\ \A os : Deletes(os) => HolderOK'
      /\ UNCHANGED holder => HolderOK'
  BY DEF HolderOK, Applies, Deletes
<1>1. ASSUME NEW r \in Runs, Start(r) \/ AgentEnds(r) \/ Crash(r) PROVE HolderOK'
  BY <1>1, <1>0 DEF Start, AgentEnds, Crash, cluster
<1>2. ASSUME NEW r \in Runs, Provision(r) PROVE HolderOK'
  <2>1. \/ \E os : Applies(r, os)
        \/ \E os : Deletes(os)
        \/ UNCHANGED holder
    BY <1>2
       DEF Provision, PinPlanContext, PreflightRenderInputs, RequirePolicyApi,
           ListNamespaces, ApplyGuards, ApplyPodPolicy, ScanPods, ApplyShellGuard,
           LabelNamespace, EnsureAgentIdentity, SwitchQuotaWrites, MintAgentToken,
           RenderKubeconfig, PartlyApplies, QuotaSwitch, cluster
  <2> QED BY <1>0, <2>1
<1>3. ASSUME NEW r \in Runs, Teardown(r) PROVE HolderOK'
  <2>1. (\E os : Deletes(os)) \/ UNCHANGED holder
    BY <1>3
       DEF Teardown, DeletePolicyBindings, DeletePolicies, ListMarkedNamespaces,
           UnlabelNamespace, DeleteRoleBindings, DeleteRoles, DeleteNamespace,
           DeleteStep, PartlyDeletes, cluster
  <2> QED BY <1>0, <2>1
<1>4. ASSUME NEW n \in Ordinary, CreatePod(n) \/ SetLevel(n) PROVE HolderOK'
  BY <1>4, <1>0 DEF CreatePod, SetLevel, cluster
<1>5. CASE UNCHANGED vars BY <1>5, <1>0 DEF vars, cluster
<1> QED BY <1>1, <1>2, <1>3, <1>4, <1>5 DEF Next

\* The rest of the cluster: levels and markers are set and removed, the shell
\* guard names what a scan returned, pods only appear.
LEMMA ClusterStep == ClusterOK /\ RunOK /\ [Next]_vars => ClusterOK'
<1> SUFFICES ASSUME ClusterOK, RunOK, [Next]_vars PROVE ClusterOK'
  OBVIOUS
<1> USE DEF ClusterOK, RunOK, cluster
<1>1. ASSUME NEW r \in Runs, Start(r) \/ AgentEnds(r) \/ Crash(r) PROVE ClusterOK'
  BY <1>1 DEF Start, AgentEnds, Crash
<1>2. ASSUME NEW r \in Runs, Provision(r) PROVE ClusterOK'
  <2>1. CASE PinPlanContext(r) \/ PreflightRenderInputs(r) \/ RequirePolicyApi(r)
    BY <2>1 DEF PinPlanContext, PreflightRenderInputs, RequirePolicyApi
  <2>2. CASE ListNamespaces(r) \/ ApplyGuards(r) \/ ApplyPodPolicy(r) \/ ScanPods(r)
    BY <2>2 DEF ListNamespaces, ApplyGuards, ApplyPodPolicy, ScanPods
  <2>3. CASE ApplyShellGuard(r) BY <2>3 DEF ApplyShellGuard
  <2>4. CASE LabelNamespace(r) BY <2>4 DEF LabelNamespace, Labels
  <2>5. CASE EnsureAgentIdentity(r) \/ SwitchQuotaWrites(r) \/ MintAgentToken(r)
             \/ RenderKubeconfig(r)
    BY <2>5 DEF EnsureAgentIdentity, SwitchQuotaWrites, MintAgentToken, RenderKubeconfig
  <2> QED BY <1>2, <2>1, <2>2, <2>3, <2>4, <2>5 DEF Provision
<1>3. ASSUME NEW r \in Runs, Teardown(r) PROVE ClusterOK'
  BY <1>3
     DEF Teardown, DeletePolicyBindings, DeletePolicies, ListMarkedNamespaces,
         UnlabelNamespace, DeleteRoleBindings, DeleteRoles, DeleteNamespace,
         DeleteStep, Unlabels
<1>4. ASSUME NEW n \in Ordinary, CreatePod(n) \/ SetLevel(n) PROVE ClusterOK'
  BY <1>4 DEF CreatePod, SetLevel, Ordinary
<1>5. CASE UNCHANGED vars BY <1>5 DEF vars
<1> QED BY <1>1, <1>2, <1>3, <1>4, <1>5 DEF Next

\* What a run keeps for itself.
LEMMA RunStep == RunOK /\ ClusterOK /\ [Next]_vars => RunOK'
<1> SUFFICES ASSUME RunOK, ClusterOK, [Next]_vars PROVE RunOK'
  OBVIOUS
<1> USE DEF RunOK, own, ghosts, Undo, Refuse
<1>1. ASSUME NEW r \in Runs, Start(r) PROVE RunOK'
  BY <1>1 DEF Start
<1>2. ASSUME NEW r \in Runs, Provision(r) PROVE RunOK'
  <2> USE DEF EnforcementFails, EnforcementRaises, IdentityFails, IdentityRaises
  <2>1. CASE PinPlanContext(r) \/ PreflightRenderInputs(r)
    BY <2>1 DEF PinPlanContext, PreflightRenderInputs
  <2>2. CASE RequirePolicyApi(r) BY <2>2 DEF RequirePolicyApi
  <2>3. CASE ListNamespaces(r)
    <3>1. todo' \in [Runs -> SUBSET Ordinary]
      BY <2>3 DEF ListNamespaces, LabellableNamespaces
    <3>2. credential' \in [Runs -> {"none", "token", "admin", "refused"}]
      BY <2>3 DEF ListNamespaces
    <3>3. unenforced' \in [Runs -> BOOLEAN]
      BY <2>3 DEF ListNamespaces
    <3> QED BY <2>3, <3>1, <3>2, <3>3 DEF ListNamespaces
  <2>4. CASE ApplyGuards(r) BY <2>4 DEF ApplyGuards
  <2>5. CASE ApplyPodPolicy(r) BY <2>5 DEF ApplyPodPolicy
  <2>6. CASE ScanPods(r)
    <3>1. pods' \in [Runs -> SUBSET Namespaces]
      BY <2>6 DEF ScanPods, NonconformantPods, ClusterOK
    <3>2. credential' \in [Runs -> {"none", "token", "admin", "refused"}]
      BY <2>6 DEF ScanPods
    <3>3. unenforced' \in [Runs -> BOOLEAN]
      BY <2>6 DEF ScanPods
    <3> QED BY <2>6, <3>1, <3>2, <3>3 DEF ScanPods
  <2>7. CASE ApplyShellGuard(r) BY <2>7 DEF ApplyShellGuard
  <2>8. CASE LabelNamespace(r) BY <2>8 DEF LabelNamespace
  <2>9. CASE EnsureAgentIdentity(r) \/ SwitchQuotaWrites(r)
    BY <2>9 DEF EnsureAgentIdentity, SwitchQuotaWrites
  <2>10. CASE MintAgentToken(r) BY <2>10 DEF MintAgentToken
  <2>11. CASE RenderKubeconfig(r) BY <2>11 DEF RenderKubeconfig
  <2> QED BY <1>2, <2>1, <2>2, <2>3, <2>4, <2>5, <2>6, <2>7, <2>8, <2>9, <2>10, <2>11
          DEF Provision
<1>3. ASSUME NEW r \in Runs, AgentEnds(r) \/ Crash(r) PROVE RunOK'
  BY <1>3 DEF AgentEnds, Crash
<1>4. ASSUME NEW r \in Runs, Teardown(r) PROVE RunOK'
  <2>1. todo' \in [Runs -> SUBSET Ordinary]
    <3>1. CASE ListMarkedNamespaces(r) BY <3>1 DEF ListMarkedNamespaces
    <3>2. CASE UnlabelNamespace(r) BY <3>2 DEF UnlabelNamespace
    <3>3. CASE ~ListMarkedNamespaces(r) /\ ~UnlabelNamespace(r)
      BY <1>4, <3>3
         DEF Teardown, DeletePolicyBindings, DeletePolicies, DeleteRoleBindings,
             DeleteRoles, DeleteNamespace, DeleteStep
    <3> QED BY <3>1, <3>2, <3>3
  <2>2. clean' \in [Runs -> BOOLEAN]
    BY <1>4
       DEF Teardown, DeletePolicyBindings, DeletePolicies, ListMarkedNamespaces,
           UnlabelNamespace, DeleteRoleBindings, DeleteRoles, DeleteNamespace,
           DeleteStep, FailedCall
  <2>3. UNCHANGED <<plan, pods, credential, unenforced, before, alone>>
    BY <1>4
       DEF Teardown, DeletePolicyBindings, DeletePolicies, ListMarkedNamespaces,
           UnlabelNamespace, DeleteRoleBindings, DeleteRoles, DeleteNamespace, DeleteStep
  <2> QED BY <2>1, <2>2, <2>3
<1>5. ASSUME NEW n \in Ordinary, CreatePod(n) \/ SetLevel(n) PROVE RunOK'
  BY <1>5 DEF CreatePod, SetLevel
<1>6. CASE UNCHANGED vars BY <1>6 DEF vars
<1> QED BY <1>1, <1>2, <1>3, <1>4, <1>5, <1>6 DEF Next

\* Every step leaves each run at a place there is.
LEMMA PcStep == PcOK /\ [Next]_vars => PcOK'
<1> SUFFICES ASSUME PcOK, [Next]_vars PROVE PcOK'
  OBVIOUS
<1> DEFINE Moves(r) == \/ UNCHANGED pc
                       \/ \E next \in Pcs : pc' = [pc EXCEPT ![r] = next]
<1> USE DEF Goto, Undo, EnforcementRaises, EnforcementFails, IdentityRaises,
            IdentityFails, Pcs, Provisioning, TearingDown, Ended
<1>1. ASSUME NEW r \in Runs, Start(r) \/ AgentEnds(r) \/ Crash(r) PROVE Moves(r)
  BY <1>1 DEF Start, AgentEnds, Crash
<1>2. ASSUME NEW r \in Runs, Provision(r) PROVE Moves(r)
  BY <1>2
     DEF Provision, PinPlanContext, PreflightRenderInputs, RequirePolicyApi,
         ListNamespaces, ApplyGuards, ApplyPodPolicy, ScanPods, ApplyShellGuard,
         LabelNamespace, EnsureAgentIdentity, SwitchQuotaWrites, MintAgentToken,
         RenderKubeconfig
<1>3. ASSUME NEW r \in Runs, Teardown(r) PROVE Moves(r)
  BY <1>3
     DEF Teardown, DeletePolicyBindings, DeletePolicies, ListMarkedNamespaces,
         UnlabelNamespace, DeleteRoleBindings, DeleteRoles, DeleteNamespace, DeleteStep
<1>4. ASSUME NEW n \in Ordinary, CreatePod(n) \/ SetLevel(n) PROVE UNCHANGED pc
  BY <1>4 DEF CreatePod, SetLevel
<1>5. CASE UNCHANGED vars BY <1>5 DEF vars, PcOK
<1>6. ASSUME NEW r \in Runs, Moves(r) PROVE PcOK'
  <2> HIDE DEF Pcs
  <2> QED BY <1>6 DEF PcOK
<1> HIDE DEF Moves
<1> QED BY <1>1, <1>2, <1>3, <1>4, <1>5, <1>6 DEF Next, PcOK, Moves

\* The bounds are counted where a call fails or a run is killed.
LEMMA BoundsStep == BoundsOK /\ [Next]_vars => BoundsOK'
<1> SUFFICES ASSUME BoundsOK, [Next]_vars PROVE BoundsOK'
  OBVIOUS
<1> USE CredentialsAssumption DEF BoundsOK, bounds
<1>0. ASSUME CallFails \/ NoFailure \/ UNCHANGED failures, UNCHANGED crashes
      PROVE  BoundsOK'
  BY <1>0 DEF CallFails, NoFailure
<1>1. ASSUME NEW r \in Runs, Start(r) \/ AgentEnds(r) PROVE BoundsOK'
  BY <1>1 DEF Start, AgentEnds
<1>2. ASSUME NEW r \in Runs, Provision(r) PROVE BoundsOK'
  <2>1. CallFails \/ NoFailure \/ UNCHANGED failures
    BY <1>2, ZenonT(60)
       DEF Provision, PinPlanContext, PreflightRenderInputs, RequirePolicyApi,
           ListNamespaces, ApplyGuards, ApplyPodPolicy, ScanPods, ApplyShellGuard,
           LabelNamespace, EnsureAgentIdentity, SwitchQuotaWrites, MintAgentToken,
           RenderKubeconfig, EnforcementFails, IdentityFails
  <2>2. UNCHANGED crashes
    BY <1>2
       DEF Provision, PinPlanContext, PreflightRenderInputs, RequirePolicyApi,
           ListNamespaces, ApplyGuards, ApplyPodPolicy, ScanPods, ApplyShellGuard,
           LabelNamespace, EnsureAgentIdentity, SwitchQuotaWrites, MintAgentToken,
           RenderKubeconfig
  <2> QED BY <1>0, <2>1, <2>2
<1>3. ASSUME NEW r \in Runs, Teardown(r) PROVE BoundsOK'
  <2>1. /\ CallFails \/ NoFailure \/ UNCHANGED failures
        /\ UNCHANGED crashes
    BY <1>3
       DEF Teardown, DeletePolicyBindings, DeletePolicies, ListMarkedNamespaces,
           UnlabelNamespace, DeleteRoleBindings, DeleteRoles, DeleteNamespace,
           DeleteStep, FailedCall
  <2> QED BY <1>0, <2>1
<1>4. ASSUME NEW r \in Runs, Crash(r) PROVE BoundsOK'
  BY <1>4 DEF Crash
<1>5. ASSUME NEW n \in Ordinary, CreatePod(n) \/ SetLevel(n) PROVE BoundsOK'
  BY <1>5 DEF CreatePod, SetLevel
<1>6. CASE UNCHANGED vars BY <1>6 DEF vars
<1> QED BY <1>1, <1>2, <1>3, <1>4, <1>5, <1>6 DEF Next

\* The type invariant holds of every step.
LEMMA TypeStep == TypeOK /\ [Next]_vars => TypeOK'
BY HolderStep, ClusterStep, RunStep, PcStep, BoundsStep
   DEF TypeOK, HolderOK, ClusterOK, RunOK, PcOK, BoundsOK

-----------------------------------------------------------------------------
\* A run that has not ended moves; it does not start twice and stays ended.
LEMMA MoveStep ==
  PcOK /\ [Next]_vars =>
    \/ UNCHANGED pc
    \/ \E r \in Runs : /\ pc[r] \notin Ended
                      /\ \E next \in Pcs \ {"idle"} : pc' = [pc EXCEPT ![r] = next]
<1> SUFFICES ASSUME PcOK, [Next]_vars
             PROVE  \/ UNCHANGED pc
                    \/ \E r \in Runs :
                         /\ pc[r] \notin Ended
                         /\ \E next \in Pcs \ {"idle"} : pc' = [pc EXCEPT ![r] = next]
  OBVIOUS
<1> DEFINE Moves(r) ==
      \/ UNCHANGED pc
      \/ /\ pc[r] \notin Ended
         /\ \E next \in Pcs \ {"idle"} : pc' = [pc EXCEPT ![r] = next]
<1> USE DEF Goto, Undo, EnforcementRaises, EnforcementFails, IdentityRaises,
            IdentityFails, Pcs, Provisioning, TearingDown, Ended, Active
<1>1. ASSUME NEW r \in Runs, Start(r) \/ AgentEnds(r) \/ Crash(r) PROVE Moves(r)
  BY <1>1 DEF Start, AgentEnds, Crash
<1>2. ASSUME NEW r \in Runs, Provision(r) PROVE Moves(r)
  BY <1>2
     DEF Provision, PinPlanContext, PreflightRenderInputs, RequirePolicyApi,
         ListNamespaces, ApplyGuards, ApplyPodPolicy, ScanPods, ApplyShellGuard,
         LabelNamespace, EnsureAgentIdentity, SwitchQuotaWrites, MintAgentToken,
         RenderKubeconfig
<1>3. ASSUME NEW r \in Runs, Teardown(r) PROVE Moves(r)
  BY <1>3
     DEF Teardown, DeletePolicyBindings, DeletePolicies, ListMarkedNamespaces,
         UnlabelNamespace, DeleteRoleBindings, DeleteRoles, DeleteNamespace, DeleteStep
<1>4. ASSUME NEW n \in Ordinary, CreatePod(n) \/ SetLevel(n) PROVE UNCHANGED pc
  BY <1>4 DEF CreatePod, SetLevel
<1>5. CASE UNCHANGED vars BY <1>5 DEF vars
<1> HIDE DEF Pcs, Ended
<1> QED BY <1>1, <1>2, <1>3, <1>4, <1>5 DEF Next

\* The steps of a provisioning that neither list nor label, and of a teardown that
\* neither list nor unlabel, leave levels and lists alone.
LEMMA QuietSteps ==
  \A r \in Runs :
    /\ Provision(r) /\ ~ListNamespaces(r) /\ ~LabelNamespace(r) =>
         UNCHANGED <<level, marker, todo>>
    /\ Teardown(r) /\ ~ListMarkedNamespaces(r) /\ ~UnlabelNamespace(r) =>
         UNCHANGED <<level, marker, todo>>
    /\ Start(r) => UNCHANGED <<level, marker, todo>>
    /\ AgentEnds(r) => UNCHANGED <<level, marker, todo>>
BY DEF Provision, PinPlanContext, PreflightRenderInputs, RequirePolicyApi,
       ApplyGuards, ApplyPodPolicy, ScanPods, ApplyShellGuard,
       EnsureAgentIdentity, SwitchQuotaWrites, MintAgentToken, RenderKubeconfig,
       Teardown, DeletePolicyBindings, DeletePolicies, DeleteRoleBindings,
       DeleteRoles, DeleteNamespace, DeleteStep, Start, AgentEnds, cluster

-----------------------------------------------------------------------------
\* A run that is alone is the only one that acts, until it ends or another starts.
AloneIsAlone ==
  \A r, q \in Runs : alone[r] /\ Active(r) /\ q # r => ~Active(q)

AfterScan   == {"label", "identity", "quota", "token", "render", "agent"}
AfterPolicy == {"scan", "shell"} \cup AfterScan
AfterGuards == {"policy"} \cup AfterPolicy

\* What has been set up by each place of a provisioning that nobody disturbs.
EnforcementSoFar(r) ==
  /\ pc[r] \in AfterGuards => NamespaceGuards \subseteq Present
  /\ pc[r] \in AfterPolicy /\ ~plan[r].privileged => PodPolicy \subseteq Present
  /\ pc[r] = "shell" /\ ~plan[r].privileged => rogue \cap Ordinary \subseteq pods[r]
  /\ pc[r] \in AfterScan => ShellGuard \subseteq Present
  /\ pc[r] \in AfterScan /\ ~plan[r].privileged => rogue \cap Ordinary \subseteq denied
  /\ pc[r] \in AfterScan /\ plan[r].privileged => denied = {}

IdentitySoFar(r) ==
  /\ \/ pc[r] \in {"quota", "token"}
     \/ pc[r] \in {"render", "agent"} /\ credential[r] = "token"
     => Rbac \subseteq Present
  /\ \/ pc[r] = "token"
     \/ pc[r] \in {"render", "agent"} /\ credential[r] = "token"
     => ("quota binding" \in Present <=> plan[r].quota_writes)

\* Only a run whose task is not privileged scans for pods, and labels.
BaselineScans ==
  \A r \in Runs :
    /\ pc[r] = "idle" => pods[r] = {}
    /\ pc[r] \in {"policy", "scan", "label"} => ~plan[r].privileged
    /\ pc[r] # "idle" /\ plan[r].privileged => pods[r] = {}

SetUpSoFar ==
  /\ AloneIsAlone
  /\ BaselineScans
  /\ \A r \in Runs : alone[r] /\ Active(r) => IdentitySoFar(r)
  /\ \A r \in Runs : alone[r] /\ Active(r) /\ ~unenforced[r] => EnforcementSoFar(r)

\* A run acts from its start to its end.
LEMMA ActsWhileActive ==
  \A r \in Runs : Provision(r) \/ AgentEnds(r) \/ Teardown(r) \/ Crash(r) =>
                  pc[r] \in Provisioning \cup TearingDown \cup {"agent"}
<1> SUFFICES ASSUME NEW r \in Runs,
                    Provision(r) \/ AgentEnds(r) \/ Teardown(r) \/ Crash(r)
             PROVE  pc[r] \in Provisioning \cup TearingDown \cup {"agent"}
  OBVIOUS
<1> USE DEF Goto
<1>1. CASE Provision(r)
  <2>1. CASE LabelNamespace(r) BY <2>1 DEF LabelNamespace, Provisioning
  <2>2. CASE ~LabelNamespace(r)
    BY <1>1, <2>2
       DEF Provision, PinPlanContext, PreflightRenderInputs, RequirePolicyApi,
           ListNamespaces, ApplyGuards, ApplyPodPolicy, ScanPods, ApplyShellGuard,
           EnsureAgentIdentity, SwitchQuotaWrites, MintAgentToken,
           RenderKubeconfig, EnforcementFails, EnforcementRaises, IdentityFails,
           IdentityRaises, Undo, Provisioning
  <2> QED BY <2>1, <2>2
<1>2. CASE Teardown(r)
  BY <1>2
     DEF Teardown, DeletePolicyBindings, DeletePolicies, ListMarkedNamespaces,
         UnlabelNamespace, DeleteRoleBindings, DeleteRoles, DeleteNamespace,
         DeleteStep, TearingDown
<1>3. CASE AgentEnds(r) BY <1>3 DEF AgentEnds
<1>4. CASE Crash(r) BY <1>4 DEF Crash, Active
<1> QED BY <1>1, <1>2, <1>3, <1>4

\* A run's own steps move it alone, and alter nobody else's list, and no record of
\* being alone or of who came before.
LEMMA OwnMoves ==
  \A r \in Runs : Provision(r) \/ AgentEnds(r) \/ Teardown(r) \/ Crash(r) =>
    /\ UNCHANGED <<alone, before>>
    /\ UNCHANGED pc \/ \E next : pc' = [pc EXCEPT ![r] = next]
    /\ UNCHANGED todo \/ \E list : todo' = [todo EXCEPT ![r] = list]
<1> SUFFICES ASSUME NEW r \in Runs,
                    Provision(r) \/ AgentEnds(r) \/ Teardown(r) \/ Crash(r)
             PROVE  /\ UNCHANGED <<alone, before>>
                    /\ UNCHANGED pc \/ \E next : pc' = [pc EXCEPT ![r] = next]
                    /\ UNCHANGED todo \/ \E list : todo' = [todo EXCEPT ![r] = list]
  OBVIOUS
<1> USE DEF Provision, PinPlanContext, PreflightRenderInputs, RequirePolicyApi,
            ListNamespaces, ApplyGuards, ApplyPodPolicy, ScanPods, ApplyShellGuard,
            LabelNamespace, EnsureAgentIdentity, SwitchQuotaWrites, MintAgentToken,
            RenderKubeconfig, Teardown, DeletePolicyBindings, DeletePolicies,
            ListMarkedNamespaces, UnlabelNamespace, DeleteRoleBindings, DeleteRoles,
            DeleteNamespace, DeleteStep, AgentEnds, Crash
<1>1. UNCHANGED <<alone, before>> BY DEF ghosts
<1>2. UNCHANGED pc \/ \E next : pc' = [pc EXCEPT ![r] = next]
  BY DEF Goto, EnforcementFails, EnforcementRaises, IdentityFails, IdentityRaises, Undo
<1>3. UNCHANGED todo \/ \E list : todo' = [todo EXCEPT ![r] = list]
  OBVIOUS
<1> QED BY <1>1, <1>2, <1>3

\* Who is alone is decided when a run starts.
LEMMA AloneStep == TypeOK /\ AloneIsAlone /\ [Next]_vars => AloneIsAlone'
<1> SUFFICES ASSUME TypeOK, AloneIsAlone, [Next]_vars PROVE AloneIsAlone'
  OBVIOUS
<1> USE DEF AloneIsAlone
<1>0. pc \in [Runs -> Pcs] /\ alone \in [Runs -> BOOLEAN] /\ PcOK
  BY DEF TypeOK, PcOK
<1>1. ASSUME NEW r \in Runs, Start(r) PROVE AloneIsAlone'
  <2>1. \A q \in Runs : q # r => pc'[q] = pc[q]
    BY <1>0, <1>1 DEF Start, Goto
  <2>2. \A s \in Runs : alone'[s] = IF s = r THEN \A q \in Runs : ~Active(q)
                                  ELSE alone[s] /\ ~Active(s)
    BY <1>1 DEF Start
  <2> QED BY <2>1, <2>2 DEF Active
<1>2. ASSUME UNCHANGED alone, \A r \in Runs : Active(r)' => Active(r)
      PROVE  AloneIsAlone'
  BY <1>2 DEF Active
<1>3. ASSUME NEW r \in Runs, Provision(r) \/ AgentEnds(r) \/ Teardown(r) \/ Crash(r)
      PROVE  UNCHANGED alone /\ \A q \in Runs : Active(q)' => Active(q)
  BY <1>0, <1>3, OwnMoves, ActsWhileActive DEF Active
<1>4. ASSUME NEW n \in Ordinary, CreatePod(n) \/ SetLevel(n)
      PROVE  UNCHANGED <<alone, pc>>
  BY <1>4 DEF CreatePod, SetLevel, ghosts
<1>5. CASE UNCHANGED vars BY <1>5 DEF vars, ghosts, Active
<1> QED BY <1>1, <1>2, <1>3, <1>4, <1>5 DEF Next, Active

\* The scan is skipped for a privileged task, and its result dropped in the end.
LEMMA BaselineStep == TypeOK /\ BaselineScans /\ [Next]_vars => BaselineScans'
<1> SUFFICES ASSUME TypeOK, BaselineScans, [Next]_vars PROVE BaselineScans'
  OBVIOUS
<1>0. /\ pc \in [Runs -> Pcs] /\ pods \in [Runs -> SUBSET Namespaces]
      /\ plan \in [Runs -> Plans \cup {Nobody}]
  BY DEF TypeOK
<1> USE DEF BaselineScans, Goto, own
<1>1. ASSUME NEW r \in Runs, Start(r) PROVE BaselineScans'
  BY <1>0, <1>1 DEF Start
<1>2. ASSUME NEW r \in Runs, Provision(r) PROVE BaselineScans'
  <2> USE DEF EnforcementFails, EnforcementRaises, IdentityFails, IdentityRaises, Undo
  <2>1. CASE ScanPods(r) BY <1>0, <2>1 DEF ScanPods
  <2>2. CASE ApplyGuards(r) BY <1>0, <2>2 DEF ApplyGuards
  <2>3. CASE ApplyPodPolicy(r) BY <1>0, <2>3 DEF ApplyPodPolicy
  <2>4. CASE ApplyShellGuard(r) BY <1>0, <2>4 DEF ApplyShellGuard
  <2>5. CASE LabelNamespace(r) BY <1>0, <2>5 DEF LabelNamespace
  <2>6. CASE /\ ~ScanPods(r) /\ ~ApplyGuards(r) /\ ~ApplyPodPolicy(r)
             /\ ~ApplyShellGuard(r) /\ ~LabelNamespace(r)
    <3>1. UNCHANGED <<plan, pods>>
      BY <1>2, <2>6
         DEF Provision, PinPlanContext, PreflightRenderInputs, RequirePolicyApi,
             ListNamespaces, EnsureAgentIdentity, SwitchQuotaWrites, MintAgentToken,
             RenderKubeconfig
    <3>2. \/ UNCHANGED pc
          \/ \E next : /\ pc' = [pc EXCEPT ![r] = next]
                       /\ next \notin {"idle", "policy", "scan", "label"}
                       /\ pc[r] # "idle"
      BY <1>2, <2>6
         DEF Provision, PinPlanContext, PreflightRenderInputs, RequirePolicyApi,
             ListNamespaces, EnsureAgentIdentity, SwitchQuotaWrites, MintAgentToken,
             RenderKubeconfig
    <3> QED BY <1>0, <3>1, <3>2
  <2> QED BY <2>1, <2>2, <2>3, <2>4, <2>5, <2>6
<1>3. ASSUME NEW r \in Runs, AgentEnds(r) \/ Crash(r) PROVE BaselineScans'
  BY <1>0, <1>3 DEF AgentEnds, Crash, Active, Provisioning, TearingDown
<1>4. ASSUME NEW r \in Runs, Teardown(r) PROVE BaselineScans'
  <2>1. UNCHANGED <<plan, pods>>
    BY <1>4
       DEF Teardown, DeletePolicyBindings, DeletePolicies, ListMarkedNamespaces,
           UnlabelNamespace, DeleteRoleBindings, DeleteRoles, DeleteNamespace, DeleteStep
  <2>2. \/ UNCHANGED pc
        \/ \E next : /\ pc' = [pc EXCEPT ![r] = next]
                     /\ next \notin {"idle", "policy", "scan", "label"}
                       /\ pc[r] # "idle"
    BY <1>4
       DEF Teardown, DeletePolicyBindings, DeletePolicies, ListMarkedNamespaces,
           UnlabelNamespace, DeleteRoleBindings, DeleteRoles, DeleteNamespace, DeleteStep
  <2> QED BY <1>0, <2>1, <2>2
<1>5. ASSUME NEW n \in Ordinary, CreatePod(n) \/ SetLevel(n) PROVE BaselineScans'
  BY <1>5 DEF CreatePod, SetLevel
<1>6. CASE UNCHANGED vars BY <1>6 DEF vars
<1> QED BY <1>1, <1>2, <1>3, <1>4, <1>5, <1>6 DEF Next

\* Apart from the two steps that list, no step puts a namespace on a list that is
\* written from, or brings a run with such a list to where it writes.
LEMMA ListsStep ==
  TypeOK /\ [Next]_vars =>
    \A r \in Runs : \A n \in Ordinary :
      AboutToWrite(r, n)' => \/ AboutToWrite(r, n)
                             \/ n \in LabellableNamespaces
                             \/ marker[n] # Nobody
<1> SUFFICES ASSUME TypeOK, [Next]_vars, NEW r \in Runs, NEW n \in Ordinary,
                    AboutToWrite(r, n)', ~AboutToWrite(r, n)
             PROVE  n \in LabellableNamespaces \/ marker[n] # Nobody
  OBVIOUS
<1>0. /\ pc \in [Runs -> Pcs]
      /\ todo \in [Runs -> SUBSET Ordinary]
      /\ plan \in [Runs -> Plans \cup {Nobody}]
  BY DEF TypeOK
<1> USE DEF AboutToWrite, Goto, Undo, EnforcementRaises, EnforcementFails,
            IdentityRaises, IdentityFails
<1>1. ASSUME NEW q \in Runs, Start(q) \/ AgentEnds(q) \/ Crash(q) PROVE FALSE
  BY <1>0, <1>1 DEF Start, AgentEnds, Crash, cluster, own
<1>2. ASSUME NEW q \in Runs, ListNamespaces(q) PROVE n \in LabellableNamespaces
  BY <1>0, <1>2 DEF ListNamespaces
<1>3. ASSUME NEW q \in Runs, ListMarkedNamespaces(q) PROVE marker[n] # Nobody
  <2>1. CASE r = q /\ todo' = [todo EXCEPT ![q] = {m \in Ordinary : marker[m] # Nobody}]
    <3>1. n \in {m \in Ordinary : marker[m] # Nobody} BY <1>0, <2>1
    <3> QED BY <3>1
  <2>2. CASE r # q
    <3>1. todo'[r] = todo[r] /\ pc'[r] = pc[r] /\ plan' = plan
      BY <1>0, <1>3, <2>2 DEF ListMarkedNamespaces
    <3> QED BY <3>1
  <2>3. CASE r = q /\ pc' = [pc EXCEPT ![q] = "role bindings"] BY <1>0, <2>3
  <2> QED BY <1>3, <2>1, <2>2, <2>3 DEF ListMarkedNamespaces
<1>4. ASSUME NEW q \in Runs, PinPlanContext(q) \/ PreflightRenderInputs(q)
                               \/ RequirePolicyApi(q) \/ ApplyGuards(q)
                               \/ ApplyPodPolicy(q) \/ ScanPods(q)
      PROVE  FALSE
  BY <1>0, <1>4 DEF PinPlanContext, PreflightRenderInputs, RequirePolicyApi,
                    ApplyGuards, ApplyPodPolicy, ScanPods
<1>5. ASSUME NEW q \in Runs, ApplyShellGuard(q) \/ LabelNamespace(q)
                               \/ EnsureAgentIdentity(q) \/ SwitchQuotaWrites(q)
                               \/ MintAgentToken(q) \/ RenderKubeconfig(q)
      PROVE  FALSE
  BY <1>0, <1>5 DEF ApplyShellGuard, LabelNamespace, EnsureAgentIdentity,
                    SwitchQuotaWrites, MintAgentToken, RenderKubeconfig
<1>6. ASSUME NEW q \in Runs, DeletePolicyBindings(q) \/ DeletePolicies(q)
                               \/ UnlabelNamespace(q) \/ DeleteRoleBindings(q)
                               \/ DeleteRoles(q) \/ DeleteNamespace(q)
      PROVE  FALSE
  BY <1>0, <1>6 DEF DeletePolicyBindings, DeletePolicies, UnlabelNamespace,
                    DeleteRoleBindings, DeleteRoles, DeleteNamespace, DeleteStep
<1>7. ASSUME NEW m \in Ordinary, CreatePod(m) \/ SetLevel(m) PROVE FALSE
  BY <1>7 DEF CreatePod, SetLevel, own
<1>8. CASE UNCHANGED vars BY <1>8 DEF vars, own
<1> QED BY <1>1, <1>2, <1>3, <1>4, <1>5, <1>6, <1>7, <1>8
        DEF Next, Provision, Teardown

\* Only the label steps change a namespace that carries a foreign level, and they
\* only change what their run has listed.
LEMMA LevelStep ==
  TypeOK /\ BaselineScans /\ [Next]_vars =>
    \A n \in Ordinary : Settled(n) => level'[n] = "foreign" /\ marker'[n] = Nobody
<1> SUFFICES ASSUME TypeOK, BaselineScans, [Next]_vars, NEW n \in Ordinary,
                    Settled(n)
             PROVE  level'[n] = "foreign" /\ marker'[n] = Nobody
  OBVIOUS
<1>0. /\ level \in [Ordinary -> {"none", "ours", "foreign"}]
      /\ marker \in [Ordinary -> Runs \cup {Nobody}]
      /\ level[n] = "foreign" /\ marker[n] = Nobody
  BY DEF TypeOK, Settled
<1>1. ASSUME UNCHANGED <<level, marker>>
      PROVE  level'[n] = "foreign" /\ marker'[n] = Nobody
  BY <1>0, <1>1
<1>2. ASSUME NEW r \in Runs, LabelNamespace(r)
      PROVE  level'[n] = "foreign" /\ marker'[n] = Nobody
  BY <1>0, <1>2 DEF LabelNamespace, Labels, Settled, AboutToWrite, BaselineScans
<1>3. ASSUME NEW r \in Runs, UnlabelNamespace(r)
      PROVE  level'[n] = "foreign" /\ marker'[n] = Nobody
  BY <1>0, <1>3 DEF UnlabelNamespace, Unlabels, Settled, AboutToWrite
<1>4. ASSUME NEW r \in Runs, ListNamespaces(r) \/ ListMarkedNamespaces(r) \/ Crash(r)
      PROVE  UNCHANGED <<level, marker>>
  BY <1>4 DEF ListNamespaces, ListMarkedNamespaces, Crash, cluster
<1>5. ASSUME NEW m \in Ordinary, SetLevel(m)
      PROVE  level'[n] = "foreign" /\ marker'[n] = Nobody
  BY <1>0, <1>5 DEF SetLevel
<1>6. ASSUME NEW m \in Ordinary, CreatePod(m) PROVE UNCHANGED <<level, marker>>
  BY <1>6 DEF CreatePod, cluster
<1>7. CASE UNCHANGED vars BY <1>0, <1>7 DEF vars, cluster
<1> QED BY <1>1, <1>2, <1>3, <1>4, <1>5, <1>6, <1>7, QuietSteps DEF Next

\* What is settled stays settled.
LEMMA SettledStep ==
  TypeOK /\ BaselineScans /\ [Next]_vars =>
    \A n \in Ordinary : Settled(n) => Settled(n)'
<1> SUFFICES ASSUME TypeOK, BaselineScans, [Next]_vars, NEW n \in Ordinary, Settled(n)
             PROVE  Settled(n)'
  OBVIOUS
<1>1. level'[n] = "foreign" /\ marker'[n] = Nobody BY LevelStep
<1>2. \A r \in Runs : ~AboutToWrite(r, n)'
  BY ListsStep DEF Settled, LabellableNamespaces
<1> QED BY <1>1, <1>2 DEF Settled

\* What is there after an apply, or a delete, of some objects.
LEMMA PresentAfter ==
  ASSUME TypeOK, NEW r \in Runs, NEW os \in SUBSET Objects
  PROVE  /\ Applies(r, os) => Present' = Present \cup os
         /\ Deletes(os) => Present' = Present \ os
BY CredentialsAssumption DEF TypeOK, Applies, Deletes, Present

\* Applying any part of a manifest removes nothing.
LEMMA PartialApplyKeeps ==
  ASSUME TypeOK, NEW r \in Runs, NEW os \in SUBSET Objects, PartlyApplies(r, os)
  PROVE  Present \subseteq Present'
BY CredentialsAssumption DEF TypeOK, PartlyApplies, Applies, Present

\* What a run that is alone has set up stays until it tears it down itself.
LEMMA SetUpStep ==
  TypeOK /\ SetUpSoFar /\ [Next]_vars =>
    \A r \in Runs : alone'[r] /\ Active(r)' =>
      IdentitySoFar(r)' /\ (~unenforced'[r] => EnforcementSoFar(r)')
<1> SUFFICES ASSUME TypeOK, SetUpSoFar, [Next]_vars,
                    NEW r \in Runs, alone'[r], Active(r)'
             PROVE  IdentitySoFar(r)' /\ (~unenforced'[r] => EnforcementSoFar(r)')
  BY DEF Active, IdentitySoFar, EnforcementSoFar, Present, AfterGuards, AfterPolicy, AfterScan
<1> DEFINE Goal == IdentitySoFar(r)' /\ (~unenforced'[r] => EnforcementSoFar(r)')
<1>t. /\ pc \in [Runs -> Pcs] /\ pods \in [Runs -> SUBSET Namespaces]
      /\ holder \in [Objects -> Runs \cup {Nobody}]
      /\ plan \in [Runs -> Plans \cup {Nobody}]
      /\ credential \in [Runs -> {"none", "token", "admin", "refused"}]
      /\ unenforced \in [Runs -> BOOLEAN]
      /\ alone \in [Runs -> BOOLEAN]
  BY DEF TypeOK
<1>h. alone[r] /\ Active(r) =>
        IdentitySoFar(r) /\ (~unenforced[r] => EnforcementSoFar(r))
  BY DEF SetUpSoFar, Active, IdentitySoFar, EnforcementSoFar, Present, AfterGuards,
         AfterPolicy, AfterScan
<1>f. ASSUME pc[r] = pc'[r], alone[r], UNCHANGED <<holder, denied, rogue>>,
             plan'[r] = plan[r], pods'[r] = pods[r],
             credential'[r] = credential[r], unenforced'[r] = unenforced[r]
      PROVE  Goal
  BY <1>f, <1>h DEF Active, IdentitySoFar, EnforcementSoFar, Present, AfterGuards,
                    AfterPolicy, AfterScan
<1>1. ASSUME NEW q \in Runs, Start(q) PROVE Goal
  <2>1. CASE q = r
    BY <1>1, <1>t, <2>1 DEF Start, Goto, IdentitySoFar, EnforcementSoFar, AfterGuards,
                      AfterPolicy, AfterScan
  <2>2. CASE q # r
    <3>1. pc[r] = pc'[r] /\ plan'[r] = plan[r] /\ alone[r]
      BY <1>1, <1>t, <2>2 DEF Start, Goto
    <3> QED BY <1>1, <1>f, <3>1 DEF Start, cluster
  <2> QED BY <2>1, <2>2
<1>2. ASSUME NEW q \in Runs, q # r,
             Provision(q) \/ AgentEnds(q) \/ Teardown(q) \/ Crash(q)
      PROVE  FALSE
  <2>1. pc'[r] = pc[r] /\ alone[r]
    BY <1>2, <1>t, OwnMoves
  <2> QED BY <1>2, <2>1, ActsWhileActive DEF Active, SetUpSoFar, AloneIsAlone
<1>3. ASSUME Provision(r) PROVE Goal
  <2>0. alone[r] /\ Active(r)
    BY <1>3, OwnMoves, ActsWhileActive DEF Active
  <2>h. IdentitySoFar(r) /\ (~unenforced[r] => EnforcementSoFar(r))
    BY <1>h, <2>0
  <2>b. /\ pc[r] \in {"policy", "scan"} => ~plan[r].privileged
        /\ pc[r] # "idle" /\ plan[r].privileged => pods[r] = {}
    <3>1. BaselineScans BY DEF SetUpSoFar
    <3> QED BY <3>1 DEF BaselineScans
  <2> USE <1>t DEF IdentitySoFar, EnforcementSoFar, AfterGuards, AfterPolicy, AfterScan,
                   Goto, EnforcementFails, EnforcementRaises, Undo, cluster, own
  <2>1. CASE PinPlanContext(r) \/ PreflightRenderInputs(r) \/ RequirePolicyApi(r)
             \/ ListNamespaces(r)
    BY <2>1 DEF PinPlanContext, PreflightRenderInputs, RequirePolicyApi, ListNamespaces
  <2>e. ASSUME NEW here, EnforcementFails(r, here) PROVE Goal
    BY <2>e
  <2>i. ASSUME NEW here \in {"identity", "quota", "token"}, IdentityRaises(r, here),
               Present \subseteq Present' \cup Quota, UNCHANGED <<plan, denied, rogue>>
        PROVE  Goal
    BY <2>h, <2>i DEF IdentityRaises, Quota, NamespaceGuards, PodPolicy, ShellGuard
  <2>o. /\ NamespaceGuards \in SUBSET Objects /\ PodPolicy \in SUBSET Objects
        /\ ShellGuard \in SUBSET Objects /\ Rbac \in SUBSET Objects
        /\ Quota \in SUBSET Objects /\ "quota binding" \in Quota
        /\ Quota = {"quota binding"} /\ Rbac \cap Quota = {}
        /\ Quota \cap (NamespaceGuards \cup PodPolicy \cup ShellGuard) = {}
    BY DEF Objects, NamespaceGuards, PodPolicy, ShellGuard, Rbac, Quota
  <2>k. UNCHANGED holder => Present' = Present BY DEF Present
  <2>2. CASE ApplyGuards(r)
    <3>1. CASE Applies(r, NamespaceGuards) /\ UNCHANGED unenforced /\ pc'[r] \in {"shell", "policy"}
      <4>1. Present' = Present \cup NamespaceGuards BY <2>o, <3>1, PresentAfter
      <4> QED BY <2>h, <2>b, <2>2, <4>1 DEF ApplyGuards
    <3> QED BY <2>2, <2>e, <3>1 DEF ApplyGuards
  <2>3. CASE ApplyPodPolicy(r)
    <3>1. CASE Applies(r, PodPolicy) /\ UNCHANGED unenforced /\ pc'[r] = "scan"
      <4>1. Present' = Present \cup PodPolicy BY <2>o, <3>1, PresentAfter
      <4> QED BY <2>h, <2>3, <3>1, <4>1 DEF ApplyPodPolicy
    <3> QED BY <2>3, <2>e, <3>1 DEF ApplyPodPolicy
  <2>4. CASE ScanPods(r)
    BY <2>h, <2>b, <2>k, <2>4 DEF ScanPods, NonconformantPods
  <2>5. CASE ApplyShellGuard(r)
    <3>1. CASE Applies(r, ShellGuard) /\ denied' = pods[r] /\ UNCHANGED unenforced
               /\ pc[r] = "shell" /\ pc'[r] \in {"identity", "label"}
      <4>1. Present' = Present \cup ShellGuard BY <2>o, <3>1, PresentAfter
      <4> QED BY <2>h, <2>b, <2>5, <3>1, <4>1 DEF ApplyShellGuard
    <3> QED BY <2>5, <2>e, <3>1 DEF ApplyShellGuard
  <2>6. CASE LabelNamespace(r) BY <2>h, <2>k, <2>6 DEF LabelNamespace
  <2>7. CASE EnsureAgentIdentity(r)
    <3>1. CASE Applies(r, Rbac) /\ pc'[r] = "quota" /\ UNCHANGED unenforced
               /\ pc[r] = "identity"
      <4>1. Present' = Present \cup Rbac BY <2>o, <3>1, PresentAfter
      <4> QED BY <2>h, <2>7, <3>1, <4>1 DEF EnsureAgentIdentity
    <3>2. CASE IdentityFails(r, "identity") /\ PartlyApplies(r, Rbac)
      <4>1. Present \subseteq Present' BY <2>o, <3>2, PartialApplyKeeps
      <4> QED BY <2>i, <2>7, <3>2, <4>1 DEF EnsureAgentIdentity, IdentityFails
    <3> QED BY <2>7, <3>1, <3>2 DEF EnsureAgentIdentity
  <2>8. CASE SwitchQuotaWrites(r)
    <3>1. QuotaSwitch(r) =>
            Present' = IF plan[r].quota_writes THEN Present \cup Quota ELSE Present \ Quota
      BY <2>o, PresentAfter DEF QuotaSwitch
    <3>2. CASE QuotaSwitch(r) /\ pc'[r] = "token" /\ UNCHANGED unenforced
               /\ pc[r] = "quota"
      BY <2>h, <2>o, <2>8, <3>1, <3>2 DEF SwitchQuotaWrites
    <3>3. CASE IdentityFails(r, "quota") /\ (QuotaSwitch(r) \/ UNCHANGED holder)
      <4>1. Present \subseteq Present' \cup Quota BY <2>k, <3>1, <3>3
      <4> QED BY <2>i, <2>8, <3>3, <4>1 DEF SwitchQuotaWrites, IdentityFails
    <3> QED BY <2>8, <3>2, <3>3 DEF SwitchQuotaWrites
  <2>9. CASE MintAgentToken(r)
    <3>1. Present' = Present /\ UNCHANGED <<plan, denied, rogue>>
      BY <2>k, <2>9 DEF MintAgentToken
    <3>2. CASE IdentityRaises(r, "token") BY <2>i, <3>1, <3>2
    <3>3. CASE ~IdentityRaises(r, "token")
      BY <2>h, <2>9, <3>1, <3>3 DEF MintAgentToken, IdentityFails
    <3> QED BY <3>2, <3>3
  <2>10. CASE RenderKubeconfig(r)
    BY <2>h, <2>k, <2>10 DEF RenderKubeconfig
  <2> QED BY <1>3, <2>1, <2>2, <2>3, <2>4, <2>5, <2>6, <2>7, <2>8, <2>9, <2>10
          DEF Provision
<1>4. ASSUME AgentEnds(r) \/ Teardown(r) \/ Crash(r) PROVE Goal
  <2>1. pc'[r] \notin Provisioning \cup {"agent"}
    BY <1>4, <1>t
       DEF AgentEnds, Crash, Teardown, DeletePolicyBindings, DeletePolicies,
           ListMarkedNamespaces, UnlabelNamespace, DeleteRoleBindings, DeleteRoles,
           DeleteNamespace, DeleteStep, Goto, Provisioning
  <2> QED BY <2>1 DEF IdentitySoFar, EnforcementSoFar, AfterGuards, AfterPolicy,
                      AfterScan, Provisioning
<1>5. ASSUME NEW n \in Ordinary, CreatePod(n) PROVE Goal
  <2>1. UNCHANGED <<holder, denied, pc, plan, pods, credential, unenforced, alone>>
    BY <1>5 DEF CreatePod, cluster, own, ghosts
  <2>2. ~PolicyInForce BY <1>5 DEF CreatePod
  <2> QED BY <1>h, <2>1, <2>2
          DEF PolicyInForce, Active, IdentitySoFar, EnforcementSoFar, Present,
              AfterGuards, AfterPolicy, AfterScan
<1>6. ASSUME NEW n \in Ordinary, SetLevel(n) PROVE Goal
  BY <1>6, <1>f DEF SetLevel, own, ghosts
<1>7. CASE UNCHANGED vars BY <1>7, <1>f DEF vars, cluster, own, ghosts
<1> QED BY <1>1, <1>2, <1>3, <1>4, <1>5, <1>6, <1>7 DEF Next

-----------------------------------------------------------------------------
\* Past runs stay over, and a run answers for none before it starts.
LEMMA PastStep == TypeOK /\ PastRunsAreOver /\ [Next]_vars => PastRunsAreOver'
<1> SUFFICES ASSUME TypeOK, PastRunsAreOver, [Next]_vars PROVE PastRunsAreOver'
  OBVIOUS
<1>0. /\ pc \in [Runs -> Pcs] /\ PcOK
      /\ before \in [Runs -> SUBSET Runs]
  BY DEF TypeOK, PcOK
<1> USE DEF PastRunsAreOver
<1>e. ASSUME NEW s \in Runs, pc[s] \in Ended PROVE pc'[s] \in Ended
  BY <1>0, <1>e, MoveStep
<1>i. ASSUME NEW s \in Runs, pc'[s] = "idle" PROVE pc[s] = "idle"
  BY <1>0, <1>i, MoveStep
<1>1. ASSUME NEW r \in Runs, Start(r) PROVE PastRunsAreOver'
  <2>1. before' = [before EXCEPT ![r] = {s \in Runs : pc[s] \in Ended}] /\ pc'[r] # "idle"
    BY <1>0, <1>1 DEF Start, Goto
  <2> QED BY <1>0, <1>e, <1>i, <2>1
<1>2. CASE UNCHANGED before
  BY <1>0, <1>e, <1>i, <1>2
<1>3. ASSUME NEW n \in Ordinary, CreatePod(n) \/ SetLevel(n) PROVE UNCHANGED before
  BY <1>3 DEF CreatePod, SetLevel, ghosts
<1>4. CASE UNCHANGED vars BY <1>2, <1>4 DEF vars, ghosts
<1> QED BY <1>1, <1>2, <1>3, <1>4, OwnMoves DEF Next

\* Only a run that provisions becomes the holder of an object.
LEMMA HolderWrites ==
  TypeOK /\ [Next]_vars =>
    \A o \in Objects : \/ holder'[o] \in {holder[o], Nobody}
                       \/ holder'[o] \in Runs /\ pc[holder'[o]] \in Provisioning
<1> SUFFICES ASSUME TypeOK, [Next]_vars, NEW o \in Objects
             PROVE  \/ holder'[o] \in {holder[o], Nobody}
                    \/ holder'[o] \in Runs /\ pc[holder'[o]] \in Provisioning
  OBVIOUS
<1> DEFINE Goal == \/ holder'[o] \in {holder[o], Nobody}
                   \/ holder'[o] \in Runs /\ pc[holder'[o]] \in Provisioning
<1>d. ASSUME NEW os, Deletes(os) PROVE Goal BY <1>d DEF Deletes
<1>u. UNCHANGED holder => Goal OBVIOUS
<1>1. ASSUME NEW r \in Runs, Start(r) \/ AgentEnds(r) \/ Crash(r) PROVE Goal
  BY <1>1 DEF Start, AgentEnds, Crash, cluster
<1>2. ASSUME NEW r \in Runs, Provision(r) PROVE Goal
  <2>1. \/ \E os : holder' = [x \in Objects |-> IF x \in os THEN r ELSE holder[x]]
        \/ \E os : holder' = [x \in Objects |-> IF x \in os THEN Nobody ELSE holder[x]]
        \/ UNCHANGED holder
    BY <1>2
       DEF Provision, PinPlanContext, PreflightRenderInputs, RequirePolicyApi,
           ListNamespaces, ApplyGuards, ApplyPodPolicy, ScanPods, ApplyShellGuard,
           LabelNamespace, EnsureAgentIdentity, SwitchQuotaWrites, MintAgentToken,
           RenderKubeconfig, PartlyApplies, QuotaSwitch, Applies, Deletes, cluster
  <2>2. pc[r] \in Provisioning
    <3>1. CASE LabelNamespace(r) BY <3>1 DEF LabelNamespace, Provisioning
    <3>2. CASE ~LabelNamespace(r)
      BY <1>2, <3>2
         DEF Provision, PinPlanContext, PreflightRenderInputs, RequirePolicyApi,
             ListNamespaces, ApplyGuards, ApplyPodPolicy, ScanPods, ApplyShellGuard,
             EnsureAgentIdentity, SwitchQuotaWrites, MintAgentToken, RenderKubeconfig,
             EnforcementFails, EnforcementRaises, IdentityFails, IdentityRaises, Undo,
             Goto, Provisioning
    <3> QED BY <3>1, <3>2
  <2> QED BY <2>1, <2>2
<1>3. ASSUME NEW r \in Runs, Teardown(r) PROVE Goal
  <2>1. \/ \E os : holder' = [x \in Objects |-> IF x \in os THEN Nobody ELSE holder[x]]
        \/ UNCHANGED holder
    BY <1>3
       DEF Teardown, DeletePolicyBindings, DeletePolicies, ListMarkedNamespaces,
           UnlabelNamespace, DeleteRoleBindings, DeleteRoles, DeleteNamespace,
           DeleteStep, PartlyDeletes, Deletes, cluster
  <2> QED BY <2>1
<1>4. ASSUME NEW n \in Ordinary, CreatePod(n) \/ SetLevel(n) PROVE Goal
  BY <1>4 DEF CreatePod, SetLevel, cluster
<1>5. CASE UNCHANGED vars BY <1>5 DEF vars, cluster
<1> QED BY <1>1, <1>2, <1>3, <1>4, <1>5 DEF Next

\* Only a run that labels becomes the one who marked a namespace; markers go one by
\* one, off the list of the run that removes them.
LEMMA MarkerWrites ==
  TypeOK /\ [Next]_vars =>
    \A n \in Ordinary : \/ marker'[n] \in {marker[n], Nobody}
                        \/ marker'[n] \in Runs /\ pc[marker'[n]] = "label"
<1> SUFFICES ASSUME TypeOK, [Next]_vars, NEW n \in Ordinary
             PROVE  \/ marker'[n] \in {marker[n], Nobody}
                    \/ marker'[n] \in Runs /\ pc[marker'[n]] = "label"
  OBVIOUS
<1>0. marker \in [Ordinary -> Runs \cup {Nobody}] BY DEF TypeOK
<1>1. ASSUME NEW r \in Runs, LabelNamespace(r)
      PROVE  \/ marker'[n] \in {marker[n], Nobody}
             \/ marker'[n] \in Runs /\ pc[marker'[n]] = "label"
  BY <1>0, <1>1 DEF LabelNamespace, Labels
<1>2. ASSUME NEW r \in Runs, UnlabelNamespace(r) PROVE marker'[n] \in {marker[n], Nobody}
  BY <1>0, <1>2 DEF UnlabelNamespace, Unlabels
<1>3. ASSUME NEW r \in Runs, ListNamespaces(r) \/ ListMarkedNamespaces(r) \/ Crash(r)
      PROVE  UNCHANGED marker
  BY <1>3 DEF ListNamespaces, ListMarkedNamespaces, Crash, cluster
<1>4. ASSUME NEW m \in Ordinary, CreatePod(m) \/ SetLevel(m) PROVE UNCHANGED marker
  BY <1>4 DEF CreatePod, SetLevel, cluster
<1>5. CASE UNCHANGED vars BY <1>5 DEF vars, cluster
<1> QED BY <1>1, <1>2, <1>3, <1>4, <1>5, QuietSteps DEF Next

\* A teardown that has met a failed call never reports itself clean again.
LEMMA CleanStep ==
  TypeOK /\ [Next]_vars => \A r \in Runs : clean'[r] => clean[r]
<1> SUFFICES ASSUME TypeOK, [Next]_vars, NEW r \in Runs, clean'[r] PROVE clean[r]
  OBVIOUS
<1>0. clean \in [Runs -> BOOLEAN] BY DEF TypeOK
<1>1. ASSUME NEW q \in Runs, Start(q) \/ Provision(q) \/ AgentEnds(q) \/ Crash(q)
      PROVE  UNCHANGED clean
  BY <1>1
     DEF Provision, PinPlanContext, PreflightRenderInputs, RequirePolicyApi,
         ListNamespaces, ApplyGuards, ApplyPodPolicy, ScanPods, ApplyShellGuard,
         LabelNamespace, EnsureAgentIdentity, SwitchQuotaWrites, MintAgentToken,
         RenderKubeconfig, Start, AgentEnds, Crash, own
<1>2. ASSUME NEW q \in Runs, Teardown(q)
      PROVE  UNCHANGED clean \/ clean' = [clean EXCEPT ![q] = FALSE]
  BY <1>2
     DEF Teardown, DeletePolicyBindings, DeletePolicies, ListMarkedNamespaces,
         UnlabelNamespace, DeleteRoleBindings, DeleteRoles, DeleteNamespace,
         DeleteStep, FailedCall
<1>3. ASSUME NEW n \in Ordinary, CreatePod(n) \/ SetLevel(n) PROVE UNCHANGED clean
  BY <1>3 DEF CreatePod, SetLevel, own
<1>4. CASE UNCHANGED vars BY <1>4 DEF vars, own
<1> QED BY <1>0, <1>1, <1>2, <1>3, <1>4 DEF Next

\* Deletions take away the objects; whoever writes meanwhile is neither the run that
\* tears down nor one that was over before it.
LEMMA RemovedStep ==
  TypeOK /\ PastRunsAreOver /\ RemovedSoFar /\ [Next]_vars => RemovedSoFar'
<1> SUFFICES ASSUME TypeOK, PastRunsAreOver, RemovedSoFar, [Next]_vars,
                    NEW r \in Runs, clean'[r]
             PROVE
    /\ pc'[r] \in AfterBindings => Gone(r, PolicyBindings)'
    /\ pc'[r] \in AfterPolicies => Gone(r, Policies)'
    /\ pc'[r] = "unlabel" =>
         \A n \in Ordinary : marker'[n] \in {r} \cup before'[r] => n \in todo'[r]
    /\ pc'[r] \in AfterUnlabel =>
         \A n \in Ordinary : marker'[n] \notin {r} \cup before'[r]
    /\ pc'[r] \in AfterRoleBindings => Gone(r, RoleBindings)'
    /\ pc'[r] \in AfterRoles => Gone(r, {"roles"})'
    /\ pc'[r] = "done" => Gone(r, {"bench-system"})'
  BY DEF RemovedSoFar, Gone, AfterBindings, AfterPolicies, AfterUnlabel,
         AfterRoleBindings, AfterRoles, TearingDown
<1> DEFINE Removed ==
    /\ pc'[r] \in AfterBindings => Gone(r, PolicyBindings)'
    /\ pc'[r] \in AfterPolicies => Gone(r, Policies)'
    /\ pc'[r] = "unlabel" =>
         \A n \in Ordinary : marker'[n] \in {r} \cup before'[r] => n \in todo'[r]
    /\ pc'[r] \in AfterUnlabel =>
         \A n \in Ordinary : marker'[n] \notin {r} \cup before'[r]
    /\ pc'[r] \in AfterRoleBindings => Gone(r, RoleBindings)'
    /\ pc'[r] \in AfterRoles => Gone(r, {"roles"})'
    /\ pc'[r] = "done" => Gone(r, {"bench-system"})'
<1>0. /\ pc \in [Runs -> Pcs] /\ PcOK /\ before \in [Runs -> SUBSET Runs]
      /\ todo \in [Runs -> SUBSET Ordinary]
      /\ marker \in [Ordinary -> Runs \cup {Nobody}]
  BY DEF TypeOK, PcOK
<1>n. Nobody \notin Runs BY CredentialsAssumption
<1>c. clean[r] BY CleanStep
<1>h. /\ pc[r] \in AfterBindings => Gone(r, PolicyBindings)
      /\ pc[r] \in AfterPolicies => Gone(r, Policies)
      /\ pc[r] = "unlabel" =>
           \A n \in Ordinary : marker[n] \in {r} \cup before[r] => n \in todo[r]
      /\ pc[r] \in AfterUnlabel =>
           \A n \in Ordinary : marker[n] \notin {r} \cup before[r]
      /\ pc[r] \in AfterRoleBindings => Gone(r, RoleBindings)
      /\ pc[r] \in AfterRoles => Gone(r, {"roles"})
      /\ pc[r] = "done" => Gone(r, {"bench-system"})
  BY <1>c DEF RemovedSoFar, Gone, AfterBindings, AfterPolicies, AfterUnlabel,
              AfterRoleBindings, AfterRoles, TearingDown
<1>o. /\ PolicyBindings \subseteq Objects /\ Policies \subseteq Objects
      /\ RoleBindings \subseteq Objects /\ {"roles", "bench-system"} \subseteq Objects
  BY DEF PolicyBindings, Policies, RoleBindings, Objects, NamespaceGuards, PodPolicy,
         ShellGuard, Rbac, Quota
<1>w. /\ Nobody \notin {r} \cup before[r]
      /\ pc[r] \in TearingDown \cup {"done"} =>
           \A q \in Runs : pc[q] \in Provisioning => q \notin {r} \cup before[r]
  BY <1>0, <1>n DEF PastRunsAreOver, TearingDown, Provisioning, Ended
<1>k. ASSUME pc[r] \in TearingDown \cup {"done"}, before'[r] = before[r],
             NEW o \in Objects, holder[o] \notin {r} \cup before[r]
      PROVE  holder'[o] \notin {r} \cup before'[r]
  <2>1. \/ holder'[o] \in {holder[o], Nobody}
        \/ holder'[o] \in Runs /\ pc[holder'[o]] \in Provisioning
    BY HolderWrites
  <2> QED BY <1>0, <1>k, <1>w, <2>1
<1>m. ASSUME pc[r] \in TearingDown \cup {"done"}, before'[r] = before[r],
             NEW n \in Ordinary, marker[n] \notin {r} \cup before[r]
      PROVE  marker'[n] \notin {r} \cup before'[r]
  <2>1. \/ marker'[n] \in {marker[n], Nobody}
        \/ marker'[n] \in Runs /\ pc[marker'[n]] = "label"
    BY MarkerWrites
  <2> QED BY <1>0, <1>m, <1>w, <2>1 DEF Provisioning
<1>g. ASSUME pc[r] \in TearingDown \cup {"done"}, before'[r] = before[r]
      PROVE  \A os \in SUBSET Objects : (\A o \in os : holder[o] \notin {r} \cup before[r])
                => \A o \in os : holder'[o] \notin {r} \cup before'[r]
  BY <1>g, <1>k
<1>s. ASSUME pc'[r] = pc[r], before'[r] = before[r], todo'[r] = todo[r] PROVE Removed
  <2>1. CASE pc[r] \in TearingDown \cup {"done"}
    <3>1. /\ Gone(r, PolicyBindings) => Gone(r, PolicyBindings)'
          /\ Gone(r, Policies) => Gone(r, Policies)'
          /\ Gone(r, RoleBindings) => Gone(r, RoleBindings)'
          /\ Gone(r, {"roles"}) => Gone(r, {"roles"})'
          /\ Gone(r, {"bench-system"}) => Gone(r, {"bench-system"})'
      BY <1>s, <1>g, <1>o, <2>1 DEF Gone
    <3> QED BY <1>h, <1>m, <1>s, <2>1, <3>1
  <2>2. CASE pc[r] \notin TearingDown \cup {"done"}
    BY <1>s, <2>2 DEF AfterBindings, AfterPolicies, AfterUnlabel, AfterRoleBindings,
                      AfterRoles, TearingDown
  <2> QED BY <2>1, <2>2
<1>v. ASSUME pc'[r] \notin AfterBindings PROVE Removed
  BY <1>v DEF AfterBindings, AfterPolicies, AfterUnlabel, AfterRoleBindings,
              AfterRoles, TearingDown
<1>1. ASSUME NEW q \in Runs, Start(q) PROVE Removed
  <2>1. CASE q = r
    <3>1. pc'[r] = "pin" BY <1>0, <1>1, <2>1 DEF Start, Goto
    <3> QED BY <1>v, <3>1 DEF AfterBindings, AfterPolicies, AfterUnlabel
  <2>2. CASE q # r
    BY <1>0, <1>1, <1>s, <2>2 DEF Start, Goto
  <2> QED BY <2>1, <2>2
<1>2. ASSUME NEW q \in Runs, q # r,
             Provision(q) \/ AgentEnds(q) \/ Teardown(q) \/ Crash(q)
      PROVE  Removed
  <2>1. pc'[r] = pc[r] /\ before'[r] = before[r] /\ todo'[r] = todo[r]
    BY <1>0, <1>2, OwnMoves
  <2> QED BY <1>s, <2>1
<1>3. ASSUME Provision(r) \/ AgentEnds(r) \/ Crash(r) PROVE Removed
  <2>1. pc'[r] \notin AfterBindings
    <3> USE <1>0 DEF Goto, AfterBindings, AfterPolicies, AfterUnlabel
    <3>1. CASE AgentEnds(r) \/ Crash(r) BY <3>1 DEF AgentEnds, Crash
    <3>2. CASE LabelNamespace(r) BY <3>2 DEF LabelNamespace
    <3>3. CASE Provision(r) /\ ~LabelNamespace(r)
      BY <3>3
         DEF Provision, PinPlanContext, PreflightRenderInputs, RequirePolicyApi,
             ListNamespaces, ApplyGuards, ApplyPodPolicy, ScanPods, ApplyShellGuard,
             EnsureAgentIdentity, SwitchQuotaWrites, MintAgentToken, RenderKubeconfig,
             EnforcementFails, EnforcementRaises, IdentityFails, IdentityRaises, Undo
    <3> QED BY <1>3, <3>1, <3>2, <3>3
  <2> QED BY <1>v, <2>1
<1>4. ASSUME Teardown(r) PROVE Removed
  <2>b. before'[r] = before[r] BY <1>4, OwnMoves
  <2>c. clean' # [clean EXCEPT ![r] = FALSE] BY <1>c DEF TypeOK
  <2>k. ASSUME pc[r] \in TearingDown
        PROVE  /\ Gone(r, PolicyBindings) => Gone(r, PolicyBindings)'
               /\ Gone(r, Policies) => Gone(r, Policies)'
               /\ Gone(r, RoleBindings) => Gone(r, RoleBindings)'
               /\ Gone(r, {"roles"}) => Gone(r, {"roles"})'
    BY <1>g, <1>o, <2>b, <2>k DEF Gone
  <2> USE DEF AfterBindings, AfterPolicies, AfterUnlabel, AfterRoleBindings, AfterRoles,
              TearingDown
  <2>1. CASE DeletePolicyBindings(r)
    <3>1. /\ pc[r] = "policy bindings" /\ pc'[r] = "policies" /\ UNCHANGED marker
          /\ Gone(r, PolicyBindings)'
      BY <1>0, <1>o, <1>w, <2>b, <2>c, <2>1
         DEF DeletePolicyBindings, DeleteStep, FailedCall, Goto, Deletes, Gone
    <3> QED BY <3>1
  <2>2. CASE DeletePolicies(r)
    <3>1. /\ pc[r] = "policies" /\ pc'[r] = "marked" /\ UNCHANGED marker
          /\ Gone(r, Policies)'
      BY <1>0, <1>o, <1>w, <2>b, <2>c, <2>2
         DEF DeletePolicies, DeleteStep, FailedCall, Goto, Deletes, Gone
    <3> QED BY <1>h, <2>k, <3>1
  <2>3. CASE ListMarkedNamespaces(r)
    <3>2. /\ pc[r] = "marked" /\ pc'[r] = "unlabel" /\ UNCHANGED marker
          /\ todo'[r] = {n \in Ordinary : marker[n] # Nobody}
      BY <1>0, <2>3, <2>c DEF ListMarkedNamespaces, FailedCall, Goto, cluster
    <3> QED BY <1>h, <1>w, <2>b, <2>k, <3>2
  <2>4. CASE UnlabelNamespace(r)
    <3>2. CASE todo[r] = {} /\ pc'[r] = "role bindings" /\ UNCHANGED marker
               /\ pc[r] = "unlabel"
      BY <1>h, <2>b, <2>k, <3>2
    <3>3. CASE \E n \in todo[r] : /\ todo'[r] = todo[r] \ {n}
                                 /\ marker' = [marker EXCEPT ![n] = Nobody]
                                 /\ pc[r] = "unlabel" /\ UNCHANGED pc
      <4>1. \A n \in Ordinary : marker'[n] \in {r} \cup before'[r] => n \in todo'[r]
        BY <1>0, <1>h, <1>w, <2>b, <3>3
      <4> QED BY <1>h, <2>k, <3>3, <4>1
    <3> QED BY <1>0, <2>4, <2>c, <3>2, <3>3
            DEF UnlabelNamespace, Unlabels, FailedCall, Goto
  <2>5. CASE DeleteRoleBindings(r)
    <3>1. /\ pc[r] = "role bindings" /\ pc'[r] = "roles" /\ UNCHANGED marker
          /\ Gone(r, RoleBindings)'
      BY <1>0, <1>o, <1>w, <2>b, <2>c, <2>5
         DEF DeleteRoleBindings, DeleteStep, FailedCall, Goto, Deletes, Gone
    <3> QED BY <1>h, <2>b, <2>k, <3>1
  <2>6. CASE DeleteRoles(r)
    <3>1. /\ pc[r] = "roles" /\ pc'[r] = "namespace" /\ UNCHANGED marker
          /\ Gone(r, {"roles"})'
      BY <1>0, <1>o, <1>w, <2>b, <2>c, <2>6
         DEF DeleteRoles, DeleteStep, FailedCall, Goto, Deletes, Gone
    <3> QED BY <1>h, <2>b, <2>k, <3>1
  <2>7. CASE DeleteNamespace(r)
    <3>1. /\ pc[r] = "namespace" /\ pc'[r] = "done" /\ UNCHANGED marker
          /\ Gone(r, {"bench-system"})'
      BY <1>0, <1>o, <1>w, <2>b, <2>c, <2>7
         DEF DeleteNamespace, DeleteStep, FailedCall, Goto, Deletes, Gone
    <3> QED BY <1>h, <2>b, <2>k, <3>1
  <2> QED BY <1>4, <2>1, <2>2, <2>3, <2>4, <2>5, <2>6, <2>7 DEF Teardown
<1>5. ASSUME NEW n \in Ordinary, CreatePod(n) \/ SetLevel(n) PROVE Removed
  <2>1. UNCHANGED <<pc, before, todo>> BY <1>5 DEF CreatePod, SetLevel, own, ghosts
  <2> QED BY <1>s, <2>1
<1>6. ASSUME UNCHANGED vars PROVE Removed
  <2>1. UNCHANGED <<pc, before, todo>> BY <1>6 DEF vars, own, ghosts
  <2> QED BY <1>s, <2>1
<1> QED BY <1>1, <1>2, <1>3, <1>4, <1>5, <1>6 DEF Next

-----------------------------------------------------------------------------
IInv ==
  /\ TypeOK
  /\ PastRunsAreOver
  /\ RemovedSoFar
  /\ SetUpSoFar

\* The strengthened invariant holds initially and is kept by every step.
THEOREM CredentialsInvariance == Spec => []IInv
<1>1. Init => IInv
  <2> SUFFICES ASSUME Init PROVE IInv
    OBVIOUS
  <2> USE CredentialsAssumption DEF Init
  <2>1. TypeOK
    <3>1. PcOK BY DEF PcOK, Pcs
    <3>2. BoundsOK BY DEF BoundsOK
    <3>3. HolderOK /\ ClusterOK BY DEF HolderOK, ClusterOK
    <3>4. RunOK BY DEF RunOK
    <3> QED BY <3>1, <3>2, <3>3, <3>4
            DEF TypeOK, PcOK, BoundsOK, HolderOK, ClusterOK, RunOK
  <2>2. \A r \in Runs : ~Active(r) /\ pc[r] = "idle"
    BY DEF Active, Provisioning, TearingDown
  <2>4. PastRunsAreOver BY DEF PastRunsAreOver
  <2>5. RemovedSoFar
    BY DEF RemovedSoFar, AfterBindings, AfterPolicies, AfterUnlabel, AfterRoleBindings,
           AfterRoles
  <2>6. SetUpSoFar BY <2>2 DEF SetUpSoFar, AloneIsAlone, BaselineScans, Active
  <2> QED BY <2>1, <2>4, <2>5, <2>6 DEF IInv
<1>2. IInv /\ [Next]_vars => IInv'
  <2> SUFFICES ASSUME IInv, [Next]_vars PROVE IInv'
    OBVIOUS
  <2> USE DEF IInv
  <2>1. TypeOK' BY TypeStep
  <2>3. PastRunsAreOver' BY PastStep
  <2>4. RemovedSoFar' BY RemovedStep
  <2>5. SetUpSoFar'
    <3>1. AloneIsAlone' BY AloneStep DEF SetUpSoFar
    <3>2. BaselineScans' BY BaselineStep DEF SetUpSoFar
    <3>3. \A r \in Runs : alone'[r] /\ Active(r)' =>
            IdentitySoFar(r)' /\ (~unenforced'[r] => EnforcementSoFar(r)')
      BY SetUpStep
    <3> QED BY <3>1, <3>2, <3>3
            DEF SetUpSoFar, Active, IdentitySoFar, EnforcementSoFar, Present,
                AfterGuards, AfterPolicy, AfterScan
  <2> QED BY <2>1, <2>3, <2>4, <2>5
<1> QED BY <1>1, <1>2, PTL DEF Spec

\* The state of the cluster and of every run has its type.
THEOREM TypeCorrect == Spec => []TypeOK
<1>1. IInv => TypeOK BY DEF IInv
<1> QED BY <1>1, CredentialsInvariance, PTL

\* A teardown that says it removed everything did: nothing of this run, or of one that
\* was over before it, is on the cluster, whatever other runs do meanwhile.
THEOREM CleanTeardown == Spec => []CleanMeansRemoved
<1>1. IInv => CleanMeansRemoved
  <2> SUFFICES ASSUME IInv, NEW r \in Runs, pc[r] = "done", clean[r]
               PROVE  /\ \A o \in Objects : holder[o] \notin {r} \cup before[r]
                      /\ \A n \in Ordinary : marker[n] \notin {r} \cup before[r]
    BY DEF CleanMeansRemoved
  <2>1. Objects \subseteq PolicyBindings \cup Policies \cup RoleBindings
                          \cup {"roles", "bench-system"}
    BY DEF Objects, PolicyBindings, Policies, RoleBindings, NamespaceGuards, PodPolicy,
           ShellGuard, Rbac, Quota
  <2>2. RemovedSoFar BY DEF IInv
  <2> QED BY <2>1, <2>2
          DEF RemovedSoFar, Gone, AfterBindings, AfterPolicies, AfterUnlabel,
              AfterRoleBindings, AfterRoles
<1> QED BY <1>1, CredentialsInvariance, PTL

\* While an agent with the scoped credential has the cluster to itself, the guards,
\* and unless waived the pod policy and the shell guard, are in force over it.
THEOREM Enforced == Spec => []EnforcedWhileAgentRuns
<1>1. IInv => EnforcedWhileAgentRuns
  <2> SUFFICES ASSUME IInv, NEW r \in Runs, pc[r] = "agent", credential[r] = "token",
                      alone[r], ~unenforced[r]
               PROVE  /\ NamespaceGuards \cup ShellGuard \cup Rbac \subseteq Present
                      /\ ~plan[r].privileged =>
                           PolicyInForce /\ rogue \cap Ordinary \subseteq denied
                      /\ plan[r].privileged => denied = {}
    BY DEF EnforcedWhileAgentRuns, Scoped
  <2>1. SetUpSoFar BY DEF IInv
  <2>2. Active(r) BY DEF Active
  <2> QED BY <2>1, <2>2
          DEF SetUpSoFar, Active, IdentitySoFar, EnforcementSoFar, AfterGuards,
              AfterPolicy, AfterScan, PolicyInForce, Present
<1> QED BY <1>1, CredentialsInvariance, PTL

\* The quota role is bound exactly for the tasks that ask for it.
THEOREM QuotaIsTheTasks == Spec => []QuotaFollowsTask
<1>1. IInv => QuotaFollowsTask
  <2> SUFFICES ASSUME IInv, NEW r \in Runs, pc[r] = "agent", credential[r] = "token",
                      alone[r]
               PROVE  "quota binding" \in Present <=> plan[r].quota_writes
    BY DEF QuotaFollowsTask, Scoped
  <2>1. SetUpSoFar BY DEF IInv
  <2> QED BY <2>1 DEF SetUpSoFar, Active, IdentitySoFar, Present
<1> QED BY <1>1, CredentialsInvariance, PTL

\* A level that somebody else set, on a namespace that no run has marked or is about
\* to write, survives every later run and every teardown.
THEOREM SettledLevels == Spec => SettledLevelsSurvive
<1>1. IInv /\ [Next]_vars => \A n \in Ordinary : Settled(n) => Settled(n)'
  BY SettledStep DEF IInv, SetUpSoFar
<1> QED BY <1>1, CredentialsInvariance, PTL DEF Spec, SettledLevelsSurvive

=============================================================================
