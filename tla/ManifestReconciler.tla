------------------------- MODULE ManifestReconciler -------------------------
(***************************************************************************)
(* The Manifest controller of Lifecycle Manager reconciling one Manifest   *)
(* (one module of one Kyma runtime).  The Manifest lives in the control    *)
(* plane (KCP); its module's resources, its default module CR and the      *)
(* user's other module CRs live in the runtime cluster (SKR).              *)
(*                                                                         *)
(* A reconciliation is a sequence of steps, one per group of remote calls: *)
(* it reads the Manifest (possibly an older, cached version), changes the  *)
(* SKR and writes the Manifest once, at its end.  Everything else (the     *)
(* Kyma controller, users, the SKR's garbage collection, failures) moves   *)
(* between any two of its steps.                                           *)
(***************************************************************************)
EXTENDS Naturals, FiniteSets

CONSTANTS
    Resources,        \* identities of module resources in the SKR
    KymaNamespace,    \* the kyma-system Namespace, never pruned
    OperatorRelated,  \* resources the module operator needs to run
    Refs,             \* OCI references a Manifest may point to
    ResOf,            \* what each reference renders to
    InitialPolicies,  \* custom resource policies of a new Manifest
    Faults,           \* the kinds of failure that may happen
    MaxFaults,        \* bound: how many failures happen
    Changes,          \* the kinds of outside change that may happen
    MaxChanges,       \* bound: how many outside changes happen
    SettledOnly,      \* whether only a settled Manifest is changed or deleted
    SteadyCR          \* whether the default CR never vanishes between the two
                      \* looks one reconciliation takes at it

NoRef == "NoRef"

\* "none": no default CR in the module; "create" and "ignore": there is one,
\* with customResourcePolicy CreateAndDelete and Ignore.
Policies == {"none", "create", "ignore"}

\* declarative.kyma-project.io/finalizer, label-removal-finalizer and
\* resource.kyma-project.io/finalizer.
Default == "default"
LabelRemoval == "labelRemoval"
CRManager == "crManager"
Finalizers == {Default, LabelRemoval, CRManager}

States == {"", "Processing", "Ready", "Error", "Warning", "Deleting"}

\* The texts LastOperation.Operation takes, one per place that writes it.
Operations ==
    {"", "emptyState", "clientError", "orphaned", "specError",
     "renderError", "parsed", "sameLayerDiff", "pruneError", "applyError",
     "syncDiff", "crError", "crCreated", "managerError",
     "waitingForResources", "resourcesReady", "waitingForModuleCRs",
     "waitingForFinalizers"}

FaultKinds ==
    {"secretList", "client", "orphan", "spec", "render", "skr", "crRead",
     "abort"}

ChangeKinds == {"upgrade", "policy", "unmanage", "delete", "moduleCR",
                "defaultCR", "teardown", "rollout"}

ASSUME ResourcesAssumption ==
    /\ KymaNamespace \in Resources
    /\ OperatorRelated \subseteq Resources
    /\ NoRef \notin Refs
    /\ ResOf \in [Refs -> SUBSET Resources]

ASSUME BoundsAssumption ==
    /\ InitialPolicies \subseteq Policies
    /\ Faults \subseteq FaultKinds
    /\ Changes \subseteq ChangeKinds
    /\ MaxFaults \in Nat
    /\ MaxChanges \in Nat
    /\ SettledOnly \in BOOLEAN
    /\ SteadyCR \in BOOLEAN

VARIABLES
    kcp,        \* the Manifest in the KCP API server
    read,       \* the version of it this controller read last
    fresh,      \* whether that is still the latest resourceVersion
    pc,         \* where the running reconciliation is
    m,          \* its working copy of the Manifest
    target,     \* the resources it rendered
    cached,     \* whether the SKR client is in the client cache
    secret,     \* whether the SKR and its kubeconfig Secret exist
    skr,        \* the module's resources in the SKR
    labelled,   \* those carrying the managed-by label
    defaultCR,  \* the default module CR in the SKR
    moduleCRs,  \* whether the user has other module CRs
    manager,    \* the state of the module's Deployment or StatefulSet
    faults,     \* failures left
    changes     \* outside changes left

objVars == <<kcp, fresh>>
ctrlVars == <<read, pc, m, target, cached>>
skrVars == <<skr, labelled, defaultCR, moduleCRs, manager>>
envVars == <<secret, faults, changes>>
vars == <<kcp, read, fresh, pc, m, target, cached, secret, skr, labelled,
          defaultCR, moduleCRs, manager, faults, changes>>

Manifest ==
    [present: BOOLEAN, deleting: BOOLEAN, finalizers: SUBSET Finalizers,
     ref: Refs, policy: Policies, unmanaged: BOOLEAN,
     syncedRef: Refs \cup {NoRef}, state: States, op: Operations,
     synced: SUBSET Resources, parsed: BOOLEAN, crCreated: BOOLEAN]

NewManifest(ref, policy) ==
    [present |-> TRUE, deleting |-> FALSE, finalizers |-> {}, ref |-> ref,
     policy |-> policy, unmanaged |-> FALSE, syncedRef |-> NoRef,
     state |-> "", op |-> "", synced |-> {}, parsed |-> FALSE,
     crCreated |-> FALSE]

Gone(x) == [NewManifest(x.ref, x.policy) EXCEPT !.present = FALSE,
                                                !.unmanaged = x.unmanaged]

Presence == {"absent", "live", "terminating"}

Steps == {"idle", "prepare", "resolve", "prune", "removeCR", "sync",
          "defaultCR", "settle", "finish", "finishEvict"}

Init ==
    /\ \E ref \in Refs, policy \in InitialPolicies:
          /\ kcp = NewManifest(ref, policy)
          /\ read = Gone(kcp)
    /\ m = read
    /\ fresh = FALSE
    /\ pc = "idle"
    /\ target = {}
    /\ cached = FALSE
    /\ secret = TRUE
    /\ skr = [r \in Resources |-> "absent"]
    /\ labelled = {}
    /\ defaultCR = "absent"
    /\ moduleCRs = FALSE
    /\ manager = "Processing"
    /\ faults = MaxFaults
    /\ changes = MaxChanges

-----------------------------------------------------------------------------
(* Failures and the ways a reconciliation ends. *)

\* A failure of the given kind happens in this step.
Fault(kind) ==
    /\ kind \in Faults
    /\ faults > 0
    /\ faults' = faults - 1
    /\ UNCHANGED <<secret, changes>>

NoFault == UNCHANGED envVars

\* A call to the SKR fails: the SKR is gone, or the call failed by itself.
SkrCallFails == (~secret /\ NoFault) \/ (secret /\ Fault("skr"))

SkrCallSucceeds == secret /\ NoFault

\* Mutant of WithState: the two values swapped.
WithStateSwapped(x, state, op) == [x EXCEPT !.state = op, !.op = state]

WithState(x, state, op) == [x EXCEPT !.state = state, !.op = op]

\* finishReconcile: the status is patched in a step of its own.
Finish(x) ==
    /\ m' = x
    /\ pc' = "finish"
    /\ UNCHANGED objVars

\* finishReconcile after a failed SKR call: a connection error also evicts
\* the cached client.
FinishSkrError(x) ==
    /\ m' = x
    /\ pc' = IF secret THEN "finish" ELSE "finishEvict"
    /\ UNCHANGED objVars

\* The reconciliation ends without a write; it is requeued.
Requeue ==
    /\ pc' = "idle"
    /\ UNCHANGED <<m, kcp, fresh>>

\* The step calls the KCP only.
SkrUntouched == UNCHANGED <<read, target, cached>> /\ UNCHANGED skrVars

GoTo(step, x) ==
    /\ pc' = step
    /\ m' = x
    /\ UNCHANGED objVars

\* Removing the last finalizer of a deleted Manifest removes the Manifest.
Stored(x) == IF x.deleting /\ x.finalizers = {} THEN Gone(x) ELSE x

\* updateManifest: an Update carries the resourceVersion that was read, so
\* it takes effect only when that is still the latest one.
UpdateManifest(x) ==
    /\ pc' = "idle"
    /\ UNCHANGED m
    /\ IF fresh
       THEN /\ kcp' = Stored([kcp EXCEPT !.finalizers = x.finalizers,
                                         !.syncedRef = x.syncedRef])
            /\ fresh' = FALSE
       ELSE UNCHANGED objVars

\* RemoveAllFinalizers ranges over the list that RemoveFinalizer compacts in
\* place, so of three finalizers one (never the first, the default one) is
\* skipped and stays until the next reconciliation.
RemoveAllFinalizers(fs) ==
    IF Cardinality(fs) = 3 THEN {{f} : f \in fs \ {Default}} ELSE {{}}

\* Mutant of RemoveRequiredFinalizers: the CR finalizer goes with the others.
RemoveRequiredAndCR(fs) == {fs \ {Default, LabelRemoval, CRManager}}

RemoveRequiredFinalizers(fs) == {fs \ {Default, LabelRemoval}}

\* cleanupManifest; left holds the possible results of removing finalizers.
CleanupManifest(x, left) ==
    \E fs \in left:
        \/ /\ fs # x.finalizers
           /\ UpdateManifest([x EXCEPT !.finalizers = fs])
        \/ /\ fs = x.finalizers
           /\ Finish(IF x.state # "Warning"
                     THEN WithState(x, "Deleting", "waitingForFinalizers")
                     ELSE x)

-----------------------------------------------------------------------------
(* The steps of a reconciliation. *)

\* Reconcile reads the latest version of the Manifest.
StartFresh ==
    /\ pc = "idle"
    /\ ~(fresh /\ ~kcp.present)
    /\ read' = kcp
    /\ fresh' = TRUE
    /\ m' = kcp
    /\ pc' = IF kcp.present THEN "prepare" ELSE "idle"
    /\ UNCHANGED <<kcp, target, cached>> /\ UNCHANGED skrVars /\ NoFault

\* Reconcile reads a version the cache still holds although it was replaced.
StartStale ==
    /\ pc = "idle"
    /\ ~fresh
    /\ read.present
    /\ m' = read
    /\ pc' = "prepare"
    /\ UNCHANGED <<read, target, cached>> /\ UNCHANGED objVars
    /\ UNCHANGED skrVars /\ NoFault

\* status.Initialize of a Manifest without a state.
InitializeStatus ==
    /\ pc = "prepare"
    /\ m.state = ""
    /\ Finish(WithState(m, "Processing", "emptyState"))
    /\ SkrUntouched /\ NoFault

\* getTargetClient takes the client from the cache or builds it from the
\* kubeconfig Secret.
GetTargetClient ==
    /\ pc = "prepare"
    /\ m.state # ""
    /\ cached \/ secret
    /\ cached' = TRUE
    /\ GoTo("resolve", m)
    /\ UNCHANGED <<read, target>> /\ UNCHANGED skrVars /\ NoFault

\* getTargetClient finds no kubeconfig Secret; a failure to list Secrets is
\* reported as ErrAccessSecretNotFound too.
AccessSecretNotFound ==
    /\ pc = "prepare"
    /\ m.state # ""
    /\ ~cached
    /\ (~secret /\ NoFault) \/ (secret /\ Fault("secretList"))
    /\ IF m.deleting
       THEN CleanupManifest(m, RemoveAllFinalizers(m.finalizers))
       ELSE Finish(WithState(m, "Error", "clientError"))
    /\ SkrUntouched

\* getTargetClient fails in any other way.
TargetClientFails ==
    /\ pc = "prepare"
    /\ m.state # ""
    /\ ~cached
    /\ secret
    /\ Fault("client")
    /\ Finish(WithState(m, "Error", "clientError"))
    /\ SkrUntouched

\* Mutant of RemoveLabels: the operator-related resources are forgotten.
RemoveManagedLabels(rs) == labelled' = labelled \ (rs \ OperatorRelated)

\* removeFromSyncedResources.
RemoveLabels(rs) == labelled' = labelled \ rs

\* handleUnmanagedManifest while the label-removal finalizer is there: take
\* the managed-by label off every synced resource, then drop the finalizer.
\* A synced resource that is missing stops the loop, whatever it did so far.
RemoveManagedByLabel ==
    /\ pc = "resolve"
    /\ ~m.deleting
    /\ m.unmanaged
    /\ LabelRemoval \in m.finalizers
    /\ \/ /\ SkrCallSucceeds
          /\ \A r \in m.synced: skr[r] # "absent"
          /\ RemoveLabels(m.synced)
          /\ UpdateManifest([m EXCEPT !.finalizers = @ \ {LabelRemoval}])
       \/ /\ SkrCallFails \/ (NoFault /\ \E r \in m.synced: skr[r] = "absent")
          /\ \E done \in SUBSET {r \in m.synced: secret /\ skr[r] # "absent"}:
                RemoveLabels(done)
          /\ Requeue
    /\ UNCHANGED <<read, target, cached, skr, defaultCR, moduleCRs, manager>>

\* handleUnmanagedManifest once the labels are gone: delete the Manifest.
DeleteUnmanaged ==
    /\ pc = "resolve"
    /\ ~m.deleting
    /\ m.unmanaged
    /\ LabelRemoval \notin m.finalizers
    /\ pc' = "idle"
    /\ IF kcp.present
       THEN /\ kcp' = Stored([kcp EXCEPT !.deleting = TRUE])
            /\ fresh' = FALSE
       ELSE UNCHANGED objVars
    /\ UNCHANGED m /\ SkrUntouched /\ NoFault

\* prepareDeleteReconcile of an unmanaged Manifest: drop every finalizer and
\* leave the SKR alone.
CleanupUnmanaged ==
    /\ pc = "resolve"
    /\ m.deleting
    /\ m.unmanaged
    /\ CleanupManifest(m, RemoveAllFinalizers(m.finalizers))
    /\ SkrUntouched /\ NoFault

\* DetectOrphanedManifest finds no Kyma that lists this Manifest.
DetectOrphan ==
    /\ pc = "resolve"
    /\ ~m.deleting
    /\ ~m.unmanaged
    /\ Fault("orphan")
    /\ Finish(WithState(m, "Error", "orphaned"))
    /\ SkrUntouched

FinalizersUpdateRequired(x) == ~({Default, LabelRemoval} \subseteq x.finalizers)

\* SsaSpec applies metadata and spec as they were read, without a
\* resourceVersion: it overwrites a newer spec, re-creates a Manifest that
\* was deleted meanwhile, and is rejected only for adding a finalizer to a
\* Manifest that is being deleted.
SsaSpec(x) ==
    CASE ~kcp.present ->
            kcp' = [NewManifest(x.ref, x.policy) EXCEPT
                        !.finalizers = x.finalizers, !.syncedRef = x.syncedRef]
      [] kcp.present /\ kcp.deleting /\ FinalizersUpdateRequired(kcp) ->
            UNCHANGED kcp
      [] OTHER ->
            kcp' = [kcp EXCEPT
                        !.finalizers = @ \cup x.finalizers,
                        !.ref = x.ref,
                        !.policy = x.policy,
                        !.syncedRef = IF x.syncedRef = NoRef THEN @
                                      ELSE x.syncedRef]

AddFinalizers ==
    /\ pc = "resolve"
    /\ ~m.deleting
    /\ ~m.unmanaged
    /\ FinalizersUpdateRequired(m)
    /\ SsaSpec([m EXCEPT !.finalizers = @ \cup {Default, LabelRemoval}])
    /\ fresh' = FALSE
    /\ pc' = "idle"
    /\ UNCHANGED m /\ SkrUntouched /\ NoFault

\* The Manifest is managed and, unless it is being deleted, has its finalizers.
Prepared ==
    /\ pc = "resolve"
    /\ ~m.unmanaged
    /\ m.deleting \/ ~FinalizersUpdateRequired(m)

\* GetSpec cannot resolve the OCI layer.  A deleted Manifest then loses its
\* required finalizers although nothing was pruned.
SpecFails ==
    /\ Prepared
    /\ Fault("spec")
    /\ LET x == WithState(m, "Error", "specError") IN
       IF m.deleting
       THEN CleanupManifest(x, RemoveRequiredFinalizers(x.finalizers))
       ELSE Finish(x)
    /\ SkrUntouched

\* The first reconciliation records the reference in an annotation.
TrackSpec ==
    /\ Prepared
    /\ m.syncedRef = NoRef
    /\ UpdateManifest([m EXCEPT !.syncedRef = m.ref])
    /\ SkrUntouched /\ NoFault

SpecTracked == Prepared /\ m.syncedRef # NoRef

\* The module CRs that hold up the deletion: all but the default one, which
\* counts among them only under the Ignore policy.
OtherModuleCRsExist ==
    \/ m.policy # "none" /\ moduleCRs
    \/ m.policy = "ignore" /\ defaultCR # "absent"

\* Mutant of DefaultCRExists: a CR that is being deleted counts as gone.
LiveDefaultCRExists == m.policy = "create" /\ defaultCR = "live"

DefaultCRExists == m.policy = "create" /\ defaultCR # "absent"

SetResourcesConditionTrue(x) ==
    IF x.parsed THEN x ELSE [x EXCEPT !.parsed = TRUE, !.op = "parsed"]

\* renderResourcesForInstall.
RenderForInstall ==
    /\ SpecTracked
    /\ ~m.deleting
    /\ target' = ResOf[m.ref]
    /\ GoTo("prune", SetResourcesConditionTrue(m))
    /\ UNCHANGED <<read, cached>> /\ UNCHANGED skrVars /\ NoFault

\* Rendering fails: the layer does not parse, a transform fails (only the
\* deployer module's secret injection sets the state) or the REST mapper
\* cannot reach the SKR.
RenderFails ==
    /\ SpecTracked
    /\ m.deleting => secret /\ DefaultCRExists /\ ~OtherModuleCRsExist
    /\ \/ /\ ~secret
          /\ NoFault
          /\ FinishSkrError(m)
       \/ /\ Fault("render")
          /\ \/ Finish(m)
             \/ ~m.deleting /\ Finish(WithState(m, "Error", "renderError"))
    /\ SkrUntouched

\* renderResourcesForDelete while the user still has module CRs.
WaitForModuleCRs ==
    /\ SpecTracked
    /\ m.deleting
    /\ SkrCallSucceeds
    /\ OtherModuleCRsExist
    /\ Finish(WithState(m, "Deleting", "waitingForModuleCRs"))
    /\ SkrUntouched

\* renderResourcesForDelete otherwise: everything stays while the default CR
\* is there, nothing stays afterwards.  A List that fails counts as empty.
RenderForDelete ==
    /\ SpecTracked
    /\ m.deleting
    /\ \/ /\ SkrCallSucceeds
          /\ ~OtherModuleCRsExist
          /\ target' = IF DefaultCRExists THEN ResOf[m.ref] ELSE {}
       \/ /\ m.policy # "none"
          /\ secret
          /\ Fault("crRead")
          /\ \/ target' = IF DefaultCRExists THEN ResOf[m.ref] ELSE {}
             \/ ~OtherModuleCRsExist /\ target' = {}
       \/ /\ ~secret
          /\ NoFault
          /\ target' = {}
    /\ GoTo("prune", IF target' = {} THEN m ELSE SetResourcesConditionTrue(m))
    /\ cached' = (cached /\ m.synced # {})
    /\ UNCHANGED read /\ UNCHANGED skrVars

\* renderResourcesForDelete cannot find out which module CRs there are.
ListModuleCRsFails ==
    /\ SpecTracked
    /\ m.deleting
    /\ m.policy # "none"
    /\ SkrCallFails
    /\ FinishSkrError(WithState(m, "Error", "crError"))
    /\ SkrUntouched

Diff == (m.synced \ target) \ {KymaNamespace}

\* pruneDiff of an unchanged layer: the parse must be incomplete.
DiffInSameLayer ==
    /\ pc = "prune"
    /\ Diff # {}
    /\ ~m.deleting
    /\ m.syncedRef = m.ref
    /\ Finish(WithState(m, "Warning", "sameLayerDiff"))
    /\ SkrUntouched /\ NoFault

MayPrune == pc = "prune" /\ (Diff = {} \/ m.deleting \/ m.syncedRef # m.ref)

\* Mutants of Batch: the second half forgotten; no order.
ManagedOnly == Diff \ OperatorRelated
Unordered == Diff

\* DeleteDiffResources works on the operator-managed resources until they
\* are all gone and on the operator-related ones only then.
Batch ==
    LET managed == Diff \ OperatorRelated
    IN  IF \A r \in managed: skr[r] = "absent"
        THEN Diff \cap OperatorRelated ELSE managed

DeleteResources(rs) ==
    skr' = [r \in Resources |->
                IF r \in rs /\ skr[r] = "live" THEN "terminating" ELSE skr[r]]

\* Mutant of PruneDiff: an upgrade does not wait for the deletions.
PruneWithoutWaiting ==
    /\ MayPrune
    /\ Diff # {} => secret
    /\ NoFault
    /\ DeleteResources(Batch)
    /\ IF m.deleting /\ \E r \in Batch: skr[r] # "absent" THEN Requeue
       ELSE GoTo(IF m.deleting THEN "removeCR" ELSE "sync", m)
    /\ UNCHANGED <<read, target, cached, labelled, defaultCR, moduleCRs, manager>>

PruneDiff ==
    /\ MayPrune
    /\ Diff # {} => secret
    /\ NoFault
    /\ IF \A r \in Batch: skr[r] = "absent"
       THEN /\ GoTo(IF m.deleting THEN "removeCR" ELSE "sync", m)
            /\ UNCHANGED skr
       ELSE /\ DeleteResources(Batch)
            /\ Requeue
    /\ UNCHANGED <<read, target, cached, labelled, defaultCR, moduleCRs, manager>>

\* Some of the concurrent Delete calls fail.
PruneFails ==
    /\ MayPrune
    /\ Diff # {}
    /\ SkrCallFails
    /\ \E rs \in SUBSET Batch: (rs # {} => secret) /\ DeleteResources(rs)
    /\ FinishSkrError(WithState(m, "Error", "pruneError"))
    /\ UNCHANGED <<read, target, cached, labelled, defaultCR, moduleCRs, manager>>

\* RemoveDefaultModuleCR asks for the default CR's deletion as long as it
\* sees one.
DeleteDefaultCR ==
    /\ pc = "removeCR"
    /\ DefaultCRExists
    /\ SkrCallSucceeds
    /\ defaultCR' = "terminating"
    /\ GoTo("sync", m)
    /\ UNCHANGED <<read, target, cached, skr, labelled, moduleCRs, manager>>

\* RemoveDefaultModuleCR sees no default CR: RemoveCRFinalizer reads the
\* Manifest again and takes the finalizer off that version.
RemoveCRFinalizer ==
    /\ pc = "removeCR"
    /\ m.policy = "create"
    /\ \/ ~DefaultCRExists /\ NoFault
       \/ ~secret /\ NoFault
       \/ DefaultCRExists /\ secret /\ Fault("crRead")
    /\ \E latest \in {TRUE, fresh}:
          LET onCluster == IF latest THEN kcp ELSE read IN
          \/ /\ onCluster.present => CRManager \notin onCluster.finalizers
             /\ GoTo("sync", m)
          \/ /\ onCluster.present
             /\ CRManager \in onCluster.finalizers
             /\ IF latest
                THEN /\ kcp' = Stored([kcp EXCEPT !.finalizers = @ \ {CRManager}])
                     /\ fresh' = FALSE
                     /\ pc' = "idle"
                     /\ UNCHANGED m
                ELSE Finish([m EXCEPT !.op = "crError"])
    /\ SkrUntouched

\* RemoveDefaultModuleCR of a Manifest whose module has no CR to remove.
SkipDefaultCR ==
    /\ pc = "removeCR"
    /\ m.policy # "create"
    /\ GoTo("sync", m)
    /\ SkrUntouched /\ NoFault

RemoveDefaultCRFails ==
    /\ pc = "removeCR"
    /\ m.policy = "create"
    /\ SkrCallFails
    /\ FinishSkrError([m EXCEPT !.op = "crError"])
    /\ SkrUntouched

ApplyResources(rs) ==
    /\ skr' = [r \in Resources |->
                  IF r \in rs /\ skr[r] = "absent" THEN "live" ELSE skr[r]]
    /\ labelled' = labelled \cup rs
    /\ manager' = IF \E r \in rs: skr[r] = "absent" THEN "Processing" ELSE manager

\* Mutant of HasDiff: the lengths are not compared.
HasRemoval(old, new) == ~(old \subseteq new)

HasDiff(old, new) == old # new

\* Mutant of StatusAfterDiff: the branch for a deletion forgotten.
StatusAfterInstallDiff(x) ==
    IF x.deleting THEN x
    ELSE [WithState(x, "Processing", "syncDiff") EXCEPT !.synced = target]

\* The status SyncResources leaves when what it applied is not what was
\* synced before.
StatusAfterDiff(x) ==
    CASE ~x.deleting ->
            [WithState(x, "Processing", "syncDiff") EXCEPT !.synced = target]
      [] x.deleting /\ x.state # "Warning" ->
            [WithState(x, "Deleting", "syncDiff") EXCEPT !.synced = target]
      [] OTHER -> x

\* SyncResources.
SyncResources ==
    /\ pc = "sync"
    /\ target # {} => secret
    /\ NoFault
    /\ ApplyResources(target)
    /\ IF HasDiff(m.synced, target)
       THEN Finish(StatusAfterDiff(m))
       ELSE GoTo(IF m.deleting THEN "settle" ELSE "defaultCR", m)
    /\ UNCHANGED <<read, target, cached, defaultCR, moduleCRs>>

\* Some of the concurrent server-side applies fail.
SyncFails ==
    /\ pc = "sync"
    /\ target # {}
    /\ SkrCallFails
    /\ \E rs \in SUBSET target: (rs # {} => secret) /\ ApplyResources(rs)
    /\ FinishSkrError(WithState(m, "Error", "applyError"))
    /\ UNCHANGED <<read, target, cached, defaultCR, moduleCRs>>

ShouldCreateDefaultModuleCR(x) == x.policy = "create"

SetModuleCRInstallConditionTrue(x) ==
    [x EXCEPT !.crCreated = TRUE, !.op = "crCreated"]

\* syncDefaultModuleCR creates the default CR once.  A Get that fails with
\* anything but NotFound counts as success.
SyncDefaultModuleCR ==
    /\ pc = "defaultCR"
    /\ IF ShouldCreateDefaultModuleCR(m) /\ ~m.crCreated
       THEN /\ \/ /\ SkrCallSucceeds
                  /\ defaultCR' = IF defaultCR = "absent" THEN "live" ELSE defaultCR
               \/ /\ (~secret /\ NoFault) \/ (secret /\ Fault("crRead"))
                  /\ UNCHANGED defaultCR
            /\ GoTo("settle", SetModuleCRInstallConditionTrue(m))
       ELSE /\ GoTo("settle", m)
            /\ NoFault
            /\ UNCHANGED defaultCR
    /\ UNCHANGED <<read, target, cached, skr, labelled, moduleCRs, manager>>

\* The Create of the default CR fails.
CreateDefaultCRFails ==
    /\ pc = "defaultCR"
    /\ ShouldCreateDefaultModuleCR(m)
    /\ ~m.crCreated
    /\ defaultCR = "absent"
    /\ secret
    /\ Fault("skr")
    /\ Finish(WithState(m, "Error", "crError"))
    /\ SkrUntouched

CRFinalizerMissing ==
    /\ m.policy = "create"
    /\ CRManager \notin m.finalizers

\* EnsureCRFinalizer applies the finalizers that were read and its own.  The
\* status of this reconciliation is not patched.
EnsureCRFinalizer ==
    /\ pc = "settle"
    /\ ~m.deleting
    /\ CRFinalizerMissing
    /\ kcp.present
    /\ IF kcp.deleting /\ CRManager \notin kcp.finalizers
       THEN Finish(m)
       ELSE /\ kcp' = [kcp EXCEPT !.finalizers = @ \cup m.finalizers \cup {CRManager}]
            /\ fresh' = FALSE
            /\ pc' = "idle"
            /\ UNCHANGED m
    /\ SkrUntouched /\ NoFault

\* RequireManifestStateUpdateAfterSyncResource.
StateAfterSync(x, new) ==
    WithState(x, new, IF new = "Processing" THEN "waitingForResources"
                      ELSE "resourcesReady")

\* updateManifestStateAfterSync and what follows it in install.
SettleInstall ==
    /\ pc = "settle"
    /\ ~m.deleting
    /\ ~CRFinalizerMissing
    /\ NoFault
    /\ CASE manager = "Error" ->
               Finish(WithState(m, "Error", "managerError"))
         [] manager \notin {"Error", m.state} ->
               Finish(StateAfterSync(m, manager))
         [] manager = m.state /\ m.syncedRef # m.ref ->
               UpdateManifest([m EXCEPT !.syncedRef = m.ref])
         [] OTHER ->
               Finish(m)
    /\ SkrUntouched

\* The manager's pods cannot be listed.
CheckManagerFails ==
    /\ pc = "settle"
    /\ ~m.deleting
    /\ ~CRFinalizerMissing
    /\ SkrCallFails
    /\ FinishSkrError(WithState(m, "Error", "managerError"))
    /\ SkrUntouched

\* updateDeletingState and what follows it in delete.
SettleDelete ==
    /\ pc = "settle"
    /\ m.deleting
    /\ CASE m.state # "Deleting" ->
               Finish(StateAfterSync(m, "Deleting"))
         [] m.state = "Deleting" /\ m.syncedRef # m.ref ->
               UpdateManifest([m EXCEPT !.syncedRef = m.ref])
         [] OTHER ->
               CleanupManifest(m, RemoveRequiredFinalizers(m.finalizers))
    /\ SkrUntouched /\ NoFault

\* Mutant of HasStatusDiff: the operation is not compared.
HasStateDiff(x, y) == x.state # y.state

\* HasStatusDiff compares the state and the last operation, nothing else.
HasStatusDiff(x, y) == x.state # y.state \/ x.op # y.op

\* finishReconcile: PatchStatusIfDiffExist, then evict the client after a
\* connection error.  The patch carries no resourceVersion.
FinishReconcile ==
    /\ pc \in {"finish", "finishEvict"}
    /\ pc' = "idle"
    /\ IF HasStatusDiff(m, read) /\ kcp.present
       THEN /\ kcp' = [kcp EXCEPT !.state = m.state, !.op = m.op,
                                  !.synced = m.synced, !.parsed = m.parsed,
                                  !.crCreated = m.crCreated]
            /\ fresh' = FALSE
       ELSE UNCHANGED objVars
    /\ cached' = (cached /\ pc = "finish")
    /\ UNCHANGED <<read, m, target>> /\ UNCHANGED skrVars /\ NoFault

\* The controller restarts, or a call to the KCP API server fails.
Abort ==
    /\ pc # "idle"
    /\ Fault("abort")
    /\ pc' = "idle"
    /\ cached' \in {cached, FALSE}
    /\ UNCHANGED <<read, m, target>> /\ UNCHANGED objVars /\ UNCHANGED skrVars

\* The cached SKR client reaches its TTL.  Only getTargetClient can tell, so
\* the step is taken just before it.
ClientExpires ==
    /\ pc = "prepare"
    /\ cached
    /\ cached' = FALSE
    /\ UNCHANGED <<read, pc, m, target>> /\ UNCHANGED objVars
    /\ UNCHANGED skrVars /\ NoFault

-----------------------------------------------------------------------------
(* Everything around the controller. *)

\* Someone outside makes a change of the given kind.
Change(kind) ==
    /\ kind \in Changes
    /\ changes > 0
    /\ changes' = changes - 1
    /\ UNCHANGED faults /\ UNCHANGED ctrlVars

Settled ==
    /\ kcp.state = "Ready"
    /\ kcp.syncedRef = kcp.ref
    /\ kcp.policy = "create" => CRManager \in kcp.finalizers
    /\ ~kcp.deleting
    /\ ~kcp.unmanaged

\* The Kyma controller applies another version of the module.
Upgrade ==
    /\ Change("upgrade")
    /\ kcp.present
    /\ SettledOnly => Settled
    /\ \E ref \in Refs \ {kcp.ref}: kcp' = [kcp EXCEPT !.ref = ref]
    /\ fresh' = FALSE
    /\ UNCHANGED secret /\ UNCHANGED skrVars

\* The Kyma controller applies another customResourcePolicy or default CR.
ChangePolicy ==
    /\ Change("policy")
    /\ kcp.present
    /\ SettledOnly => Settled
    /\ \E policy \in Policies \ {kcp.policy}: kcp' = [kcp EXCEPT !.policy = policy]
    /\ fresh' = FALSE
    /\ UNCHANGED secret /\ UNCHANGED skrVars

\* The Kyma controller marks the module unmanaged, or managed again.
ChangeManaged ==
    /\ Change("unmanage")
    /\ kcp.present
    /\ SettledOnly => Settled
    /\ kcp' = [kcp EXCEPT !.unmanaged = ~@]
    /\ fresh' = FALSE
    /\ UNCHANGED secret /\ UNCHANGED skrVars

\* The Kyma controller (or a user) deletes the Manifest.
DeleteManifest ==
    /\ Change("delete")
    /\ kcp.present
    /\ ~kcp.deleting
    /\ SettledOnly => ~kcp.unmanaged /\ (kcp.policy = "create" => Settled)
    /\ kcp' = Stored([kcp EXCEPT !.deleting = TRUE])
    /\ fresh' = FALSE
    /\ UNCHANGED secret /\ UNCHANGED skrVars

\* A user of the SKR creates a module CR of their own.
CreateModuleCR ==
    /\ Change("moduleCR")
    /\ secret
    /\ moduleCRs' = TRUE
    /\ UNCHANGED <<secret, skr, labelled, defaultCR, manager>> /\ UNCHANGED objVars

\* A user of the SKR deletes the default CR.
DeleteDefaultCRByUser ==
    /\ Change("defaultCR")
    /\ defaultCR = "live"
    /\ defaultCR' = "terminating"
    /\ UNCHANGED <<secret, skr, labelled, moduleCRs, manager>> /\ UNCHANGED objVars

\* The SKR is deprovisioned together with its kubeconfig Secret.
TearDownSkr ==
    /\ Change("teardown")
    /\ secret
    /\ secret' = FALSE
    /\ skr' = [r \in Resources |-> "absent"]
    /\ labelled' = {}
    /\ defaultCR' = "absent"
    /\ moduleCRs' = FALSE
    /\ UNCHANGED manager /\ UNCHANGED objVars

\* The module's manager restarts its rollout, or fails.
DisturbManager ==
    /\ Change("rollout")
    /\ manager' \in {"Processing", "Error"} \ {manager}
    /\ UNCHANGED <<secret, skr, labelled, defaultCR, moduleCRs>> /\ UNCHANGED objVars

SkrStep == UNCHANGED objVars /\ UNCHANGED ctrlVars /\ NoFault

\* The module's manager becomes available.
ManagerReady ==
    /\ manager # "Ready"
    /\ manager' = "Ready"
    /\ UNCHANGED <<skr, labelled, defaultCR, moduleCRs>> /\ SkrStep

\* The SKR finishes the deletion of a resource.
ResourceGone(r) ==
    /\ skr[r] = "terminating"
    /\ skr' = [skr EXCEPT ![r] = "absent"]
    /\ labelled' = labelled \ {r}
    /\ UNCHANGED <<defaultCR, moduleCRs, manager>> /\ SkrStep

\* The module operator finishes the deletion of the default CR.
DefaultCRGone ==
    /\ defaultCR = "terminating"
    /\ SteadyCR => pc \notin {"prune", "removeCR"}
    /\ defaultCR' = "absent"
    /\ UNCHANGED <<skr, labelled, moduleCRs, manager>> /\ SkrStep

\* The user's module CRs are gone.
ModuleCRsGone ==
    /\ moduleCRs
    /\ moduleCRs' = FALSE
    /\ UNCHANGED <<skr, labelled, defaultCR, manager>> /\ SkrStep

Reconcile ==
    \/ InitializeStatus \/ GetTargetClient \/ AccessSecretNotFound
    \/ TargetClientFails \/ RemoveManagedByLabel \/ DeleteUnmanaged
    \/ CleanupUnmanaged \/ DetectOrphan \/ AddFinalizers \/ SpecFails
    \/ TrackSpec \/ RenderForInstall \/ RenderFails \/ WaitForModuleCRs
    \/ RenderForDelete \/ ListModuleCRsFails \/ DiffInSameLayer \/ PruneDiff
    \/ PruneFails \/ DeleteDefaultCR \/ RemoveCRFinalizer \/ SkipDefaultCR
    \/ RemoveDefaultCRFails \/ SyncResources \/ SyncFails
    \/ SyncDefaultModuleCR \/ CreateDefaultCRFails \/ EnsureCRFinalizer
    \/ SettleInstall \/ CheckManagerFails \/ SettleDelete \/ FinishReconcile

Outside ==
    \/ Upgrade \/ ChangePolicy \/ ChangeManaged \/ DeleteManifest
    \/ CreateModuleCR \/ DeleteDefaultCRByUser \/ TearDownSkr \/ DisturbManager

Cluster ==
    \/ ManagerReady \/ DefaultCRGone \/ ModuleCRsGone
    \/ \E r \in Resources: ResourceGone(r)

Next ==
    \/ StartFresh \/ StartStale \/ Reconcile \/ Abort \/ ClientExpires
    \/ Outside \/ Cluster

Spec == Init /\ [][Next]_vars

-----------------------------------------------------------------------------

(* The properties. *)

\* Every variable has its type: in particular the status fields hold only the
\* values the controller writes.
TypeOK ==
    /\ kcp \in Manifest /\ read \in Manifest /\ m \in Manifest
    /\ fresh \in BOOLEAN /\ cached \in BOOLEAN /\ secret \in BOOLEAN
    /\ moduleCRs \in BOOLEAN
    /\ pc \in Steps
    /\ target \in SUBSET Resources
    /\ labelled \in SUBSET Resources
    /\ skr \in [Resources -> Presence]
    /\ defaultCR \in Presence
    /\ manager \in {"Processing", "Ready", "Error"}
    /\ faults \in 0..MaxFaults
    /\ changes \in 0..MaxChanges

\* When a managed Manifest is gone and its SKR is not, the module's resources
\* are gone too, all but the kyma-system Namespace that pruneResource spares:
\* the finalizers go only after what the controller applied was pruned.
NothingLeftBehind ==
    ~kcp.present /\ ~kcp.unmanaged /\ secret => labelled \subseteq {KymaNamespace}

\* When an unmanaged Manifest is gone, none of the module's resources carries
\* the managed-by label any more, with the same exception
\* (handleUnmanagedManifest deletes the Manifest only afterwards).
UnmanagedLosesLabels ==
    ~kcp.present /\ kcp.unmanaged /\ secret => labelled \subseteq {KymaNamespace}

\* A Manifest that has a default CR goes away only after that CR
\* (RemoveDefaultModuleCR keeps the CR finalizer until then).
ManifestOutlivesDefaultCR ==
    [][kcp.present /\ ~kcp'.present /\ kcp.policy = "create" /\ secret
          /\ ~kcp.unmanaged
       => defaultCR = "absent"]_vars

AnnotationMoves ==
    /\ kcp.present /\ kcp'.present
    /\ kcp.syncedRef # NoRef
    /\ kcp'.syncedRef # kcp.syncedRef

\* The sync-oci-ref annotation moves to a reference only when the status
\* lists exactly the resources of that reference, or nothing is left of a
\* deleted module (the end of install and of delete).
AnnotationFollowsSync ==
    [][AnnotationMoves
       => \/ kcp.synced = ResOf[kcp'.syncedRef]
          \/ kcp.deleting /\ kcp.synced = {}]_vars

\* By then nothing of the old reference is left that the new one lacks, so an
\* upgrade leaves no orphan although it spans many reconciliations.
UpgradeComplete ==
    [][AnnotationMoves /\ secret
       => \A r \in ResOf[kcp.syncedRef] \ (ResOf[kcp'.syncedRef] \cup {KymaNamespace}):
             skr[r] = "absent"]_vars

DeletesOperatorPart ==
    \E r \in OperatorRelated: skr[r] = "live" /\ skr'[r] = "terminating"

\* The module operator is still there to finalize the default CR: what the
\* operator runs on is deleted only when that CR is gone
\* (renderResourcesForDelete).
OperatorOutlivesCR ==
    [][kcp.deleting /\ DeletesOperatorPart => defaultCR = "absent"]_vars

\* It is also still there to finalize the resources it manages
\* (DeleteDiffResources deletes those first).
OperatorDeletedLast ==
    [][kcp.deleting /\ DeletesOperatorPart
       => labelled \subseteq OperatorRelated]_vars

\* The work queue retries a reconciliation that failed and requeues one that
\* succeeded, and the cache catches up in the end, so reconciliations run on
\* and keep starting from the latest version.  The SKR finishes deletions.
\* Nothing makes the manager available or removes the user's module CRs.
Fairness ==
    /\ WF_vars(Reconcile)
    /\ SF_vars(StartFresh)
    /\ WF_vars(DefaultCRGone)
    /\ \A r \in Resources: WF_vars(ResourceGone(r))

FairSpec == Spec /\ Fairness

InSync ==
    /\ kcp.state = manager
    /\ manager # "Error" => kcp.syncedRef = kcp.ref
    /\ kcp.synced = ResOf[kcp.ref]
    /\ labelled \ {KymaNamespace} = ResOf[kcp.ref] \ {KymaNamespace}
    /\ \A r \in ResOf[kcp.ref]: skr[r] = "live"

\* Once the outside changes end, the Manifest is gone (a deletion waits only
\* for the user's module CRs), or the SKR is, or everything is in sync.
EventuallySettles ==
    <>[](\/ ~kcp.present
         \/ kcp.deleting /\ moduleCRs
         \/ ~kcp.deleting /\ ~secret
         \/ InSync)

\* A deleted Manifest shows the state Deleting, unless it is gone first.
DeletingIsShown ==
    [](kcp.deleting => <>(~kcp.present \/ kcp.state = "Deleting"))

\* A module whose manager stays available is Ready in the end.
ReadyWhenUp ==
    <>[](kcp.present /\ ~kcp.deleting /\ ~kcp.unmanaged /\ secret
            /\ manager = "Ready")
    => <>(kcp.state = "Ready" /\ kcp.syncedRef = kcp.ref)
=============================================================================
