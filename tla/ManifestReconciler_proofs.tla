---------------------- MODULE ManifestReconciler_proofs ----------------------
(***************************************************************************)
(* Proofs about ManifestReconciler for every set of resources, references, *)
(* policies, failures and changes and for every bound.                     *)
(***************************************************************************)
EXTENDS ManifestReconciler, TLAPS

-----------------------------------------------------------------------------
(* What the operators on Manifests return. *)

\* Setting the state and the operation of a Manifest's status gives a Manifest.
LEMMA WithStateType ==
    ASSUME NEW x \in Manifest, NEW s \in States, NEW o \in Operations
    PROVE  WithState(x, s, o) \in Manifest
BY Zenon DEF WithState, Manifest

\* A Manifest as the Kyma controller creates it is a Manifest.
LEMMA NewManifestType ==
    ASSUME NEW ref \in Refs, NEW policy \in Policies
    PROVE  NewManifest(ref, policy) \in Manifest
BY DEF NewManifest, Manifest, States, Operations, NoRef

\* What is recorded of a deleted Manifest is a Manifest that is not present.
LEMMA GoneType ==
    ASSUME NEW x \in Manifest
    PROVE  Gone(x) \in Manifest /\ ~Gone(x).present
BY ZenonT(30), ZenonT(60) DEF Gone, NewManifest, Manifest, States, Operations, NoRef

\* What the API server stores is the Manifest it was given or what is recorded
\* of a deleted one.
LEMMA StoredType ==
    ASSUME NEW x \in Manifest
    PROVE  Stored(x) \in Manifest
BY GoneType DEF Stored

\* Whatever finalizers are removed, finalizers are left.
LEMMA FinalizersLeft ==
    ASSUME NEW fs \in SUBSET Finalizers,
           NEW left \in RemoveAllFinalizers(fs) \cup RemoveRequiredFinalizers(fs)
    PROVE  left \in SUBSET Finalizers
BY DEF RemoveAllFinalizers, RemoveRequiredFinalizers

\* Setting the Resources condition keeps everything but the condition and the
\* operation.
LEMMA ResourcesConditionType ==
    ASSUME NEW x \in Manifest
    PROVE  SetResourcesConditionTrue(x) \in Manifest
BY ZenonT(30) DEF SetResourcesConditionTrue, Manifest, Operations

\* So does setting the ModuleCR condition.
LEMMA ModuleCRConditionType ==
    ASSUME NEW x \in Manifest
    PROVE  SetModuleCRInstallConditionTrue(x) \in Manifest
BY Zenon DEF SetModuleCRInstallConditionTrue, Manifest, Operations

\* The status after a sync with a difference is a Manifest's.
LEMMA StatusAfterDiffType ==
    ASSUME NEW x \in Manifest, target \in SUBSET Resources
    PROVE  StatusAfterDiff(x) \in Manifest
BY Zenon DEF StatusAfterDiff, WithState, Manifest, States, Operations

\* So is the status after a check of the manager.
LEMMA StateAfterSyncType ==
    ASSUME NEW x \in Manifest, NEW s \in States
    PROVE  StateAfterSync(x, s) \in Manifest
BY WithStateType, Zenon DEF StateAfterSync, Operations

-----------------------------------------------------------------------------
(* The ways a step leaves the Manifest and the reconciliation. *)

ObjectType ==
    /\ kcp \in Manifest
    /\ m \in Manifest
    /\ fresh \in BOOLEAN
    /\ pc \in Steps

\* Ending with a status, going on and giving up keep the types.
LEMMA FinishType ==
    ASSUME ObjectType, NEW x \in Manifest,
           \/ Finish(x)
           \/ FinishSkrError(x)
           \/ Requeue
           \/ \E step \in Steps: GoTo(step, x)
    PROVE  ObjectType'
BY DEF ObjectType, Finish, FinishSkrError, Requeue, GoTo, Steps, objVars

\* Updating the Manifest keeps the types.
LEMMA UpdateType ==
    ASSUME ObjectType, NEW x \in Manifest, UpdateManifest(x)
    PROVE  ObjectType'
<1>1. [kcp EXCEPT !.finalizers = x.finalizers, !.syncedRef = x.syncedRef]
          \in Manifest
  BY Zenon DEF ObjectType, Manifest
<1> QED
  BY <1>1, StoredType, Zenon DEF ObjectType, UpdateManifest, Steps, objVars

\* So does the clean-up of a deleted Manifest.
LEMMA CleanupType ==
    ASSUME ObjectType, NEW x \in Manifest,
           \/ CleanupManifest(x, RemoveAllFinalizers(x.finalizers))
           \/ CleanupManifest(x, RemoveRequiredFinalizers(x.finalizers))
    PROVE  ObjectType'
<1>1. PICK fs \in RemoveAllFinalizers(x.finalizers)
                     \cup RemoveRequiredFinalizers(x.finalizers):
          \/ UpdateManifest([x EXCEPT !.finalizers = fs])
          \/ Finish(WithState(x, "Deleting", "waitingForFinalizers"))
          \/ Finish(x)
  BY Zenon DEF CleanupManifest
<1>2. x.finalizers \in SUBSET Finalizers
  BY DEF Manifest
<1>3. [x EXCEPT !.finalizers = fs] \in Manifest
  BY <1>2, FinalizersLeft DEF Manifest
<1>4. WithState(x, "Deleting", "waitingForFinalizers") \in Manifest
  BY WithStateType, Zenon DEF States, Operations
<1> QED
  BY <1>1, <1>3, <1>4, UpdateType, FinishType

\* Applying metadata and spec keeps the types.
LEMMA SsaType ==
    ASSUME ObjectType, NEW x \in Manifest, SsaSpec(x)
    PROVE  kcp' \in Manifest
<1>1. x.ref \in Refs /\ x.policy \in Policies
  BY DEF Manifest
<1>2. [NewManifest(x.ref, x.policy) EXCEPT !.finalizers = x.finalizers,
                                           !.syncedRef = x.syncedRef]
          \in Manifest
  BY <1>1, NewManifestType, Zenon DEF Manifest
<1>3. [kcp EXCEPT !.finalizers = @ \cup x.finalizers, !.ref = x.ref,
                  !.policy = x.policy,
                  !.syncedRef = IF x.syncedRef = NoRef THEN @ ELSE x.syncedRef]
          \in Manifest
  BY Zenon DEF ObjectType, Manifest
<1> QED
  BY <1>2, <1>3 DEF SsaSpec, ObjectType

-----------------------------------------------------------------------------
(* The types are kept. *)

ControllerType ==
    /\ read \in Manifest
    /\ target \in SUBSET Resources
    /\ cached \in BOOLEAN

ClusterType ==
    /\ skr \in [Resources -> Presence]
    /\ labelled \in SUBSET Resources
    /\ defaultCR \in Presence
    /\ moduleCRs \in BOOLEAN
    /\ manager \in {"Processing", "Ready", "Error"}

EnvType ==
    /\ secret \in BOOLEAN
    /\ faults \in 0..MaxFaults
    /\ changes \in 0..MaxChanges

\* The type invariant is the conjunction of these four parts.
LEMMA TypeParts ==
    TypeOK <=> ObjectType /\ ControllerType /\ ClusterType /\ EnvType
BY DEF TypeOK, ObjectType, ControllerType, ClusterType, EnvType

\* A failure or its absence keeps the types of what surrounds the controller.
LEMMA FaultType ==
    ASSUME EnvType,
           \/ NoFault \/ SkrCallFails \/ SkrCallSucceeds
           \/ \E kind \in FaultKinds: Fault(kind)
    PROVE  EnvType'
<1> USE BoundsAssumption
<1>1. CASE NoFault
  BY <1>1 DEF NoFault, EnvType, envVars
<1>2. ASSUME NEW kind, Fault(kind) PROVE EnvType'
  BY <1>2 DEF Fault, EnvType
<1> QED
  BY <1>1, <1>2 DEF SkrCallFails, SkrCallSucceeds

\* So does an outside change, which leaves the controller alone.
LEMMA ChangeType ==
    ASSUME ObjectType, ControllerType, EnvType, NEW kind, Change(kind)
    PROVE  /\ ControllerType'
           /\ m' \in Manifest /\ pc' \in Steps
           /\ faults' \in 0..MaxFaults /\ changes' \in 0..MaxChanges
BY BoundsAssumption
DEF Change, ctrlVars, ObjectType, ControllerType, EnvType

\* A step that only calls the KCP leaves the SKR and what was rendered alone.
LEMMA UntouchedType ==
    ASSUME ControllerType, ClusterType, SkrUntouched
    PROVE  ControllerType' /\ ClusterType'
BY DEF SkrUntouched, skrVars, ControllerType, ClusterType

\* Init establishes the type invariant.
LEMMA InitType == Init => TypeOK
<1> SUFFICES ASSUME Init PROVE TypeOK
  OBVIOUS
<1>1. kcp \in Manifest /\ read \in Manifest
  BY BoundsAssumption, NewManifestType, GoneType DEF Init
<1>2. m = read
  BY DEF Init
<1>3. ObjectType
  BY <1>1, <1>2, Zenon DEF Init, ObjectType, Steps
<1>4. ControllerType
  BY <1>1, Zenon DEF Init, ControllerType
<1>5. ClusterType
  BY Zenon DEF Init, ClusterType, Presence
<1>6. EnvType
  BY BoundsAssumption DEF Init, EnvType
<1> QED
  BY <1>3, <1>4, <1>5, <1>6, TypeParts

\* Every step of a reconciliation keeps the type invariant.
LEMMA ReconcileType == TypeOK /\ Reconcile => TypeOK'
<1> SUFFICES ASSUME ObjectType, ControllerType, ClusterType, EnvType, Reconcile
             PROVE  ObjectType' /\ ControllerType' /\ ClusterType' /\ EnvType'
  BY DEF TypeOK, ObjectType, ControllerType, ClusterType, EnvType
<1> USE FaultType, UntouchedType, FinishType
<1>m. m \in Manifest /\ kcp \in Manifest /\ m.finalizers \in SUBSET Finalizers
        /\ m.ref \in Refs /\ m.synced \in SUBSET Resources
        /\ ResOf[m.ref] \in SUBSET Resources
  BY ResourcesAssumption DEF ObjectType, Manifest
<1>s. /\ \A state \in States, op \in Operations: WithState(m, state, op) \in Manifest
      /\ \A op \in Operations: [m EXCEPT !.op = op] \in Manifest
      /\ \A fs \in SUBSET Finalizers: [m EXCEPT !.finalizers = fs] \in Manifest
      /\ \A ref \in Refs: [m EXCEPT !.syncedRef = ref] \in Manifest
  BY <1>m, WithStateType DEF Manifest
<1>1. CASE InitializeStatus
  BY <1>1, <1>m, <1>s, Zenon DEF InitializeStatus, States, Operations, FaultKinds, Steps
<1>2. CASE GetTargetClient
  BY <1>2, <1>m, Zenon DEF GetTargetClient, Steps, skrVars, ControllerType, ClusterType
<1>3. CASE AccessSecretNotFound
  BY <1>3, <1>m, <1>s, CleanupType, Zenon DEF AccessSecretNotFound, States, Operations, FaultKinds, Steps
<1>4. CASE TargetClientFails
  BY <1>4, <1>m, <1>s, Zenon DEF TargetClientFails, States, Operations, FaultKinds, Steps
<1>5. CASE RemoveManagedByLabel
  <2>1. ObjectType'
    BY <1>5, <1>m, <1>s, UpdateType DEF RemoveManagedByLabel
  <2>2. EnvType'
    BY <1>5 DEF RemoveManagedByLabel
  <2> QED
    BY <1>5, <2>1, <2>2
    DEF RemoveManagedByLabel, RemoveLabels, ControllerType, ClusterType
<1>6. CASE DeleteUnmanaged
  <2>1. [kcp EXCEPT !.deleting = TRUE] \in Manifest
    BY <1>m, Zenon DEF Manifest
  <2> QED
    BY <1>6, <2>1, StoredType, Zenon DEF DeleteUnmanaged, ObjectType, Steps, objVars
<1>7. CASE CleanupUnmanaged
  BY <1>7, <1>m, CleanupType DEF CleanupUnmanaged
<1>8. CASE DetectOrphan
  BY <1>8, <1>m, <1>s, Zenon DEF DetectOrphan, States, Operations, FaultKinds, Steps
<1>9. CASE AddFinalizers
  <2>1. [m EXCEPT !.finalizers = @ \cup {Default, LabelRemoval}] \in Manifest
    BY <1>m DEF Manifest, Finalizers
  <2> QED
    BY <1>9, <2>1, SsaType, Zenon DEF AddFinalizers, ObjectType, Steps
<1>10. CASE SpecFails
  <2>1. WithState(m, "Error", "specError") \in Manifest
    BY <1>s, Zenon DEF States, Operations
  <2> QED
    BY <1>10, <2>1, CleanupType DEF SpecFails, FaultKinds
<1>11. CASE TrackSpec
  BY <1>11, <1>m, <1>s, UpdateType DEF TrackSpec
<1>12. CASE RenderForInstall
  BY <1>12, <1>m, ResourcesConditionType
  DEF RenderForInstall, Steps, skrVars, ControllerType, ClusterType
<1>13. CASE RenderFails
  BY <1>13, <1>m, <1>s, Zenon DEF RenderFails, States, Operations, FaultKinds, Steps
<1>14. CASE WaitForModuleCRs
  BY <1>14, <1>m, <1>s, Zenon DEF WaitForModuleCRs, States, Operations, FaultKinds, Steps
<1>15. CASE RenderForDelete
  <2>1. EnvType'
    BY <1>15 DEF RenderForDelete, FaultKinds
  <2>2. ObjectType'
    BY <1>15, <1>m, ResourcesConditionType DEF RenderForDelete, Steps
  <2>3. ControllerType' /\ ClusterType'
    BY <1>15, <1>m DEF RenderForDelete, skrVars, ControllerType, ClusterType
  <2> QED
    BY <2>1, <2>2, <2>3
<1>16. CASE ListModuleCRsFails
  BY <1>16, <1>m, <1>s, Zenon DEF ListModuleCRsFails, States, Operations, FaultKinds, Steps
<1>17. CASE DiffInSameLayer
  BY <1>17, <1>m, <1>s, Zenon DEF DiffInSameLayer, States, Operations, FaultKinds, Steps
<1>18. CASE PruneDiff
  <2>1. ObjectType'
    BY <1>18, <1>m DEF PruneDiff, Steps
  <2>2. ClusterType'
    BY <1>18 DEF PruneDiff, DeleteResources, Presence, ClusterType
  <2> QED
    BY <1>18, <2>1, <2>2 DEF PruneDiff, ControllerType
<1>19. CASE PruneFails
  <2>1. ObjectType'
    BY <1>19, <1>s, Zenon DEF PruneFails, States, Operations
  <2>2. ClusterType'
    BY <1>19 DEF PruneFails, DeleteResources, Presence, ClusterType
  <2> QED
    BY <1>19, <2>1, <2>2 DEF PruneFails, ControllerType
<1>20. CASE DeleteDefaultCR
  BY <1>20, <1>m DEF DeleteDefaultCR, Steps, Presence, ControllerType, ClusterType
<1>21. CASE RemoveCRFinalizer
  <2>1. [kcp EXCEPT !.finalizers = @ \ {CRManager}] \in Manifest
    BY <1>m DEF Manifest
  <2>2. Stored([kcp EXCEPT !.finalizers = @ \ {CRManager}]) \in Manifest
    BY <2>1, StoredType
  <2>3. EnvType' /\ ControllerType' /\ ClusterType'
    BY <1>21 DEF RemoveCRFinalizer, FaultKinds
  <2>4. \/ GoTo("sync", m)
        \/ /\ kcp' = Stored([kcp EXCEPT !.finalizers = @ \ {CRManager}])
           /\ fresh' = FALSE /\ pc' = "idle" /\ UNCHANGED m
        \/ Finish([m EXCEPT !.op = "crError"])
    BY <1>21 DEF RemoveCRFinalizer
  <2>5. ObjectType'
    BY <1>m, <1>s, <2>2, <2>4, Zenon DEF Steps, Operations, ObjectType
  <2> QED
    BY <2>3, <2>5
<1>22. CASE SkipDefaultCR
  BY <1>22, <1>m, <1>s, Zenon DEF SkipDefaultCR, States, Operations, FaultKinds, Steps
<1>23. CASE RemoveDefaultCRFails
  BY <1>23, <1>m, <1>s, Zenon DEF RemoveDefaultCRFails, States, Operations, FaultKinds, Steps
<1>24. CASE SyncResources
  <2>1. ObjectType'
    BY <1>24, <1>m, StatusAfterDiffType DEF SyncResources, Steps, ControllerType
  <2>2. ClusterType'
    BY <1>24 DEF SyncResources, ApplyResources, Presence, ClusterType, ControllerType
  <2> QED
    BY <1>24, <2>1, <2>2 DEF SyncResources, ControllerType
<1>25. CASE SyncFails
  <2>1. ObjectType'
    BY <1>25, <1>s, Zenon DEF SyncFails, States, Operations
  <2>2. ClusterType'
    BY <1>25 DEF SyncFails, ApplyResources, Presence, ClusterType, ControllerType
  <2> QED
    BY <1>25, <2>1, <2>2 DEF SyncFails, ControllerType
<1>26. CASE SyncDefaultModuleCR
  <2>1. EnvType'
    BY <1>26 DEF SyncDefaultModuleCR, FaultKinds
  <2>2. ObjectType'
    BY <1>26, <1>m, ModuleCRConditionType DEF SyncDefaultModuleCR, Steps
  <2> QED
    BY <1>26, <2>1, <2>2
    DEF SyncDefaultModuleCR, Presence, ControllerType, ClusterType
<1>27. CASE CreateDefaultCRFails
  BY <1>27, <1>m, <1>s, Zenon DEF CreateDefaultCRFails, States, Operations, FaultKinds, Steps
<1>28. CASE EnsureCRFinalizer
  <2>1. [kcp EXCEPT !.finalizers = @ \cup m.finalizers \cup {CRManager}] \in Manifest
    BY <1>m DEF Manifest, Finalizers
  <2> QED
    BY <1>28, <1>m, <2>1, Zenon DEF EnsureCRFinalizer, ObjectType, Steps
<1>29. CASE SettleInstall
  <2>1. StateAfterSync(m, manager) \in Manifest
    BY <1>m, StateAfterSyncType, Zenon DEF ClusterType, States
  <2>2. WithState(m, "Error", "managerError") \in Manifest
    BY <1>s, Zenon DEF States, Operations
  <2>3. \/ Finish(StateAfterSync(m, manager)) \/ Finish(m)
        \/ Finish(WithState(m, "Error", "managerError"))
        \/ UpdateManifest([m EXCEPT !.syncedRef = m.ref])
    BY <1>29 DEF SettleInstall
  <2> QED
    BY <1>29, <1>m, <1>s, <2>1, <2>2, <2>3, UpdateType DEF SettleInstall
<1>30. CASE CheckManagerFails
  BY <1>30, <1>m, <1>s, Zenon DEF CheckManagerFails, States, Operations, FaultKinds, Steps
<1>31. CASE SettleDelete
  <2>1. StateAfterSync(m, "Deleting") \in Manifest
    BY <1>m, StateAfterSyncType, Zenon DEF States
  <2>2. \/ Finish(StateAfterSync(m, "Deleting"))
        \/ UpdateManifest([m EXCEPT !.syncedRef = m.ref])
        \/ CleanupManifest(m, RemoveRequiredFinalizers(m.finalizers))
    BY <1>31 DEF SettleDelete
  <2> QED
    BY <1>31, <1>m, <1>s, <2>1, <2>2, UpdateType, CleanupType DEF SettleDelete
<1>32. CASE FinishReconcile
  <2>1. [kcp EXCEPT !.state = m.state, !.op = m.op, !.synced = m.synced,
                    !.parsed = m.parsed, !.crCreated = m.crCreated] \in Manifest
    BY <1>m, Zenon DEF Manifest
  <2> QED
    BY <1>32, <2>1, Zenon
    DEF FinishReconcile, ObjectType, ControllerType, ClusterType, Steps,
        objVars, skrVars
<1> QED
  BY <1>1, <1>2, <1>3, <1>4, <1>5, <1>6, <1>7, <1>8, <1>9, <1>10, <1>11, <1>12, <1>13, <1>14, <1>15, <1>16,
     <1>17, <1>18, <1>19, <1>20, <1>21, <1>22, <1>23, <1>24, <1>25, <1>26, <1>27, <1>28, <1>29, <1>30,
     <1>31, <1>32, Zenon
  DEF Reconcile

\* So does every step outside the reconciliation.
LEMMA SurroundingsType ==
    TypeOK /\ (Outside \/ Cluster \/ Abort \/ ClientExpires \/ StartFresh \/ StartStale)
        => TypeOK'
<1> SUFFICES ASSUME ObjectType, ControllerType, ClusterType, EnvType,
                    \/ Outside \/ Cluster \/ Abort \/ ClientExpires
                    \/ StartFresh \/ StartStale
             PROVE  ObjectType' /\ ControllerType' /\ ClusterType' /\ EnvType'
  BY DEF TypeOK, ObjectType, ControllerType, ClusterType, EnvType
<1> USE FaultType, ChangeType
<1>1. ASSUME UNCHANGED skrVars PROVE ClusterType'
  BY <1>1 DEF skrVars, ClusterType
<1>2. ASSUME UNCHANGED objVars, m' \in Manifest, pc' \in Steps PROVE ObjectType'
  BY <1>2 DEF objVars, ObjectType
<1>3. ASSUME kcp' \in Manifest, fresh' = FALSE, m' \in Manifest, pc' \in Steps
      PROVE  ObjectType'
  BY <1>3, Zenon DEF ObjectType
<1>4. CASE Upgrade
  <2>1. kcp' \in Manifest
    BY <1>4 DEF Upgrade, Manifest, ObjectType
  <2> QED
    BY <1>1, <1>3, <1>4, <2>1, Zenon DEF Upgrade, EnvType
<1>5. CASE ChangePolicy
  <2>1. kcp' \in Manifest
    BY <1>5 DEF ChangePolicy, Manifest, ObjectType
  <2> QED
    BY <1>1, <1>3, <1>5, <2>1, Zenon DEF ChangePolicy, EnvType
<1>6. CASE ChangeManaged
  <2>1. kcp' \in Manifest
    BY ZenonT(30), <1>6, ZenonT(60) DEF ChangeManaged, Manifest, ObjectType
  <2> QED
    BY <1>1, <1>3, <1>6, <2>1, Zenon DEF ChangeManaged, EnvType
<1>7. CASE DeleteManifest
  <2>1. [kcp EXCEPT !.deleting = TRUE] \in Manifest
    BY Zenon DEF Manifest, ObjectType
  <2> QED
    BY <1>1, <1>3, <1>7, <2>1, StoredType, Zenon DEF DeleteManifest, EnvType
<1>8. CASE CreateModuleCR
  BY <1>2, <1>8 DEF CreateModuleCR, EnvType, ClusterType
<1>9. CASE DeleteDefaultCRByUser
  BY <1>2, <1>9 DEF DeleteDefaultCRByUser, EnvType, ClusterType, Presence
<1>10. CASE TearDownSkr
  BY <1>2, <1>10, Zenon DEF TearDownSkr, EnvType, ClusterType, Presence
<1>11. CASE DisturbManager
  BY <1>2, <1>11 DEF DisturbManager, EnvType, ClusterType
<1>12. CASE Cluster
  <2>1. ObjectType' /\ ControllerType' /\ EnvType'
    BY <1>2, <1>12
    DEF Cluster, ManagerReady, DefaultCRGone, ModuleCRsGone, ResourceGone,
        SkrStep, ctrlVars, ObjectType, ControllerType
  <2> QED
    BY <1>12, <2>1, Zenon
    DEF Cluster, ManagerReady, DefaultCRGone, ModuleCRsGone, ResourceGone,
        ClusterType, Presence
<1>13. CASE Abort
  BY <1>1, <1>2, <1>13, Zenon DEF Abort, FaultKinds, ObjectType, ControllerType, Steps
<1>14. CASE ClientExpires
  BY <1>1, <1>2, <1>14, Zenon DEF ClientExpires, ObjectType, ControllerType
<1>15. CASE StartFresh
  BY <1>1, <1>15 DEF StartFresh, ObjectType, ControllerType, Steps
<1>16. CASE StartStale
  BY <1>1, <1>2, <1>16 DEF StartStale, ObjectType, ControllerType, Steps
<1> QED
  BY <1>4, <1>5, <1>6, <1>7, <1>8, <1>9, <1>10, <1>11, <1>12, <1>13, <1>14,
     <1>15, <1>16
  DEF Outside

\* Every reachable state has the types TypeOK gives: no path of
\* Reconcile leaves a status, a finalizer list or an annotation with a value
\* the rest of the controller does not know.
THEOREM TypeCorrect == Spec => []TypeOK
<1>1. TypeOK /\ [Next]_vars => TypeOK'
  <2> SUFFICES ASSUME TypeOK, [Next]_vars PROVE TypeOK'
    OBVIOUS
  <2>1. CASE Next
    BY <2>1, ReconcileType, SurroundingsType DEF Next
  <2>2. CASE UNCHANGED vars
    BY <2>2 DEF TypeOK, vars, objVars, ctrlVars, skrVars, envVars
  <2> QED
    BY <2>1, <2>2
<1> QED
  BY <1>1, InitType, PTL DEF Spec

-----------------------------------------------------------------------------
(* The annotation follows the sync.  AnnotationFollowsSync is about a write  *)
(* at the end of a reconciliation; that it is right depends on what the      *)
(* reconciliation read at its start and on what it rendered in between.      *)

\* Two versions of the Manifest that differ at most in their status.
SameButStatus(x, y) ==
    /\ x.present = y.present /\ x.deleting = y.deleting
    /\ x.finalizers = y.finalizers /\ x.unmanaged = y.unmanaged
    /\ x.ref = y.ref /\ x.policy = y.policy /\ x.syncedRef = y.syncedRef

\* What was read is the stored version as long as that was not replaced.
FreshReading == fresh => kcp = read

\* A reconciliation changes only the status of its working copy ...
WorkingCopy == pc # "idle" => SameButStatus(m, read)

\* ... and the list of synced resources only when it ends.
SyncedAsRead == pc \notin {"idle", "finish", "finishEvict"} => m.synced = read.synced

\* What is rendered is the layer of the Manifest, or nothing of a deleted one,
\* and only a Manifest that has its finalizers is rendered.
Rendered ==
    pc \in {"prune", "removeCR", "sync", "defaultCR", "settle"} =>
        /\ m.deleting \/ ~FinalizersUpdateRequired(m)
        /\ target = ResOf[m.ref] \/ (m.deleting /\ target = {})

\* A reconciliation gets past SyncResources only when nothing differed.
NothingDiffered == pc \in {"defaultCR", "settle"} => m.synced = target

\* A version whose annotation was replaced cannot be applied again.
ReplacedAnnotation ==
    kcp.present /\ read.syncedRef \notin {NoRef, kcp.syncedRef} =>
        read.deleting \/ ~FinalizersUpdateRequired(read)

IInv ==
    /\ FreshReading /\ WorkingCopy /\ SyncedAsRead /\ Rendered
    /\ NothingDiffered /\ ReplacedAnnotation

AnnotationStep ==
    AnnotationMoves
       => \/ kcp.synced = ResOf[kcp'.syncedRef]
          \/ kcp.deleting /\ kcp.synced = {}

\* The operators on the status change nothing but the status.
LEMMA StatusOnly ==
    ASSUME NEW x \in Manifest
    PROVE  /\ SameButStatus(x, x)
           /\ \A s, o: SameButStatus(WithState(x, s, o), x)
           /\ \A s: SameButStatus(StateAfterSync(x, s), x)
           /\ \A o: SameButStatus([x EXCEPT !.op = o], x)
           /\ SameButStatus(SetResourcesConditionTrue(x), x)
           /\ SameButStatus(SetModuleCRInstallConditionTrue(x), x)
           /\ SameButStatus(StatusAfterDiff(x), x)
           /\ SetResourcesConditionTrue(x).synced = x.synced
           /\ SetModuleCRInstallConditionTrue(x).synced = x.synced
BY DEF Manifest, SameButStatus, WithState, StateAfterSync,
       SetResourcesConditionTrue, SetModuleCRInstallConditionTrue, StatusAfterDiff

\* A step that writes nothing to the KCP and ends the reconciliation, or does
\* not concern it, keeps the invariant.
LEMMA NothingWritten ==
    ASSUME IInv, UNCHANGED objVars, UNCHANGED read,
           \/ pc' = "idle"
           \/ pc' \in {"finish", "finishEvict"} /\ SameButStatus(m', read)
           \/ UNCHANGED <<pc, m, target>>
    PROVE  IInv' /\ AnnotationStep
<1>1. UNCHANGED <<kcp, fresh>>
  BY DEF objVars
<1>2. FreshReading' /\ ReplacedAnnotation' /\ AnnotationStep
  BY <1>1 DEF IInv, FreshReading, ReplacedAnnotation, FinalizersUpdateRequired,
              AnnotationStep, AnnotationMoves
<1>3. WorkingCopy'
  BY DEF IInv, WorkingCopy, SameButStatus
<1>4. SyncedAsRead' /\ Rendered' /\ NothingDiffered'
  BY DEF IInv, SyncedAsRead, Rendered, NothingDiffered, FinalizersUpdateRequired
<1> QED
  BY <1>2, <1>3, <1>4 DEF IInv

\* So does a write that leaves the annotation alone.
LEMMA OtherWritten ==
    ASSUME IInv, UNCHANGED read, fresh' = FALSE,
           kcp'.present => kcp.present /\ kcp'.syncedRef = kcp.syncedRef,
           pc' = "idle" \/ UNCHANGED <<pc, m, target>>
    PROVE  IInv' /\ AnnotationStep
<1>1. FreshReading' /\ ReplacedAnnotation' /\ AnnotationStep
  BY DEF IInv, FreshReading, ReplacedAnnotation, FinalizersUpdateRequired,
         AnnotationStep, AnnotationMoves
<1>2. WorkingCopy'
  BY DEF IInv, WorkingCopy, SameButStatus
<1>3. SyncedAsRead' /\ Rendered' /\ NothingDiffered'
  BY DEF IInv, SyncedAsRead, Rendered, NothingDiffered, FinalizersUpdateRequired
<1> QED
  BY <1>1, <1>2, <1>3 DEF IInv

\* Going on keeps it when what is rendered and synced fits the next step.
LEMMA WentOn ==
    ASSUME IInv, NEW step, NEW x, GoTo(step, x), UNCHANGED read,
           pc \notin {"idle", "finish", "finishEvict"},
           SameButStatus(x, m), x.synced = m.synced, Rendered', NothingDiffered'
    PROVE  IInv' /\ AnnotationStep
<1>1. UNCHANGED <<kcp, fresh>>
  BY DEF objVars, GoTo
<1>2. FreshReading' /\ ReplacedAnnotation' /\ AnnotationStep
  BY <1>1 DEF IInv, FreshReading, ReplacedAnnotation, FinalizersUpdateRequired,
              AnnotationStep, AnnotationMoves
<1>3. WorkingCopy' /\ SyncedAsRead'
  BY DEF IInv, WorkingCopy, SyncedAsRead, SameButStatus, GoTo
<1> QED
  BY <1>2, <1>3 DEF IInv

\* An Update keeps it when it leaves the annotation that was read, sets the
\* first one, or sets the reference whose resources are synced.
LEMMA AnnotationUpdated ==
    ASSUME TypeOK, IInv, NEW x \in Manifest, UpdateManifest(x), UNCHANGED read,
           pc \notin {"idle", "finish", "finishEvict"},
           \/ x.syncedRef = m.syncedRef
           \/ m.syncedRef = NoRef
           \/ /\ m.deleting \/ ~FinalizersUpdateRequired(m)
              /\ m.synced = ResOf[x.syncedRef] \/ (m.deleting /\ m.synced = {})
    PROVE  IInv' /\ AnnotationStep
<1>1. CASE ~fresh
  BY <1>1, NothingWritten DEF UpdateManifest
<1>2. CASE fresh
  <2> DEFINE new == [kcp EXCEPT !.finalizers = x.finalizers,
                                !.syncedRef = x.syncedRef]
  <2>1. kcp' = Stored(new) /\ fresh' = FALSE /\ pc' = "idle"
    BY <1>2 DEF UpdateManifest
  <2>2. new \in Manifest /\ new.syncedRef = x.syncedRef
    BY Zenon DEF TypeOK, Manifest
  <2>3. kcp'.present => kcp'.syncedRef = x.syncedRef
    BY <2>1, <2>2, GoneType DEF Stored
  <2>4. kcp = read
    BY <1>2 DEF IInv, FreshReading
  <2>5. /\ m.syncedRef = kcp.syncedRef /\ m.deleting = kcp.deleting
        /\ m.finalizers = kcp.finalizers /\ m.synced = kcp.synced
    BY <2>4 DEF IInv, WorkingCopy, SyncedAsRead, SameButStatus
  <2>6. AnnotationStep
    BY <2>3, <2>5 DEF AnnotationStep, AnnotationMoves
  <2>7. ReplacedAnnotation'
    BY <2>3, <2>4, <2>5 DEF ReplacedAnnotation, FinalizersUpdateRequired
  <2> QED
    BY <2>1, <2>6, <2>7
    DEF IInv, FreshReading, WorkingCopy, SyncedAsRead, Rendered, NothingDiffered
<1> QED
  BY <1>1, <1>2 DEF TypeOK

\* So does the clean-up, which removes finalizers only.
LEMMA CleanupKeeps ==
    ASSUME TypeOK, IInv, NEW x \in Manifest, SameButStatus(x, m),
           \/ CleanupManifest(x, RemoveAllFinalizers(x.finalizers))
           \/ CleanupManifest(x, RemoveRequiredFinalizers(x.finalizers)),
           UNCHANGED read, pc \notin {"idle", "finish", "finishEvict"}
    PROVE  IInv' /\ AnnotationStep
<1>1. PICK fs \in RemoveAllFinalizers(x.finalizers)
                     \cup RemoveRequiredFinalizers(x.finalizers):
          \/ UpdateManifest([x EXCEPT !.finalizers = fs])
          \/ Finish(WithState(x, "Deleting", "waitingForFinalizers"))
          \/ Finish(x)
  BY Zenon DEF CleanupManifest
<1>2. x.finalizers \in SUBSET Finalizers
  BY DEF Manifest
<1>3. fs \in SUBSET Finalizers
  BY <1>2, FinalizersLeft
<1>4. /\ [x EXCEPT !.finalizers = fs] \in Manifest
      /\ [x EXCEPT !.finalizers = fs].syncedRef = m.syncedRef
  BY <1>3 DEF Manifest, SameButStatus
<1>5. CASE UpdateManifest([x EXCEPT !.finalizers = fs])
  BY <1>4, <1>5, AnnotationUpdated, Zenon
<1>6. ASSUME NEW y, Finish(y), SameButStatus(y, x) PROVE IInv' /\ AnnotationStep
  <2>1. SameButStatus(m', read)
    BY <1>6 DEF Finish, IInv, WorkingCopy, SameButStatus
  <2> QED
    BY <1>6, <2>1, NothingWritten DEF Finish
<1> QED
  BY <1>1, <1>5, <1>6, StatusOnly

\* Every step of a reconciliation keeps the invariant and moves the annotation
\* only as it should.
LEMMA ReconcileKeeps == TypeOK /\ IInv /\ Reconcile => IInv' /\ AnnotationStep
<1> SUFFICES ASSUME TypeOK, IInv, Reconcile PROVE IInv' /\ AnnotationStep
  OBVIOUS
<1>s. /\ m \in Manifest /\ kcp \in Manifest
      /\ SameButStatus(m, m)
      /\ \A s, o: SameButStatus(WithState(m, s, o), m)
      /\ \A s: SameButStatus(StateAfterSync(m, s), m)
      /\ \A o: SameButStatus([m EXCEPT !.op = o], m)
      /\ SameButStatus(SetResourcesConditionTrue(m), m)
      /\ SameButStatus(SetModuleCRInstallConditionTrue(m), m)
      /\ SameButStatus(StatusAfterDiff(m), m)
      /\ SetResourcesConditionTrue(m).synced = m.synced
      /\ SetModuleCRInstallConditionTrue(m).synced = m.synced
  BY StatusOnly DEF TypeOK
<1>f. ASSUME pc # "idle", UNCHANGED read,
             Requeue \/ \E x: SameButStatus(x, m) /\ (Finish(x) \/ FinishSkrError(x))
      PROVE  IInv' /\ AnnotationStep
  <2>1. CASE Requeue
    BY <1>f, <2>1, NothingWritten DEF Requeue, objVars
  <2>2. ASSUME NEW x, SameButStatus(x, m), Finish(x) \/ FinishSkrError(x)
        PROVE  IInv' /\ AnnotationStep
    <3>1. SameButStatus(x, read)
      BY <1>f, <2>2 DEF IInv, WorkingCopy, SameButStatus
    <3> QED
      BY <1>f, <2>2, <3>1, NothingWritten DEF Finish, FinishSkrError
  <2> QED
    BY <1>f, <2>1, <2>2
<1>1. CASE InitializeStatus
  BY <1>1, <1>s, <1>f, Zenon DEF InitializeStatus, SkrUntouched
<1>2. CASE GetTargetClient
  <2>1. Rendered' /\ NothingDiffered'
    BY <1>2, Zenon DEF GetTargetClient, GoTo, Rendered, NothingDiffered
  <2> QED
    BY <1>2, <1>s, <2>1, WentOn, Zenon DEF GetTargetClient
<1>3. CASE AccessSecretNotFound
  <2>1. UNCHANGED read /\ pc = "prepare"
    BY <1>3, Zenon DEF AccessSecretNotFound, SkrUntouched
  <2>2. CASE m.deleting
    BY <1>3, <1>s, <2>1, <2>2, CleanupKeeps, Zenon DEF AccessSecretNotFound
  <2>3. CASE ~m.deleting
    BY <1>3, <1>s, <1>f, <2>1, <2>3, Zenon DEF AccessSecretNotFound
  <2> QED
    BY <2>2, <2>3
<1>4. CASE TargetClientFails
  BY <1>4, <1>s, <1>f, Zenon DEF TargetClientFails, SkrUntouched
<1>5. CASE RemoveManagedByLabel
  <2>1. /\ [m EXCEPT !.finalizers = @ \ {LabelRemoval}] \in Manifest
        /\ [m EXCEPT !.finalizers = @ \ {LabelRemoval}].syncedRef = m.syncedRef
    BY <1>s DEF Manifest
  <2> QED
    BY <1>5, <1>f, <2>1, AnnotationUpdated, Zenon DEF RemoveManagedByLabel
<1>6. CASE DeleteUnmanaged
  <2>1. [kcp EXCEPT !.deleting = TRUE] \in Manifest
    BY <1>s, Zenon DEF Manifest
  <2>2. LET new == Stored([kcp EXCEPT !.deleting = TRUE])
        IN  new.present => new.syncedRef = kcp.syncedRef
    BY <1>s, <2>1, GoneType DEF Stored, Manifest
  <2> QED
    BY <1>6, <2>2, NothingWritten, OtherWritten, Zenon DEF DeleteUnmanaged, SkrUntouched
<1>7. CASE CleanupUnmanaged
  BY <1>7, <1>s, CleanupKeeps DEF CleanupUnmanaged, SkrUntouched
<1>8. CASE DetectOrphan
  BY <1>8, <1>s, <1>f DEF DetectOrphan, SkrUntouched
<1>9. CASE AddFinalizers
  <2> DEFINE x == [m EXCEPT !.finalizers = @ \cup {Default, LabelRemoval}]
  <2>1. /\ UNCHANGED read /\ SsaSpec(x) /\ fresh' = FALSE /\ pc' = "idle"
        /\ ~m.deleting /\ FinalizersUpdateRequired(m) /\ pc = "resolve"
    BY <1>9 DEF AddFinalizers, SkrUntouched
  <2>2. x \in Manifest /\ x.syncedRef = m.syncedRef /\ x.ref \in Refs
          /\ x.policy \in Policies
    BY <1>s DEF Manifest, Finalizers
  <2>3. ~read.deleting /\ FinalizersUpdateRequired(read)
          /\ read.syncedRef = m.syncedRef
    BY <2>1 DEF IInv, WorkingCopy, SameButStatus, FinalizersUpdateRequired
  <2>4. CASE ~kcp.present
    <3>1. kcp' = [NewManifest(x.ref, x.policy) EXCEPT
                      !.finalizers = x.finalizers, !.syncedRef = x.syncedRef]
      BY <2>1, <2>4 DEF SsaSpec
    <3>2. NewManifest(x.ref, x.policy) \in Manifest
      BY <2>2, NewManifestType
    <3>3. kcp'.syncedRef = x.syncedRef
      BY <3>1, <3>2 DEF Manifest
    <3>4. ReplacedAnnotation' /\ AnnotationStep
      BY <2>1, <2>2, <2>3, <2>4, <3>3
      DEF ReplacedAnnotation, AnnotationStep, AnnotationMoves
    <3> QED
      BY <2>1, <3>4
      DEF IInv, FreshReading, WorkingCopy, SyncedAsRead, Rendered, NothingDiffered
  <2>5. CASE kcp.present
    <3>1. read.syncedRef \in {NoRef, kcp.syncedRef}
      BY <2>3, <2>5 DEF IInv, ReplacedAnnotation
    <3>2. \/ UNCHANGED kcp
          \/ kcp'.syncedRef = IF x.syncedRef = NoRef THEN kcp.syncedRef
                              ELSE x.syncedRef
      BY <1>s, <2>1, <2>5, Zenon DEF SsaSpec, Manifest
    <3>3. kcp'.syncedRef = kcp.syncedRef
      BY <2>2, <2>3, <3>1, <3>2
    <3> QED
      BY <2>1, <2>5, <3>3, OtherWritten, Zenon
  <2> QED
    BY <2>4, <2>5 DEF TypeOK, Manifest
<1>10. CASE SpecFails
  <2> DEFINE x == WithState(m, "Error", "specError")
  <2>1. x \in Manifest /\ SameButStatus(x, m) /\ UNCHANGED read /\ pc = "resolve"
    BY <1>10, <1>s, WithStateType, Zenon
    DEF SpecFails, Prepared, SkrUntouched, States, Operations
  <2>2. CASE m.deleting
    BY <1>10, <2>1, <2>2, CleanupKeeps DEF SpecFails
  <2>3. CASE ~m.deleting
    BY <1>10, <1>f, <2>1, <2>3 DEF SpecFails
  <2> QED
    BY <2>2, <2>3
<1>11. CASE TrackSpec
  <2>1. [m EXCEPT !.syncedRef = m.ref] \in Manifest
    BY <1>s DEF Manifest
  <2> QED
    BY <1>11, <2>1, AnnotationUpdated DEF TrackSpec, Prepared, SkrUntouched
<1>12. CASE RenderForInstall
  <2>1. Rendered' /\ NothingDiffered'
    BY <1>12, <1>s
    DEF RenderForInstall, SpecTracked, Prepared, GoTo, Rendered,
        NothingDiffered, FinalizersUpdateRequired, SameButStatus
  <2> QED
    BY <1>12, <1>s, <2>1, WentOn DEF RenderForInstall, SpecTracked, Prepared
<1>13. CASE RenderFails
  BY <1>13, <1>s, <1>f DEF RenderFails, SpecTracked, Prepared, SkrUntouched
<1>14. CASE WaitForModuleCRs
  BY <1>14, <1>s, <1>f DEF WaitForModuleCRs, SpecTracked, Prepared, SkrUntouched
<1>15. CASE RenderForDelete
  <2>1. PICK x \in {m, SetResourcesConditionTrue(m)}: GoTo("prune", x)
    BY <1>15 DEF RenderForDelete
  <2>2. target' \in {{}, ResOf[m.ref]} /\ m.deleting /\ pc = "resolve"
    BY <1>15 DEF RenderForDelete, SpecTracked, Prepared
  <2>3. Rendered' /\ NothingDiffered'
    BY <1>s, <2>1, <2>2, Zenon
    DEF GoTo, Rendered, NothingDiffered, SameButStatus
  <2> QED
    BY <1>15, <1>s, <2>1, <2>2, <2>3, WentOn DEF RenderForDelete
<1>16. CASE ListModuleCRsFails
  BY <1>16, <1>s, <1>f DEF ListModuleCRsFails, SpecTracked, Prepared, SkrUntouched
<1>17. CASE DiffInSameLayer
  BY <1>17, <1>s, <1>f DEF DiffInSameLayer, SkrUntouched
<1>18. CASE PruneDiff
  <2>1. UNCHANGED <<read, target>> /\ pc = "prune"
    BY <1>18 DEF PruneDiff, MayPrune
  <2>2. CASE Requeue
    BY <1>f, <2>1, <2>2
  <2>3. ASSUME NEW step \in {"removeCR", "sync"}, GoTo(step, m)
        PROVE  IInv' /\ AnnotationStep
    <3>1. Rendered' /\ NothingDiffered'
      BY <2>1, <2>3
      DEF GoTo, IInv, Rendered, NothingDiffered, FinalizersUpdateRequired
    <3> QED
      BY <1>s, <2>1, <2>3, <3>1, WentOn
  <2> QED
    BY <1>18, <2>2, <2>3 DEF PruneDiff
<1>19. CASE PruneFails
  BY <1>19, <1>s, <1>f DEF PruneFails, MayPrune, SkrUntouched
<1>20. CASE DeleteDefaultCR
  <2>1. Rendered' /\ NothingDiffered'
    BY <1>20, <1>s
    DEF DeleteDefaultCR, GoTo, IInv, Rendered, NothingDiffered,
        FinalizersUpdateRequired
  <2> QED
    BY <1>20, <1>s, <2>1, WentOn DEF DeleteDefaultCR, SkrUntouched
<1>21. CASE RemoveCRFinalizer
  <2>1. UNCHANGED <<read, target>> /\ pc = "removeCR"
    BY <1>21 DEF RemoveCRFinalizer, SkrUntouched
  <2>2. CASE GoTo("sync", m)
    <3>1. Rendered' /\ NothingDiffered'
      BY <2>1, <2>2
      DEF GoTo, IInv, Rendered, NothingDiffered, FinalizersUpdateRequired
    <3> QED
      BY <1>s, <2>1, <2>2, <3>1, WentOn
  <2>3. CASE /\ kcp.present
             /\ kcp' = Stored([kcp EXCEPT !.finalizers = @ \ {CRManager}])
             /\ fresh' = FALSE
             /\ pc' = "idle"
    <3>1. [kcp EXCEPT !.finalizers = @ \ {CRManager}] \in Manifest
      BY <1>s DEF Manifest
    <3>2. kcp'.present => kcp'.syncedRef = kcp.syncedRef
      BY <1>s, <2>3, <3>1, GoneType DEF Stored, Manifest
    <3> QED
      BY <2>1, <2>3, <3>2, OtherWritten, Zenon
  <2>4. CASE Finish([m EXCEPT !.op = "crError"])
    BY <1>s, <1>f, <2>1, <2>4
  <2> QED
    BY <1>21, <2>2, <2>3, <2>4, Zenon DEF RemoveCRFinalizer
<1>22. CASE SkipDefaultCR
  <2>1. Rendered' /\ NothingDiffered'
    BY <1>22, <1>s
    DEF SkipDefaultCR, SkrUntouched, GoTo, IInv, Rendered, NothingDiffered,
        FinalizersUpdateRequired
  <2> QED
    BY <1>22, <1>s, <2>1, WentOn DEF SkipDefaultCR, SkrUntouched
<1>23. CASE RemoveDefaultCRFails
  BY <1>23, <1>s, <1>f DEF RemoveDefaultCRFails, SkrUntouched
<1>24. CASE SyncResources
  <2>1. UNCHANGED <<read, target>> /\ pc = "sync"
    BY <1>24 DEF SyncResources
  <2>2. CASE Finish(StatusAfterDiff(m))
    BY <1>s, <1>f, <2>1, <2>2
  <2>3. ASSUME m.synced = target, NEW step, GoTo(step, m)
        PROVE  IInv' /\ AnnotationStep
    <3>1. Rendered' /\ NothingDiffered'
      BY <2>1, <2>3
      DEF GoTo, IInv, Rendered, NothingDiffered, FinalizersUpdateRequired
    <3> QED
      BY <1>s, <2>1, <2>3, <3>1, WentOn
  <2> QED
    BY <1>24, <2>2, <2>3 DEF SyncResources, HasDiff
<1>25. CASE SyncFails
  BY <1>25, <1>s, <1>f DEF SyncFails, SkrUntouched
<1>26. CASE SyncDefaultModuleCR
  <2>1. UNCHANGED <<read, target>> /\ pc = "defaultCR"
    BY <1>26 DEF SyncDefaultModuleCR
  <2>2. PICK x \in {m, SetModuleCRInstallConditionTrue(m)}: GoTo("settle", x)
    BY <1>26 DEF SyncDefaultModuleCR
  <2>3. Rendered' /\ NothingDiffered'
    BY <1>s, <2>1, <2>2
    DEF GoTo, IInv, Rendered, NothingDiffered, FinalizersUpdateRequired,
        SameButStatus
  <2> QED
    BY <1>s, <2>1, <2>2, <2>3, WentOn
<1>27. CASE CreateDefaultCRFails
  BY <1>27, <1>s, <1>f DEF CreateDefaultCRFails, SkrUntouched
<1>28. CASE EnsureCRFinalizer
  <2>1. [kcp EXCEPT !.finalizers = @ \cup m.finalizers \cup {CRManager}].syncedRef
          = kcp.syncedRef
    BY <1>s DEF Manifest
  <2> QED
    BY <1>28, <1>s, <1>f, <2>1, OtherWritten, Zenon DEF EnsureCRFinalizer, SkrUntouched
<1>29. CASE SettleInstall
  <2>1. UNCHANGED read /\ pc = "settle"
    BY <1>29 DEF SettleInstall, SkrUntouched
  <2>2. \/ Finish(m) \/ (\E s, o: Finish(WithState(m, s, o)))
        \/ (\E s: Finish(StateAfterSync(m, s)))
        \/ UpdateManifest([m EXCEPT !.syncedRef = m.ref])
    BY <1>29 DEF SettleInstall
  <2>3. /\ [m EXCEPT !.syncedRef = m.ref] \in Manifest
        /\ [m EXCEPT !.syncedRef = m.ref].syncedRef = m.ref
    BY <1>s DEF Manifest
  <2>4. /\ m.deleting \/ ~FinalizersUpdateRequired(m)
        /\ m.synced = ResOf[m.ref] \/ (m.deleting /\ m.synced = {})
    BY <2>1 DEF IInv, Rendered, NothingDiffered
  <2>5. CASE UpdateManifest([m EXCEPT !.syncedRef = m.ref])
    BY <2>1, <2>3, <2>4, <2>5, AnnotationUpdated, Zenon
  <2> QED
    BY <1>s, <1>f, <2>1, <2>2, <2>5
<1>30. CASE CheckManagerFails
  BY <1>30, <1>s, <1>f DEF CheckManagerFails, SkrUntouched
<1>31. CASE SettleDelete
  <2>1. UNCHANGED read /\ pc = "settle"
    BY <1>31 DEF SettleDelete, SkrUntouched
  <2>2. \/ (\E s: Finish(StateAfterSync(m, s)))
        \/ CleanupManifest(m, RemoveRequiredFinalizers(m.finalizers))
        \/ UpdateManifest([m EXCEPT !.syncedRef = m.ref])
    BY <1>31 DEF SettleDelete
  <2>3. /\ [m EXCEPT !.syncedRef = m.ref] \in Manifest
        /\ [m EXCEPT !.syncedRef = m.ref].syncedRef = m.ref
    BY <1>s DEF Manifest
  <2>4. /\ m.deleting \/ ~FinalizersUpdateRequired(m)
        /\ m.synced = ResOf[m.ref] \/ (m.deleting /\ m.synced = {})
    BY <2>1 DEF IInv, Rendered, NothingDiffered
  <2>5. CASE UpdateManifest([m EXCEPT !.syncedRef = m.ref])
    BY <2>1, <2>3, <2>4, <2>5, AnnotationUpdated, Zenon
  <2> QED
    BY <1>s, <1>f, <2>1, <2>2, <2>5, CleanupKeeps
<1>32. CASE FinishReconcile
  <2>1. [kcp EXCEPT !.state = m.state, !.op = m.op, !.synced = m.synced,
                    !.parsed = m.parsed, !.crCreated = m.crCreated].syncedRef
          = kcp.syncedRef
    BY <1>s DEF Manifest
  <2> QED
    BY <1>32, <2>1, NothingWritten, OtherWritten, Zenon DEF FinishReconcile
<1> QED
  BY <1>1, <1>2, <1>3, <1>4, <1>5, <1>6, <1>7, <1>8, <1>9, <1>10, <1>11, <1>12,
     <1>13, <1>14, <1>15, <1>16, <1>17, <1>18, <1>19, <1>20, <1>21, <1>22, <1>23,
     <1>24, <1>25, <1>26, <1>27, <1>28, <1>29, <1>30, <1>31, <1>32
  DEF Reconcile

\* So does every step outside it.
LEMMA SurroundingsKeep ==
    TypeOK /\ IInv /\ (Outside \/ Cluster \/ Abort \/ ClientExpires
                        \/ StartFresh \/ StartStale)
        => IInv' /\ AnnotationStep
<1> SUFFICES ASSUME TypeOK, IInv,
                    \/ Outside \/ Cluster \/ Abort \/ ClientExpires
                    \/ StartFresh \/ StartStale
             PROVE  IInv' /\ AnnotationStep
  OBVIOUS
<1>1. CASE Upgrade \/ ChangePolicy \/ ChangeManaged \/ DeleteManifest
  <2>1. kcp \in Manifest /\ [kcp EXCEPT !.deleting = TRUE] \in Manifest
    BY Zenon DEF TypeOK, Manifest
  <2>2. \/ \E ref: kcp' = [kcp EXCEPT !.ref = ref]
        \/ \E policy: kcp' = [kcp EXCEPT !.policy = policy]
        \/ kcp' = [kcp EXCEPT !.unmanaged = ~@]
        \/ kcp' = Stored([kcp EXCEPT !.deleting = TRUE])
    BY <1>1 DEF Upgrade, ChangePolicy, ChangeManaged, DeleteManifest
  <2>3. kcp'.present => kcp'.syncedRef = kcp.syncedRef
    BY <2>1, <2>2, GoneType DEF Stored, Manifest
  <2>4. kcp.present /\ fresh' = FALSE /\ UNCHANGED ctrlVars
    BY <1>1 DEF Upgrade, ChangePolicy, ChangeManaged, DeleteManifest, Change
  <2> QED
    BY <2>3, <2>4, OtherWritten, Zenon DEF ctrlVars
<1>2. CASE CreateModuleCR \/ DeleteDefaultCRByUser \/ TearDownSkr \/ DisturbManager
  <2>1. UNCHANGED objVars /\ UNCHANGED ctrlVars
    BY <1>2 DEF CreateModuleCR, DeleteDefaultCRByUser, TearDownSkr,
                DisturbManager, Change
  <2> QED
    BY <2>1, NothingWritten DEF ctrlVars
<1>3. CASE Cluster
  <2>1. UNCHANGED objVars /\ UNCHANGED ctrlVars
    BY <1>3 DEF Cluster, ManagerReady, DefaultCRGone, ModuleCRsGone,
                ResourceGone, SkrStep
  <2> QED
    BY <2>1, NothingWritten DEF ctrlVars
<1>4. CASE Abort
  BY <1>4, NothingWritten DEF Abort
<1>5. CASE ClientExpires
  BY <1>5, NothingWritten DEF ClientExpires
<1>6. CASE StartFresh
  <2>1. AnnotationStep /\ FreshReading' /\ ReplacedAnnotation'
    BY <1>6 DEF StartFresh, AnnotationStep, AnnotationMoves, FreshReading,
                ReplacedAnnotation
  <2> QED
    BY <1>6, <2>1
    DEF StartFresh, IInv, WorkingCopy, SyncedAsRead, Rendered,
        NothingDiffered, SameButStatus
<1>7. CASE StartStale
  <2>1. AnnotationStep /\ FreshReading' /\ ReplacedAnnotation'
    BY <1>7 DEF StartStale, objVars, AnnotationStep, AnnotationMoves, IInv,
                FreshReading, ReplacedAnnotation, FinalizersUpdateRequired
  <2> QED
    BY <1>7, <2>1
    DEF StartStale, IInv, WorkingCopy, SyncedAsRead, Rendered,
        NothingDiffered, SameButStatus
<1> QED
  BY <1>1, <1>2, <1>3, <1>4, <1>5, <1>6, <1>7 DEF Outside

\* Whatever is read late, aborted, changed or retried, the sync-oci-ref
\* annotation moves to a reference only when the status lists exactly what
\* that reference renders, or nothing is left of a deleted module (the
\* updateManifest calls at the end of install and of delete).
THEOREM AnnotationFollows == Spec => AnnotationFollowsSync
<1>1. Init => IInv
  BY Zenon DEF Init, IInv, FreshReading, WorkingCopy, SyncedAsRead, Rendered,
         NothingDiffered, ReplacedAnnotation, Gone, NewManifest
<1>2. TypeOK /\ IInv /\ [Next]_vars => IInv' /\ [AnnotationStep]_vars
  <2> SUFFICES ASSUME TypeOK, IInv, [Next]_vars
               PROVE  IInv' /\ [AnnotationStep]_vars
    OBVIOUS
  <2>1. CASE Next
    BY <2>1, ReconcileKeeps, SurroundingsKeep DEF Next
  <2>2. CASE UNCHANGED vars
    BY <2>2, NothingWritten DEF vars, objVars
  <2> QED
    BY <2>1, <2>2
<1> QED
  BY <1>1, <1>2, TypeCorrect, PTL DEF Spec, AnnotationFollowsSync, AnnotationStep

-----------------------------------------------------------------------------
(* The operator outlives the default CR.  That the CR was gone when nothing  *)
(* was rendered for a deletion must still hold when the diff is pruned.      *)

\* Only the Kyma controller sets the policy.
PolicyKept == read.policy = kcp.policy

\* The default CR is made by the controller, in an SKR that exists.
CRNeedsPolicy == defaultCR # "absent" => kcp.policy = "create" /\ secret

\* Nothing is rendered only for a module without default CR.
EmptyMeansGone ==
    pc = "prune" /\ target = {} => ResOf[m.ref] = {} \/ defaultCR = "absent"

CRInv == PolicyKept /\ CRNeedsPolicy /\ EmptyMeansGone

\* The policy survives every write of the controller.
LEMMA PolicyStored ==
    ASSUME NEW x
    PROVE  Stored(x).policy = x.policy
BY DEF Stored, Gone, NewManifest

\* No step changes the policy when the Kyma controller does not.
LEMMA PolicyWritten ==
    ASSUME TypeOK, IInv, CRInv, "policy" \notin Changes, Next
    PROVE  kcp'.policy = kcp.policy
<1>0. kcp \in Manifest /\ m \in Manifest
  BY DEF TypeOK
<1>1. ASSUME NEW x, UpdateManifest(x)
      PROVE  kcp'.policy = kcp.policy
  <2> DEFINE new == [kcp EXCEPT !.finalizers = x.finalizers, !.syncedRef = x.syncedRef]
  <2>1. new.policy = kcp.policy
    BY <1>0 DEF Manifest
  <2>2. kcp' = Stored(new) \/ kcp' = kcp
    BY <1>1 DEF UpdateManifest, objVars
  <2> HIDE DEF new
  <2> QED BY <2>1, <2>2, PolicyStored
<1>2. ASSUME NEW x, Finish(x) \/ FinishSkrError(x) \/ \E step: GoTo(step, x)
      PROVE  kcp'.policy = kcp.policy
  BY <1>2 DEF Finish, FinishSkrError, GoTo, objVars
<1>3. ASSUME NEW x, NEW left, CleanupManifest(x, left)
      PROVE  kcp'.policy = kcp.policy
  BY <1>1, <1>2, <1>3 DEF CleanupManifest
<1>4. CASE StartFresh \/ StartStale \/ Abort \/ ClientExpires \/ Cluster
  <2>1. CASE StartFresh
    BY <2>1 DEF StartFresh
  <2>2. CASE StartStale \/ Abort \/ ClientExpires
    <3>1. UNCHANGED objVars
      BY <2>2, Zenon DEF StartStale, Abort, ClientExpires
    <3> QED BY <3>1 DEF objVars
  <2>3. CASE Cluster
    BY <2>3 DEF Cluster, ManagerReady, DefaultCRGone, ModuleCRsGone, ResourceGone, SkrStep, objVars
  <2> QED BY <1>4, <2>1, <2>2, <2>3
<1>5. CASE Outside
  <2>1. CASE Upgrade \/ ChangeManaged
    BY <1>0, <2>1 DEF Upgrade, ChangeManaged, Manifest
  <2>2. CASE DeleteManifest
    BY <1>0, <2>2, PolicyStored DEF DeleteManifest, Manifest
  <2>3. CASE CreateModuleCR \/ DeleteDefaultCRByUser \/ TearDownSkr \/ DisturbManager
    BY <2>3 DEF CreateModuleCR, DeleteDefaultCRByUser, TearDownSkr, DisturbManager, objVars
  <2> QED BY <1>5, <2>1, <2>2, <2>3 DEF Outside, ChangePolicy, Change
<1>6. CASE Reconcile
  <2>1. CASE InitializeStatus \/ GetTargetClient \/ TargetClientFails \/ DetectOrphan
    <3>1. CASE GetTargetClient
      BY <1>2, <3>1, Zenon DEF GetTargetClient
    <3>2. \A o : Finish(WithState(m, "Processing", o)) \/ Finish(WithState(m, "Error", o)) =>
            kcp'.policy = kcp.policy
      BY <1>2
    <3> QED BY <2>1, <3>1, <3>2, Zenon DEF InitializeStatus, TargetClientFails, DetectOrphan
  <2>2. CASE AccessSecretNotFound \/ CleanupUnmanaged \/ SpecFails
    <3>1. CASE AccessSecretNotFound
      BY <1>2, <1>3, <3>1, Zenon DEF AccessSecretNotFound
    <3>2. CASE CleanupUnmanaged
      BY <1>3, <3>2, Zenon DEF CleanupUnmanaged
    <3>3. CASE SpecFails
      BY <1>2, <1>3, <3>3, Zenon DEF SpecFails
    <3> QED BY <2>2, <3>1, <3>2, <3>3
  <2>3. CASE RemoveManagedByLabel \/ TrackSpec
    BY <1>1, <2>3 DEF RemoveManagedByLabel, TrackSpec, Requeue
  <2>4. CASE DeleteUnmanaged
    BY <1>0, <2>4, PolicyStored DEF DeleteUnmanaged, Manifest, objVars
  <2>5. CASE AddFinalizers
    <3> DEFINE x == [m EXCEPT !.finalizers = @ \cup {Default, LabelRemoval}]
    <3>1. SsaSpec(x) /\ pc = "resolve"
      BY <2>5 DEF AddFinalizers
    <3>2. x.policy = kcp.policy
      BY <1>0, <3>1 DEF Manifest, IInv, WorkingCopy, SameButStatus, CRInv, PolicyKept
    <3> HIDE DEF x
    <3>3. [NewManifest(x.ref, x.policy) EXCEPT !.finalizers = x.finalizers,
                                               !.syncedRef = x.syncedRef].policy = x.policy
      BY DEF NewManifest
    <3> DEFINE applied == [kcp EXCEPT !.finalizers = @ \cup x.finalizers, !.ref = x.ref,
                                      !.policy = x.policy,
                                      !.syncedRef = IF x.syncedRef = NoRef THEN @ ELSE x.syncedRef]
    <3>4. applied.policy = x.policy
      BY <1>0 DEF Manifest
    <3>5. \/ kcp' = kcp
          \/ kcp' = [NewManifest(x.ref, x.policy) EXCEPT !.finalizers = x.finalizers,
                                                         !.syncedRef = x.syncedRef]
          \/ kcp' = applied
      BY <3>1, Zenon DEF SsaSpec
    <3> QED BY <3>2, <3>3, <3>4, <3>5, Zenon
  <2>6. CASE \/ RenderForInstall \/ RenderFails \/ WaitForModuleCRs \/ RenderForDelete
             \/ ListModuleCRsFails \/ DiffInSameLayer
    BY <1>2, <2>6 DEF RenderForInstall, RenderFails, WaitForModuleCRs, RenderForDelete,
                      ListModuleCRsFails, DiffInSameLayer
  <2>7. CASE \/ PruneDiff \/ PruneFails \/ DeleteDefaultCR \/ SkipDefaultCR
             \/ RemoveDefaultCRFails \/ SyncResources \/ SyncFails
    BY <1>2, <2>7 DEF PruneDiff, PruneFails, DeleteDefaultCR, SkipDefaultCR,
                      RemoveDefaultCRFails, SyncResources, SyncFails, Requeue
  <2>8. CASE RemoveCRFinalizer
    BY <1>0, <1>2, <2>8, PolicyStored DEF RemoveCRFinalizer, Manifest
  <2>9. CASE SyncDefaultModuleCR \/ CreateDefaultCRFails \/ CheckManagerFails
    BY <1>2, <2>9 DEF SyncDefaultModuleCR, CreateDefaultCRFails, CheckManagerFails
  <2>10. CASE EnsureCRFinalizer
    BY <1>0, <1>2, <2>10 DEF EnsureCRFinalizer, Manifest
  <2>11. CASE SettleInstall \/ SettleDelete
    BY <1>1, <1>2, <1>3, <2>11 DEF SettleInstall, SettleDelete
  <2>12. CASE FinishReconcile
    <3>1. [kcp EXCEPT !.state = m.state, !.op = m.op, !.synced = m.synced,
                      !.parsed = m.parsed, !.crCreated = m.crCreated].policy = kcp.policy
      BY <1>0 DEF Manifest
    <3>2. \/ UNCHANGED objVars
          \/ kcp' = [kcp EXCEPT !.state = m.state, !.op = m.op, !.synced = m.synced,
                                !.parsed = m.parsed, !.crCreated = m.crCreated]
      BY <2>12, Zenon DEF FinishReconcile
    <3> QED BY <3>1, <3>2, Zenon DEF objVars
  <2> QED BY <1>6, <2>1, <2>2, <2>3, <2>4, <2>5, <2>6, <2>7, <2>8, <2>9, <2>10, <2>11, <2>12
          DEF Reconcile
<1> QED BY <1>4, <1>5, <1>6 DEF Next

\* The default CR is created in one place only, and so is what prune works on.
CRCreated == pc = "defaultCR" /\ m.policy = "create" /\ secret

CRChange ==
    \/ defaultCR' = "absent"
    \/ defaultCR' = defaultCR /\ secret' = secret
    \/ (defaultCR # "absent" \/ CRCreated) /\ secret' = secret

\* How a step gets to prune, or stays there.
ToPrune ==
    pc' = "prune" =>
        \/ RenderForInstall \/ RenderForDelete
        \/ UNCHANGED <<pc, target, m>> /\ (defaultCR = "absent" => defaultCR' = "absent")

\* Each step of the Manifest controller reads at most the latest version, and changes
\* the default CR and goes to prune as described.
LEMMA ReconcileCR ==
    ASSUME TypeOK, Reconcile, "crRead" \notin Faults
    PROVE  UNCHANGED read /\ CRChange /\ ToPrune
<1> USE DEF envVars, NoFault, Fault, SkrCallFails, SkrCallSucceeds
<1>1. ASSUME SkrUntouched, UNCHANGED secret
      PROVE  UNCHANGED read /\ CRChange
  BY <1>1 DEF SkrUntouched, skrVars, CRChange
<1>2. ASSUME UNCHANGED <<read, defaultCR, secret>>
      PROVE  UNCHANGED read /\ CRChange
  BY <1>2 DEF CRChange
<1>3. ASSUME NEW x, Finish(x) \/ FinishSkrError(x) \/ UpdateManifest(x) \/ Requeue
      PROVE  ToPrune
  BY <1>3 DEF Finish, FinishSkrError, UpdateManifest, Requeue, ToPrune
<1>4. ASSUME NEW x, NEW step, GoTo(step, x), step # "prune"
      PROVE  ToPrune
  BY <1>4 DEF GoTo, ToPrune
<1>5. ASSUME NEW x, NEW left, CleanupManifest(x, left)
      PROVE  ToPrune
  BY <1>3, <1>5 DEF CleanupManifest
<1>6. CASE InitializeStatus
  <2>1. ToPrune
    BY <1>3, <1>6, Zenon DEF InitializeStatus
  <2> QED BY <1>1, <1>6, <2>1, Zenon DEF InitializeStatus
<1>7. CASE GetTargetClient
  <2>1. pc' = "resolve"
    BY <1>7, Zenon DEF GetTargetClient, GoTo
  <2>2. UNCHANGED <<read, defaultCR, secret>>
    BY <1>7, Zenon DEF GetTargetClient, skrVars
  <2> QED BY <1>2, <2>1, <2>2 DEF ToPrune
<1>8. CASE AccessSecretNotFound
  <2>1. ToPrune
    BY <1>3, <1>5, <1>8, Zenon DEF AccessSecretNotFound
  <2>2. SkrUntouched /\ UNCHANGED secret
    BY <1>8, Zenon DEF AccessSecretNotFound
  <2> QED BY <1>1, <2>1, <2>2
<1>9. CASE TargetClientFails
  <2>1. ToPrune
    BY <1>3, <1>9, Zenon DEF TargetClientFails
  <2> QED BY <1>1, <1>9, <2>1, Zenon DEF TargetClientFails
<1>10. CASE RemoveManagedByLabel
  BY <1>2, <1>3, <1>10 DEF RemoveManagedByLabel
<1>11. CASE DeleteUnmanaged
  BY <1>1, <1>11 DEF DeleteUnmanaged, ToPrune
<1>12. CASE CleanupUnmanaged
  BY <1>1, <1>5, <1>12 DEF CleanupUnmanaged
<1>13. CASE DetectOrphan
  BY <1>1, <1>3, <1>13 DEF DetectOrphan
<1>14. CASE AddFinalizers
  BY <1>1, <1>14 DEF AddFinalizers, ToPrune
<1>15. CASE SpecFails
  BY <1>1, <1>3, <1>5, <1>15 DEF SpecFails
<1>16. CASE TrackSpec
  BY <1>1, <1>3, <1>16 DEF TrackSpec
<1>17. CASE RenderForInstall
  BY <1>2, <1>17 DEF RenderForInstall, skrVars, ToPrune
<1>18. CASE RenderFails
  BY <1>1, <1>3, <1>18 DEF RenderFails
<1>19. CASE WaitForModuleCRs
  BY <1>1, <1>3, <1>19 DEF WaitForModuleCRs
<1>20. CASE RenderForDelete
  BY <1>2, <1>20 DEF RenderForDelete, skrVars, ToPrune
<1>21. CASE ListModuleCRsFails
  BY <1>1, <1>3, <1>21 DEF ListModuleCRsFails
<1>22. CASE DiffInSameLayer
  BY <1>1, <1>3, <1>22 DEF DiffInSameLayer
<1>23. CASE PruneDiff
  BY <1>2, <1>3, <1>4, <1>23 DEF PruneDiff
<1>24. CASE PruneFails
  BY <1>2, <1>3, <1>24 DEF PruneFails
<1>25. CASE DeleteDefaultCR
  BY <1>4, <1>25 DEF DeleteDefaultCR, DefaultCRExists, CRChange
<1>26. CASE RemoveCRFinalizer
  <2>1. UNCHANGED secret /\ SkrUntouched
    BY <1>26 DEF RemoveCRFinalizer
  <2>2. pc' # "prune"
    BY <1>26 DEF RemoveCRFinalizer, GoTo, Finish
  <2> QED BY <1>1, <2>1, <2>2 DEF ToPrune
<1>27. CASE SkipDefaultCR
  BY <1>1, <1>4, <1>27 DEF SkipDefaultCR
<1>28. CASE RemoveDefaultCRFails
  BY <1>1, <1>3, <1>28 DEF RemoveDefaultCRFails
<1>29. CASE SyncResources
  BY <1>2, <1>3, <1>4, <1>29 DEF SyncResources
<1>30. CASE SyncFails
  BY <1>2, <1>3, <1>30 DEF SyncFails
<1>31. CASE SyncDefaultModuleCR
  <2>1. pc' = "settle" /\ UNCHANGED read /\ pc = "defaultCR"
    BY <1>31 DEF SyncDefaultModuleCR, GoTo
  <2>2. UNCHANGED <<defaultCR, secret>> \/ (m.policy = "create" /\ secret /\ secret' = secret)
    BY <1>31 DEF SyncDefaultModuleCR, ShouldCreateDefaultModuleCR
  <2> QED BY <2>1, <2>2 DEF CRChange, CRCreated, ToPrune
<1>32. CASE CreateDefaultCRFails
  BY <1>1, <1>3, <1>32 DEF CreateDefaultCRFails
<1>33. CASE EnsureCRFinalizer
  <2>1. pc' # "prune"
    BY <1>33 DEF EnsureCRFinalizer, Finish
  <2> QED BY <1>1, <1>33, <2>1 DEF EnsureCRFinalizer, ToPrune
<1>34. CASE SettleInstall
  BY <1>1, <1>3, <1>34 DEF SettleInstall
<1>35. CASE CheckManagerFails
  BY <1>1, <1>3, <1>35 DEF CheckManagerFails
<1>36. CASE SettleDelete
  BY <1>1, <1>3, <1>5, <1>36 DEF SettleDelete
<1>37. CASE FinishReconcile
  BY <1>2, <1>37 DEF FinishReconcile, skrVars, ToPrune
<1> QED BY <1>6, <1>7, <1>8, <1>9, <1>10, <1>11, <1>12, <1>13, <1>14, <1>15, <1>16, <1>17, <1>18,
           <1>19, <1>20, <1>21, <1>22, <1>23, <1>24, <1>25, <1>26, <1>27, <1>28, <1>29, <1>30,
           <1>31, <1>32, <1>33, <1>34, <1>35, <1>36, <1>37
        DEF Reconcile

\* So does each step around it.
LEMMA SurroundingsCR ==
    ASSUME TypeOK, StartFresh \/ StartStale \/ Abort \/ ClientExpires \/ Outside \/ Cluster
    PROVE  (read' = read \/ read' = kcp) /\ CRChange /\ ToPrune
<1> USE DEF envVars, NoFault, Fault
<1>1. CASE StartFresh
  BY <1>1 DEF StartFresh, skrVars, CRChange, ToPrune
<1>2. CASE StartStale
  BY <1>2, Zenon DEF StartStale, skrVars, CRChange, ToPrune
<1>3. CASE Abort
  BY <1>3, Zenon DEF Abort, skrVars, CRChange, ToPrune
<1>4. CASE ClientExpires
  BY <1>4, Zenon DEF ClientExpires, skrVars, CRChange, ToPrune
<1>5. CASE Upgrade \/ ChangePolicy \/ ChangeManaged \/ DeleteManifest
  BY <1>5, Zenon DEF Upgrade, ChangePolicy, ChangeManaged, DeleteManifest, Change, ctrlVars,
                     skrVars, CRChange, ToPrune
<1>6. CASE CreateModuleCR \/ DisturbManager
  BY <1>6, Zenon DEF CreateModuleCR, DisturbManager, Change, ctrlVars, CRChange, ToPrune
<1>7. CASE DeleteDefaultCRByUser
  BY <1>7 DEF DeleteDefaultCRByUser, Change, ctrlVars, CRChange, ToPrune
<1>8. CASE TearDownSkr
  BY <1>8, Zenon DEF TearDownSkr, Change, ctrlVars, CRChange, ToPrune
<1>9. CASE Cluster
  <2>1. CASE DefaultCRGone
    BY <2>1, Zenon DEF DefaultCRGone, SkrStep, ctrlVars, CRChange, ToPrune
  <2>2. CASE ManagerReady \/ ModuleCRsGone \/ \E r \in Resources: ResourceGone(r)
    <3>1. UNCHANGED <<read, pc, m, target, defaultCR, secret>>
      BY <2>2, Zenon DEF ManagerReady, ModuleCRsGone, ResourceGone, SkrStep, ctrlVars
    <3> QED BY <3>1 DEF CRChange, ToPrune
  <2> QED BY <1>9, <2>1, <2>2 DEF Cluster
<1> QED BY <1>1, <1>2, <1>3, <1>4, <1>5, <1>6, <1>7, <1>8, <1>9 DEF Outside

\* Every step keeps the invariant.
LEMMA CRKeeps ==
    ASSUME TypeOK, IInv, CRInv, Next, "crRead" \notin Faults, "policy" \notin Changes
    PROVE  CRInv'
<1>1. kcp'.policy = kcp.policy
  BY PolicyWritten
<1>2. (read' = read \/ read' = kcp) /\ CRChange /\ ToPrune
  BY ReconcileCR, SurroundingsCR DEF Next
<1>3. pc # "idle" => m.policy = kcp.policy
  BY DEF IInv, WorkingCopy, SameButStatus, CRInv, PolicyKept
<1>4. PolicyKept'
  BY <1>1, <1>2 DEF CRInv, PolicyKept
<1>5. CRNeedsPolicy'
  BY <1>1, <1>2, <1>3 DEF CRInv, CRNeedsPolicy, CRChange, CRCreated
<1>6. EmptyMeansGone'
  <2> SUFFICES ASSUME pc' = "prune", target' = {}
               PROVE  ResOf[m'.ref] = {} \/ defaultCR' = "absent"
    BY DEF EmptyMeansGone
  <2>0. m \in Manifest
    BY DEF TypeOK
  <2>1. CASE RenderForInstall
    <3>1. target' = ResOf[m.ref] /\ m' = SetResourcesConditionTrue(m)
      BY <2>1, Zenon DEF RenderForInstall, GoTo
    <3> QED BY <2>0, <3>1, StatusOnly DEF SameButStatus
  <2>2. CASE RenderForDelete
    <3>1. m' = m /\ pc = "resolve" /\ defaultCR' = defaultCR
      BY <2>2, Zenon DEF RenderForDelete, GoTo, skrVars, SpecTracked, Prepared
    <3>2. \/ target' = IF DefaultCRExists THEN ResOf[m.ref] ELSE {}
          \/ ~secret
      BY <2>2 DEF RenderForDelete, Fault
    <3>3. defaultCR # "absent" => DefaultCRExists /\ secret
      BY <1>3, <3>1 DEF CRInv, CRNeedsPolicy, DefaultCRExists
    <3> QED BY <3>1, <3>2, <3>3
  <2>3. CASE UNCHANGED <<pc, target, m>> /\ (defaultCR = "absent" => defaultCR' = "absent")
    BY <2>3 DEF CRInv, EmptyMeansGone
  <2> QED BY <1>2, <2>1, <2>2, <2>3 DEF ToPrune
<1> QED BY <1>4, <1>5, <1>6 DEF CRInv

\* The operator-related resources are in the diff only when nothing was rendered.
LEMMA OperatorPruned ==
    ASSUME TypeOK, IInv, pc = "prune",
           \A ref \in Refs: OperatorRelated \ {KymaNamespace} \subseteq ResOf[ref],
           NEW r \in OperatorRelated, r \in Diff
    PROVE  target = {} /\ ResOf[m.ref] # {}
<1>1. m.ref \in Refs
  BY Zenon DEF TypeOK, Manifest
<1>2. r \notin target /\ r # KymaNamespace
  BY DEF Diff
<1>3. r \in ResOf[m.ref]
  BY <1>1, <1>2
<1> QED BY <1>2, <1>3 DEF IInv, Rendered

\* Only prune deletes resources.
LEMMA OnlyPruneDeletes ==
    ASSUME TypeOK, Next, NEW r \in Resources, skr[r] = "live", skr'[r] = "terminating"
    PROVE  pc = "prune" /\ r \in Diff
<1>1. ASSUME UNCHANGED skr
      PROVE  FALSE
  BY <1>1
<1>2. ASSUME NEW rs, skr' = [x \in Resources |->
                                 IF x \in rs /\ skr[x] = "absent" THEN "live" ELSE skr[x]]
      PROVE  FALSE
  BY <1>2
<1>3. ASSUME NEW rs, DeleteResources(rs)
      PROVE  r \in rs
  BY <1>3 DEF DeleteResources
<1>4. CASE PruneDiff
  BY <1>1, <1>3, <1>4 DEF PruneDiff, MayPrune, Batch
<1>5. CASE PruneFails
  <2>1. PICK rs \in SUBSET Batch : DeleteResources(rs)
    BY <1>5 DEF PruneFails
  <2> QED BY <1>3, <1>5, <2>1 DEF PruneFails, MayPrune, Batch
<1>6. CASE SyncResources \/ SyncFails
  BY <1>2, <1>6, Zenon DEF SyncResources, SyncFails, ApplyResources
<1>7. CASE TearDownSkr
  BY <1>7 DEF TearDownSkr
<1>8. CASE \E x \in Resources: ResourceGone(x)
  BY <1>8 DEF ResourceGone, TypeOK
<1>9. CASE StartFresh \/ StartStale \/ Abort \/ ClientExpires
  BY <1>1, <1>9, Zenon DEF StartFresh, StartStale, Abort, ClientExpires, skrVars
<1>10. CASE \/ Upgrade \/ ChangePolicy \/ ChangeManaged \/ DeleteManifest
            \/ CreateModuleCR \/ DeleteDefaultCRByUser \/ DisturbManager
            \/ ManagerReady \/ DefaultCRGone \/ ModuleCRsGone
  BY <1>1, <1>10, Zenon DEF Upgrade, ChangePolicy, ChangeManaged, DeleteManifest, CreateModuleCR,
         DeleteDefaultCRByUser, DisturbManager, ManagerReady, DefaultCRGone, ModuleCRsGone, skrVars
<1>11. ASSUME SkrUntouched \/ UNCHANGED skrVars
       PROVE  FALSE
  BY <1>1, <1>11, Zenon DEF SkrUntouched, skrVars
<1>12. CASE \/ InitializeStatus \/ GetTargetClient \/ AccessSecretNotFound \/ TargetClientFails
            \/ DeleteUnmanaged \/ CleanupUnmanaged \/ DetectOrphan \/ AddFinalizers \/ SpecFails
            \/ TrackSpec \/ RenderForInstall \/ RenderFails \/ WaitForModuleCRs
            \/ RenderForDelete \/ ListModuleCRsFails \/ DiffInSameLayer
  BY <1>11, <1>12, Zenon DEF InitializeStatus, GetTargetClient, AccessSecretNotFound,
         TargetClientFails, DeleteUnmanaged, CleanupUnmanaged, DetectOrphan, AddFinalizers,
         SpecFails, TrackSpec, RenderForInstall, RenderFails, WaitForModuleCRs,
         RenderForDelete, ListModuleCRsFails, DiffInSameLayer
<1>13. CASE \/ RemoveCRFinalizer \/ SkipDefaultCR \/ RemoveDefaultCRFails \/ CreateDefaultCRFails
            \/ EnsureCRFinalizer \/ SettleInstall \/ CheckManagerFails \/ SettleDelete
            \/ FinishReconcile
  BY <1>11, <1>13, Zenon DEF RemoveCRFinalizer, SkipDefaultCR, RemoveDefaultCRFails,
         CreateDefaultCRFails, EnsureCRFinalizer, SettleInstall, CheckManagerFails, SettleDelete,
         FinishReconcile
<1>14. CASE RemoveManagedByLabel \/ DeleteDefaultCR \/ SyncDefaultModuleCR
  BY <1>1, <1>14, Zenon DEF RemoveManagedByLabel, DeleteDefaultCR, SyncDefaultModuleCR
<1> QED BY <1>4, <1>5, <1>6, <1>7, <1>8, <1>9, <1>10, <1>12, <1>13, <1>14
        DEF Next, Reconcile, Outside, Cluster

\* While a Manifest is being deleted, what the module operator runs on is deleted only
\* when the default CR is gone (renderResourcesForDelete, DeleteDiffResources): for
\* every module all of whose versions have the operator's own resources, whatever is
\* read late, aborted, changed or retried.  Two things are assumed away: a failed
\* List of module CRs, which counts as an empty one, and a change of the
\* customResourcePolicy.
THEOREM OperatorStays ==
    ASSUME "crRead" \notin Faults, "policy" \notin Changes,
           \A ref \in Refs: OperatorRelated \ {KymaNamespace} \subseteq ResOf[ref]
    PROVE  Spec => OperatorOutlivesCR
<1>1. Init => IInv /\ CRInv
  <2> SUFFICES ASSUME Init PROVE IInv /\ CRInv
    OBVIOUS
  <2>1. IInv
    BY Zenon DEF Init, IInv, FreshReading, WorkingCopy, SyncedAsRead, Rendered,
           NothingDiffered, ReplacedAnnotation, Gone, NewManifest
  <2>2. CRInv
    BY Zenon DEF Init, CRInv, PolicyKept, CRNeedsPolicy, EmptyMeansGone, Gone, NewManifest
  <2> QED
    BY <2>1, <2>2
<1>2. TypeOK /\ IInv /\ CRInv /\ [Next]_vars => IInv' /\ CRInv'
  <2> SUFFICES ASSUME TypeOK, IInv, CRInv, [Next]_vars
               PROVE  IInv' /\ CRInv'
    OBVIOUS
  <2>1. CASE Next
    BY <2>1, ReconcileKeeps, SurroundingsKeep, CRKeeps DEF Next
  <2>2. CASE UNCHANGED vars
    <3>1. IInv'
      BY <2>2, NothingWritten, Zenon DEF vars, objVars
    <3> QED BY <2>2, <3>1 DEF vars, CRInv, PolicyKept, CRNeedsPolicy, EmptyMeansGone
  <2> QED
    BY <2>1, <2>2
<1>3. TypeOK /\ IInv /\ CRInv /\ [Next]_vars =>
        [kcp.deleting /\ DeletesOperatorPart => defaultCR = "absent"]_vars
  <2> SUFFICES ASSUME TypeOK, IInv, CRInv, Next, DeletesOperatorPart
               PROVE  defaultCR = "absent"
    OBVIOUS
  <2>1. PICK r \in OperatorRelated: skr[r] = "live" /\ skr'[r] = "terminating"
    BY DEF DeletesOperatorPart
  <2>2. pc = "prune" /\ r \in Diff
    BY <2>1, OnlyPruneDeletes, ResourcesAssumption
  <2> QED BY <2>2, OperatorPruned DEF CRInv, EmptyMeansGone
<1> QED
  BY <1>1, <1>2, <1>3, TypeCorrect, PTL DEF Spec, OperatorOutlivesCR

-----------------------------------------------------------------------------
(* What is left in the SKR.  The controller knows what it applied only from  *)
(* the status, which it writes at the end of a reconciliation, and it may    *)
(* read a version of the Manifest that is no longer the latest.  The         *)
(* invariant says what the last version read allows the next reconciliation  *)
(* to do, one case for each kind of version.                                 *)

\* No call fails, the Kyma controller changes a Manifest only when it is settled (one
\* without a default CR may be deleted at any time), and the default CR does not vanish
\* between the two places of a reconciliation that look for it.
Undisturbed == Faults = {} /\ SettledOnly /\ SteadyCR

\* The resources that are the controller's to clean up.
Carried == labelled \ {KymaNamespace}

\* The status lists what the reference renders to.
Done(x) == x.synced = ResOf[x.ref]

\* A Manifest nothing was applied for yet.
Untouched(x) ==
    /\ x.synced = {} /\ x.state # "Ready" /\ x.op # "syncDiff" /\ ~x.unmanaged
    /\ x.deleting => x.policy # "create"

\* The status of a Manifest that is being installed: a sync that differs will show
\* in it, and the annotation tells whether the sync of another reference began.
Sound(x) ==
    /\ ~Done(x) => ~(x.state = "Processing" /\ x.op = "syncDiff")
    /\ x.syncedRef = x.ref => x.synced = {} \/ Done(x)
    /\ x.state = "" \/ x.syncedRef = NoRef => x.synced = {}
    /\ x.state = "Ready" => x.syncedRef # NoRef

\* k is the Manifest, r the version that was read, c what is carried, d the default CR.
\* The Manifest was not read yet, or it was gone.
NothingRead(k, r, c) ==
    /\ ~r.present /\ c = {}
    /\ k.present => Untouched(k)

\* The version that was read has no finalizers yet.
NewRead(k, r, c) ==
    /\ r.present /\ ~r.deleting /\ ~r.unmanaged /\ FinalizersUpdateRequired(r)
    /\ c = {} /\ r.policy = k.policy /\ ~k.unmanaged
    /\ Untouched(r)
    /\ k.present => Untouched(k)

\* It is to be installed: the Manifest is still there, whatever happened since.
ToInstall(k, r) ==
    /\ r.present /\ ~r.deleting /\ ~r.unmanaged /\ ~FinalizersUpdateRequired(r) /\ Sound(r)
    /\ k.present /\ ~FinalizersUpdateRequired(k)
    /\ k.synced \in {r.synced, ResOf[r.ref]}
    /\ ~k.deleting /\ ~k.unmanaged => Sound(k)
    /\ r.syncedRef # NoRef => k.syncedRef # NoRef
    /\ k.ref # r.ref => Done(r) /\ k.syncedRef # k.ref
    /\ ~k.deleting /\ ~k.unmanaged /\ k.state = "Ready" /\ k.syncedRef = k.ref => Done(r)
    /\ k.deleting => ~k.unmanaged
    /\ k.deleting /\ k.policy = "create" =>
          Done(r) /\ k.ref = r.ref /\ CRManager \in k.finalizers

\* How far the installation is: p is the step, x the working copy.
Installs(k, r, c, p, x) ==
    /\ p \in {"idle", "prepare", "resolve", "prune", "sync", "defaultCR", "settle", "finish"}
    /\ c \subseteq r.synced \cup ResOf[r.ref]
    /\ r.state = "" => c = {} /\ p \in {"idle", "prepare", "finish"}
    /\ r.syncedRef = NoRef => c = {} /\ p \in {"idle", "prepare", "resolve", "finish"}
    /\ p # "finish" => c \subseteq k.synced
    /\ p \notin {"idle", "finish"} => x.state = r.state /\ (x.op = "syncDiff" => r.op = "syncDiff")
    /\ p = "sync" => c \subseteq ResOf[r.ref]
    /\ p = "finish" =>
          \/ /\ Done(r) /\ r.syncedRef # NoRef /\ x.synced = r.synced /\ c \subseteq r.synced
             /\ x.state # "" /\ (x.op = "syncDiff" => ~HasStatusDiff(x, r))
          \/ /\ ~Done(r) /\ r.syncedRef # NoRef /\ x.synced = ResOf[r.ref] /\ c \subseteq ResOf[r.ref]
             /\ x.state = "Processing" /\ x.op = "syncDiff"
          \/ r.state = "" /\ x.synced = {} /\ x.state = "Processing" /\ x.op = "emptyState"

\* It is unmanaged.
UnmanagedRead(k, r, c) ==
    /\ r.present /\ r.unmanaged /\ k.unmanaged
    /\ c \subseteq r.synced
    /\ r.deleting \/ LabelRemoval \notin r.finalizers => c = {}
    /\ k.present => c \subseteq k.synced
    /\ ~k.present \/ k.deleting \/ LabelRemoval \notin k.finalizers => c = {}

\* There is no default CR to wait for.
Vacant(r, d) == r.policy = "create" => d = "absent"

\* It is being deleted.
ToRemove(k, r, c, d) ==
    /\ r.present /\ r.deleting /\ ~r.unmanaged
    /\ ~k.unmanaged /\ k.policy = r.policy
    /\ c \subseteq r.synced
    /\ k.present => k.deleting /\ c \subseteq k.synced /\ k.ref = r.ref
    /\ ~k.present => c = {} /\ Vacant(r, d)
    /\ ~Vacant(r, d) => CRManager \in k.finalizers /\ Done(r) /\ Done(k)

\* How far the deletion is; t is what was rendered.
Removes(k, r, c, d, p, x, t) ==
    /\ p \in {"idle", "prepare", "resolve", "prune", "removeCR", "sync", "settle", "finish"}
    /\ p \in {"prune", "removeCR"} /\ t # {} => ~Vacant(r, d)
    /\ p \in {"prune", "removeCR", "sync", "settle"} /\ ~Vacant(r, d) => t = ResOf[r.ref]
    /\ p = "removeCR" /\ t = {} => c = {}
    /\ p \in {"sync", "settle"} =>
          \/ c = {} /\ t = {}
          \/ k.present /\ CRManager \in k.finalizers /\ Done(r) /\ Done(k) /\ t = ResOf[r.ref]
    /\ p = "finish" => c \subseteq x.synced /\ (~Vacant(r, d) => x.synced = r.synced)

NothingKind == NothingRead(kcp, read, Carried) /\ pc = "idle"

NewKind ==
    /\ NewRead(kcp, read, Carried)
    /\ pc \in {"idle", "prepare", "resolve", "finish"} /\ (pc = "finish" => Untouched(m))

InstallKind == ToInstall(kcp, read) /\ Installs(kcp, read, Carried, pc, m)

UnmanagedKind ==
    /\ UnmanagedRead(kcp, read, Carried)
    /\ pc \in {"idle", "prepare", "resolve", "finish"} /\ (pc = "finish" => Carried \subseteq m.synced)

RemoveKind ==
    /\ ToRemove(kcp, read, Carried, defaultCR)
    /\ Removes(kcp, read, Carried, defaultCR, pc, m, target)

Kinds == NothingKind \/ NewKind \/ InstallKind \/ UnmanagedKind \/ RemoveKind

\* Only what is in the SKR carries a label, and a deleted Manifest has a finalizer.
LabelsLive == \A r \in labelled : skr[r] # "absent"
Held == kcp.present /\ kcp.deleting => kcp.finalizers # {}

\* What has no label is not in the SKR, unless the Manifest is unmanaged.
AllCarried == ~kcp.unmanaged => \A r \in Resources \ labelled : skr[r] = "absent"

\* The invariant; an SKR that was torn down holds nothing.
LInv ==
    /\ secret => LabelsLive /\ Held /\ AllCarried /\ Kinds
    /\ ~secret => labelled = {}
-----------------------------------------------------------------------------
(* What the steps write. *)

\* A patch of the status leaves everything else.
Patched(new, k, x) ==
    SameButStatus(new, k) /\ new.state = x.state /\ new.op = x.op /\ new.synced = x.synced

\* PatchStatusIfDiffExist writes such a patch.
LEMMA PatchGives ==
    ASSUME NEW k \in Manifest, NEW x, NEW new,
           new = [k EXCEPT !.state = x.state, !.op = x.op, !.synced = x.synced,
                           !.parsed = x.parsed, !.crCreated = x.crCreated]
    PROVE  Patched(new, k, x)
BY DEF Manifest, SameButStatus, Patched

\* The end of a reconciliation patches the status or nothing.
LEMMA FinishGives ==
    ASSUME TypeOK, FinishReconcile
    PROVE  /\ pc \in {"finish", "finishEvict"} /\ pc' = "idle" /\ m' = m /\ read' = read
           /\ target' = target /\ labelled' = labelled /\ skr' = skr /\ defaultCR' = defaultCR
           /\ secret' = secret
           /\ HasStatusDiff(m, read) /\ kcp.present => Patched(kcp', kcp, m)
           /\ ~(HasStatusDiff(m, read) /\ kcp.present) => kcp' = kcp
<1>1. HasStatusDiff(m, read) /\ kcp.present => Patched(kcp', kcp, m)
  BY PatchGives, Zenon DEF FinishReconcile, TypeOK
<1>2. ~(HasStatusDiff(m, read) /\ kcp.present) => kcp' = kcp
  BY DEF FinishReconcile, objVars
<1> QED BY <1>1, <1>2 DEF FinishReconcile, skrVars, NoFault, envVars

\* An Update writes the finalizers and the annotation; without a finalizer a deleted
\* Manifest is gone.
Rewritten(new, k, fs, ref) ==
    /\ new.unmanaged = k.unmanaged /\ new.policy = k.policy /\ new.ref = k.ref
    /\ k.deleting /\ fs = {} => ~new.present
    /\ ~(k.deleting /\ fs = {}) =>
          /\ new.present = k.present /\ new.deleting = k.deleting /\ new.finalizers = fs
          /\ new.syncedRef = ref /\ new.state = k.state /\ new.op = k.op /\ new.synced = k.synced

\* What is remembered of a Manifest that is gone.
LEMMA GoneGives ==
    ASSUME NEW x, NEW new, new = Gone(x)
    PROVE  new.present = FALSE /\ new.unmanaged = x.unmanaged /\ new.policy = x.policy /\ new.ref = x.ref
BY DEF Gone, NewManifest

\* updateManifest writes just that.
LEMMA RewriteGives ==
    ASSUME NEW k \in Manifest, NEW fs, NEW ref, NEW new,
           new = Stored([k EXCEPT !.finalizers = fs, !.syncedRef = ref])
    PROVE  Rewritten(new, k, fs, ref)
<1>1. PICK y : y = [k EXCEPT !.finalizers = fs, !.syncedRef = ref]
  BY Zenon
<1>2. /\ y.finalizers = fs /\ y.syncedRef = ref
      /\ y.present = k.present /\ y.deleting = k.deleting /\ y.unmanaged = k.unmanaged
      /\ y.ref = k.ref /\ y.policy = k.policy
      /\ y.state = k.state /\ y.op = k.op /\ y.synced = k.synced
  BY <1>1 DEF Manifest
<1>3. CASE y.deleting /\ y.finalizers = {}
  <2>1. new = Gone(y)
    BY <1>1, <1>3, Zenon DEF Stored
  <2> QED BY <1>2, <1>3, <2>1, GoneGives, Zenon DEF Rewritten
<1>4. CASE ~(y.deleting /\ y.finalizers = {})
  <2>1. new = y
    BY <1>1, <1>4, Zenon DEF Stored
  <2> QED BY <1>2, <1>4, <2>1 DEF Rewritten
<1> QED BY <1>3, <1>4

\* It is made only of the version that was read.
LEMMA UpdateGives ==
    ASSUME TypeOK, IInv, NEW x, UpdateManifest(x), pc \notin {"idle", "finish", "finishEvict"}
    PROVE  /\ pc' = "idle"
           /\ \/ kcp' = kcp
              \/ /\ kcp = read /\ m.synced = kcp.synced /\ SameButStatus(m, kcp)
                 /\ Rewritten(kcp', kcp, x.finalizers, x.syncedRef)
<1>1. pc' = "idle"
  BY DEF UpdateManifest
<1>2. CASE ~fresh
  BY <1>1, <1>2 DEF UpdateManifest, objVars
<1>3. CASE fresh
  <2>1. kcp' = Stored([kcp EXCEPT !.finalizers = x.finalizers, !.syncedRef = x.syncedRef])
    BY <1>3 DEF UpdateManifest
  <2>2. Rewritten(kcp', kcp, x.finalizers, x.syncedRef)
    BY <2>1, RewriteGives, Zenon DEF TypeOK
  <2>3. kcp = read
    BY <1>3, Zenon DEF IInv, FreshReading
  <2>4. m.synced = read.synced /\ SameButStatus(m, read)
    BY Zenon DEF IInv, WorkingCopy, SyncedAsRead
  <2> QED BY <1>1, <2>2, <2>3, <2>4, Zenon
<1> QED BY <1>2, <1>3, Zenon

\* A deletion marks the Manifest, or removes it when it has no finalizer.
Marked(new, k) ==
    /\ new.unmanaged = k.unmanaged /\ new.policy = k.policy /\ new.ref = k.ref
    /\ k.finalizers = {} => ~new.present
    /\ k.finalizers # {} =>
          /\ new.present = k.present /\ new.deleting /\ new.finalizers = k.finalizers
          /\ new.syncedRef = k.syncedRef /\ new.state = k.state /\ new.op = k.op /\ new.synced = k.synced

\* Delete does just that.
LEMMA MarkGives ==
    ASSUME NEW k \in Manifest, NEW new, new = Stored([k EXCEPT !.deleting = TRUE])
    PROVE  Marked(new, k)
<1>1. PICK y : y = [k EXCEPT !.deleting = TRUE]
  BY Zenon
<1>2. /\ y.finalizers = k.finalizers /\ y.syncedRef = k.syncedRef
      /\ y.present = k.present /\ y.deleting /\ y.unmanaged = k.unmanaged
      /\ y.ref = k.ref /\ y.policy = k.policy
      /\ y.state = k.state /\ y.op = k.op /\ y.synced = k.synced
  BY <1>1 DEF Manifest
<1>3. CASE y.finalizers = {}
  <2>1. new = Gone(y)
    BY <1>1, <1>2, <1>3, Zenon DEF Stored
  <2> QED BY <1>2, <1>3, <2>1, GoneGives, Zenon DEF Marked
<1>4. CASE y.finalizers # {}
  <2>1. new = y
    BY <1>1, <1>4, Zenon DEF Stored
  <2> QED BY <1>2, <1>4, <2>1 DEF Marked
<1> QED BY <1>3, <1>4

\* What a status is set to leaves the rest of it.
LEMMA StatusGives ==
    ASSUME NEW x \in Manifest, NEW s, NEW o
    PROVE  /\ WithState(x, s, o).state = s /\ WithState(x, s, o).op = o
           /\ WithState(x, s, o).synced = x.synced
BY DEF WithState, Manifest

\* Nothing fails.
LEMMA CalmSteps ==
    ASSUME Undisturbed, secret, Reconcile
    PROVE  \/ InitializeStatus \/ GetTargetClient \/ RemoveManagedByLabel \/ DeleteUnmanaged
           \/ CleanupUnmanaged \/ AddFinalizers \/ TrackSpec \/ RenderForInstall
           \/ WaitForModuleCRs \/ RenderForDelete \/ DiffInSameLayer \/ PruneDiff
           \/ DeleteDefaultCR \/ RemoveCRFinalizer \/ SkipDefaultCR \/ SyncResources
           \/ SyncDefaultModuleCR \/ EnsureCRFinalizer \/ SettleInstall \/ SettleDelete
           \/ FinishReconcile
<1>1. \A kind : ~Fault(kind)
  BY DEF Fault, Undisturbed
<1>2. ~SkrCallFails
  BY <1>1, Zenon DEF SkrCallFails
<1>3. ~AccessSecretNotFound /\ ~TargetClientFails /\ ~DetectOrphan /\ ~SpecFails /\ ~RenderFails
  BY <1>1, Zenon DEF AccessSecretNotFound, TargetClientFails, DetectOrphan, SpecFails, RenderFails
<1>4. /\ ~ListModuleCRsFails /\ ~PruneFails /\ ~RemoveDefaultCRFails /\ ~SyncFails
      /\ ~CreateDefaultCRFails /\ ~CheckManagerFails
  BY <1>1, <1>2, Zenon DEF ListModuleCRsFails, PruneFails, RemoveDefaultCRFails, SyncFails,
                           CreateDefaultCRFails, CheckManagerFails
<1> QED BY <1>3, <1>4, Zenon DEF Reconcile

\* A step of a reconciliation is taken only while one runs.
LEMMA ReconcileStarted ==
    ASSUME Undisturbed, secret, Reconcile
    PROVE  pc # "idle"
<1>1. /\ InitializeStatus \/ GetTargetClient => pc = "prepare"
      /\ RemoveManagedByLabel \/ DeleteUnmanaged \/ CleanupUnmanaged \/ AddFinalizers => pc = "resolve"
  BY Zenon DEF InitializeStatus, GetTargetClient, RemoveManagedByLabel, DeleteUnmanaged,
               CleanupUnmanaged, AddFinalizers
<1>2. /\ TrackSpec \/ RenderForInstall \/ WaitForModuleCRs \/ RenderForDelete => pc = "resolve"
      /\ DiffInSameLayer \/ PruneDiff => pc = "prune"
  BY Zenon DEF TrackSpec, SpecTracked, Prepared, RenderForInstall, WaitForModuleCRs,
               RenderForDelete, DiffInSameLayer, PruneDiff, MayPrune
<1>3. /\ DeleteDefaultCR \/ RemoveCRFinalizer \/ SkipDefaultCR => pc = "removeCR"
      /\ SyncResources => pc = "sync"
      /\ SyncDefaultModuleCR => pc = "defaultCR"
  BY Zenon DEF DeleteDefaultCR, RemoveCRFinalizer, SkipDefaultCR, SyncResources, SyncDefaultModuleCR
<1>4. /\ EnsureCRFinalizer \/ SettleInstall \/ SettleDelete => pc = "settle"
      /\ FinishReconcile => pc \in {"finish", "finishEvict"}
  BY Zenon DEF EnsureCRFinalizer, SettleInstall, SettleDelete, FinishReconcile
<1> QED BY <1>1, <1>2, <1>3, <1>4, CalmSteps

\* Nothing but the reconciliation of a Manifest that is to be installed or removed
\* gets past the preparation.
LEMMA EarlySteps ==
    ASSUME Undisturbed, secret, Reconcile, pc \in {"idle", "prepare", "resolve", "finish"}, ~Prepared
    PROVE  \/ InitializeStatus \/ GetTargetClient \/ RemoveManagedByLabel \/ DeleteUnmanaged
           \/ CleanupUnmanaged \/ AddFinalizers \/ FinishReconcile
<1>1. /\ ~TrackSpec /\ ~RenderForInstall /\ ~WaitForModuleCRs /\ ~RenderForDelete
  BY Zenon DEF TrackSpec, SpecTracked, RenderForInstall, WaitForModuleCRs, RenderForDelete
<1>2. /\ ~DiffInSameLayer /\ ~PruneDiff /\ ~DeleteDefaultCR /\ ~RemoveCRFinalizer /\ ~SkipDefaultCR
      /\ ~SyncResources /\ ~SyncDefaultModuleCR /\ ~EnsureCRFinalizer /\ ~SettleInstall /\ ~SettleDelete
  BY DEF DiffInSameLayer, PruneDiff, MayPrune, DeleteDefaultCR, RemoveCRFinalizer, SkipDefaultCR,
         SyncResources, SyncDefaultModuleCR, EnsureCRFinalizer, SettleInstall, SettleDelete
<1> QED BY <1>1, <1>2, CalmSteps, Zenon

-----------------------------------------------------------------------------
(* Unmanaged: what is unmanaged stays so, and nothing is labelled again. *)

\* It ends with nothing left to carry.
LEMMA UnmanagedEnds ==
    ASSUME UnmanagedRead(kcp, read, Carried), read' = read, pc' = "idle", Carried' = {}, kcp'.unmanaged
    PROVE  UnmanagedKind'
BY DEF UnmanagedKind, UnmanagedRead

\* So does an Update of its finalizers.
LEMMA UnmanagedUpdate ==
    ASSUME TypeOK, IInv, UnmanagedRead(kcp, read, Carried), NEW fs, Carried' = {}, read' = read,
           UpdateManifest([m EXCEPT !.finalizers = fs]), pc = "resolve"
    PROVE  UnmanagedKind' /\ ~AnnotationMoves
<1>1. PICK x : x = [m EXCEPT !.finalizers = fs]
  BY Zenon
<1>2. x.syncedRef = m.syncedRef
  BY <1>1 DEF TypeOK, Manifest
<1>3. /\ pc' = "idle"
      /\ \/ kcp' = kcp
         \/ SameButStatus(m, kcp) /\ Rewritten(kcp', kcp, x.finalizers, x.syncedRef)
  BY <1>1, UpdateGives, Zenon
<1>4. kcp'.unmanaged /\ ~AnnotationMoves
  BY <1>2, <1>3, Zenon DEF Rewritten, SameButStatus, AnnotationMoves, UnmanagedRead
<1> QED BY <1>3, <1>4, UnmanagedEnds

\* Each step of the reconciliation of an unmanaged Manifest keeps its case of the invariant.
LEMMA UnmanagedKept ==
    ASSUME TypeOK, IInv, Undisturbed, secret, UnmanagedKind, Reconcile
    PROVE  UnmanagedKind' /\ ~AnnotationMoves
<1>1. UnmanagedRead(kcp, read, Carried) /\ pc \in {"idle", "prepare", "resolve", "finish"}
  BY DEF UnmanagedKind
<1>2. pc # "idle" => SameButStatus(m, read) /\ m.unmanaged
  BY <1>1, ZenonT(60) DEF IInv, WorkingCopy, SameButStatus, UnmanagedRead
<1>3. pc \in {"prepare", "resolve"} => m.synced = read.synced
  BY DEF IInv, SyncedAsRead
<1>4. ~Prepared /\ ~AddFinalizers
  BY <1>2 DEF Prepared, AddFinalizers
<1>5. CASE InitializeStatus
  <2>1. /\ kcp' = kcp /\ read' = read /\ labelled' = labelled /\ pc = "prepare" /\ pc' = "finish"
        /\ m' = WithState(m, "Processing", "emptyState")
    BY <1>5, Zenon DEF InitializeStatus, Finish, objVars, SkrUntouched, skrVars
  <2>2. m'.synced = m.synced
    BY <2>1, StatusGives DEF TypeOK
  <2> QED BY <1>1, <1>3, <2>1, <2>2, Zenon DEF UnmanagedKind, UnmanagedRead, Carried, AnnotationMoves
<1>6. CASE GetTargetClient
  <2>1. kcp' = kcp /\ read' = read /\ labelled' = labelled /\ pc' = "resolve"
    BY <1>6, Zenon DEF GetTargetClient, GoTo, objVars, skrVars
  <2> QED BY <1>1, <2>1, Zenon DEF UnmanagedKind, UnmanagedRead, Carried, AnnotationMoves
<1>7. CASE RemoveManagedByLabel
  <2>1. read' = read /\ pc = "resolve"
    BY <1>7, Zenon DEF RemoveManagedByLabel
  <2>2. CASE RemoveLabels(m.synced) /\ UpdateManifest([m EXCEPT !.finalizers = @ \ {LabelRemoval}])
    <3>1. Carried' = {}
      BY <1>1, <1>3, <2>1, <2>2 DEF RemoveLabels, Carried, UnmanagedRead
    <3> QED BY <1>1, <2>1, <2>2, <3>1, UnmanagedUpdate
  <2>3. CASE Requeue /\ \E done : RemoveLabels(done)
    <3>1. kcp' = kcp /\ pc' = "idle" /\ Carried' \subseteq Carried
      BY <2>3 DEF Requeue, RemoveLabels, Carried
    <3> QED BY <1>1, <2>1, <3>1 DEF UnmanagedKind, UnmanagedRead, AnnotationMoves
  <2> QED BY <1>7, <2>2, <2>3, Zenon DEF RemoveManagedByLabel
<1>8. CASE DeleteUnmanaged
  <2>1. /\ read' = read /\ labelled' = labelled /\ pc' = "idle" /\ pc = "resolve"
        /\ LabelRemoval \notin m.finalizers
        /\ kcp' = kcp \/ kcp' = Stored([kcp EXCEPT !.deleting = TRUE])
    BY <1>8, Zenon DEF DeleteUnmanaged, objVars, SkrUntouched, skrVars
  <2>2. Carried' = {}
    BY <1>1, <1>2, <2>1 DEF UnmanagedRead, SameButStatus, Carried
  <2>3. kcp' = kcp \/ Marked(kcp', kcp)
    BY <2>1, MarkGives DEF TypeOK
  <2>4. kcp'.unmanaged /\ ~AnnotationMoves
    BY <1>1, <2>3, Zenon DEF Marked, UnmanagedRead, AnnotationMoves
  <2> QED BY <1>1, <2>1, <2>2, <2>4, UnmanagedEnds
<1>9. CASE CleanupUnmanaged
  <2>1. PICK fs :
          \/ UpdateManifest([m EXCEPT !.finalizers = fs])
          \/ Finish(WithState(m, "Deleting", "waitingForFinalizers")) \/ Finish(m)
    BY <1>9, Zenon DEF CleanupUnmanaged, CleanupManifest
  <2>2. read' = read /\ labelled' = labelled /\ pc = "resolve" /\ m.deleting
    BY <1>9, Zenon DEF CleanupUnmanaged, SkrUntouched, skrVars
  <2>3. Carried = {} /\ Carried' = {}
    BY <1>1, <1>2, <2>2, Zenon DEF UnmanagedRead, SameButStatus, Carried
  <2>4. CASE UpdateManifest([m EXCEPT !.finalizers = fs])
    BY <1>1, <2>2, <2>3, <2>4, UnmanagedUpdate
  <2>5. CASE Finish(WithState(m, "Deleting", "waitingForFinalizers")) \/ Finish(m)
    <3>1. pc' = "finish" /\ kcp' = kcp
      BY <2>5 DEF Finish, objVars
    <3> QED BY <1>1, <2>2, <2>3, <3>1 DEF UnmanagedKind, UnmanagedRead, AnnotationMoves
  <2> QED BY <2>1, <2>4, <2>5
<1>10. CASE FinishReconcile
  <2>1. /\ read' = read /\ labelled' = labelled /\ pc' = "idle" /\ pc = "finish"
        /\ kcp' = kcp \/ Patched(kcp', kcp, m)
    BY <1>1, <1>10, FinishGives
  <2>2. CASE kcp' = kcp
    BY <1>1, <2>1, <2>2, Zenon DEF UnmanagedKind, UnmanagedRead, Carried, AnnotationMoves
  <2>3. CASE Patched(kcp', kcp, m)
    BY <1>1, <2>1, <2>3, Zenon DEF UnmanagedKind, UnmanagedRead, Carried, SameButStatus, Patched, AnnotationMoves
  <2> QED BY <2>1, <2>2, <2>3
<1> QED BY <1>1, <1>4, <1>5, <1>6, <1>7, <1>8, <1>9, <1>10, EarlySteps, Zenon

-----------------------------------------------------------------------------
(* New: nothing is applied for a Manifest without finalizers. *)

\* Applying metadata and spec again leaves nothing that was touched.
LEMMA AppliedNew ==
    ASSUME NEW k \in Manifest, NEW x, NEW new, x.policy = k.policy, k.present => Untouched(k), ~k.unmanaged,
           \/ /\ ~k.present
              /\ new = [NewManifest(x.ref, x.policy) EXCEPT !.finalizers = x.finalizers,
                                                            !.syncedRef = x.syncedRef]
           \/ new = k
           \/ /\ k.present
              /\ new = [k EXCEPT !.finalizers = @ \cup x.finalizers, !.ref = x.ref, !.policy = x.policy,
                                 !.syncedRef = IF x.syncedRef = NoRef THEN @ ELSE x.syncedRef]
    PROVE  /\ new.present => Untouched(new)
           /\ new.policy = k.policy /\ ~new.unmanaged
           /\ k.present => new.present
<1>1. CASE /\ ~k.present
           /\ new = [NewManifest(x.ref, x.policy) EXCEPT !.finalizers = x.finalizers,
                                                         !.syncedRef = x.syncedRef]
  <2>1. /\ new.synced = {} /\ new.state # "Ready" /\ new.op # "syncDiff" /\ new.unmanaged = FALSE
        /\ new.deleting = FALSE /\ new.policy = x.policy
    BY <1>1 DEF NewManifest
  <2> QED BY <1>1, <2>1 DEF Untouched
<1>2. CASE new = k
  BY <1>2
<1>3. CASE /\ k.present
           /\ new = [k EXCEPT !.finalizers = @ \cup x.finalizers, !.ref = x.ref, !.policy = x.policy,
                              !.syncedRef = IF x.syncedRef = NoRef THEN @ ELSE x.syncedRef]
  <2>1. /\ new.synced = k.synced /\ new.state = k.state /\ new.op = k.op /\ new.unmanaged = k.unmanaged
        /\ new.deleting = k.deleting /\ new.policy = x.policy /\ new.present = k.present
    BY <1>3, Zenon DEF Manifest
  <2> QED BY <1>3, <2>1 DEF Untouched
<1> QED BY <1>1, <1>2, <1>3

\* Each step of the reconciliation of a new Manifest keeps its case of the invariant.
LEMMA NewKept ==
    ASSUME TypeOK, IInv, Undisturbed, secret, NewKind, Reconcile
    PROVE  NewKind' /\ (kcp.present => kcp'.present)
<1>1. NewRead(kcp, read, Carried) /\ pc \in {"idle", "prepare", "resolve", "finish"}
  BY DEF NewKind
<1>2. pc # "idle" => /\ SameButStatus(m, read) /\ ~m.deleting /\ ~m.unmanaged /\ m.policy = read.policy
                     /\ FinalizersUpdateRequired(m)
  BY <1>1, Zenon DEF IInv, WorkingCopy, SameButStatus, NewRead, FinalizersUpdateRequired
<1>3. pc \in {"prepare", "resolve"} => m.synced = {}
  BY <1>1 DEF IInv, SyncedAsRead, NewRead, Untouched
<1>4. ~Prepared /\ ~RemoveManagedByLabel /\ ~DeleteUnmanaged /\ ~CleanupUnmanaged
  BY <1>2 DEF Prepared, RemoveManagedByLabel, DeleteUnmanaged, CleanupUnmanaged
<1>5. CASE InitializeStatus
  <2>1. /\ kcp' = kcp /\ read' = read /\ labelled' = labelled /\ pc = "prepare" /\ pc' = "finish"
        /\ m' = WithState(m, "Processing", "emptyState")
    BY <1>5, Zenon DEF InitializeStatus, Finish, objVars, SkrUntouched, skrVars
  <2>2. m'.synced = m.synced /\ m'.state = "Processing" /\ m'.op = "emptyState" /\ SameButStatus(m', m)
    BY <2>1, StatusGives, StatusOnly DEF TypeOK
  <2>3. Untouched(m')
    BY <1>2, <1>3, <2>1, <2>2 DEF Untouched, SameButStatus
  <2> QED BY <1>1, <2>1, <2>3 DEF NewKind, NewRead, Carried
<1>6. CASE GetTargetClient
  <2>1. kcp' = kcp /\ read' = read /\ labelled' = labelled /\ pc' = "resolve"
    BY <1>6, Zenon DEF GetTargetClient, GoTo, objVars, skrVars
  <2> QED BY <1>1, <2>1 DEF NewKind, NewRead, Carried
<1>7. CASE AddFinalizers
  <2>1. PICK x : x = [m EXCEPT !.finalizers = @ \cup {Default, LabelRemoval}]
    BY Zenon
  <2>2. read' = read /\ labelled' = labelled /\ pc' = "idle" /\ SsaSpec(x) /\ pc = "resolve"
    BY <1>7, <2>1, Zenon DEF AddFinalizers, SkrUntouched, skrVars
  <2>3. x.policy = kcp.policy
    BY <1>1, <1>2, <2>1, <2>2 DEF NewRead, TypeOK, Manifest
  <2>4. /\ kcp'.present => Untouched(kcp')
        /\ kcp'.policy = kcp.policy /\ ~kcp'.unmanaged
        /\ kcp.present => kcp'.present
    <3>1. kcp.present => Untouched(kcp)
      BY <1>1, Zenon DEF NewRead
    <3>2. ~kcp.unmanaged
      BY <1>1, Zenon DEF NewRead
    <3>3. \/ /\ ~kcp.present
             /\ kcp' = [NewManifest(x.ref, x.policy) EXCEPT !.finalizers = x.finalizers,
                                                            !.syncedRef = x.syncedRef]
          \/ kcp' = kcp
          \/ /\ kcp.present
             /\ kcp' = [kcp EXCEPT !.finalizers = @ \cup x.finalizers, !.ref = x.ref, !.policy = x.policy,
                                   !.syncedRef = IF x.syncedRef = NoRef THEN @ ELSE x.syncedRef]
      BY <2>2, ZenonT(30) DEF SsaSpec
    <3>4. kcp \in Manifest
      BY DEF TypeOK
    <3> QED BY <2>3, <3>1, <3>2, <3>3, <3>4, AppliedNew, Zenon
  <2> QED BY <1>1, <2>2, <2>4 DEF NewKind, NewRead, Carried
<1>8. CASE FinishReconcile
  <2>1. /\ read' = read /\ labelled' = labelled /\ pc' = "idle" /\ pc = "finish"
        /\ kcp' = kcp \/ Patched(kcp', kcp, m)
    BY <1>1, <1>8, FinishGives
  <2>2. Untouched(m)
    BY <2>1, ZenonT(60) DEF NewKind
  <2>3. CASE kcp' = kcp
    BY <1>1, <2>1, <2>3 DEF NewKind, NewRead, Carried
  <2>4. CASE Patched(kcp', kcp, m)
    BY <1>1, <2>1, <2>2, <2>4, Zenon DEF NewKind, NewRead, Carried, Untouched, SameButStatus, Patched
  <2> QED BY <2>1, <2>3, <2>4
<1> QED BY <1>1, <1>4, <1>5, <1>6, <1>7, <1>8, EarlySteps, Zenon

-----------------------------------------------------------------------------
(* Install: what is applied is listed in the status that was written or will *)
(* be.                                                                       *)

\* A reconciliation that ends needs what is carried in the stored status.
LEMMA InstallEnds ==
    ASSUME NEW k, NEW r, NEW c, NEW p, NEW x, NEW new, NEW y, Installs(k, r, c, p, x), c \subseteq new.synced
    PROVE  Installs(new, r, c, "idle", y)
BY Zenon DEF Installs

\* The status that a reconciliation ends with is right for the Manifest as it is by then.
LEMMA InstallPatched ==
    ASSUME NEW k, NEW r, NEW c, NEW x, NEW new, ToInstall(k, r), Installs(k, r, c, "finish", x),
           Patched(new, k, x), HasStatusDiff(x, r)
    PROVE  ToInstall(new, r) /\ c \subseteq new.synced
<1>1. /\ new.present /\ ~FinalizersUpdateRequired(new) /\ new.ref = k.ref /\ new.syncedRef = k.syncedRef
      /\ new.deleting = k.deleting /\ new.unmanaged = k.unmanaged /\ new.policy = k.policy
      /\ new.finalizers = k.finalizers
      /\ new.state = x.state /\ new.op = x.op /\ new.synced = x.synced
  BY Zenon DEF Patched, SameButStatus, ToInstall, FinalizersUpdateRequired
<1>2. CASE /\ Done(r) /\ r.syncedRef # NoRef /\ x.synced = r.synced /\ c \subseteq r.synced
           /\ x.state # "" /\ (x.op = "syncDiff" => ~HasStatusDiff(x, r))
  <2>1. k.ref = r.ref => Done(new)
    BY <1>1, <1>2, Zenon DEF Done
  <2>2. Sound(new)
    BY <1>1, <1>2, <2>1, Zenon DEF Sound, ToInstall
  <2> QED BY <1>1, <1>2, <2>2, Zenon DEF ToInstall, Done
<1>3. CASE /\ ~Done(r) /\ r.syncedRef # NoRef /\ x.synced = ResOf[r.ref] /\ c \subseteq ResOf[r.ref]
           /\ x.state = "Processing" /\ x.op = "syncDiff"
  <2>1. k.ref = r.ref
    BY <1>3, ZenonT(60) DEF ToInstall
  <2>2. Done(new)
    BY <1>1, <1>3, <2>1, Zenon DEF Done
  <2>3. Sound(new)
    BY <1>1, <1>3, <2>2, Zenon DEF Sound, ToInstall
  <2> QED BY <1>1, <1>3, <2>1, <2>3, Zenon DEF ToInstall
<1>4. CASE r.state = "" /\ x.synced = {} /\ x.state = "Processing" /\ x.op = "emptyState"
  <2>1. c = {} /\ r.synced = {}
    BY <1>4, Zenon DEF Installs, ToInstall, Sound
  <2>2. Sound(new)
    BY <1>1, <1>4, Zenon DEF Sound
  <2> QED BY <1>1, <1>4, <2>1, <2>2, Zenon DEF ToInstall
<1> QED BY <1>2, <1>3, <1>4, Zenon DEF Installs

\* When there is nothing to patch the status lists everything.
LEMMA InstallUnpatched ==
    ASSUME NEW k, NEW r, NEW c, NEW x, ToInstall(k, r), Installs(k, r, c, "finish", x), ~HasStatusDiff(x, r)
    PROVE  c \subseteq k.synced
<1>1. CASE Done(r) /\ c \subseteq r.synced
  BY <1>1, Zenon DEF Done, ToInstall
<1>2. CASE ~Done(r) /\ x.state = "Processing" /\ x.op = "syncDiff"
  BY <1>2, Zenon DEF HasStatusDiff, ToInstall, Sound
<1>3. CASE r.state = "" /\ x.state = "Processing"
  BY <1>3, Zenon DEF HasStatusDiff
<1> QED BY <1>1, <1>2, <1>3, Zenon DEF Installs

\* The annotation is written before anything is applied, and after everything is.
LEMMA InstallRewritten ==
    ASSUME NEW r, NEW new, ToInstall(r, r), Rewritten(new, r, r.finalizers, r.ref), r.ref # NoRef,
           r.syncedRef = NoRef \/ Done(r)
    PROVE  ToInstall(new, r) /\ new.synced = r.synced
<1>1. /\ new.present = r.present /\ new.deleting = r.deleting /\ new.finalizers = r.finalizers
      /\ new.syncedRef = r.ref /\ new.state = r.state /\ new.op = r.op /\ new.synced = r.synced
      /\ new.unmanaged = r.unmanaged /\ new.policy = r.policy /\ new.ref = r.ref
  BY Zenon DEF Rewritten, ToInstall
<1>2. Done(new) <=> Done(r)
  BY <1>1 DEF Done
<1>3. Sound(r)
  BY Zenon DEF ToInstall
<1>4. Sound(new)
  BY <1>1, <1>2, <1>3, Zenon DEF Sound
<1> QED BY <1>1, <1>3, <1>4, ZenonT(60) DEF ToInstall, Sound, FinalizersUpdateRequired

\* A finalizer more changes nothing.
LEMMA InstallFinalized ==
    ASSUME NEW k \in Manifest, NEW r, NEW fs, NEW new, ToInstall(k, r),
           new = [k EXCEPT !.finalizers = @ \cup fs]
    PROVE  ToInstall(new, r) /\ new.synced = k.synced
<1>1. /\ new.present = k.present /\ new.deleting = k.deleting /\ new.finalizers = k.finalizers \cup fs
      /\ new.syncedRef = k.syncedRef /\ new.state = k.state /\ new.op = k.op /\ new.synced = k.synced
      /\ new.unmanaged = k.unmanaged /\ new.policy = k.policy /\ new.ref = k.ref
  BY DEF Manifest
<1>2. Sound(k) => Sound(new)
  BY <1>1, Zenon DEF Sound, Done
<1> QED BY <1>1, <1>2 DEF ToInstall, FinalizersUpdateRequired

\* What DeleteDiffResources finds gone is gone.
LEMMA PrunedAll ==
    ASSUME \A r \in Batch : skr[r] = "absent"
    PROVE  \A r \in Diff : skr[r] = "absent"
BY DEF Batch

\* What is no longer in the SKR is not carried.
LEMMA PrunedCarried ==
    ASSUME LabelsLive, \A r \in Batch : skr[r] = "absent"
    PROVE  Carried \cap m.synced \subseteq target
BY PrunedAll DEF LabelsLive, Carried, Diff

\* The steps of an installation.
LEMMA InstallSteps ==
    ASSUME Undisturbed, secret, Reconcile, ~m.deleting, ~m.unmanaged, ~FinalizersUpdateRequired(m)
    PROVE  \/ InitializeStatus \/ GetTargetClient \/ TrackSpec \/ RenderForInstall
           \/ DiffInSameLayer \/ PruneDiff \/ SyncResources \/ SyncDefaultModuleCR \/ EnsureCRFinalizer
           \/ SettleInstall \/ FinishReconcile \/ pc = "removeCR"
<1>1. /\ ~RemoveManagedByLabel /\ ~DeleteUnmanaged /\ ~CleanupUnmanaged /\ ~AddFinalizers
      /\ ~WaitForModuleCRs /\ ~RenderForDelete /\ ~SettleDelete
  BY Zenon DEF RemoveManagedByLabel, DeleteUnmanaged, CleanupUnmanaged, AddFinalizers,
               WaitForModuleCRs, RenderForDelete, SettleDelete
<1>2. DeleteDefaultCR \/ RemoveCRFinalizer \/ SkipDefaultCR => pc = "removeCR"
  BY Zenon DEF DeleteDefaultCR, RemoveCRFinalizer, SkipDefaultCR
<1> QED BY <1>1, <1>2, CalmSteps, Zenon

\* An installation goes on, with the state that was read.
GoesOn(step) ==
    /\ kcp' = kcp /\ read' = read /\ labelled' = labelled /\ pc' = step
    /\ m'.state = m.state /\ (m'.op = m.op \/ m'.op # "syncDiff")

\* Each step of install keeps its case of the invariant.
LEMMA InstallKept ==
    ASSUME TypeOK, IInv, Undisturbed, secret, LabelsLive, InstallKind, Reconcile
    PROVE  InstallKind'
<1>1. ToInstall(kcp, read) /\ Installs(kcp, read, Carried, pc, m)
  BY DEF InstallKind
<1> DEFINE k == kcp
           r == read
           c == Carried
<1>2. pc # "idle" => /\ SameButStatus(m, r) /\ ~m.deleting /\ ~m.unmanaged
                     /\ ~FinalizersUpdateRequired(m) /\ m.ref = r.ref /\ m.syncedRef = r.syncedRef
  BY <1>1, Zenon DEF IInv, WorkingCopy, SameButStatus, ToInstall, FinalizersUpdateRequired
<1>3. pc \notin {"idle", "finish", "finishEvict"} => m.synced = r.synced
  BY DEF IInv, SyncedAsRead
<1>4. pc \in {"prune", "sync", "defaultCR", "settle"} => target = ResOf[r.ref]
  BY <1>2 DEF IInv, Rendered
<1>5. pc \in {"defaultCR", "settle"} => Done(r)
  BY <1>2, <1>3, <1>4 DEF IInv, NothingDiffered, Done
<1>6. pc # "idle"
  BY ReconcileStarted
<1>7. read.ref \in Refs /\ read.ref # NoRef
  BY ResourcesAssumption DEF TypeOK, Manifest
<1>8. CASE InitializeStatus
  <2>1. /\ kcp' = kcp /\ read' = read /\ labelled' = labelled /\ pc = "prepare" /\ pc' = "finish"
        /\ m' = WithState(m, "Processing", "emptyState")
    BY <1>8, ZenonT(60) DEF InitializeStatus, Finish, objVars, SkrUntouched, skrVars
  <2>2. m'.synced = m.synced /\ m'.state = "Processing" /\ m'.op = "emptyState"
    BY <2>1, StatusGives DEF TypeOK
  <2>3. r.state = "" /\ c = {} /\ r.synced = {}
    <3>1. m.state = ""
      BY <1>8, Zenon DEF InitializeStatus
    <3> QED BY <1>1, <2>1, <3>1, Zenon DEF Installs, ToInstall, Sound
  <2>4. Installs(k, r, c, "finish", m')
    BY <1>1, <1>3, <2>1, <2>2, <2>3, Zenon DEF Installs
  <2> QED BY <1>1, <2>1, <2>4 DEF InstallKind, Carried
<1>9. ASSUME NEW step, GoesOn(step), Installs(k, r, c, step, m') PROVE InstallKind'
  BY <1>1, <1>9 DEF InstallKind, Carried, GoesOn
<1>10. CASE GetTargetClient
  <2>1. GoesOn("resolve") /\ m' = m /\ pc = "prepare" /\ m.state # ""
    BY <1>10, Zenon DEF GetTargetClient, GoTo, objVars, skrVars, GoesOn
  <2>2. Installs(k, r, c, "resolve", m')
    BY <1>1, <2>1, Zenon DEF Installs
  <2> QED BY <1>9, <2>1, <2>2, Zenon
<1>11. ASSUME NEW x, UpdateManifest(x), x.finalizers = m.finalizers, x.syncedRef = m.ref,
              read' = read, labelled' = labelled, pc \in {"resolve", "settle"},
              r.syncedRef = NoRef \/ Done(r)
       PROVE  InstallKind'
  <2>1. /\ pc' = "idle"
        /\ \/ kcp' = kcp
           \/ kcp = read /\ Rewritten(kcp', kcp, x.finalizers, x.syncedRef)
    BY <1>11, UpdateGives, ZenonT(60)
  <2>2. CASE kcp' = kcp
    <3>1. c \subseteq kcp'.synced
      BY <1>1, <1>11, <2>2, ZenonT(60) DEF Installs
    <3>2. Installs(kcp', r, c, "idle", m')
      BY <1>1, <3>1, InstallEnds, Zenon
    <3> QED BY <1>1, <1>11, <2>1, <2>2, <3>2, Zenon DEF InstallKind, Carried
  <2>3. CASE kcp = read /\ Rewritten(kcp', kcp, x.finalizers, x.syncedRef)
    <3>1. x.finalizers = r.finalizers /\ x.syncedRef = r.ref
      BY <1>2, <1>6, <1>11 DEF SameButStatus
    <3>2. Rewritten(kcp', r, r.finalizers, r.ref) /\ ToInstall(r, r)
      BY <1>1, <2>3, <3>1, Zenon
    <3>3. ToInstall(kcp', r) /\ kcp'.synced = r.synced
      BY <1>7, <1>11, <3>2, InstallRewritten
    <3>4. c \subseteq kcp'.synced
      BY <1>1, <1>11, <2>3, <3>3, ZenonT(60) DEF Installs
    <3>5. Installs(kcp', r, c, "idle", m')
      BY <1>1, <3>4, InstallEnds
    <3> QED BY <1>11, <2>1, <3>3, <3>5, Zenon DEF InstallKind, Carried
  <2> QED BY <2>1, <2>2, <2>3
<1>12. CASE TrackSpec
  <2>1. PICK x : x = [m EXCEPT !.syncedRef = m.ref]
    BY Zenon
  <2>2. UpdateManifest(x) /\ read' = read /\ labelled' = labelled /\ pc = "resolve" /\ m.syncedRef = NoRef
    BY <1>12, <2>1, Zenon DEF TrackSpec, Prepared, SkrUntouched, skrVars
  <2>3. x.finalizers = m.finalizers /\ x.syncedRef = m.ref
    BY <2>1 DEF TypeOK, Manifest
  <2>4. r.syncedRef = NoRef
    BY <1>2, <2>2
  <2> QED BY <1>11, <2>2, <2>3, <2>4
<1>13. CASE RenderForInstall
  <2>1. /\ kcp' = kcp /\ read' = read /\ labelled' = labelled /\ pc' = "prune" /\ pc = "resolve"
        /\ m' = SetResourcesConditionTrue(m) /\ m.syncedRef # NoRef
    BY <1>13, Zenon DEF RenderForInstall, GoTo, objVars, skrVars, SpecTracked, Prepared
  <2>2. m'.state = m.state /\ (m'.op = m.op \/ m'.op # "syncDiff")
    BY <2>1 DEF SetResourcesConditionTrue, TypeOK, Manifest
  <2>3. Installs(k, r, c, "prune", m')
    BY <1>1, <1>2, <2>1, <2>2, Zenon DEF Installs
  <2> QED BY <1>9, <2>1, <2>2, <2>3, Zenon DEF GoesOn
<1>14. ~DiffInSameLayer
  <2>1. SUFFICES ASSUME DiffInSameLayer PROVE FALSE
    OBVIOUS
  <2>2. pc = "prune" /\ Diff # {} /\ m.syncedRef = m.ref
    BY <2>1 DEF DiffInSameLayer
  <2>3. m.synced = {} \/ m.synced = target
    BY <1>1, <1>2, <1>3, <1>4, <2>2, Zenon DEF ToInstall, Sound, Done
  <2> QED BY <2>2, <2>3 DEF Diff
<1>15. CASE PruneDiff
  <2>1. pc = "prune" /\ read' = read /\ labelled' = labelled /\ kcp' = kcp
    BY <1>15, Zenon DEF PruneDiff, MayPrune, GoTo, Requeue, objVars
  <2>2. CASE \A e \in Batch : skr[e] = "absent"
    <3>1. GoesOn("sync") /\ m' = m
      BY <1>2, <1>15, <2>1, <2>2 DEF PruneDiff, GoTo, objVars, GoesOn
    <3>2. c \subseteq ResOf[r.ref]
      BY <1>1, <1>3, <1>4, <2>1, <2>2, PrunedCarried, Zenon DEF Installs
    <3>3. Installs(k, r, c, "sync", m')
      BY <1>1, <2>1, <3>1, <3>2, Zenon DEF Installs
    <3> QED BY <1>9, <3>1, <3>3
  <2>3. CASE ~\A e \in Batch : skr[e] = "absent"
    <3>1. pc' = "idle"
      BY <1>15, <2>3 DEF PruneDiff, Requeue
    <3>2. Installs(kcp', r, c, "idle", m')
      BY <1>1, <2>1, InstallEnds, Zenon DEF Installs
    <3> QED BY <1>1, <2>1, <3>1, <3>2 DEF InstallKind, Carried
  <2> QED BY <2>2, <2>3
<1>16. CASE SyncResources
  <2>1. /\ pc = "sync" /\ kcp' = kcp /\ read' = read /\ labelled' = labelled \cup target
    BY <1>16, Zenon DEF SyncResources, ApplyResources, Finish, GoTo, objVars
  <2>2. Carried' \subseteq ResOf[r.ref] /\ r.state # "" /\ r.syncedRef # NoRef
    BY <1>1, <1>4, <2>1, Zenon DEF Installs, Carried
  <2>3. CASE m.synced = target
    <3>1. pc' = "defaultCR" /\ m' = m
      BY <1>2, <1>6, <1>16, <2>3 DEF SyncResources, HasDiff, GoTo
    <3>2. Done(r)
      BY <1>3, <1>4, <2>1, <2>3 DEF Done
    <3>3. Carried' \subseteq kcp.synced
      BY <1>1, <2>2, <3>2, Zenon DEF ToInstall, Done
    <3>4. Installs(k, r, Carried', "defaultCR", m')
      BY <1>1, <2>1, <2>2, <3>1, <3>3, Zenon DEF Installs
    <3> QED BY <1>1, <2>1, <3>1, <3>4 DEF InstallKind
  <2>4. CASE m.synced # target
    <3>1. pc' = "finish" /\ m' = [WithState(m, "Processing", "syncDiff") EXCEPT !.synced = target]
      BY <1>2, <1>6, <1>16, <2>4 DEF SyncResources, HasDiff, Finish, StatusAfterDiff
    <3>2. m'.synced = target /\ m'.state = "Processing" /\ m'.op = "syncDiff"
      BY <3>1 DEF WithState, TypeOK, Manifest
    <3>3. ~Done(r)
      BY <1>3, <1>4, <2>1, <2>4 DEF Done
    <3>4. Installs(k, r, Carried', "finish", m')
      BY <1>4, <2>1, <2>2, <3>2, <3>3, Zenon DEF Installs
    <3> QED BY <1>1, <2>1, <3>1, <3>4 DEF InstallKind
  <2> QED BY <2>3, <2>4
<1>17. CASE SyncDefaultModuleCR
  <2>1. /\ kcp' = kcp /\ read' = read /\ labelled' = labelled /\ pc' = "settle" /\ pc = "defaultCR"
        /\ m' = m \/ m' = SetModuleCRInstallConditionTrue(m)
    BY <1>17, Zenon DEF SyncDefaultModuleCR, GoTo, objVars
  <2>2. m'.state = m.state /\ (m'.op = m.op \/ m'.op # "syncDiff")
    BY <2>1, Zenon DEF SetModuleCRInstallConditionTrue, TypeOK, Manifest
  <2>3. Installs(k, r, c, "settle", m')
    BY <1>1, <2>1, <2>2, Zenon DEF Installs
  <2> QED BY <1>9, <2>1, <2>2, <2>3 DEF GoesOn
<1>18. ASSUME NEW x, Finish(x), pc = "settle", x.synced = m.synced, x.state # "",
              x.op = "syncDiff" => x = m,
              read' = read, labelled' = labelled
       PROVE  InstallKind'
  <2>1. kcp' = kcp /\ pc' = "finish" /\ m' = x
    BY <1>18, Zenon DEF Finish, objVars
  <2>2. Done(r) /\ x.synced = r.synced /\ r.syncedRef # NoRef /\ r.state # ""
    BY <1>1, <1>3, <1>5, <1>18, Zenon DEF Installs
  <2>3. c \subseteq r.synced
    BY <1>1, <2>2, Zenon DEF Installs, Done
  <2>4. x.op = "syncDiff" => ~HasStatusDiff(x, r)
    BY <1>1, <1>18, Zenon DEF Installs, HasStatusDiff
  <2>5. Installs(k, r, c, "finish", m')
    BY <1>1, <1>18, <2>1, <2>2, <2>3, <2>4, Zenon DEF Installs
  <2> QED BY <1>1, <1>18, <2>1, <2>5, Zenon DEF InstallKind, Carried
<1>19. pc = "settle" => m.state # ""
  BY <1>1, Zenon DEF Installs
<1>20. CASE EnsureCRFinalizer
  <2>1. read' = read /\ labelled' = labelled /\ pc = "settle"
    BY <1>20, Zenon DEF EnsureCRFinalizer, SkrUntouched, skrVars
  <2>2. CASE Finish(m)
    BY <1>18, <1>19, <2>1, <2>2, Zenon
  <2>3. CASE kcp' = [kcp EXCEPT !.finalizers = @ \cup m.finalizers \cup {CRManager}] /\ pc' = "idle"
    <3>1. kcp' = [kcp EXCEPT !.finalizers = @ \cup (m.finalizers \cup {CRManager})]
      BY <2>3
    <3>2. ToInstall(kcp', r) /\ kcp'.synced = kcp.synced
      BY <1>1, <3>1, InstallFinalized DEF TypeOK
    <3>3. Installs(kcp', r, c, "idle", m')
      BY <1>1, <2>1, <3>2, InstallEnds, Zenon DEF Installs
    <3> QED BY <2>1, <2>3, <3>2, <3>3 DEF InstallKind, Carried
  <2> QED BY <1>20, <2>2, <2>3, Zenon DEF EnsureCRFinalizer
<1>21. CASE SettleInstall
  <2>1. read' = read /\ labelled' = labelled /\ pc = "settle"
    BY <1>21, Zenon DEF SettleInstall, SkrUntouched, skrVars
  <2>2. \/ Finish(WithState(m, "Error", "managerError")) \/ Finish(StateAfterSync(m, manager))
        \/ UpdateManifest([m EXCEPT !.syncedRef = m.ref]) \/ Finish(m)
    BY <1>21, Zenon DEF SettleInstall
  <2>3. CASE Finish(WithState(m, "Error", "managerError"))
    <3>1. PICK x : x = WithState(m, "Error", "managerError")
      BY Zenon
    <3>2. x.synced = m.synced /\ x.state = "Error" /\ x.op = "managerError"
      BY <3>1, StatusGives DEF TypeOK
    <3> QED BY <1>18, <2>1, <2>3, <3>1, <3>2, Zenon
  <2>4. CASE Finish(StateAfterSync(m, manager))
    <3>1. PICK x : x = StateAfterSync(m, manager)
      BY Zenon
    <3>2. x.synced = m.synced /\ x.state = manager /\ x.op # "syncDiff"
      BY <3>1, StatusGives DEF TypeOK, StateAfterSync
    <3>3. manager # ""
      BY Zenon DEF TypeOK
    <3> QED BY <1>18, <2>1, <2>4, <3>1, <3>2, <3>3, Zenon
  <2>5. CASE UpdateManifest([m EXCEPT !.syncedRef = m.ref])
    <3>1. PICK x : x = [m EXCEPT !.syncedRef = m.ref]
      BY Zenon
    <3>2. x.finalizers = m.finalizers /\ x.syncedRef = m.ref
      BY <3>1 DEF TypeOK, Manifest
    <3> QED BY <1>5, <1>11, <2>1, <2>5, <3>1, <3>2, Zenon
  <2>6. CASE Finish(m)
    BY <1>18, <1>19, <2>1, <2>6, Zenon
  <2> QED BY <2>2, <2>3, <2>4, <2>5, <2>6
<1>22. CASE FinishReconcile
  <2>1. /\ pc' = "idle" /\ read' = read /\ labelled' = labelled
        /\ HasStatusDiff(m, read) /\ kcp.present => Patched(kcp', kcp, m)
        /\ ~(HasStatusDiff(m, read) /\ kcp.present) => kcp' = kcp
        /\ pc \in {"finish", "finishEvict"}
    BY <1>22, FinishGives
  <2>2. pc = "finish" /\ kcp.present
    BY <1>1, <2>1, Zenon DEF Installs, ToInstall
  <2>3. ToInstall(kcp', r) /\ c \subseteq kcp'.synced
    <3>1. Installs(kcp, read, Carried, "finish", m)
      BY <1>1, <2>2
    <3>2. CASE HasStatusDiff(m, read)
      BY <1>1, <2>1, <2>2, <3>1, <3>2, InstallPatched, Zenon
    <3>3. CASE ~HasStatusDiff(m, read)
      BY <1>1, <2>1, <2>2, <3>1, <3>3, InstallUnpatched, Zenon
    <3> QED BY <3>2, <3>3
  <2>4. Installs(kcp', r, c, "idle", m')
    BY <1>1, <2>3, InstallEnds, Zenon
  <2> QED BY <2>1, <2>3, <2>4, Zenon DEF InstallKind, Carried
<1>23. pc # "removeCR"
  BY <1>1, Zenon DEF Installs
<1> QED BY <1>2, <1>6, <1>8, <1>10, <1>12, <1>13, <1>14, <1>15, <1>16, <1>17, <1>20, <1>21, <1>22, <1>23,
           InstallSteps, Zenon

-----------------------------------------------------------------------------
(* Remove: the finalizers go only when nothing is carried, and the CR        *)
(* finalizer only when there is no default CR.                               *)

\* The status that a reconciliation ends with lists what is carried.
LEMMA RemovePatched ==
    ASSUME NEW k, NEW r, NEW c, NEW d, NEW x, NEW t, NEW new, ToRemove(k, r, c, d),
           Removes(k, r, c, d, "finish", x, t), Patched(new, k, x), k.present
    PROVE  ToRemove(new, r, c, d)
<1>1. /\ new.present = k.present /\ new.deleting = k.deleting /\ new.unmanaged = k.unmanaged
      /\ new.policy = k.policy /\ new.ref = k.ref /\ new.finalizers = k.finalizers /\ new.synced = x.synced
  BY Zenon DEF Patched, SameButStatus
<1>2. c \subseteq x.synced /\ (~Vacant(r, d) => x.synced = r.synced)
  BY Zenon DEF Removes
<1>3. ~Vacant(r, d) => Done(r) /\ Done(new)
  BY <1>1, <1>2, Zenon DEF ToRemove, Done
<1> QED BY <1>1, <1>2, <1>3, ZenonT(60) DEF ToRemove

\* The finalizers that are left keep the Manifest as long as it is needed.
LEMMA RemoveRewritten ==
    ASSUME NEW r, NEW c, NEW d, NEW fs, NEW ref, NEW new, ToRemove(r, r, c, d), Rewritten(new, r, fs, ref),
           ~Vacant(r, d) => CRManager \in fs, fs = {} => c = {}
    PROVE  ToRemove(new, r, c, d)
<1>1. CASE fs = {}
  BY <1>1, Zenon DEF ToRemove, Rewritten
<1>2. CASE fs # {}
  <2>1. /\ new.present = r.present /\ new.deleting = r.deleting /\ new.finalizers = fs
        /\ new.synced = r.synced /\ new.unmanaged = r.unmanaged /\ new.policy = r.policy /\ new.ref = r.ref
    BY <1>2, Zenon DEF Rewritten
  <2>2. Done(new) <=> Done(r)
    BY <2>1, Zenon DEF Done
  <2> QED BY <2>1, <2>2, Zenon DEF ToRemove
<1> QED BY <1>1, <1>2

\* A reconciliation of a deleted Manifest that ends leaves the invariant to its object.
LEMMA RemoveEnds ==
    ASSUME NEW k, NEW r, NEW c, NEW d, NEW x, NEW t
    PROVE  Removes(k, r, c, d, "idle", x, t)
BY Zenon DEF Removes

\* The steps of a deletion.
LEMMA RemoveSteps ==
    ASSUME Undisturbed, secret, Reconcile, m.deleting, ~m.unmanaged
    PROVE  \/ InitializeStatus \/ GetTargetClient \/ TrackSpec \/ WaitForModuleCRs \/ RenderForDelete
           \/ PruneDiff \/ DeleteDefaultCR \/ RemoveCRFinalizer \/ SkipDefaultCR \/ SyncResources
           \/ SettleDelete \/ FinishReconcile \/ pc = "defaultCR"
<1>1. /\ ~RemoveManagedByLabel /\ ~DeleteUnmanaged /\ ~CleanupUnmanaged /\ ~AddFinalizers
      /\ ~RenderForInstall /\ ~DiffInSameLayer /\ ~SettleInstall /\ ~EnsureCRFinalizer
  BY Zenon DEF RemoveManagedByLabel, DeleteUnmanaged, CleanupUnmanaged, AddFinalizers,
               RenderForInstall, DiffInSameLayer, SettleInstall, EnsureCRFinalizer
<1>2. SyncDefaultModuleCR => pc = "defaultCR"
  BY Zenon DEF SyncDefaultModuleCR
<1> QED BY <1>1, <1>2, CalmSteps, Zenon

\* Each step of delete keeps its case of the invariant.
LEMMA RemoveKept ==
    ASSUME TypeOK, IInv, Undisturbed, secret, LabelsLive, Held, RemoveKind, Reconcile
    PROVE  RemoveKind' /\ (kcp' = kcp \/ defaultCR' = defaultCR)
<1>1. ToRemove(kcp, read, Carried, defaultCR) /\ Removes(kcp, read, Carried, defaultCR, pc, m, target)
  BY DEF RemoveKind
<1> DEFINE k == kcp
           r == read
           c == Carried
           d == defaultCR
           t == target
<1>2. pc # "idle" => /\ SameButStatus(m, r) /\ m.deleting /\ ~m.unmanaged /\ m.ref = r.ref
                     /\ m.policy = r.policy /\ m.finalizers = r.finalizers
  BY <1>1, Zenon DEF IInv, WorkingCopy, SameButStatus, ToRemove
<1>3. pc \notin {"idle", "finish", "finishEvict"} => m.synced = r.synced
  BY DEF IInv, SyncedAsRead
<1>4. pc # "idle"
  BY ReconcileStarted
<1>5. DefaultCRExists <=> ~Vacant(r, d)
  BY <1>2, <1>4 DEF DefaultCRExists, Vacant
<1>6. ASSUME kcp' = kcp, read' = read, labelled' = labelled, defaultCR' = defaultCR,
             NEW p, pc' = p, Removes(k, r, c, d, p, m', target')
      PROVE  RemoveKind' /\ (kcp' = kcp \/ defaultCR' = defaultCR)
  BY <1>1, <1>6 DEF RemoveKind, Carried
<1>7. ASSUME read' = read, labelled' = labelled, defaultCR' = defaultCR,
             pc' = "idle", ToRemove(kcp', r, c, d)
      PROVE  RemoveKind' /\ (kcp' = kcp \/ defaultCR' = defaultCR)
  BY <1>7, RemoveEnds DEF RemoveKind, Carried
<1>8. ASSUME NEW x, Finish(x), x.synced = m.synced, pc \notin {"idle", "finish", "finishEvict"},
             SkrUntouched
      PROVE  RemoveKind' /\ (kcp' = kcp \/ defaultCR' = defaultCR)
  <2>1. /\ kcp' = kcp /\ pc' = "finish" /\ m' = x /\ read' = read /\ labelled' = labelled
        /\ defaultCR' = defaultCR
    BY <1>8 DEF Finish, objVars, SkrUntouched, skrVars
  <2>2. m'.synced = r.synced
    BY <1>3, <1>8, <2>1
  <2>3. Removes(k, r, c, d, "finish", m', target')
    BY <1>1, <2>2, Zenon DEF Removes, ToRemove
  <2> QED BY <1>6, <2>1, <2>3
<1>9. ASSUME NEW x, UpdateManifest(x), pc \notin {"idle", "finish", "finishEvict"}, SkrUntouched,
             kcp = read => (~Vacant(r, d) => CRManager \in x.finalizers) /\ (x.finalizers = {} => c = {})
      PROVE  RemoveKind' /\ (kcp' = kcp \/ defaultCR' = defaultCR)
  <2>1. read' = read /\ labelled' = labelled /\ defaultCR' = defaultCR
    BY <1>9 DEF SkrUntouched, skrVars
  <2>2. /\ pc' = "idle"
        /\ \/ kcp' = kcp
           \/ kcp = read /\ Rewritten(kcp', kcp, x.finalizers, x.syncedRef)
    BY <1>9, UpdateGives, Zenon
  <2>3. ToRemove(kcp', r, c, d)
    <3>1. CASE kcp' = kcp
      BY <1>1, <3>1
    <3>2. CASE kcp = read /\ Rewritten(kcp', kcp, x.finalizers, x.syncedRef)
      BY <1>1, <1>9, <3>2, RemoveRewritten, ZenonT(60)
    <3> QED BY <2>2, <3>1, <3>2
  <2> QED BY <1>7, <2>1, <2>2, <2>3
<1>10. kcp = read => /\ ~Vacant(r, d) => CRManager \in m.finalizers
                     /\ m.finalizers # {}
  BY <1>1, <1>2, <1>4, Zenon DEF ToRemove, Held
<1>11. CASE InitializeStatus
  <2>1. Finish(WithState(m, "Processing", "emptyState")) /\ SkrUntouched /\ pc = "prepare"
    BY <1>11, Zenon DEF InitializeStatus
  <2>2. m \in Manifest
    BY Zenon DEF TypeOK
  <2>3. WithState(m, "Processing", "emptyState").synced = m.synced
    BY <2>2, StatusGives
  <2>4. pc \notin {"idle", "finish", "finishEvict"}
    BY <2>1
  <2>5. PICK x : x = WithState(m, "Processing", "emptyState")
    BY Zenon
  <2>6. Finish(x) /\ x.synced = m.synced
    BY <2>1, <2>3, <2>5, Zenon
  <2> QED BY <1>8, <2>1, <2>4, <2>6, Zenon
<1>12. CASE GetTargetClient
  <2>1. /\ kcp' = kcp /\ read' = read /\ labelled' = labelled /\ defaultCR' = defaultCR /\ pc' = "resolve"
    BY <1>12, Zenon DEF GetTargetClient, GoTo, objVars, skrVars
  <2>2. Removes(k, r, c, d, "resolve", m', target')
    BY DEF Removes
  <2> QED BY <1>6, <2>1, <2>2
<1>13. ASSUME UpdateManifest([m EXCEPT !.syncedRef = m.ref]), SkrUntouched,
              pc \notin {"idle", "finish", "finishEvict"}
       PROVE  RemoveKind' /\ (kcp' = kcp \/ defaultCR' = defaultCR)
  <2>1. PICK x : x = [m EXCEPT !.syncedRef = m.ref]
    BY Zenon
  <2>2. x.finalizers = m.finalizers
    BY <2>1 DEF TypeOK, Manifest
  <2> QED BY <1>9, <1>10, <1>13, <2>1, <2>2, Zenon
<1>14. CASE TrackSpec
  BY <1>13, <1>14, Zenon DEF TrackSpec, Prepared
<1>15. CASE WaitForModuleCRs
  <2>1. /\ Finish(WithState(m, "Deleting", "waitingForModuleCRs")) /\ SkrUntouched /\ pc = "resolve"
    BY <1>15, Zenon DEF WaitForModuleCRs, SpecTracked, Prepared
  <2>2. m \in Manifest
    BY Zenon DEF TypeOK
  <2>3. WithState(m, "Deleting", "waitingForModuleCRs").synced = m.synced
    BY <2>2, StatusGives
  <2>4. pc \notin {"idle", "finish", "finishEvict"}
    BY <2>1
  <2>5. PICK x : x = WithState(m, "Deleting", "waitingForModuleCRs")
    BY Zenon
  <2>6. Finish(x) /\ x.synced = m.synced
    BY <2>1, <2>3, <2>5, Zenon
  <2> QED BY <1>8, <2>1, <2>4, <2>6, Zenon
<1>16. CASE RenderForDelete
  <2>1. \A kind : ~Fault(kind)
    BY DEF Fault, Undisturbed
  <2>2. /\ kcp' = kcp /\ read' = read /\ labelled' = labelled /\ defaultCR' = defaultCR /\ pc' = "prune"
        /\ target' = IF DefaultCRExists THEN ResOf[m.ref] ELSE {}
    BY <1>16, <2>1, ZenonT(60) DEF RenderForDelete, GoTo, objVars, skrVars
  <2>3. Removes(k, r, c, d, "prune", m', target')
    BY <1>2, <1>4, <1>5, <2>2, Zenon DEF Removes
  <2> QED BY <1>6, <2>2, <2>3, Zenon
<1>17. CASE PruneDiff
  <2>1. /\ pc = "prune" /\ read' = read /\ labelled' = labelled /\ kcp' = kcp /\ defaultCR' = defaultCR
        /\ target' = target
    BY <1>17, Zenon DEF PruneDiff, MayPrune, GoTo, Requeue, objVars
  <2>2. CASE \A e \in Batch : skr[e] = "absent"
    <3>1. pc' = "removeCR"
      BY <1>2, <1>4, <1>17, <2>2 DEF PruneDiff, GoTo
    <3>2. t = {} => c = {}
      BY <1>1, <1>3, <2>1, <2>2, PrunedCarried, Zenon DEF ToRemove
    <3>3. Removes(k, r, c, d, "removeCR", m', target')
      BY <1>1, <2>1, <3>2, Zenon DEF Removes
    <3> QED BY <1>6, <2>1, <3>1, <3>3
  <2>3. CASE ~\A e \in Batch : skr[e] = "absent"
    <3>1. pc' = "idle"
      BY <1>17, <2>3 DEF PruneDiff, Requeue
    <3> QED BY <1>1, <1>7, <2>1, <3>1
  <2> QED BY <2>2, <2>3
<1>18. CASE DeleteDefaultCR
  <2>1. /\ pc = "removeCR" /\ kcp' = kcp /\ read' = read /\ labelled' = labelled
        /\ defaultCR' = "terminating" /\ pc' = "sync" /\ target' = target /\ DefaultCRExists
    BY <1>18, Zenon DEF DeleteDefaultCR, GoTo, objVars
  <2>2. ~Vacant(r, d) /\ ~Vacant(r, "terminating")
    BY <1>5, <2>1 DEF Vacant
  <2>3. ToRemove(k, r, c, "terminating")
    BY <1>1, <2>2, Zenon DEF ToRemove
  <2>4. Removes(k, r, c, "terminating", "sync", m', t)
    BY <1>1, <2>1, <2>2, ZenonT(60) DEF Removes, ToRemove
  <2> QED BY <2>1, <2>3, <2>4 DEF RemoveKind, Carried
<1>19. pc = "removeCR" /\ Vacant(r, d) => c = {} /\ t = {}
  BY <1>1, Zenon DEF Removes
<1>20. CASE RemoveCRFinalizer
  <2>1. \A kind : ~Fault(kind)
    BY DEF Fault, Undisturbed
  <2>2. ~DefaultCRExists /\ pc = "removeCR" /\ SkrUntouched
    BY <1>20, <2>1, Zenon DEF RemoveCRFinalizer
  <2>3. Vacant(r, d) /\ c = {} /\ t = {}
    BY <1>5, <1>19, <2>2
  <2>4. /\ read' = read /\ labelled' = labelled /\ defaultCR' = defaultCR /\ target' = target
    BY <2>2 DEF SkrUntouched, skrVars
  <2>5. \/ GoTo("sync", m)
        \/ kcp.present /\ kcp' = Stored([kcp EXCEPT !.finalizers = @ \ {CRManager}]) /\ pc' = "idle"
        \/ Finish([m EXCEPT !.op = "crError"])
    BY <1>20, Zenon DEF RemoveCRFinalizer
  <2>6. CASE GoTo("sync", m)
    <3>1. kcp' = kcp /\ pc' = "sync"
      BY <2>6 DEF GoTo, objVars
    <3>2. Removes(k, r, c, d, "sync", m', target')
      BY <2>3, <2>4, Zenon DEF Removes
    <3> QED BY <1>6, <2>4, <3>1, <3>2
  <2>7. CASE kcp.present /\ kcp' = Stored([kcp EXCEPT !.finalizers = @ \ {CRManager}]) /\ pc' = "idle"
    <3>1. [kcp EXCEPT !.finalizers = @ \ {CRManager}] =
              [kcp EXCEPT !.finalizers = kcp.finalizers \ {CRManager}, !.syncedRef = kcp.syncedRef]
      BY Zenon DEF TypeOK, Manifest
    <3>2. PICK fs : fs = kcp.finalizers \ {CRManager}
      BY Zenon
    <3>3. Rewritten(kcp', kcp, fs, kcp.syncedRef)
      BY <2>7, <3>1, <3>2, RewriteGives, Zenon DEF TypeOK
    <3>4. ToRemove(kcp', r, c, d)
      BY <1>1, <2>3, <2>7, <3>3, Zenon DEF Rewritten, ToRemove
    <3> QED BY <1>7, <2>4, <2>7, <3>4
  <2>8. CASE Finish([m EXCEPT !.op = "crError"])
    <3>1. PICK x : x = [m EXCEPT !.op = "crError"]
      BY Zenon
    <3>2. x.synced = m.synced
      BY <3>1 DEF TypeOK, Manifest
    <3> QED BY <1>8, <2>2, <2>8, <3>1, <3>2, Zenon
  <2> QED BY <2>5, <2>6, <2>7, <2>8
<1>21. CASE SkipDefaultCR
  <2>1. /\ pc = "removeCR" /\ kcp' = kcp /\ read' = read /\ labelled' = labelled
        /\ defaultCR' = defaultCR /\ pc' = "sync" /\ target' = target /\ m.policy # "create"
    BY <1>21, ZenonT(60) DEF SkipDefaultCR, GoTo, objVars, SkrUntouched, skrVars
  <2>2. c = {} /\ t = {} /\ Vacant(r, d)
    BY <1>2, <1>4, <1>19, <2>1 DEF Vacant
  <2>3. Removes(k, r, c, d, "sync", m', target')
    BY <2>1, <2>2, Zenon DEF Removes
  <2> QED BY <1>6, <2>1, <2>3
<1>22. CASE SyncResources
  <2>1. /\ pc = "sync" /\ kcp' = kcp /\ read' = read /\ labelled' = labelled \cup target
        /\ defaultCR' = defaultCR /\ target' = target
    BY <1>22, Zenon DEF SyncResources, ApplyResources, Finish, GoTo, objVars
  <2>2. CASE c = {} /\ t = {}
    <3>1. labelled' = labelled
      BY <2>1, <2>2
    <3>2. CASE m.synced = target
      <4>1. pc' = "settle"
        BY <1>2, <1>4, <1>22, <3>2 DEF SyncResources, HasDiff, GoTo
      <4>2. Removes(k, r, c, d, "settle", m', target')
        BY <1>1, <2>1, <2>2, Zenon DEF Removes
      <4> QED BY <1>6, <2>1, <3>1, <4>1, <4>2
    <3>3. CASE m.synced # target
      <4>1. pc' = "finish" /\ m' = StatusAfterDiff(m)
        BY <1>2, <1>4, <1>22, <3>3, Zenon DEF SyncResources, HasDiff, Finish
      <4>2. m'.synced = {} \/ m'.synced = m.synced
        BY <1>2, <1>4, <2>2, <4>1 DEF StatusAfterDiff, WithState, TypeOK, Manifest
      <4>3. ~Vacant(r, d) => r.synced = {}
        BY <1>1, <2>1, <2>2, Zenon DEF Removes, ToRemove, Done
      <4>4. Removes(k, r, c, d, "finish", m', target')
        BY <1>3, <2>1, <2>2, <4>2, <4>3, Zenon DEF Removes
      <4> QED BY <1>6, <2>1, <3>1, <4>1, <4>4
    <3> QED BY <3>2, <3>3
  <2>3. CASE k.present /\ CRManager \in k.finalizers /\ Done(r) /\ Done(k) /\ t = ResOf[r.ref]
    <3>1. k.ref = r.ref
      BY <1>1, <2>3, Zenon DEF ToRemove
    <3>2. r.synced = t /\ k.synced = t
      BY <2>3, <3>1 DEF Done
    <3>3. m.synced = target
      BY <1>3, <2>1, <3>2
    <3>4. pc' = "settle"
      BY <1>2, <1>4, <1>22, <3>3, Zenon DEF SyncResources, HasDiff, GoTo
    <3>5. Carried' \subseteq t
      BY <1>1, <2>1, <3>2, Zenon DEF Carried, ToRemove
    <3>6. ToRemove(k, r, Carried', d)
      BY <1>1, <2>3, <3>2, <3>5, ZenonT(60) DEF ToRemove
    <3>7. Removes(k, r, Carried', d, "settle", m', target')
      BY <2>1, <2>3, Zenon DEF Removes
    <3> QED BY <2>1, <3>4, <3>6, <3>7 DEF RemoveKind
  <2> QED BY <1>1, <2>1, <2>2, <2>3, Zenon DEF Removes
<1>23. CASE SettleDelete
  <2>1. pc = "settle" /\ SkrUntouched
    BY <1>23, Zenon DEF SettleDelete
  <2>2. \/ Finish(StateAfterSync(m, "Deleting"))
        \/ UpdateManifest([m EXCEPT !.syncedRef = m.ref])
        \/ CleanupManifest(m, RemoveRequiredFinalizers(m.finalizers))
    BY <1>23, Zenon DEF SettleDelete
  <2>3. CASE Finish(StateAfterSync(m, "Deleting"))
    <3>1. StateAfterSync(m, "Deleting").synced = m.synced
      BY StatusGives DEF TypeOK, StateAfterSync
    <3> QED BY <1>8, <2>1, <2>3, <3>1
  <2>4. CASE UpdateManifest([m EXCEPT !.syncedRef = m.ref])
    BY <1>13, <2>1, <2>4
  <2>5. CASE CleanupManifest(m, RemoveRequiredFinalizers(m.finalizers))
    <3>1. PICK fs : fs = m.finalizers \ {Default, LabelRemoval}
      BY Zenon
    <3>2. \/ UpdateManifest([m EXCEPT !.finalizers = fs])
          \/ Finish(WithState(m, "Deleting", "waitingForFinalizers")) \/ Finish(m)
      BY <2>5, <3>1 DEF CleanupManifest, RemoveRequiredFinalizers
    <3>3. CASE UpdateManifest([m EXCEPT !.finalizers = fs])
      <4>1. PICK x : x = [m EXCEPT !.finalizers = fs]
        BY Zenon
      <4>2. x.finalizers = fs
        BY <4>1 DEF TypeOK, Manifest
      <4>3. CRManager \in m.finalizers => CRManager \in fs
        BY <3>1 DEF CRManager, Default, LabelRemoval
      <4>4. kcp = read => (fs = {} => c = {})
        BY <1>1, <1>2, <1>4, <2>1, <4>3, Zenon DEF Removes
      <4> QED BY <1>9, <1>10, <2>1, <3>3, <4>1, <4>2, <4>3, <4>4, ZenonT(60)
    <3>4. CASE Finish(WithState(m, "Deleting", "waitingForFinalizers"))
      <4>1. WithState(m, "Deleting", "waitingForFinalizers").synced = m.synced
        BY StatusGives DEF TypeOK
      <4> QED BY <1>8, <2>1, <3>4, <4>1
    <3>5. CASE Finish(m)
      BY <1>8, <2>1, <3>5
    <3> QED BY <3>2, <3>3, <3>4, <3>5
  <2> QED BY <2>2, <2>3, <2>4, <2>5
<1>24. CASE FinishReconcile
  <2>1. /\ pc' = "idle" /\ read' = read /\ labelled' = labelled /\ defaultCR' = defaultCR
        /\ pc \in {"finish", "finishEvict"}
        /\ kcp' = kcp \/ (kcp.present /\ Patched(kcp', kcp, m))
    BY <1>24, FinishGives, ZenonT(60)
  <2>2. pc = "finish"
    BY <1>1, <2>1, Zenon DEF Removes
  <2>3. Removes(kcp, read, Carried, defaultCR, "finish", m, target)
    BY <1>1, <2>2
  <2>4. ToRemove(kcp', r, c, d)
    BY <1>1, <2>1, <2>3, RemovePatched
  <2> QED BY <1>7, <2>1, <2>4
<1>25. pc # "defaultCR"
  BY <1>1, Zenon DEF Removes
<1> QED BY <1>2, <1>4, <1>11, <1>12, <1>14, <1>15, <1>16, <1>17, <1>18, <1>20, <1>21, <1>22, <1>23, <1>24,
           <1>25, RemoveSteps, Zenon

-----------------------------------------------------------------------------
(* What every write to the Manifest keeps. *)

\* A deleted Manifest has a finalizer, and what is unmanaged stays so.
Kept(new, k) ==
    /\ new.present /\ new.deleting => new.finalizers # {}
    /\ new.unmanaged = k.unmanaged

\* The annotation stays.
SameAnnotation(new, k) == new.present => new.syncedRef = k.syncedRef

\* updateManifest keeps both, and the annotation unless it is told to move it.
LEMMA RewriteKeeps ==
    ASSUME NEW k, NEW fs, NEW ref, NEW new, Rewritten(new, k, fs, ref)
    PROVE  Kept(new, k) /\ (ref = k.syncedRef => SameAnnotation(new, k))
BY DEF Rewritten, Kept, SameAnnotation

\* A deletion keeps all three.
LEMMA MarkKeeps ==
    ASSUME NEW k, NEW new, Marked(new, k)
    PROVE  Kept(new, k) /\ SameAnnotation(new, k)
BY DEF Marked, Kept, SameAnnotation

\* Each step of the Manifest controller keeps the finalizers of a deleted Manifest and
\* what is unmanaged, and moves the annotation only of the version that was read; only
\* SsaSpec, which applies a whole Manifest, may do otherwise.
LEMMA WrittenKeeps ==
    ASSUME TypeOK, IInv, Held, Undisturbed, secret, Reconcile
    PROVE  /\ Held'
           /\ \/ AddFinalizers
              \/ /\ kcp'.unmanaged = kcp.unmanaged
                 /\ AnnotationMoves => kcp = read /\ pc # "finish"
<1> DEFINE Goal == /\ Held'
                   /\ \/ AddFinalizers
                      \/ /\ kcp'.unmanaged = kcp.unmanaged
                         /\ AnnotationMoves => kcp = read /\ pc # "finish"
<1> SUFFICES Goal
  OBVIOUS
<1>0. kcp \in Manifest /\ m \in Manifest
  BY DEF TypeOK
<1>1. ASSUME kcp' = kcp PROVE Goal
  BY <1>1 DEF Held, AnnotationMoves
<1>2. ASSUME Kept(kcp', kcp), SameAnnotation(kcp', kcp) PROVE Goal
  BY <1>2 DEF Kept, SameAnnotation, Held, AnnotationMoves
<1>3. ASSUME Kept(kcp', kcp), kcp = read, pc # "finish" PROVE Goal
  BY <1>3 DEF Kept, Held
<1> HIDE DEF Goal
<1>4. ASSUME NEW x, UpdateManifest(x), pc \notin {"idle", "finish", "finishEvict"} PROVE Goal
  <2>1. \/ kcp' = kcp
        \/ kcp = read /\ Rewritten(kcp', kcp, x.finalizers, x.syncedRef)
    BY <1>4, UpdateGives
  <2> QED BY <1>1, <1>3, <1>4, <2>1, RewriteKeeps, Zenon
<1>5. ASSUME NEW x, Finish(x) \/ Requeue \/ \E step : GoTo(step, x) PROVE Goal
  <2>1. kcp' = kcp
    BY <1>5 DEF Finish, Requeue, GoTo, objVars
  <2> QED BY <1>1, <2>1
<1>6. ASSUME NEW x, NEW left, CleanupManifest(x, left), pc \notin {"idle", "finish", "finishEvict"}
      PROVE  Goal
  <2>1. PICK fs : UpdateManifest([x EXCEPT !.finalizers = fs]) \/ \E y : Finish(y)
    BY <1>6, Zenon DEF CleanupManifest
  <2> QED BY <1>4, <1>5, <1>6, <2>1
<1>7. CASE InitializeStatus
  BY <1>5, <1>7, Zenon DEF InitializeStatus
<1>8. CASE GetTargetClient
  BY <1>5, <1>8, Zenon DEF GetTargetClient
<1>9. CASE RemoveManagedByLabel
  <2>1. pc = "resolve" /\ (Requeue \/ UpdateManifest([m EXCEPT !.finalizers = @ \ {LabelRemoval}]))
    BY <1>9, Zenon DEF RemoveManagedByLabel
  <2> QED BY <1>4, <1>5, <2>1
<1>10. CASE DeleteUnmanaged
  <2>1. kcp' = kcp \/ kcp' = Stored([kcp EXCEPT !.deleting = TRUE])
    BY <1>10, Zenon DEF DeleteUnmanaged, objVars
  <2>2. kcp' = kcp \/ Marked(kcp', kcp)
    BY <1>0, <2>1, MarkGives
  <2> QED BY <1>1, <1>2, <2>2, MarkKeeps
<1>11. CASE CleanupUnmanaged
  <2>1. pc = "resolve" /\ CleanupManifest(m, RemoveAllFinalizers(m.finalizers))
    BY <1>11, Zenon DEF CleanupUnmanaged
  <2> QED BY <1>6, <2>1
<1>12. CASE AddFinalizers
  <2>1. PICK x : x = [m EXCEPT !.finalizers = @ \cup {Default, LabelRemoval}]
    BY Zenon
  <2>2. SsaSpec(x)
    BY <1>12, <2>1, Zenon DEF AddFinalizers
  <2>3. x.finalizers # {}
    BY <1>0, <2>1 DEF Manifest
  <2>4. \/ kcp' = [NewManifest(x.ref, x.policy) EXCEPT !.finalizers = x.finalizers,
                                                       !.syncedRef = x.syncedRef]
        \/ kcp' = kcp
        \/ kcp' = [kcp EXCEPT !.finalizers = @ \cup x.finalizers, !.ref = x.ref, !.policy = x.policy,
                              !.syncedRef = IF x.syncedRef = NoRef THEN @ ELSE x.syncedRef]
    BY <2>2, ZenonT(60) DEF SsaSpec
  <2>5. CASE kcp' = [NewManifest(x.ref, x.policy) EXCEPT !.finalizers = x.finalizers,
                                                         !.syncedRef = x.syncedRef]
    <3>1. kcp'.deleting = FALSE
      BY <2>5 DEF NewManifest
    <3> QED BY <1>12, <3>1 DEF Held, Goal
  <2>6. CASE kcp' = [kcp EXCEPT !.finalizers = @ \cup x.finalizers, !.ref = x.ref, !.policy = x.policy,
                                !.syncedRef = IF x.syncedRef = NoRef THEN @ ELSE x.syncedRef]
    <3>1. kcp'.finalizers = kcp.finalizers \cup x.finalizers
      BY <1>0, <2>6 DEF Manifest
    <3> QED BY <1>12, <2>3, <3>1 DEF Held, Goal
  <2> QED BY <1>1, <2>4, <2>5, <2>6
<1>13. CASE TrackSpec
  <2>1. pc = "resolve" /\ UpdateManifest([m EXCEPT !.syncedRef = m.ref])
    BY <1>13, Zenon DEF TrackSpec, Prepared
  <2> QED BY <1>4, <2>1
<1>14. CASE RenderForInstall \/ WaitForModuleCRs \/ RenderForDelete \/ DiffInSameLayer
  BY <1>5, <1>14, Zenon DEF RenderForInstall, WaitForModuleCRs, RenderForDelete, DiffInSameLayer
<1>15. CASE PruneDiff \/ DeleteDefaultCR \/ SkipDefaultCR \/ SyncResources \/ SyncDefaultModuleCR
  BY <1>5, <1>15, Zenon DEF PruneDiff, DeleteDefaultCR, SkipDefaultCR, SyncResources, SyncDefaultModuleCR
<1>16. CASE RemoveCRFinalizer
  <2>1. \/ \E x : Finish(x) \/ \E step : GoTo(step, x)
        \/ kcp' = Stored([kcp EXCEPT !.finalizers = @ \ {CRManager}])
    BY <1>16, Zenon DEF RemoveCRFinalizer
  <2>2. CASE kcp' = Stored([kcp EXCEPT !.finalizers = @ \ {CRManager}])
    <3>1. [kcp EXCEPT !.finalizers = @ \ {CRManager}] =
              [kcp EXCEPT !.finalizers = kcp.finalizers \ {CRManager}, !.syncedRef = kcp.syncedRef]
      BY <1>0, Zenon DEF Manifest
    <3>2. PICK fs : fs = kcp.finalizers \ {CRManager}
      BY Zenon
    <3>3. Rewritten(kcp', kcp, fs, kcp.syncedRef)
      BY <1>0, <2>2, <3>1, <3>2, RewriteGives, Zenon
    <3> QED BY <1>2, <3>3, RewriteKeeps
  <2> QED BY <1>5, <2>1, <2>2
<1>17. CASE EnsureCRFinalizer
  <2>1. Finish(m) \/ kcp' = [kcp EXCEPT !.finalizers = @ \cup m.finalizers \cup {CRManager}]
    BY <1>17, Zenon DEF EnsureCRFinalizer
  <2>2. CASE kcp' = [kcp EXCEPT !.finalizers = @ \cup m.finalizers \cup {CRManager}]
    <3>1. /\ kcp'.finalizers = kcp.finalizers \cup m.finalizers \cup {CRManager}
          /\ kcp'.unmanaged = kcp.unmanaged /\ kcp'.syncedRef = kcp.syncedRef
      BY <1>0, <2>2 DEF Manifest
    <3> QED BY <1>2, <3>1 DEF Kept, SameAnnotation
  <2> QED BY <1>5, <2>1, <2>2
<1>18. CASE SettleInstall
  <2>1. pc = "settle" /\ \/ \E x : Finish(x)
                         \/ UpdateManifest([m EXCEPT !.syncedRef = m.ref])
    BY <1>18, Zenon DEF SettleInstall
  <2> QED BY <1>4, <1>5, <2>1
<1>19. CASE SettleDelete
  <2>1. pc = "settle" /\ \/ \E x : Finish(x)
                         \/ UpdateManifest([m EXCEPT !.syncedRef = m.ref])
                         \/ CleanupManifest(m, RemoveRequiredFinalizers(m.finalizers))
    BY <1>19, Zenon DEF SettleDelete
  <2> QED BY <1>4, <1>5, <1>6, <2>1
<1>20. CASE FinishReconcile
  <2>1. kcp' = kcp \/ (kcp.present /\ Patched(kcp', kcp, m))
    BY <1>20, FinishGives
  <2>2. CASE kcp.present /\ Patched(kcp', kcp, m)
    BY <1>2, <2>2 DEF Patched, SameButStatus, Kept, SameAnnotation, Held
  <2> QED BY <1>1, <2>1, <2>2
<1> QED BY <1>7, <1>8, <1>9, <1>10, <1>11, <1>12, <1>13, <1>14, <1>15, <1>16, <1>17, <1>18, <1>19, <1>20,
           CalmSteps, Zenon

-----------------------------------------------------------------------------
(* What is in the SKR. *)

\* The steps that change it, and the one that ends it.
LEMMA SkrSteps ==
    ASSUME Next
    PROVE  /\ \/ UNCHANGED <<skr, labelled>>
              \/ PruneDiff \/ PruneFails \/ SyncResources \/ SyncFails \/ RemoveManagedByLabel
              \/ TearDownSkr \/ \E r \in Resources : ResourceGone(r)
           /\ secret' = secret \/ TearDownSkr
<1>1. ASSUME SkrUntouched \/ UNCHANGED skrVars PROVE UNCHANGED <<skr, labelled>>
  BY <1>1, Zenon DEF SkrUntouched, skrVars
<1>2. ASSUME NoFault \/ SkrCallFails \/ SkrCallSucceeds \/ \E kind : Fault(kind) PROVE secret' = secret
  BY <1>2, Zenon DEF NoFault, SkrCallFails, SkrCallSucceeds, Fault, envVars
<1>3. CASE StartFresh \/ StartStale \/ Abort \/ ClientExpires
  BY <1>1, <1>2, <1>3, Zenon DEF StartFresh, StartStale, Abort, ClientExpires
<1>4. CASE \/ Upgrade \/ ChangePolicy \/ ChangeManaged \/ DeleteManifest
           \/ CreateModuleCR \/ DeleteDefaultCRByUser \/ DisturbManager
  BY <1>1, <1>4, Zenon DEF Upgrade, ChangePolicy, ChangeManaged, DeleteManifest, CreateModuleCR,
         DeleteDefaultCRByUser, DisturbManager
<1>5. CASE ManagerReady \/ DefaultCRGone \/ ModuleCRsGone
  BY <1>2, <1>5, Zenon DEF ManagerReady, DefaultCRGone, ModuleCRsGone, SkrStep
<1>6. CASE \/ InitializeStatus \/ GetTargetClient \/ AccessSecretNotFound \/ TargetClientFails
           \/ DeleteUnmanaged \/ CleanupUnmanaged \/ DetectOrphan \/ AddFinalizers \/ SpecFails
           \/ TrackSpec
  BY <1>1, <1>2, <1>6, Zenon DEF InitializeStatus, GetTargetClient, AccessSecretNotFound,
         TargetClientFails, DeleteUnmanaged, CleanupUnmanaged, DetectOrphan, AddFinalizers,
         SpecFails, TrackSpec
<1>7. CASE \/ RenderForInstall \/ RenderFails \/ WaitForModuleCRs
           \/ RenderForDelete \/ ListModuleCRsFails \/ DiffInSameLayer
  BY <1>1, <1>2, <1>7, Zenon DEF RenderForInstall, RenderFails, WaitForModuleCRs,
         RenderForDelete, ListModuleCRsFails, DiffInSameLayer
<1>8. CASE \/ RemoveCRFinalizer \/ SkipDefaultCR \/ RemoveDefaultCRFails \/ CreateDefaultCRFails
           \/ EnsureCRFinalizer \/ SettleInstall \/ CheckManagerFails \/ SettleDelete
           \/ FinishReconcile
  BY <1>1, <1>2, <1>8, Zenon DEF RemoveCRFinalizer, SkipDefaultCR, RemoveDefaultCRFails,
         CreateDefaultCRFails, EnsureCRFinalizer, SettleInstall, CheckManagerFails, SettleDelete,
         FinishReconcile
<1>9. CASE DeleteDefaultCR \/ SyncDefaultModuleCR
  BY <1>2, <1>9, Zenon DEF DeleteDefaultCR, SyncDefaultModuleCR
<1>10. CASE PruneDiff \/ PruneFails \/ SyncResources \/ SyncFails \/ RemoveManagedByLabel
  BY <1>2, <1>10, Zenon DEF PruneDiff, PruneFails, SyncResources, SyncFails, RemoveManagedByLabel
<1>11. CASE \E r \in Resources : ResourceGone(r)
  BY <1>2, <1>11, Zenon DEF ResourceGone, SkrStep
<1> QED BY <1>3, <1>4, <1>5, <1>6, <1>7, <1>8, <1>9, <1>10, <1>11, Zenon
        DEF Next, Reconcile, Outside, Cluster

\* An SKR that was torn down stays so, and nothing is labelled in it.
LEMMA TornDown ==
    ASSUME Next, ~secret, labelled = {}
    PROVE  ~secret' /\ labelled' = {}
<1>1. ~TearDownSkr
  BY Zenon DEF TearDownSkr
<1>2. ~secret'
  BY <1>1, SkrSteps
<1> SUFFICES labelled' = {}
  BY <1>2
<1>3. CASE UNCHANGED <<skr, labelled>>
  BY <1>3
<1>4. CASE PruneDiff \/ PruneFails
  BY <1>4, Zenon DEF PruneDiff, PruneFails
<1>5. CASE SyncResources
  <2>1. target = {} /\ labelled' = labelled \cup target
    BY <1>5, Zenon DEF SyncResources, ApplyResources
  <2> QED BY <2>1
<1>6. CASE SyncFails
  <2>1. labelled' = labelled \cup {}
    BY <1>6, Zenon DEF SyncFails, ApplyResources
  <2> QED BY <2>1
<1>7. CASE RemoveManagedByLabel
  <2>1. PICK rs : labelled' = labelled \ rs
    BY <1>7, Zenon DEF RemoveManagedByLabel, RemoveLabels
  <2> QED BY <2>1
<1>8. CASE \E r \in Resources : ResourceGone(r)
  <2>1. PICK r : labelled' = labelled \ {r}
    BY <1>8, Zenon DEF ResourceGone
  <2> QED BY <2>1
<1> QED BY <1>1, <1>3, <1>4, <1>5, <1>6, <1>7, <1>8, SkrSteps

\* Only what is there carries a label.
LEMMA LabelsStayLive ==
    ASSUME TypeOK, Next, LabelsLive
    PROVE  LabelsLive'
<1>1. CASE UNCHANGED <<skr, labelled>>
  BY <1>1 DEF LabelsLive
<1>2. ASSUME NEW rs, DeleteResources(rs), labelled' = labelled PROVE LabelsLive'
  BY <1>2 DEF DeleteResources, LabelsLive, TypeOK
<1>3. CASE PruneDiff
  BY <1>1, <1>2, <1>3, Zenon DEF PruneDiff
<1>4. CASE PruneFails
  BY <1>2, <1>4, Zenon DEF PruneFails
<1>5. ASSUME NEW rs \in SUBSET Resources, ApplyResources(rs) PROVE LabelsLive'
  BY <1>5 DEF ApplyResources, LabelsLive, TypeOK
<1>6. CASE SyncResources
  BY <1>5, <1>6 DEF SyncResources, TypeOK
<1>7. CASE SyncFails
  <2>1. PICK rs \in SUBSET target : ApplyResources(rs)
    BY <1>7, Zenon DEF SyncFails
  <2> QED BY <1>5, <2>1 DEF TypeOK
<1>8. CASE RemoveManagedByLabel
  <2>1. PICK rs : labelled' = labelled \ rs
    BY <1>8, Zenon DEF RemoveManagedByLabel, RemoveLabels
  <2>2. skr' = skr
    BY <1>8, Zenon DEF RemoveManagedByLabel
  <2> QED BY <2>1, <2>2 DEF LabelsLive
<1>9. CASE TearDownSkr
  BY <1>9 DEF TearDownSkr, LabelsLive
<1>10. CASE \E r \in Resources : ResourceGone(r)
  <2>1. PICK r : labelled' = labelled \ {r} /\ skr' = [skr EXCEPT ![r] = "absent"]
    BY <1>10, Zenon DEF ResourceGone
  <2> QED BY <2>1 DEF LabelsLive, TypeOK
<1> QED BY <1>1, <1>3, <1>4, <1>6, <1>7, <1>8, <1>9, <1>10, SkrSteps

\* What has no label is not there, unless the Manifest is unmanaged.
LEMMA AllStayCarried ==
    ASSUME TypeOK, Next, AllCarried, kcp.unmanaged => kcp'.unmanaged,
           RemoveManagedByLabel => kcp.unmanaged
    PROVE  AllCarried'
<1> SUFFICES ASSUME ~kcp'.unmanaged, NEW e \in Resources \ labelled'
             PROVE  skr'[e] = "absent"
  BY DEF AllCarried
<1>1. e \notin labelled => skr[e] = "absent"
  BY DEF AllCarried
<1>2. CASE UNCHANGED <<skr, labelled>>
  BY <1>1, <1>2
<1>3. ASSUME NEW rs, DeleteResources(rs), labelled' = labelled PROVE skr'[e] = "absent"
  BY <1>1, <1>3 DEF DeleteResources
<1>4. CASE PruneDiff
  BY <1>2, <1>3, <1>4, Zenon DEF PruneDiff
<1>5. CASE PruneFails
  BY <1>3, <1>5, Zenon DEF PruneFails
<1>6. ASSUME NEW rs, ApplyResources(rs) PROVE skr'[e] = "absent"
  BY <1>1, <1>6 DEF ApplyResources
<1>7. CASE SyncResources \/ SyncFails
  BY <1>6, <1>7, Zenon DEF SyncResources, SyncFails
<1>8. CASE TearDownSkr
  BY <1>8 DEF TearDownSkr
<1>9. CASE \E r \in Resources : ResourceGone(r)
  <2>1. PICK r \in Resources : labelled' = labelled \ {r} /\ skr' = [skr EXCEPT ![r] = "absent"]
    BY <1>9, Zenon DEF ResourceGone
  <2> QED BY <1>1, <2>1 DEF TypeOK
<1> QED BY <1>2, <1>4, <1>5, <1>7, <1>8, <1>9, SkrSteps

-----------------------------------------------------------------------------
(* What happens around a reconciliation. *)

\* What a version of the Manifest allows a reconciliation that reads it.
Fresh(k, c, d) ==
    \/ Untouched(k) /\ c = {}
    \/ /\ ~k.deleting /\ ~k.unmanaged /\ ~FinalizersUpdateRequired(k) /\ Sound(k) /\ c \subseteq k.synced
       /\ k.state = "Ready" /\ k.syncedRef = k.ref => Done(k)
    \/ /\ k.unmanaged /\ c \subseteq k.synced
       /\ k.deleting \/ LabelRemoval \notin k.finalizers => c = {}
    \/ /\ k.deleting /\ ~k.unmanaged /\ c \subseteq k.synced
       /\ ~Vacant(k, d) => CRManager \in k.finalizers /\ Done(k)

\* An installation leaves such a version.
LEMMA FreshInstall ==
    ASSUME NEW k, NEW r, NEW c, NEW d, NEW x, ToInstall(k, r), Installs(k, r, c, "idle", x)
    PROVE  k.present /\ Fresh(k, c, d)
<1>1. k.present /\ c \subseteq k.synced /\ ~FinalizersUpdateRequired(k)
  BY Zenon DEF ToInstall, Installs
<1>2. CASE ~k.deleting /\ ~k.unmanaged
  <2>1. Sound(k)
    BY <1>2, ZenonT(60) DEF ToInstall
  <2>2. k.state = "Ready" /\ k.syncedRef = k.ref => Done(k)
    BY <1>2, Zenon DEF ToInstall, Done
  <2> QED BY <1>1, <1>2, <2>1, <2>2, Zenon DEF Fresh
<1>3. CASE k.unmanaged
  <2>1. ~k.deleting /\ LabelRemoval \in k.finalizers
    BY <1>1, <1>3, Zenon DEF ToInstall, FinalizersUpdateRequired
  <2> QED BY <1>1, <1>3, <2>1, ZenonT(60) DEF Fresh
<1>4. CASE k.deleting /\ ~k.unmanaged
  <2>1. ~Vacant(k, d) => CRManager \in k.finalizers /\ Done(k)
    BY <1>4, Zenon DEF ToInstall, Vacant, Done
  <2> QED BY <1>1, <1>4, <2>1, ZenonT(60) DEF Fresh
<1> QED BY <1>2, <1>3, <1>4

\* A deletion leaves such a version, or nothing.
LEMMA FreshRemove ==
    ASSUME NEW k, NEW r, NEW c, NEW d, ToRemove(k, r, c, d)
    PROVE  /\ k.present => Fresh(k, c, d)
           /\ ~k.present => c = {}
<1>1. Vacant(k, d) <=> Vacant(r, d)
  BY DEF ToRemove, Vacant
<1>2. CASE k.present
  <2>1. k.deleting /\ ~k.unmanaged /\ c \subseteq k.synced
    BY <1>2, Zenon DEF ToRemove
  <2>2. ~Vacant(k, d) => CRManager \in k.finalizers /\ Done(k)
    BY <1>1, Zenon DEF ToRemove
  <2> QED BY <1>2, <2>1, <2>2, ZenonT(60) DEF Fresh
<1>3. CASE ~k.present
  BY <1>3, Zenon DEF ToRemove
<1> QED BY <1>2, <1>3

\* So does the reconciliation of an unmanaged Manifest.
LEMMA FreshUnmanaged ==
    ASSUME NEW k, NEW r, NEW c, NEW d, UnmanagedRead(k, r, c)
    PROVE  /\ k.present => Fresh(k, c, d)
           /\ ~k.present => c = {}
BY Zenon DEF UnmanagedRead, Fresh

\* So does that of a new one, and one that found no Manifest.
LEMMA FreshNew ==
    ASSUME NEW k, NEW r, NEW c, NEW d, NothingRead(k, r, c) \/ NewRead(k, r, c)
    PROVE  /\ k.present => Fresh(k, c, d)
           /\ c = {}
BY Zenon DEF NothingRead, NewRead, Fresh

\* So does every reconciliation.
LEMMA KindsFresh ==
    ASSUME Kinds, pc = "idle"
    PROVE  /\ kcp.present => Fresh(kcp, Carried, defaultCR)
           /\ ~kcp.present => Carried = {}
<1>1. CASE NothingKind \/ NewKind
  BY <1>1, FreshNew, Zenon DEF NothingKind, NewKind
<1>2. CASE InstallKind
  BY <1>2, FreshInstall DEF InstallKind
<1>3. CASE UnmanagedKind
  BY <1>3, FreshUnmanaged, ZenonT(60) DEF UnmanagedKind
<1>4. CASE RemoveKind
  BY <1>4, FreshRemove DEF RemoveKind
<1> QED BY <1>1, <1>2, <1>3, <1>4 DEF Kinds

\* One to be installed starts an installation.
LEMMA ReadInstall ==
    ASSUME NEW k, NEW c, k.present, ~k.deleting, ~k.unmanaged, ~FinalizersUpdateRequired(k), Sound(k),
           c \subseteq k.synced, k.state = "Ready" /\ k.syncedRef = k.ref => Done(k)
    PROVE  ToInstall(k, k) /\ Installs(k, k, c, "prepare", k)
<1>1. ToInstall(k, k)
  BY Zenon DEF ToInstall
<1>2. Installs(k, k, c, "prepare", k)
  BY ZenonT(60) DEF Installs, Sound
<1> QED BY <1>1, <1>2, Zenon

\* A deleted one starts a deletion.
LEMMA ReadRemove ==
    ASSUME NEW k, NEW c, NEW d, NEW t, k.present, k.deleting, ~k.unmanaged, c \subseteq k.synced,
           ~Vacant(k, d) => CRManager \in k.finalizers /\ Done(k)
    PROVE  ToRemove(k, k, c, d) /\ Removes(k, k, c, d, "prepare", k, t)
BY Zenon DEF ToRemove, Removes

\* One that nothing was applied for starts any of them.
LEMMA ReadUntouched ==
    ASSUME NEW k, NEW c, NEW d, NEW t, k.present, Untouched(k), c = {}
    PROVE  \/ NewRead(k, k, c)
           \/ ToInstall(k, k) /\ Installs(k, k, c, "prepare", k)
           \/ ToRemove(k, k, c, d) /\ Removes(k, k, c, d, "prepare", k, t)
<1>1. CASE ~k.deleting /\ FinalizersUpdateRequired(k)
  BY <1>1, Zenon DEF NewRead, Untouched
<1>2. CASE ~k.deleting /\ ~FinalizersUpdateRequired(k)
  <2>1. Sound(k) /\ ~k.unmanaged /\ k.state # "Ready"
    BY DEF Untouched, Sound
  <2> QED BY <1>2, <2>1, ReadInstall, Zenon
<1>3. CASE k.deleting
  <2>1. ~k.unmanaged /\ Vacant(k, d)
    BY <1>3 DEF Untouched, Vacant
  <2> QED BY <1>3, <2>1, ReadRemove, Zenon
<1> QED BY <1>1, <1>2, <1>3, Zenon

\* The latest version is read.
LEMMA StartFreshKinds ==
    ASSUME Kinds, StartFresh
    PROVE  Kinds'
<1>1. /\ pc = "idle" /\ kcp' = kcp /\ read' = kcp /\ m' = kcp /\ labelled' = labelled /\ target' = target
      /\ defaultCR' = defaultCR /\ pc' = IF kcp.present THEN "prepare" ELSE "idle"
  BY Zenon DEF StartFresh, skrVars
<1>2. Carried' = Carried
  BY <1>1 DEF Carried
<1>3. CASE ~kcp.present
  <2>1. Carried = {}
    BY <1>1, <1>3, KindsFresh
  <2>2. NothingKind'
    BY <1>1, <1>2, <1>3, <2>1 DEF NothingKind, NothingRead
  <2> QED BY <2>2 DEF Kinds
<1>4. CASE kcp.present
  <2>1. Fresh(kcp, Carried, defaultCR) /\ pc' = "prepare"
    BY <1>1, <1>4, KindsFresh
  <2>2. ASSUME NewRead(kcp, kcp, Carried) PROVE Kinds'
    BY <1>1, <1>2, <2>1, <2>2 DEF Kinds, NewKind
  <2>3. ASSUME ToInstall(kcp, kcp), Installs(kcp, kcp, Carried, "prepare", kcp) PROVE Kinds'
    BY <1>1, <1>2, <2>1, <2>3 DEF Kinds, InstallKind
  <2>4. ASSUME ToRemove(kcp, kcp, Carried, defaultCR),
               Removes(kcp, kcp, Carried, defaultCR, "prepare", kcp, target)
        PROVE  Kinds'
    BY <1>1, <1>2, <2>1, <2>4, Zenon DEF Kinds, RemoveKind
  <2>5. CASE Untouched(kcp) /\ Carried = {}
    BY <1>4, <2>2, <2>3, <2>4, <2>5, ReadUntouched
  <2>6. CASE /\ ~kcp.deleting /\ ~kcp.unmanaged /\ ~FinalizersUpdateRequired(kcp) /\ Sound(kcp)
             /\ Carried \subseteq kcp.synced
             /\ kcp.state = "Ready" /\ kcp.syncedRef = kcp.ref => Done(kcp)
    BY <1>4, <2>3, <2>6, ReadInstall, Zenon
  <2>7. CASE /\ kcp.unmanaged /\ Carried \subseteq kcp.synced
             /\ kcp.deleting \/ LabelRemoval \notin kcp.finalizers => Carried = {}
    <3>1. UnmanagedRead(kcp, kcp, Carried)
      BY <1>4, <2>7, Zenon DEF UnmanagedRead
    <3>2. UnmanagedKind'
      BY <1>1, <1>2, <2>1, <3>1, Zenon DEF UnmanagedKind
    <3> QED BY <3>2 DEF Kinds
  <2>8. CASE /\ kcp.deleting /\ ~kcp.unmanaged /\ Carried \subseteq kcp.synced
             /\ ~Vacant(kcp, defaultCR) => CRManager \in kcp.finalizers /\ Done(kcp)
    BY <1>4, <2>4, <2>8, ReadRemove, Zenon
  <2> QED BY <2>1, <2>5, <2>6, <2>7, <2>8, Zenon DEF Fresh
<1> QED BY <1>3, <1>4

\* An older version is read again.
LEMMA StartStaleKinds ==
    ASSUME Kinds, StartStale
    PROVE  Kinds'
<1>1. /\ pc = "idle" /\ kcp' = kcp /\ read' = read /\ m' = read /\ labelled' = labelled /\ target' = target
      /\ defaultCR' = defaultCR /\ pc' = "prepare" /\ read.present
  BY Zenon DEF StartStale, skrVars, objVars
<1>2. Carried' = Carried
  BY <1>1 DEF Carried
<1>3. ~NothingKind
  BY <1>1 DEF NothingKind, NothingRead
<1>4. CASE NewKind
  <2>1. NewKind'
    BY <1>1, <1>2, <1>4 DEF NewKind
  <2> QED BY <2>1 DEF Kinds
<1>5. CASE InstallKind
  <2>1. ToInstall(kcp, read) /\ Installs(kcp, read, Carried, "idle", m)
    BY <1>1, <1>5 DEF InstallKind
  <2>2. Installs(kcp, read, Carried, "prepare", read)
    BY <2>1, Zenon DEF Installs
  <2>3. InstallKind'
    BY <1>1, <1>2, <2>1, <2>2 DEF InstallKind
  <2> QED BY <2>3 DEF Kinds
<1>6. CASE UnmanagedKind
  <2>1. UnmanagedKind'
    BY <1>1, <1>2, <1>6 DEF UnmanagedKind
  <2> QED BY <2>1 DEF Kinds
<1>7. CASE RemoveKind
  <2>1. ToRemove(kcp, read, Carried, defaultCR)
    BY <1>7 DEF RemoveKind
  <2>2. Removes(kcp, read, Carried, defaultCR, "prepare", read, target)
    BY DEF Removes
  <2>3. RemoveKind'
    BY <1>1, <1>2, <2>1, <2>2 DEF RemoveKind
  <2> QED BY <2>3 DEF Kinds
<1> QED BY <1>3, <1>4, <1>5, <1>6, <1>7 DEF Kinds

\* The SKR may lose resources, and the default CR, which does not vanish between the
\* two places that look for it.
LEMMA ClusterKinds ==
    ASSUME Kinds, kcp' = kcp, read' = read, m' = m, pc' = pc, target' = target, Carried' \subseteq Carried,
           \/ defaultCR' = defaultCR
           \/ defaultCR # "absent" /\ defaultCR' # "absent"
           \/ defaultCR' = "absent" /\ pc \notin {"prune", "removeCR"}
    PROVE  Kinds'
<1>1. CASE NothingKind
  BY <1>1 DEF NothingKind, NothingRead, Kinds
<1>2. CASE NewKind
  <2>1. NewKind'
    BY <1>2 DEF NewKind, NewRead
  <2> QED BY <2>1 DEF Kinds
<1>3. CASE InstallKind
  <2>1. ToInstall(kcp, read) /\ Installs(kcp, read, Carried, pc, m)
    BY <1>3 DEF InstallKind
  <2>2. Installs(kcp, read, Carried', pc, m)
    BY <2>1, Zenon DEF Installs
  <2>3. InstallKind'
    BY <2>1, <2>2 DEF InstallKind
  <2> QED BY <2>3 DEF Kinds
<1>4. CASE UnmanagedKind
  <2>1. UnmanagedRead(kcp, read, Carried')
    BY <1>4, Zenon DEF UnmanagedKind, UnmanagedRead
  <2>2. UnmanagedKind'
    BY <1>4, <2>1, Zenon DEF UnmanagedKind
  <2> QED BY <2>2 DEF Kinds
<1>5. CASE RemoveKind
  <2>1. ToRemove(kcp, read, Carried, defaultCR) /\ Removes(kcp, read, Carried, defaultCR, pc, m, target)
    BY <1>5 DEF RemoveKind
  <2>2. Vacant(read, defaultCR) => Vacant(read, defaultCR')
    BY DEF Vacant
  <2>3. pc \in {"prune", "removeCR"} => (Vacant(read, defaultCR) <=> Vacant(read, defaultCR'))
    BY DEF Vacant
  <2>4. ToRemove(kcp, read, Carried', defaultCR')
    BY <2>1, <2>2, ZenonT(60) DEF ToRemove
  <2>5. Removes(kcp, read, Carried', defaultCR', pc, m, target)
    BY <2>1, <2>2, <2>3, Zenon DEF Removes
  <2>6. RemoveKind'
    BY <2>4, <2>5 DEF RemoveKind
  <2> QED BY <2>6 DEF Kinds
<1> QED BY <1>1, <1>2, <1>3, <1>4, <1>5 DEF Kinds

\* The Kyma controller changes nothing but the reference, the policy or whether the
\* module is managed.
Edited(new, k) ==
    /\ new.present = k.present /\ new.deleting = k.deleting /\ new.finalizers = k.finalizers
    /\ new.syncedRef = k.syncedRef /\ new.state = k.state /\ new.op = k.op /\ new.synced = k.synced

\* Only a Manifest that is installed is settled.
LEMMA SettledIsInstalled ==
    ASSUME Kinds, Settled, kcp.present
    PROVE  InstallKind /\ Done(read) /\ kcp.ref = read.ref
<1>1. kcp.state = "Ready" /\ kcp.syncedRef = kcp.ref /\ ~kcp.deleting /\ ~kcp.unmanaged
  BY DEF Settled
<1>2. ~NothingKind /\ ~NewKind
  BY <1>1, Zenon DEF NothingKind, NothingRead, NewKind, NewRead, Untouched
<1>3. ~UnmanagedKind /\ ~RemoveKind
  BY <1>1, Zenon DEF UnmanagedKind, UnmanagedRead, RemoveKind, ToRemove
<1>4. InstallKind
  BY <1>2, <1>3 DEF Kinds
<1>5. ToInstall(kcp, read)
  BY <1>4 DEF InstallKind
<1> QED BY <1>1, <1>4, <1>5, Zenon DEF ToInstall

\* An installation goes on when a settled Manifest is changed.
LEMMA InstallEdited ==
    ASSUME NEW k, NEW r, NEW new, ToInstall(k, r), k.state = "Ready", k.syncedRef = k.ref, ~k.deleting,
           ~k.unmanaged, k.ref # NoRef, Done(r), k.ref = r.ref, Edited(new, k)
    PROVE  ToInstall(new, r)
<1>1. /\ new.present /\ ~new.deleting /\ ~FinalizersUpdateRequired(new) /\ new.syncedRef = k.ref
      /\ new.state = "Ready" /\ new.synced = k.synced
  BY Zenon DEF Edited, ToInstall, FinalizersUpdateRequired
<1>2. k.synced = ResOf[k.ref]
  BY ZenonT(60) DEF ToInstall, Done
<1>3. Sound(new)
  BY <1>1, <1>2, Zenon DEF Sound, Done
<1> QED BY <1>1, <1>2, <1>3, ZenonT(60) DEF ToInstall

\* Upgrades and changes of the policy or of the management are such changes.
LEMMA EditGives ==
    ASSUME NEW k \in Manifest, NEW new,
           \/ \E ref : new = [k EXCEPT !.ref = ref]
           \/ \E policy : new = [k EXCEPT !.policy = policy]
           \/ new = [k EXCEPT !.unmanaged = ~@]
    PROVE  Edited(new, k)
BY DEF Edited, Manifest

\* What changes a settled Manifest.
LEMMA EditKeeps ==
    ASSUME TypeOK, Undisturbed, Kinds, Held, Upgrade \/ ChangePolicy \/ ChangeManaged
    PROVE  /\ Kinds' /\ Held' /\ (kcp.unmanaged => kcp'.unmanaged) /\ kcp'.present
           /\ ~AnnotationMoves
<1>1. /\ kcp.present /\ Settled /\ UNCHANGED ctrlVars /\ UNCHANGED skrVars
      /\ \/ \E ref : kcp' = [kcp EXCEPT !.ref = ref]
         \/ \E policy : kcp' = [kcp EXCEPT !.policy = policy]
         \/ kcp' = [kcp EXCEPT !.unmanaged = ~@]
  BY Zenon DEF Upgrade, ChangePolicy, ChangeManaged, Change, Undisturbed
<1>2. read' = read /\ pc' = pc /\ m' = m /\ labelled' = labelled
  BY <1>1 DEF ctrlVars, skrVars
<1>3. Edited(kcp', kcp)
  BY <1>1, EditGives DEF TypeOK
<1>4. InstallKind /\ Done(read) /\ kcp.ref = read.ref
  BY <1>1, SettledIsInstalled
<1>5. kcp.state = "Ready" /\ kcp.syncedRef = kcp.ref /\ ~kcp.deleting /\ ~kcp.unmanaged
  BY <1>1 DEF Settled
<1>6. kcp.ref # NoRef
  BY ResourcesAssumption DEF TypeOK, Manifest
<1>7. ToInstall(kcp, read) /\ Installs(kcp, read, Carried, pc, m)
  BY <1>4, Zenon DEF InstallKind
<1>8. ToInstall(kcp', read)
  BY <1>3, <1>4, <1>5, <1>6, <1>7, InstallEdited, Zenon
<1>9. Installs(kcp', read, Carried, pc, m)
  BY <1>3, <1>7, Zenon DEF Installs, Edited
<1>10. InstallKind'
  BY <1>2, <1>8, <1>9 DEF InstallKind, Carried
<1>11. kcp'.present /\ ~kcp'.deleting /\ ~AnnotationMoves
  BY <1>1, <1>3, <1>5 DEF Edited, AnnotationMoves
<1> QED BY <1>5, <1>10, <1>11 DEF Kinds, Held

\* A deletion finds nothing applied, or everything that was applied in the status.
LEMMA DeleteKeeps ==
    ASSUME TypeOK, Undisturbed, Kinds, DeleteManifest
    PROVE  /\ Kinds' /\ Held' /\ kcp'.unmanaged = kcp.unmanaged
           /\ ~kcp'.present => kcp.policy # "create"
           /\ ~AnnotationMoves
<1>1. /\ kcp.present /\ ~kcp.deleting /\ ~kcp.unmanaged /\ UNCHANGED ctrlVars /\ UNCHANGED skrVars
      /\ kcp.policy = "create" => Settled
      /\ kcp' = Stored([kcp EXCEPT !.deleting = TRUE])
  BY Zenon DEF DeleteManifest, Change, Undisturbed
<1>2. read' = read /\ pc' = pc /\ m' = m /\ Carried' = Carried
  BY <1>1 DEF ctrlVars, skrVars, Carried
<1>3. Marked(kcp', kcp)
  BY <1>1, MarkGives DEF TypeOK
<1>4. Held' /\ kcp'.unmanaged = kcp.unmanaged /\ ~AnnotationMoves
  BY <1>3, MarkKeeps, Zenon DEF Kept, SameAnnotation, Held, AnnotationMoves
<1>5. ~UnmanagedKind /\ ~RemoveKind
  BY <1>1 DEF UnmanagedKind, UnmanagedRead, RemoveKind, ToRemove
<1>6. CASE NothingKind \/ NewKind
  <2>1. Untouched(kcp)
    BY <1>1, <1>6 DEF NothingKind, NothingRead, NewKind, NewRead
  <2>2. kcp.policy # "create"
    BY <1>1, <2>1 DEF Untouched, Settled
  <2>3. kcp'.present => Untouched(kcp')
    BY <1>3, <2>1, <2>2, ZenonT(60) DEF Marked, Untouched
  <2>4. NothingKind => NothingKind'
    BY <1>2, <2>3 DEF NothingKind, NothingRead
  <2>5. NewKind => NewKind'
    BY <1>2, <1>3, <2>3, Zenon DEF NewKind, NewRead, Marked
  <2> QED BY <1>4, <1>6, <2>2, <2>4, <2>5 DEF Kinds
<1>7. CASE InstallKind
  <2>1. ToInstall(kcp, read) /\ Installs(kcp, read, Carried, pc, m)
    BY <1>7 DEF InstallKind
  <2>2. kcp.policy = "create" => Done(read) /\ kcp.ref = read.ref /\ CRManager \in kcp.finalizers
    BY <1>1, SettledIsInstalled DEF Settled
  <2>3. kcp.finalizers # {} /\ ~FinalizersUpdateRequired(kcp)
    BY <2>1, Zenon DEF ToInstall, FinalizersUpdateRequired
  <2>4. /\ kcp'.present /\ kcp'.deleting /\ ~kcp'.unmanaged /\ kcp'.policy = kcp.policy /\ kcp'.ref = kcp.ref
        /\ kcp'.finalizers = kcp.finalizers /\ kcp'.syncedRef = kcp.syncedRef /\ kcp'.synced = kcp.synced
    BY <1>1, <1>3, <2>3, Zenon DEF Marked
  <2>5. ToInstall(kcp', read)
    BY <2>1, <2>2, <2>3, <2>4, Zenon DEF ToInstall, FinalizersUpdateRequired
  <2>6. Installs(kcp', read, Carried, pc, m)
    BY <2>1, <2>4, Zenon DEF Installs
  <2>7. InstallKind'
    BY <1>2, <2>5, <2>6 DEF InstallKind
  <2> QED BY <1>4, <2>4, <2>7, Zenon DEF Kinds
<1> QED BY <1>5, <1>6, <1>7, Zenon DEF Kinds

\* A Manifest goes only when nothing is carried.
LEMMA GoneMeansClean ==
    ASSUME Kinds, ~kcp.present
    PROVE  Carried = {}
<1>1. CASE NothingKind \/ NewKind
  BY <1>1 DEF NothingKind, NothingRead, NewKind, NewRead
<1>2. CASE InstallKind
  BY <1>2, Zenon DEF InstallKind, ToInstall
<1>3. CASE UnmanagedKind
  BY <1>3 DEF UnmanagedKind, UnmanagedRead
<1>4. CASE RemoveKind
  BY <1>4, Zenon DEF RemoveKind, ToRemove
<1> QED BY <1>1, <1>2, <1>3, <1>4 DEF Kinds

\* What the default CR and the annotation need of each step.
CRGoesFirst ==
    kcp.present /\ ~kcp'.present /\ kcp.policy = "create" /\ ~kcp.unmanaged => defaultCR = "absent"
ListedWhenMoved == AnnotationMoves => ~kcp.unmanaged /\ Carried \subseteq kcp.synced

\* Each step of a reconciliation keeps the invariant.
LEMMA ReconcileLinv ==
    ASSUME TypeOK, IInv, Undisturbed, secret, LabelsLive, Held, AllCarried, Kinds, Reconcile
    PROVE  /\ Held' /\ AllCarried' /\ Kinds'
           /\ CRGoesFirst /\ ListedWhenMoved
<1>1. /\ Held'
      /\ \/ AddFinalizers
         \/ /\ kcp'.unmanaged = kcp.unmanaged
            /\ AnnotationMoves => kcp = read /\ pc # "finish"
  BY WrittenKeeps
<1>2. read' = read
  BY ReconcileCR DEF Undisturbed
<1>3. pc # "idle" => SameButStatus(m, read)
  BY DEF IInv, WorkingCopy
<1>4. AddFinalizers => ~read.deleting /\ ~read.unmanaged /\ FinalizersUpdateRequired(read)
  BY <1>3 DEF AddFinalizers, SameButStatus, FinalizersUpdateRequired
<1>5. RemoveManagedByLabel => read.unmanaged
  BY <1>3, Zenon DEF RemoveManagedByLabel, SameButStatus
<1>6. Next
  BY DEF Next
<1>7. ASSUME kcp.unmanaged => kcp'.unmanaged, read.unmanaged => kcp.unmanaged PROVE AllCarried'
  BY <1>5, <1>6, <1>7, AllStayCarried
<1>8. CASE NothingKind
  <2>1. pc = "idle" /\ Carried = {}
    BY <1>8 DEF NothingKind, NothingRead
  <2> QED BY <2>1, ReconcileStarted
<1>9. CASE NewKind
  <2>1. NewKind' /\ (kcp.present => kcp'.present)
    BY <1>9, NewKept
  <2>2. ~kcp.unmanaged /\ ~read.unmanaged /\ Carried = {}
    BY <1>9 DEF NewKind, NewRead
  <2> QED BY <1>1, <1>7, <2>1, <2>2, Zenon DEF Kinds, CRGoesFirst, ListedWhenMoved
<1>10. CASE InstallKind
  <2>1. InstallKind'
    BY <1>10, InstallKept
  <2>2. kcp'.present
    BY <2>1, Zenon DEF InstallKind, ToInstall
  <2>3. ~read.unmanaged /\ ~FinalizersUpdateRequired(read) /\ (pc # "finish" => Carried \subseteq kcp.synced)
    BY <1>10, Zenon DEF InstallKind, ToInstall, Installs
  <2>4. kcp'.unmanaged = kcp.unmanaged
    BY <1>1, <1>4, <2>3
  <2>5. AnnotationMoves => kcp = read /\ pc # "finish"
    BY <1>1, <1>4, <2>3
  <2> QED BY <1>1, <1>7, <2>1, <2>2, <2>3, <2>4, <2>5, Zenon DEF Kinds, CRGoesFirst, ListedWhenMoved
<1>11. CASE UnmanagedKind
  <2>1. UnmanagedKind' /\ ~AnnotationMoves
    BY <1>11, UnmanagedKept
  <2>2. kcp.unmanaged /\ kcp'.unmanaged
    BY <1>11, <2>1, Zenon DEF UnmanagedKind, UnmanagedRead
  <2> QED BY <1>1, <1>7, <2>1, <2>2, Zenon DEF Kinds, CRGoesFirst, ListedWhenMoved
<1>12. CASE RemoveKind
  <2>1. RemoveKind' /\ (kcp' = kcp \/ defaultCR' = defaultCR)
    BY <1>12, RemoveKept
  <2>2. ToRemove(kcp, read, Carried, defaultCR) /\ ToRemove(kcp', read, Carried', defaultCR')
    BY <1>2, <1>12, <2>1 DEF RemoveKind
  <2>3. ~kcp.unmanaged /\ ~read.unmanaged /\ read.policy = kcp.policy
    BY <2>2, Zenon DEF ToRemove
  <2>4. CRGoesFirst
    BY <2>1, <2>2, <2>3, Zenon DEF ToRemove, Vacant, CRGoesFirst
  <2>5. kcp.present => Carried \subseteq kcp.synced
    BY <2>2, Zenon DEF ToRemove
  <2> QED BY <1>1, <1>7, <2>1, <2>3, <2>4, <2>5, Zenon DEF Kinds, ListedWhenMoved, AnnotationMoves
<1> QED BY <1>8, <1>9, <1>10, <1>11, <1>12, Zenon DEF Kinds

\* So does each step around it.
LEMMA SurroundingsLinv ==
    ASSUME TypeOK, Undisturbed, secret, Held, AllCarried, Kinds,
           StartFresh \/ StartStale \/ Abort \/ ClientExpires \/ Outside \/ Cluster, ~TearDownSkr
    PROVE  /\ Held' /\ AllCarried' /\ Kinds'
           /\ CRGoesFirst /\ ~AnnotationMoves
<1>1. Next
  BY DEF Next
<1>2. ~Abort
  BY DEF Abort, Fault, Undisturbed
<1>3. ASSUME kcp.unmanaged => kcp'.unmanaged, labelled' = labelled, skr' = skr PROVE AllCarried'
  BY <1>3 DEF AllCarried
<1>4. ASSUME kcp' = kcp PROVE Held' /\ CRGoesFirst /\ ~AnnotationMoves
  BY <1>4 DEF Held, CRGoesFirst, AnnotationMoves
<1>5. CASE StartFresh
  <2>1. kcp' = kcp /\ labelled' = labelled /\ skr' = skr
    BY <1>5, Zenon DEF StartFresh, skrVars
  <2> QED BY <1>3, <1>4, <1>5, <2>1, StartFreshKinds
<1>6. CASE StartStale
  <2>1. kcp' = kcp /\ labelled' = labelled /\ skr' = skr
    BY <1>6, Zenon DEF StartStale, skrVars, objVars
  <2> QED BY <1>3, <1>4, <1>6, <2>1, StartStaleKinds
<1>7. CASE ClientExpires \/ CreateModuleCR \/ DisturbManager \/ ManagerReady \/ ModuleCRsGone
  <2>1. UNCHANGED <<kcp, read, m, pc, target, labelled, skr, defaultCR>>
    BY <1>7, Zenon DEF ClientExpires, CreateModuleCR, DisturbManager, ManagerReady, ModuleCRsGone,
                       Change, SkrStep, skrVars, objVars, ctrlVars
  <2>2. Carried' \subseteq Carried
    BY <2>1 DEF Carried
  <2> QED BY <1>3, <1>4, <2>1, <2>2, ClusterKinds
<1>8. CASE DeleteDefaultCRByUser
  <2>1. /\ UNCHANGED <<kcp, read, m, pc, target, labelled, skr>>
        /\ defaultCR = "live" /\ defaultCR' = "terminating"
    BY <1>8, Zenon DEF DeleteDefaultCRByUser, Change, objVars, ctrlVars
  <2>2. Carried' \subseteq Carried
    BY <2>1 DEF Carried
  <2> QED BY <1>3, <1>4, <2>1, <2>2, ClusterKinds
<1>9. CASE DefaultCRGone
  <2>1. /\ UNCHANGED <<kcp, read, m, pc, target, labelled, skr>>
        /\ defaultCR' = "absent" /\ pc \notin {"prune", "removeCR"}
    BY <1>9, Zenon DEF DefaultCRGone, SkrStep, objVars, ctrlVars, Undisturbed
  <2>2. Carried' \subseteq Carried
    BY <2>1 DEF Carried
  <2> QED BY <1>3, <1>4, <2>1, <2>2, ClusterKinds
<1>10. CASE \E r \in Resources : ResourceGone(r)
  <2>1. /\ UNCHANGED <<kcp, read, m, pc, target, defaultCR>>
        /\ \E r : labelled' = labelled \ {r}
    BY <1>10, Zenon DEF ResourceGone, SkrStep, objVars, ctrlVars
  <2>2. Carried' \subseteq Carried
    BY <2>1 DEF Carried
  <2>3. ~RemoveManagedByLabel \/ kcp.unmanaged
    <3>1. skr' # skr
      BY <1>10 DEF ResourceGone, TypeOK
    <3> QED BY <3>1, Zenon DEF RemoveManagedByLabel
  <2>4. AllCarried'
    BY <1>1, <2>1, <2>3, AllStayCarried
  <2> QED BY <1>4, <2>1, <2>2, <2>4, ClusterKinds
<1>11. CASE Upgrade \/ ChangePolicy \/ ChangeManaged
  <2>1. labelled' = labelled /\ skr' = skr
    BY <1>11, Zenon DEF Upgrade, ChangePolicy, ChangeManaged, skrVars
  <2>2. /\ Kinds' /\ Held' /\ (kcp.unmanaged => kcp'.unmanaged) /\ kcp'.present
        /\ ~AnnotationMoves
    BY <1>11, EditKeeps
  <2> QED BY <1>3, <2>1, <2>2 DEF CRGoesFirst
<1>12. CASE DeleteManifest
  <2>1. labelled' = labelled /\ skr' = skr
    BY <1>12, Zenon DEF DeleteManifest, skrVars
  <2>2. /\ Kinds' /\ Held' /\ kcp'.unmanaged = kcp.unmanaged
        /\ ~kcp'.present => kcp.policy # "create"
        /\ ~AnnotationMoves
    BY <1>12, DeleteKeeps
  <2> QED BY <1>3, <2>1, <2>2 DEF CRGoesFirst
<1> QED BY <1>2, <1>5, <1>6, <1>7, <1>8, <1>9, <1>10, <1>11, <1>12, Zenon DEF Outside, Cluster

\* Every step keeps the invariant.
LEMMA LinvKept ==
    ASSUME TypeOK, IInv, LInv, Undisturbed, [Next]_vars
    PROVE  LInv'
<1>1. CASE UNCHANGED vars
  <2>1. /\ kcp' = kcp /\ read' = read /\ m' = m /\ pc' = pc /\ target' = target /\ labelled' = labelled
        /\ skr' = skr /\ secret' = secret /\ defaultCR' = defaultCR
    BY <1>1, Zenon DEF vars
  <2>2. Carried' = Carried
    BY <2>1 DEF Carried
  <2>3. Kinds => Kinds'
    BY <2>1, <2>2, ClusterKinds
  <2>4. (LabelsLive => LabelsLive') /\ (Held => Held') /\ (AllCarried => AllCarried')
    BY <2>1 DEF LabelsLive, Held, AllCarried
  <2> QED BY <2>1, <2>3, <2>4, Zenon DEF LInv
<1>2. CASE Next /\ ~secret
  <2>1. labelled = {}
    BY <1>2, Zenon DEF LInv
  <2>2. ~secret' /\ labelled' = {}
    BY <1>2, <2>1, TornDown
  <2> QED BY <2>2, Zenon DEF LInv
<1>3. CASE TearDownSkr
  <2>1. secret' = FALSE /\ labelled' = {}
    BY <1>3, Zenon DEF TearDownSkr
  <2> QED BY <2>1, Zenon DEF LInv
<1>4. CASE Next /\ secret /\ ~TearDownSkr
  <2>1. LabelsLive /\ Held /\ AllCarried /\ Kinds
    BY <1>4, Zenon DEF LInv
  <2>2. LabelsLive'
    BY <1>4, <2>1, LabelsStayLive
  <2>3. secret'
    BY <1>4, SkrSteps, Zenon
  <2>4. Held' /\ AllCarried' /\ Kinds'
    BY <1>4, <2>1, ReconcileLinv, SurroundingsLinv, Zenon DEF Next
  <2> QED BY <2>2, <2>3, <2>4, Zenon DEF LInv
<1> QED BY <1>1, <1>2, <1>3, <1>4

\* At first there is nothing.
LEMMA LinvInit == Init => LInv
<1> SUFFICES ASSUME Init PROVE LInv
  OBVIOUS
<1>1. labelled = {} /\ secret = TRUE /\ pc = "idle" /\ skr = [r \in Resources |-> "absent"]
  BY Zenon DEF Init
<1>2. PICK ref \in Refs, policy \in InitialPolicies : kcp = NewManifest(ref, policy) /\ read = Gone(kcp)
  BY Zenon DEF Init
<1>3. /\ kcp.synced = {} /\ kcp.state # "Ready" /\ kcp.op # "syncDiff" /\ kcp.unmanaged = FALSE
      /\ kcp.deleting = FALSE
  BY <1>2, Zenon DEF NewManifest
<1>4. read.present = FALSE
  BY <1>2, GoneGives, Zenon
<1>5. Untouched(kcp)
  BY <1>3 DEF Untouched
<1>6. NothingKind
  BY <1>1, <1>4, <1>5 DEF NothingKind, NothingRead, Carried
<1>7. LabelsLive /\ Held /\ AllCarried
  BY <1>1, <1>3 DEF LabelsLive, Held, AllCarried
<1> QED BY <1>1, <1>6, <1>7, Zenon DEF LInv, Kinds

\* The invariant holds whenever nothing fails.
LEMMA Linv ==
    ASSUME Undisturbed
    PROVE  Spec => [](TypeOK /\ IInv /\ LInv)
<1>1. Init => IInv
  BY Zenon DEF Init, IInv, FreshReading, WorkingCopy, SyncedAsRead, Rendered,
         NothingDiffered, ReplacedAnnotation, Gone, NewManifest
<1>2. TypeOK /\ IInv /\ [Next]_vars => IInv'
  <2> SUFFICES ASSUME TypeOK, IInv, [Next]_vars PROVE IInv'
    OBVIOUS
  <2>1. CASE Next
    BY <2>1, ReconcileKeeps, SurroundingsKeep DEF Next
  <2>2. CASE UNCHANGED vars
    BY <2>2, NothingWritten DEF vars, objVars
  <2> QED BY <2>1, <2>2
<1>3. TypeOK /\ IInv /\ LInv /\ [Next]_vars => LInv'
  BY LinvKept
<1> QED BY <1>1, <1>2, <1>3, LinvInit, TypeCorrect, PTL DEF Spec

\* Unless the SKR fails, only PruneDiff deletes resources.
LEMMA PruneStep ==
    ASSUME TypeOK, Undisturbed, secret, Next, NEW r \in Resources, skr[r] = "live", skr'[r] = "terminating"
    PROVE  PruneDiff
<1>1. skr' # skr
  OBVIOUS
<1>2. ~PruneFails /\ ~SyncFails
  BY ZenonT(60) DEF PruneFails, SyncFails, SkrCallFails, Fault, Undisturbed
<1>3. ~SyncResources
  BY DEF SyncResources, ApplyResources
<1>4. ~TearDownSkr
  BY DEF TearDownSkr
<1>5. ~\E x \in Resources : ResourceGone(x)
  BY DEF ResourceGone, TypeOK
<1>6. ~RemoveManagedByLabel
  BY <1>1, Zenon DEF RemoveManagedByLabel
<1> QED BY <1>1, <1>2, <1>3, <1>4, <1>5, <1>6, SkrSteps

\* When a managed Manifest is gone and its SKR is not, nothing of the module is left that
\* the controller labelled, all but the kyma-system Namespace: whatever order cached reads,
\* upgrades, changes of policy, deletions and the SKR's own steps come in, for every
\* module and any number of changes (updateManifest removes the finalizers only after
\* pruneDiff).  Calls do not fail, and a Manifest is changed only once it is settled.
THEOREM CleanedUp ==
    ASSUME Undisturbed
    PROVE  Spec => []NothingLeftBehind
<1>1. LInv => NothingLeftBehind
  BY GoneMeansClean DEF LInv, NothingLeftBehind, Carried
<1> QED BY <1>1, Linv, PTL

\* When an unmanaged Manifest is gone, no resource of the module carries the managed-by
\* label, with the same exception (handleUnmanagedManifest drops the label-removal
\* finalizer only after the labels, and deletes the Manifest only after that).
THEOREM Unlabelled ==
    ASSUME Undisturbed
    PROVE  Spec => []UnmanagedLosesLabels
<1>1. LInv => UnmanagedLosesLabels
  BY GoneMeansClean DEF LInv, UnmanagedLosesLabels, Carried
<1> QED BY <1>1, Linv, PTL

\* A managed Manifest goes away only after its default CR, although the finalizer that
\* waits for it is added and removed in reconciliations of their own
\* (EnsureCRFinalizer, RemoveCRFinalizer, RemoveDefaultModuleCR).
THEOREM DefaultCRGoesFirst ==
    ASSUME Undisturbed
    PROVE  Spec => ManifestOutlivesDefaultCR
<1>1. TypeOK /\ IInv /\ LInv /\ [Next]_vars =>
        [kcp.present /\ ~kcp'.present /\ kcp.policy = "create" /\ secret /\ ~kcp.unmanaged
            => defaultCR = "absent"]_vars
  <2> SUFFICES ASSUME TypeOK, IInv, LInv, Next, secret, kcp.present, ~kcp'.present, kcp.policy = "create",
                      ~kcp.unmanaged
               PROVE  defaultCR = "absent"
    OBVIOUS
  <2>1. LabelsLive /\ Held /\ AllCarried /\ Kinds
    BY Zenon DEF LInv
  <2>2. ~TearDownSkr
    BY DEF TearDownSkr, objVars
  <2>3. CRGoesFirst
    BY <2>1, <2>2, ReconcileLinv, SurroundingsLinv, Zenon DEF Next
  <2> QED BY <2>3, Zenon DEF CRGoesFirst
<1> QED BY <1>1, Linv, PTL DEF Spec, ManifestOutlivesDefaultCR

\* When the sync-oci-ref annotation moves from one reference to another, nothing of the
\* old reference is left in the SKR that the new one lacks: an upgrade, which takes many
\* reconciliations, leaves no orphan (pruneDiff goes before SyncResources, and the
\* annotation is written after it).
THEOREM UpgradeLeavesNothing ==
    ASSUME Undisturbed
    PROVE  Spec => UpgradeComplete
<1>1. TypeOK /\ IInv /\ LInv /\ [Next]_vars =>
        [AnnotationMoves /\ secret
            => \A r \in ResOf[kcp.syncedRef] \ (ResOf[kcp'.syncedRef] \cup {KymaNamespace}) :
                  skr[r] = "absent"]_vars
  <2> SUFFICES ASSUME TypeOK, IInv, LInv, Next, AnnotationMoves, secret,
                      NEW r \in ResOf[kcp.syncedRef] \ (ResOf[kcp'.syncedRef] \cup {KymaNamespace})
               PROVE  skr[r] = "absent"
    OBVIOUS
  <2>1. LabelsLive /\ Held /\ AllCarried /\ Kinds
    BY ZenonT(60) DEF LInv
  <2>2. ~TearDownSkr
    BY DEF TearDownSkr, objVars, AnnotationMoves
  <2>3. Reconcile
    BY <2>1, <2>2, SurroundingsLinv, Zenon DEF Next
  <2>4. ~kcp.unmanaged /\ Carried \subseteq kcp.synced
    BY <2>1, <2>3, ReconcileLinv, Zenon DEF ListedWhenMoved
  <2>5. kcp.synced = ResOf[kcp'.syncedRef] \/ kcp.synced = {}
    BY <2>3, ReconcileKeeps DEF AnnotationStep
  <2>6. r \in Resources
    BY ResourcesAssumption, Zenon DEF TypeOK, Manifest, AnnotationMoves
  <2>7. r \notin labelled
    BY <2>4, <2>5 DEF Carried
  <2> QED BY <2>1, <2>4, <2>6, <2>7 DEF AllCarried
<1> QED BY <1>1, Linv, PTL DEF Spec, UpgradeComplete

\* While a Manifest is being deleted, what the module operator runs on is deleted only
\* when nothing else of the module is left, so that the operator can finalize it
\* (DeleteDiffResources): for every module all of whose versions have the operator's
\* own resources.
THEOREM OperatorGoesLast ==
    ASSUME Undisturbed, KymaNamespace \in OperatorRelated,
           \A ref \in Refs : OperatorRelated \ {KymaNamespace} \subseteq ResOf[ref]
    PROVE  Spec => OperatorDeletedLast
<1>1. TypeOK /\ IInv /\ LInv /\ [Next]_vars =>
        [kcp.deleting /\ DeletesOperatorPart => labelled \subseteq OperatorRelated]_vars
  <2> SUFFICES ASSUME TypeOK, IInv, LInv, Next, DeletesOperatorPart
               PROVE  labelled \subseteq OperatorRelated
    OBVIOUS
  <2>1. PICK r \in OperatorRelated : skr[r] = "live" /\ skr'[r] = "terminating"
    BY DEF DeletesOperatorPart
  <2>2. r \in Resources /\ pc = "prune" /\ r \in Diff
    BY <2>1, OnlyPruneDeletes, ResourcesAssumption
  <2>3. target = {} /\ ResOf[m.ref] # {}
    BY <2>2, OperatorPruned
  <2>4. CASE ~secret
    <3>1. labelled = {}
      BY <2>4, Zenon DEF LInv
    <3> QED BY <3>1
  <2>5. CASE secret
    <3>1. LabelsLive /\ Kinds
      BY <2>5, ZenonT(60) DEF LInv
    <3>2. m.deleting /\ SameButStatus(m, read) /\ m.synced = read.synced
      BY <2>2, <2>3 DEF IInv, Rendered, WorkingCopy, SyncedAsRead
    <3>3. RemoveKind
      BY <2>2, <3>1, <3>2, Zenon
      DEF Kinds, NothingKind, NewKind, InstallKind, UnmanagedKind, ToInstall, SameButStatus
    <3>4. Carried \subseteq m.synced
      BY <3>2, <3>3, Zenon DEF RemoveKind, ToRemove
    <3>5. \A e \in Diff \ OperatorRelated : skr[e] = "absent"
      <4>1. PruneDiff
        BY <2>1, <2>2, <2>5, PruneStep
      <4>2. DeleteResources(Batch)
        BY <2>1, <4>1, Zenon DEF PruneDiff
      <4>3. r \in Batch
        BY <2>1, <2>2, <4>2 DEF DeleteResources
      <4> QED BY <2>1, <4>3 DEF Batch
    <3>6. \A e \in labelled \ OperatorRelated : e \in Diff \ OperatorRelated
      BY <2>3, <3>4 DEF Carried, Diff
    <3> QED BY <3>1, <3>5, <3>6 DEF LabelsLive
  <2> QED BY <2>4, <2>5
<1> QED BY <1>1, Linv, PTL DEF Spec, OperatorDeletedLast
=============================================================================
