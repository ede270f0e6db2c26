------------------------- MODULE ControlPlane_proofs -------------------------
(***************************************************************************)
(* Proofs about three small components of the control plane: the start of  *)
(* KLM, whose module this one extends, and the Watcher controller (W) and  *)
(* the mandatory modules (M), instances with the names that the            *)
(* composition gives to their variables.                                   *)
(***************************************************************************)
EXTENDS Startup, FiniteSetTheorems, TLAPS

CONSTANTS
    Specs, GatewayLists, MaxEdits, MaxWatcherFaults,
    Modules, Kymas, MaxVersion, MaxReleases

VARIABLES
    watcher, gateways, virtualService, step, watcherRead, edits, failures,
    mrm, templates, skip, queued, pending, manifest, plan, late, releases

W == INSTANCE WatcherController WITH read <- watcherRead, MaxFaults <- MaxWatcherFaults

M == INSTANCE MandatoryModules WITH events <- releases, MaxEvents <- MaxReleases

(***************************************************************************)
(* The Watcher controller.                                                 *)
(***************************************************************************)
\* The shape of a Watcher.
IsWatcher(w) ==
    /\ w = [exists |-> w.exists, generation |-> w.generation, spec |-> w.spec, finalizer |-> w.finalizer,
            deleting |-> w.deleting, state |-> w.state, condition |-> w.condition]
    /\ w.exists \in BOOLEAN /\ w.finalizer \in BOOLEAN /\ w.deleting \in BOOLEAN

WatcherTypes == IsWatcher(watcher) /\ IsWatcher(watcherRead)

\* Only a reconciliation takes the finalizer away, and it writes a route only after
\* it has read the finalizer: a Watcher without one has no route.
RouteNeedsFinalizer ==
    /\ watcher.finalizer => watcher.exists
    /\ ~watcher.finalizer => virtualService = W!NoService

\* What a reconciliation has read still holds where it matters.
Reading ==
    /\ step # "idle" => watcherRead.exists /\ (watcherRead.finalizer => watcher.finalizer)
    /\ step = "release" => virtualService = W!NoService
    /\ step \in {"release", "ready"} => watcherRead.finalizer

WatcherInv == WatcherTypes /\ RouteNeedsFinalizer /\ Reading

\* The records that the definitions are built from.
LEMMA AbsentType == IsWatcher(W!Absent) /\ ~W!Absent.exists /\ ~W!Absent.finalizer
  BY DEF W!Absent, IsWatcher

\* Marking a Watcher for deletion changes neither existence nor finalizer.
LEMMA MarkedType ==
    ASSUME NEW w, IsWatcher(w), NEW mark \in BOOLEAN, NEW next
    PROVE  LET marked == [w EXCEPT !.deleting = mark, !.generation = next]
           IN  /\ IsWatcher(marked) /\ marked.deleting = mark
               /\ marked.exists = w.exists /\ marked.finalizer = w.finalizer
  <1>. DEFINE first == [w EXCEPT !.deleting = mark]
              marked == [first EXCEPT !.generation = next]
  <1>1. IsWatcher(first)
    BY DEF IsWatcher
  <1>2. first.deleting = mark /\ first.exists = w.exists /\ first.finalizer = w.finalizer
    BY DEF IsWatcher
  <1>. HIDE DEF first
  <1>3. IsWatcher(marked)
    BY <1>1 DEF IsWatcher
  <1>4. marked.deleting = first.deleting /\ marked.exists = first.exists
        /\ marked.finalizer = first.finalizer
    BY <1>1 DEF IsWatcher
  <1>. QED  BY <1>2, <1>3, <1>4 DEF first

\* The invariant holds for a Watcher that nobody has reconciled.
LEMMA WatcherInit == W!Init => WatcherInv
  <1>. SUFFICES ASSUME W!Init PROVE WatcherInv
    OBVIOUS
  <1>1. PICK s \in Specs : watcher = [W!Absent EXCEPT !.exists = TRUE, !.spec = s]
    BY Zenon DEF W!Init
  <1>2. IsWatcher(watcher) /\ watcher.exists /\ ~watcher.finalizer
    BY <1>1, AbsentType, Zenon DEF IsWatcher
  <1>. QED
    BY <1>2, AbsentType, Zenon DEF W!Init, WatcherInv, WatcherTypes, RouteNeedsFinalizer, Reading

\* A status patch changes neither existence nor finalizer.
LEMMA StatusKeeps ==
    ASSUME WatcherInv, NEW state, NEW condition,
           \/ watcher' = W!updateWatcherStatusUsingSSA(state, condition)
           \/ watcher' = watcher
    PROVE  /\ IsWatcher(watcher')
           /\ watcher'.exists = watcher.exists /\ watcher'.finalizer = watcher.finalizer
  <1>1. IsWatcher(watcher)
    BY DEF WatcherInv, WatcherTypes
  <1>. DEFINE value == W!UpdateWatcherConditionStatus(condition, state)
  <1>2. \/ watcher' = watcher
        \/ watcher' = [watcher EXCEPT !.state = state, !.condition = value]
    BY DEF W!updateWatcherStatusUsingSSA
  <1>. HIDE DEF value
  <1>. QED  BY <1>1, <1>2, Zenon DEF IsWatcher

\* A reconciliation that ends with a status patch, and leaves the route.
LEMMA ReturnKeeps ==
    ASSUME WatcherInv, NEW state, NEW condition,
           \/ watcher' = W!updateWatcherStatusUsingSSA(state, condition)
           \/ watcher' = watcher,
           W!Return, UNCHANGED virtualService
    PROVE  WatcherInv'
  <1>1. /\ IsWatcher(watcher')
        /\ watcher'.exists = watcher.exists /\ watcher'.finalizer = watcher.finalizer
    BY StatusKeeps
  <1>. QED
    BY <1>1, AbsentType DEF W!Return, WatcherInv, WatcherTypes, RouteNeedsFinalizer, Reading

\* The finalizer: it is not added to a Watcher that went, and it goes after the route.
LEMMA FinalizerKeeps ==
    ASSUME WatcherInv, W!AddFinalizer \/ W!RemoveFinalizer
    PROVE  WatcherInv'
  <1>0. watcherRead' = W!Absent /\ step' = "idle" /\ UNCHANGED virtualService
    BY DEF W!AddFinalizer, W!RemoveFinalizer, W!updateFinalizer, W!Return
  <1>1. CASE UNCHANGED watcher
    BY <1>0, <1>1, AbsentType DEF WatcherInv, WatcherTypes, RouteNeedsFinalizer, Reading
  <1>2. CASE W!AddFinalizer /\ ~UNCHANGED watcher
    <2>1. watcher = watcherRead /\ watcher.exists
      BY <1>2 DEF W!AddFinalizer, W!Handled, W!updateFinalizer, W!Conflict, WatcherInv, Reading
    <2>2. watcher' = [watcher EXCEPT !.finalizer = TRUE]
      BY <1>2 DEF W!AddFinalizer, W!updateFinalizer, W!Stored, WatcherInv, WatcherTypes, IsWatcher
    <2>. QED
      BY <1>0, <2>1, <2>2, AbsentType, Zenon DEF WatcherInv, WatcherTypes, IsWatcher,
             RouteNeedsFinalizer, Reading
  <1>3. CASE W!RemoveFinalizer /\ ~UNCHANGED watcher
    <2>1. virtualService = W!NoService
      BY <1>3 DEF W!RemoveFinalizer, WatcherInv, Reading
    <2>2. watcher' \in {W!Absent, [watcher EXCEPT !.finalizer = FALSE]}
      BY <1>3 DEF W!RemoveFinalizer, W!updateFinalizer, W!Stored
    <2>3. IsWatcher(watcher') /\ ~watcher'.finalizer
      BY <2>2, AbsentType, Zenon DEF WatcherInv, WatcherTypes, IsWatcher
    <2>. QED
      BY <1>0, <2>1, <2>3, AbsentType DEF WatcherInv, WatcherTypes, RouteNeedsFinalizer, Reading
  <1>. QED  BY <1>1, <1>2, <1>3

\* The route: it is written under the finalizer and deleted before it.
LEMMA RouteKeeps ==
    ASSUME WatcherInv, W!Read \/ W!handleDeletingState \/ W!handleProcessingState
    PROVE  WatcherInv'
  <1>1. CASE W!Read
    BY <1>1 DEF W!Read, WatcherInv, WatcherTypes, RouteNeedsFinalizer, Reading
  <1>2. CASE W!handleDeletingState
    <2>1. CASE W!DeleteVirtualService /\ step' = "release" /\ UNCHANGED <<watcher, watcherRead, failures>>
      BY <1>2, <2>1 DEF W!handleDeletingState, W!DeleteVirtualService, W!Handled, WatcherInv,
             WatcherTypes,
                        RouteNeedsFinalizer, Reading
    <2>2. CASE /\ W!Return /\ watcher' = W!updateWatcherStatusUsingSSA("Error", W!InitializeConditions)
               /\ UNCHANGED virtualService
      BY <2>2, ReturnKeeps DEF W!InitializeConditions
    <2>. QED  BY <1>2, <2>1, <2>2 DEF W!handleDeletingState
  <1>3. CASE W!handleProcessingState
    BY <1>3 DEF W!handleProcessingState, W!Processing, W!Handled, WatcherInv, WatcherTypes,
           RouteNeedsFinalizer, Reading
  <1>. QED  BY <1>1, <1>2, <1>3

\* The reconciliations that only set the status.
LEMMA StatusOnlyKeeps ==
    ASSUME WatcherInv, W!MarkDeleting \/ W!StartProcessing \/ W!ProcessingFails \/ W!MarkReady
    PROVE  WatcherInv'
  <1>2. CASE W!MarkDeleting
    BY <1>2, ReturnKeeps DEF W!MarkDeleting, W!updateWatcherState
  <1>3. CASE W!StartProcessing
    BY <1>3, ReturnKeeps, Zenon DEF W!StartProcessing, W!updateWatcherState, W!InitializeConditions
  <1>4. CASE W!ProcessingFails
    BY <1>4, ReturnKeeps DEF W!ProcessingFails, W!updateWatcherState, W!InitializeConditions
  <1>5. CASE W!MarkReady
    BY <1>5, ReturnKeeps DEF W!MarkReady, W!updateWatcherState, W!InitializeConditions
  <1>. QED  BY <1>2, <1>3, <1>4, <1>5

\* The operator: a Watcher that is deleted without a finalizer goes at once, and has
\* no route.
LEMMA EditKeeps ==
    ASSUME WatcherInv, W!Edit
    PROVE  WatcherInv'
  <1>0. UNCHANGED <<virtualService, step, watcherRead>>
    BY Zenon DEF W!Edit
  <1>1. CASE UNCHANGED watcher
    BY <1>0, <1>1 DEF WatcherInv, WatcherTypes, RouteNeedsFinalizer, Reading
  <1>2. CASE \E s \in Specs \ {watcher.spec} : watcher' = [watcher EXCEPT !.spec = s, !.generation = @ + 1]
    BY <1>0, <1>2, Zenon DEF WatcherInv, WatcherTypes, IsWatcher, RouteNeedsFinalizer, Reading
  <1>3. CASE watcher' = W!Stored([watcher EXCEPT !.deleting = TRUE, !.generation = @ + 1])
    <2>. DEFINE next == watcher.generation + 1
                marked == [watcher EXCEPT !.deleting = TRUE, !.generation = next]
    <2>. HIDE DEF next
    <2>1. /\ IsWatcher(marked)
          /\ marked.exists = watcher.exists /\ marked.finalizer = watcher.finalizer /\ marked.deleting
      BY MarkedType, Zenon DEF WatcherInv, WatcherTypes
    <2>2. watcher' = IF watcher.finalizer THEN marked ELSE W!Absent
      BY <1>3, <2>1 DEF W!Stored, next
    <2>. HIDE DEF marked
    <2>. QED
      BY <1>0, <2>1, <2>2, AbsentType DEF WatcherInv, WatcherTypes, RouteNeedsFinalizer, Reading
  <1>. QED  BY <1>1, <1>2, <1>3, Zenon DEF W!Edit

\* A Watcher that is gone has no VirtualService (handleDeletingState, updateFinalizer):
\* neither an edit or a deletion in the middle of a reconciliation nor a failure lets
\* the finalizer go before the route, or a route come after it.
THEOREM RouteGoes == W!Spec => []W!NoRouteLeft
  <1>1. WatcherInv /\ [W!Next]_(W!vars) => WatcherInv'
    <2>1. ASSUME WatcherInv, UNCHANGED W!vars
          PROVE  WatcherInv'
      BY <2>1 DEF W!vars, WatcherInv, WatcherTypes, RouteNeedsFinalizer, Reading
    <2>. QED
      BY <2>1, FinalizerKeeps, RouteKeeps, StatusOnlyKeeps, EditKeeps DEF W!Next, W!Reconcile
  <1>2. WatcherInv => W!NoRouteLeft
    BY DEF WatcherInv, RouteNeedsFinalizer, W!NoRouteLeft
  <1>. QED  BY <1>1, <1>2, WatcherInit, PTL DEF W!Spec

(***************************************************************************)
(* The mandatory modules.                                                  *)
(***************************************************************************)
\* The versions an installation still has to write.
Planned ==
    /\ plan = [k \in Kymas |-> plan[k]]
    /\ \A k \in Kymas : DOMAIN plan[k] \subseteq Modules /\ \A m \in DOMAIN plan[k] : plan[k][m] \in M!Versions

MandatoryTypes == M!TypeOK /\ Planned

\* The types of the two maps of objects alone.
Meta == [version : M!Versions, mandatory : BOOLEAN, finalizer : BOOLEAN, deleting : BOOLEAN]
Manifest == [version : M!Versions, deleting : BOOLEAN]

MandatoryInv == MandatoryTypes /\ M!OnlyLateOnesStay

\* The invariant holds before the first release.
LEMMA MandatoryInit ==
    ASSUME MaxVersion \in Nat, M!Init
    PROVE  MandatoryInv
  <1>1. 0 \in M!Versions
    BY DEF M!Versions
  <1>2. M!TypeOK
    BY <1>1 DEF M!Init, M!TypeOK, M!NoMeta, M!NoManifest
  <1>3. Planned
    BY DEF M!Init, Planned
  <1>4. M!OnlyLateOnesStay
    BY DEF M!Init, M!OnlyLateOnesStay, M!NoMeta, M!NoManifest
  <1>. QED  BY <1>2, <1>3, <1>4 DEF MandatoryInv, MandatoryTypes

\* A step that changes no ModuleReleaseMeta, no Manifest and no note of a late one.
LEMMA Untouched ==
    ASSUME MandatoryInv, UNCHANGED <<mrm, manifest, late>>, MandatoryTypes'
    PROVE  MandatoryInv'
  BY DEF MandatoryInv, M!OnlyLateOnesStay

\* The installation: it plans, and it writes what it planned.  A write for a
\* ModuleReleaseMeta that is gone meanwhile is late.
LEMMA InstallationKeeps ==
    ASSUME MaxVersion \in Nat, MandatoryInv, NEW k \in Kymas, M!HandleInstallation(k) \/ M!ReconcileManifests(k)
    PROVE  MandatoryInv'
  <1>1. CASE M!HandleInstallation(k)
    <2>1. UNCHANGED <<mrm, manifest, late>> /\ M!TypeOK'
      BY <1>1 DEF M!HandleInstallation, MandatoryInv, MandatoryTypes, M!TypeOK
    <2>2. CASE UNCHANGED plan
      BY <1>1, <2>1, <2>2, Untouched DEF M!HandleInstallation, MandatoryInv, MandatoryTypes, Planned
    <2>3. CASE plan' = [plan EXCEPT ![k] = M!GenerateMandatoryModulesFromTemplates]
      <3>1. DOMAIN M!GenerateMandatoryModulesFromTemplates \subseteq Modules
        BY DEF M!GenerateMandatoryModulesFromTemplates, M!Installable, M!ListMandatory
      <3>2. \A m \in DOMAIN M!GenerateMandatoryModulesFromTemplates :
                M!GenerateMandatoryModulesFromTemplates[m] \in M!Versions
        BY DEF M!GenerateMandatoryModulesFromTemplates, M!Installable, M!ListMandatory,
               MandatoryInv, MandatoryTypes, M!TypeOK
      <3>3. Planned'
        BY <1>1, <2>3, <3>1, <3>2 DEF M!HandleInstallation, MandatoryInv, MandatoryTypes, Planned
      <3>. QED  BY <2>1, <3>3, Untouched DEF MandatoryTypes
    <2>. QED  BY <1>1, <2>2, <2>3 DEF M!HandleInstallation
  <1>2. CASE M!ReconcileManifests(k)
    <2>1. PICK m \in DOMAIN plan[k] :
              /\ manifest' = [manifest EXCEPT ![k][m] = M!updateManifest(@, plan[k][m])]
              /\ plan' = [plan EXCEPT ![k] = [n \in DOMAIN plan[k] \ {m} |-> plan[k][n]]]
              /\ late' = IF mrm[m].version = 0 \/ mrm[m].deleting THEN late \cup {<<k, m>>} ELSE late
      BY <1>2, Zenon DEF M!ReconcileManifests
    <2>2. m \in Modules /\ plan[k][m] \in M!Versions
      BY <2>1 DEF MandatoryInv, MandatoryTypes, Planned
    <2>3. manifest' \in [Kymas -> [Modules -> Manifest]]
      <3>1. manifest[k] \in [Modules -> Manifest] /\ manifest[k][m] \in Manifest
        BY <2>2 DEF MandatoryInv, MandatoryTypes, M!TypeOK, Manifest
      <3>2. M!updateManifest(manifest[k][m], plan[k][m]) \in Manifest
        BY <2>2, <3>1 DEF M!updateManifest, Manifest
      <3>. DEFINE row == [manifest[k] EXCEPT ![m] = M!updateManifest(manifest[k][m], plan[k][m])]
      <3>3. row \in [Modules -> Manifest]
        BY <3>1, <3>2, Zenon
      <3>4. manifest' = [manifest EXCEPT ![k] = row]
        BY <2>1
      <3>5. manifest \in [Kymas -> [Modules -> Manifest]]
        BY DEF MandatoryInv, MandatoryTypes, M!TypeOK, Manifest
      <3>. HIDE DEF row
      <3>. QED  BY <3>3, <3>4, <3>5
    <2>4. M!TypeOK'
      BY <1>2, <2>1, <2>2, <2>3 DEF M!ReconcileManifests, MandatoryInv, MandatoryTypes, M!TypeOK,
             Manifest
    <2>5. Planned'
      BY <1>2, <2>1, <2>2 DEF M!ReconcileManifests, MandatoryInv, MandatoryTypes, Planned
    <2>6. M!OnlyLateOnesStay'
      BY <1>2, <2>1, <2>2, <2>3 DEF M!ReconcileManifests, MandatoryInv, MandatoryTypes, M!TypeOK,
             M!OnlyLateOnesStay, Manifest
    <2>. QED  BY <2>4, <2>5, <2>6 DEF MandatoryInv, MandatoryTypes
  <1>. QED  BY <1>1, <1>2

\* The deletion: the ModuleReleaseMeta goes when no Manifest of it is left.
LEMMA DeletionKeeps ==
    ASSUME MaxVersion \in Nat, MandatoryInv, NEW m \in Modules, M!HandleDeletion(m)
    PROVE  MandatoryInv'
  <1>0. 0 \in M!Versions
    BY DEF M!Versions
  <1>1. CASE M!EnsureFinalizer(m)
    <2>1. mrm' \in [Modules -> Meta] /\ \A n \in Modules : mrm'[n].version = mrm[n].version
      BY <1>1, Zenon DEF M!EnsureFinalizer, M!WithFinalizer, MandatoryInv, MandatoryTypes,
             M!TypeOK, Meta
    <2>. QED
      BY <1>1, <2>1 DEF M!EnsureFinalizer, MandatoryInv, MandatoryTypes, M!TypeOK, Planned,
             M!OnlyLateOnesStay, Meta
  <1>2. CASE M!SkipNonDeleting(m)
    <2>1. MandatoryTypes'
      BY <1>2 DEF M!SkipNonDeleting, M!NotRequeued, MandatoryInv, MandatoryTypes, M!TypeOK, Planned
    <2>. QED  BY <1>2, <2>1, Untouched DEF M!SkipNonDeleting
  <1>3. CASE M!DeleteManifests(m)
    <2>1. /\ manifest' \in [Kymas -> [Modules -> Manifest]]
          /\ \A k \in Kymas, n \in Modules : manifest'[k][n].version = manifest[k][n].version
      <3>. SUFFICES ASSUME NEW k \in Kymas
                    PROVE  /\ manifest'[k] \in [Modules -> Manifest]
                           /\ \A n \in Modules : manifest'[k][n].version = manifest[k][n].version
        BY <1>3 DEF M!DeleteManifests, M!DeleteAllForModule
      <3>1. manifest[k] \in [Modules -> Manifest] /\ manifest[k][m] \in Manifest
        BY DEF MandatoryInv, MandatoryTypes, M!TypeOK, Manifest
      <3>2. /\ [manifest[k][m] EXCEPT !.deleting = TRUE] \in Manifest
            /\ [manifest[k][m] EXCEPT !.deleting = TRUE].version = manifest[k][m].version
        BY <3>1, Zenon DEF Manifest
      <3>3. \/ manifest'[k] = manifest[k]
            \/ manifest'[k] = [manifest[k] EXCEPT ![m] = [manifest[k][m] EXCEPT !.deleting = TRUE]]
        BY <1>3, <3>1 DEF M!DeleteManifests, M!DeleteAllForModule
      <3>. QED  BY <3>1, <3>2, <3>3, Zenon
    <2>. QED
      BY <1>3, <2>1 DEF M!DeleteManifests, MandatoryInv, MandatoryTypes, M!TypeOK, Planned,
             M!OnlyLateOnesStay, Manifest
  <1>4. CASE M!RemoveFinalizer(m)
    <2>1. mrm' \in [Modules -> Meta]
      BY <1>0, <1>4 DEF M!RemoveFinalizer, M!DropFinalizer, M!NoMeta, MandatoryInv, MandatoryTypes,
             M!TypeOK, Meta
    <2>2. M!TypeOK' /\ Planned'
      BY <1>4, <2>1 DEF M!RemoveFinalizer, M!DropFinalizer, M!EnqueueKymas,
             M!mandatoryAffectedKymas, MandatoryInv, MandatoryTypes,
                        M!TypeOK, Planned, Meta
    <2>3. \A k \in Kymas : manifest[k][m].version = 0
      BY <1>4 DEF M!RemoveFinalizer, M!ListAllForModule
    <2>4. M!OnlyLateOnesStay'
      BY <1>4, <2>3 DEF M!RemoveFinalizer, M!DropFinalizer, MandatoryInv, MandatoryTypes, M!TypeOK,
             M!OnlyLateOnesStay
    <2>. QED  BY <2>2, <2>4 DEF MandatoryInv, MandatoryTypes
  <1>. QED  BY <1>1, <1>2, <1>3, <1>4 DEF M!HandleDeletion

\* What the operators change of a ModuleReleaseMeta: it may appear and change, and it
\* does not go without its finalizer.
LEMMA MetaEventsKeep ==
    ASSUME MaxVersion \in Nat, MandatoryInv, NEW m \in Modules, M!Release(m) \/ M!DeleteMeta(m) \/ M!Demote(m)
    PROVE  MandatoryInv'
  <1>1. PICK meta \in Meta :
            /\ M!Update(m, meta)
            /\ mrm[m].version # 0 => meta.version # 0
    <2>1. mrm[m] \in Meta
      BY DEF MandatoryInv, MandatoryTypes, M!TypeOK, Meta
    <2>2. CASE M!Release(m)
      <3>1. mrm[m].version + 1 \in M!Versions /\ mrm[m].version + 1 # 0
        BY <2>1, <2>2 DEF M!Release, Meta, M!Versions
      <3>2. [mrm[m] EXCEPT !.version = @ + 1, !.mandatory = TRUE] \in Meta
        BY <2>1, <3>1, Zenon DEF Meta
      <3>3. [mrm[m] EXCEPT !.version = @ + 1, !.mandatory = TRUE].version # 0
        BY <2>1, <3>1 DEF Meta
      <3>. QED  BY <2>2, <3>2, <3>3, Zenon DEF M!Release
    <2>3. CASE M!DeleteMeta(m)
      <3>1. /\ [mrm[m] EXCEPT !.deleting = TRUE] \in Meta
            /\ [mrm[m] EXCEPT !.deleting = TRUE].version = mrm[m].version
        BY <2>1, Zenon DEF Meta
      <3>. QED  BY <2>3, <3>1, Zenon DEF M!DeleteMeta
    <2>4. CASE M!Demote(m)
      <3>1. /\ [mrm[m] EXCEPT !.mandatory = FALSE] \in Meta
            /\ [mrm[m] EXCEPT !.mandatory = FALSE].version = mrm[m].version
        BY <2>1, Zenon DEF Meta
      <3>. QED  BY <2>4, <3>1, Zenon DEF M!Demote
    <2>. QED  BY <2>2, <2>3, <2>4
  <1>2. mrm' \in [Modules -> Meta] /\ \A n \in Modules : mrm[n].version # 0 => mrm'[n].version # 0
    BY <1>1 DEF M!Update, MandatoryInv, MandatoryTypes, M!TypeOK, Meta
  <1>3. UNCHANGED <<skip, manifest, plan, late>>
    BY DEF M!Release, M!DeleteMeta, M!Demote
  <1>4. queued' \subseteq Kymas /\ pending' \subseteq Modules
    BY <1>1 DEF M!Update, M!EnqueueMeta, M!EnqueueKymas, M!mandatoryAffectedKymas, MandatoryInv,
           MandatoryTypes, M!TypeOK
  <1>5. MandatoryTypes'
    BY <1>2, <1>3, <1>4 DEF MandatoryInv, MandatoryTypes, M!TypeOK, Planned, Meta
  <1>6. M!OnlyLateOnesStay'
    BY <1>2, <1>3 DEF MandatoryInv, M!OnlyLateOnesStay
  <1>. QED  BY <1>5, <1>6 DEF MandatoryInv

\* A Manifest that goes is no longer a late one.
LEMMA ManifestGoesKeeps ==
    ASSUME MaxVersion \in Nat, MandatoryInv, NEW k \in Kymas, NEW m \in Modules, M!ManifestGoes(k, m)
    PROVE  MandatoryInv'
  <1>0. M!NoManifest \in Manifest
    BY DEF M!NoManifest, Manifest, M!Versions
  <1>1. manifest' \in [Kymas -> [Modules -> Manifest]]
    BY <1>0 DEF M!ManifestGoes, MandatoryInv, MandatoryTypes, M!TypeOK, Manifest
  <1>2. MandatoryTypes'
    BY <1>1 DEF M!ManifestGoes, MandatoryInv, MandatoryTypes, M!TypeOK, Planned, Manifest
  <1>3. M!OnlyLateOnesStay'
    BY DEF M!ManifestGoes, M!NoManifest, MandatoryInv, MandatoryTypes, M!TypeOK, M!OnlyLateOnesStay
  <1>. QED  BY <1>2, <1>3 DEF MandatoryInv

\* A ModuleReleaseMeta that is gone leaves no Manifest behind except the late ones
\* (RemoveFinalizer after DeleteManifests), and every object has its type, for any
\* number of modules, Kymas, releases and installations.
THEOREM FinalizerHolds ==
    ASSUME MaxVersion \in Nat
    PROVE  M!Spec => [](M!TypeOK /\ M!OnlyLateOnesStay)
  <1>1. M!Init => MandatoryInv
    BY MandatoryInit
  <1>2. MandatoryInv /\ [M!Next]_(M!vars) => MandatoryInv'
    <2>. SUFFICES ASSUME MandatoryInv, [M!Next]_(M!vars) PROVE MandatoryInv'
      OBVIOUS
    <2>1. CASE UNCHANGED M!vars
      BY <2>1, Untouched DEF M!vars, MandatoryInv, MandatoryTypes, M!TypeOK, Planned
    <2>2. ASSUME NEW k \in Kymas, M!HandleInstallation(k) \/ M!ReconcileManifests(k)
          PROVE  MandatoryInv'
      BY <2>2, InstallationKeeps
    <2>3. ASSUME NEW k \in Kymas, M!Skip(k) \/ M!Requeue(k)
          PROVE  MandatoryInv'
      <3>1. MandatoryTypes' /\ UNCHANGED <<mrm, manifest, late>>
        BY <2>3 DEF M!Skip, M!Requeue, MandatoryInv, MandatoryTypes, M!TypeOK, Planned
      <3>. QED  BY <3>1, Untouched
    <2>4. ASSUME NEW m \in Modules, M!PublishTemplate(m)
          PROVE  MandatoryInv'
      <3>1. MandatoryTypes' /\ UNCHANGED <<mrm, manifest, late>>
        BY <2>4 DEF M!PublishTemplate, MandatoryInv, MandatoryTypes, M!TypeOK, Planned
      <3>. QED  BY <3>1, Untouched
    <2>. QED
      BY <2>1, <2>2, <2>3, <2>4, DeletionKeeps, MetaEventsKeep, ManifestGoesKeeps DEF M!Next
  <1>3. MandatoryInv => M!TypeOK /\ M!OnlyLateOnesStay
    BY DEF MandatoryInv, MandatoryTypes
  <1>. QED  BY <1>1, <1>2, <1>3, PTL DEF M!Spec

(***************************************************************************)
(* The start of KLM and the election of its leader.                        *)
(***************************************************************************)
Leading == {r \in Replicas : process[r] = "leading"}

\* The durations: a leader that cannot renew gives up before its lease can be taken.
GivesUpInTime(f) ==
    /\ f.leaseDuration \in Nat /\ f.renewDeadline \in Nat /\ f.retryPeriod \in Nat
    /\ f.retryPeriod + f.renewDeadline < f.leaseDuration

Election ==
    /\ flags \in Flags
    /\ DOMAIN process = Replicas
    /\ lease = [holder |-> lease.holder, age |-> lease.age]
    /\ lease.age \in Nat

\* Who leads holds the lease, and it is not older than the deadline to give up.
LeaderHolds ==
    flags.leaderElect =>
        \A r \in Leading : lease.holder = r /\ lease.age <= Deadline(configManager(flags))

StartupInv == Election /\ LeaderHolds

\* The invariant holds when all replicas are down.
LEMMA StartupInit == Init => StartupInv
  BY DEF Init, StartupInv, Election, LeaderHolds, Leading

\* The lease ages to a duration that matters, and not past the deadline.
LEMMA AgesInSteps ==
    ASSUME StartupInv, \A f \in Flags : GivesUpInTime(f), Ages
    PROVE  /\ lease' = [holder |-> lease.holder, age |-> lease'.age]
           /\ lease'.age \in Nat
           /\ lease.age < Deadline(configManager(flags)) => lease'.age <= Deadline(configManager(flags))
  <1>. DEFINE e == configManager(flags)
              later == {a \in {Deadline(e), e.leaseDuration} : a > lease.age}
              next == CHOOSE a \in later : \A b \in later : a <= b
  <1>1. Deadline(e) \in Nat /\ e.leaseDuration \in Nat /\ Deadline(e) < e.leaseDuration
    BY DEF StartupInv, Election, GivesUpInTime, configManager, Deadline
  <1>2. later # {} /\ lease' = [lease EXCEPT !.age = next]
    BY DEF Ages
  <1>3. lease.age \in Nat
    BY DEF StartupInv, Election
  <1>4. \E a \in later : \A b \in later : a <= b
    <2>1. CASE Deadline(e) > lease.age
      BY <1>1, <2>1
    <2>2. CASE ~(Deadline(e) > lease.age)
      BY <1>1, <1>2, <1>3, <2>2
    <2>. QED  BY <2>1, <2>2
  <1>5. next \in later /\ \A b \in later : next <= b
    BY <1>4
  <1>. HIDE DEF e, next
  <1>6. next \in Nat /\ (lease.age < Deadline(e) => next <= Deadline(e))
    BY <1>1, <1>3, <1>5
  <1>7. lease' = [holder |-> lease.holder, age |-> next]
    BY <1>2 DEF StartupInv, Election
  <1>. QED  BY <1>6, <1>7 DEF e

\* A replica on its way up or down does not lead.
LEMMA ReplicaKeeps ==
    ASSUME StartupInv, NEW r \in Replicas,
           \/ main(r) \/ ComposeSkrWebhookManager(r) \/ ComposeRegistry(r) \/ initMaintenanceWindow(r)
           \/ LosesLease(r) \/ Stops(r) \/ cleanupStoredVersions(r)
    PROVE  StartupInv'
  <1>1. UNCHANGED <<flags, lease>>
    BY Zenon DEF main, ComposeSkrWebhookManager, ComposeRegistry, initMaintenanceWindow, LosesLease,
           Stops,
           cleanupStoredVersions
  <1>2. \/ process' = process
        \/ \E at \in {"webhook", "registry", "window", "candidate", "down"} :
              process' = [process EXCEPT ![r] = at]
    BY Zenon DEF main, ComposeSkrWebhookManager, ComposeRegistry, initMaintenanceWindow, LosesLease,
           Stops,
           cleanupStoredVersions, Exit, Goto
  <1>3. DOMAIN process' = Replicas /\ Leading' \subseteq Leading
    BY <1>2 DEF StartupInv, Election, Leading
  <1>. QED
    BY <1>1, <1>3 DEF StartupInv, Election, LeaderHolds

\* A candidate takes a lease that nobody holds, or one that is too old to have a leader.
LEMMA AcquireKeeps ==
    ASSUME StartupInv, \A f \in Flags : GivesUpInTime(f), Nobody \notin Replicas,
           NEW r \in Replicas, Acquire(r)
    PROVE  StartupInv'
  <1>1. flags' = flags /\ process' = [process EXCEPT ![r] = "leading"]
    BY DEF Acquire, Goto
  <1>2. DOMAIN process' = Replicas /\ Leading' \subseteq Leading \cup {r}
    BY <1>1 DEF StartupInv, Election, Leading
  <1>3. Deadline(configManager(flags)) \in Nat /\ Deadline(configManager(flags)) < flags.leaseDuration
    BY DEF StartupInv, Election, GivesUpInTime, configManager, Deadline
  <1>4. CASE flags.leaderElect
    <2>1. lease.holder = Nobody \/ lease.age >= flags.leaseDuration
      BY <1>4 DEF Acquire, configManager
    <2>2. Leading = {}
      <3>. SUFFICES ASSUME NEW leader \in Leading PROVE FALSE
        OBVIOUS
      <3>1. lease.holder = leader /\ lease.age <= Deadline(configManager(flags))
        BY <1>4 DEF StartupInv, LeaderHolds
      <3>2. lease.holder # Nobody
        BY <3>1 DEF Leading
      <3>3. lease.age \in Nat /\ flags.leaseDuration \in Nat
        BY DEF StartupInv, Election, GivesUpInTime
      <3>. QED  BY <1>3, <2>1, <3>1, <3>2, <3>3
    <2>3. lease' = [holder |-> r, age |-> 0]
      BY <1>4 DEF Acquire, configManager
    <2>. QED
      BY <1>1, <1>2, <1>3, <2>2, <2>3 DEF StartupInv, Election, LeaderHolds
  <1>5. CASE ~flags.leaderElect
    <2>1. lease' = lease
      BY <1>5 DEF Acquire, configManager
    <2>. QED
      BY <1>1, <1>2, <1>5, <2>1 DEF StartupInv, Election, LeaderHolds
  <1>. QED  BY <1>4, <1>5

\* Time passes without a leader, or until the leader must give up.
LEMMA TimeKeeps ==
    ASSUME StartupInv, \A f \in Flags : GivesUpInTime(f), Nobody \notin Replicas, Tick \/ RenewalsFail
    PROVE  StartupInv'
  <1>1. UNCHANGED <<flags, process>> /\ Ages
    BY DEF Tick, RenewalsFail
  <1>2. Leading' = Leading
    BY <1>1 DEF Leading
  <1>3. /\ lease' = [holder |-> lease.holder, age |-> lease'.age]
        /\ lease'.age \in Nat
        /\ lease.age < Deadline(configManager(flags)) => lease'.age <= Deadline(configManager(flags))
    BY <1>1, AgesInSteps
  <1>4. lease'.holder = lease.holder
    BY <1>3
  <1>5. Election'
    BY <1>1, <1>3, <1>4 DEF StartupInv, Election
  <1>6. LeaderHolds'
    <2>1. CASE Tick
      BY <1>1, <1>2, <2>1 DEF Tick, StartupInv, LeaderHolds, Leading
    <2>2. CASE RenewalsFail
      <3>1. Deadline(configManager(flags)) \in Nat
        BY DEF StartupInv, Election, GivesUpInTime, configManager, Deadline
      <3>2. flags.leaderElect => lease.age < Deadline(configManager(flags))
        BY <2>2, <3>1 DEF RenewalsFail, GivesUp, configManager, StartupInv, Election
      <3>. QED
        BY <1>1, <1>2, <1>3, <1>4, <3>2 DEF StartupInv, LeaderHolds
    <2>. QED  BY <2>1, <2>2
  <1>. QED  BY <1>5, <1>6 DEF StartupInv

\* The invariant is inductive.
LEMMA StartupKeeps ==
    ASSUME StartupInv, \A f \in Flags : GivesUpInTime(f), Nobody \notin Replicas, [Next]_vars
    PROVE  StartupInv'
  <1>1. CASE UNCHANGED vars
    BY <1>1 DEF vars, StartupInv, Election, LeaderHolds, Leading
  <1>2. CASE ClusterChanges
    BY <1>2 DEF ClusterChanges, StartupInv, Election, LeaderHolds, Leading
  <1>3. CASE Tick \/ RenewalsFail
    BY <1>3, TimeKeeps
  <1>4. ASSUME NEW r \in Replicas, Runs(r) \/ Stops(r)
        PROVE  StartupInv'
    BY <1>4, ReplicaKeeps, AcquireKeeps DEF Runs, setupManager
  <1>. QED  BY <1>1, <1>2, <1>3, <1>4 DEF Next

\* At most one leader.
LEMMA AtMostOne == StartupInv => OneLeader
  <1>. SUFFICES ASSUME StartupInv, flags.leaderElect
                PROVE  Cardinality(Leading) <= 1
    BY DEF OneLeader, Leading
  <1>1. CASE Leading = {}
    BY <1>1, FS_EmptySet
  <1>2. CASE Leading # {}
    <2>1. Leading = {lease.holder}
      BY <1>2 DEF StartupInv, LeaderHolds
    <2>2. Cardinality({lease.holder}) = 1
      BY FS_Singleton, Zenon
    <2>. QED  BY <2>1, <2>2
  <1>. QED  BY <1>1, <1>2

\* Two replicas never run their controllers at the same time (configManager), however
\* many there are and whatever is stopped, started or out of reach, provided that the
\* deadline to renew and the period between renewals are together shorter than the
\* lease.  Validate asks for the deadline alone.
THEOREM OneLeads ==
    ASSUME \A f \in Flags : GivesUpInTime(f), Nobody \notin Replicas
    PROVE  Spec => []OneLeader
  <1>1. StartupInv /\ [Next]_vars => StartupInv'
    BY StartupKeeps
  <1>. QED  BY <1>1, StartupInit, AtMostOne, PTL DEF Spec
=============================================================================
