---------------------------- MODULE KymaModules ----------------------------
(***************************************************************************)
(* The Kyma controller keeping one Kyma's modules in line with the spec    *)
(* the user edits in the SKR and with the module catalog in the control    *)
(* plane (internal/controller/kyma, pkg/module/sync, internal/event).      *)
(*                                                                         *)
(* A reconciliation is cut where it reads or writes what somebody else can *)
(* change: Start reads the Kyma, replaceSpecFromRemote the SKR,            *)
(* LookupTemplates the catalog, SyncModule is one goroutine and            *)
(* DeleteNoLongerExistingModules one round of the loop,                    *)
(* handleProcessingState patches the status and syncStatusToRemote copies  *)
(* it to the SKR.  Between these steps the user, the catalog and the       *)
(* Manifest controller move.                                               *)
(***************************************************************************)
EXTENDS ModuleLookup

CONSTANTS
    InitialModules,  \* sets of modules that the control-plane Kyma may list
    Changes,     \* kinds of change the users and the catalog make
    MaxChanges,  \* bound on their number
    Faults,      \* kinds of failure that occur
    MaxFaults,   \* bound on their number
    NewTemplate  \* [Modules \X Versions -> ModuleTemplate], the template first published

ASSUME KymaModulesAssumption ==
    /\ InitialModules \subseteq SUBSET Modules
    /\ MaxChanges \in Nat /\ MaxFaults \in Nat
    /\ \E v \in Versions : \A w \in Versions : v <= w   \* there is a first version
    /\ NewTemplate \in [Modules \X Versions -> ModuleTemplate]

VARIABLES
    labels,       \* labels of the Kyma: [beta, internal, skip]
    kcp,          \* spec of the control-plane Kyma: [channel, skipWindows, modules]
    remote,       \* the SKR Kyma: [exists, channel, modules, state]
    prepared,     \* the Kyma has its labels and finalizer
    catalog,      \* [metas, templates]: the ModuleReleaseMetas and ModuleTemplates
    window,       \* is a maintenance window active: "active", "inactive", "unknown"
    manifests,    \* the Manifests of this Kyma, a partial function of the modules
    status,       \* status of the Kyma: [state, modules]
    lastStatus,   \* the status before the last patch; what a stale cache returns
    descriptors,  \* component descriptors in the in-memory cache
    due,          \* the Kyma is in the workqueue
    pc,           \* step of the reconciliation
    work,         \* its local variables
    changes, faults

clusterVars == <<labels, kcp, prepared, catalog, window, descriptors>>
vars == <<labels, kcp, remote, prepared, catalog, window, manifests, status,
          lastStatus, descriptors, due, pc, work, changes, faults>>

Idle == [spec |-> [channel |-> DefaultChannel, skipWindows |-> FALSE, modules |-> <<>>],
         status |-> <<>>, state |-> "unset", modules |-> <<>>, todo |-> {}, states |-> <<>>,
         failed |-> FALSE, window |-> "inactive", stale |-> FALSE]

Manifest == [version : Versions, channel : Channels, unmanaged : BOOLEAN,
             deleting : BOOLEAN, state : States, seen : Versions \cup {0}]

TypeOK ==
    /\ labels \in [beta : BOOLEAN, internal : BOOLEAN, skip : BOOLEAN]
    /\ kcp \in [channel : Channels, skipWindows : BOOLEAN, modules : SUBSET Modules]
    /\ remote.modules \in Partial(Modules, Module)
    /\ \A m \in DOMAIN manifests : manifests[m] \in Manifest
    /\ status.state \in States
    /\ \A m \in DOMAIN status.modules : status.modules[m] \in ModuleStatus
    /\ descriptors \subseteq Modules \X Versions
    /\ pc \in {"idle", "prepare", "lookup", "sync", "status", "delete", "finish", "remote"}
    /\ work.todo \subseteq Modules
    /\ changes \in 0..MaxChanges /\ faults \in 0..MaxFaults

NewSelector(m) == IF m \in RestrictedModules THEN "match" ELSE "none"

NewMeta(m) == [channels |-> [c \in Channels |-> CHOOSE v \in Versions : \A w \in Versions : v <= w],
               mandatory |-> 0, selector |-> NewSelector(m)]

Init ==
    /\ labels = [beta |-> TRUE, internal |-> FALSE, skip |-> FALSE]
    /\ kcp \in [channel : {DefaultChannel}, skipWindows : {FALSE}, modules : InitialModules]
    /\ remote = [exists |-> FALSE, channel |-> DefaultChannel, modules |-> <<>>, state |-> "unset"]
    /\ prepared = FALSE
    /\ catalog = [metas |-> [m \in Modules |-> NewMeta(m)], templates |-> NewTemplate]
    /\ window = "inactive"
    /\ manifests = <<>>
    /\ status = [state |-> "unset", modules |-> <<>>]
    /\ lastStatus = status
    /\ descriptors = {}
    /\ due = TRUE
    /\ pc = "idle"
    /\ work = Idle
    /\ changes = 0 /\ faults = 0

Fail(kind) == kind \in Faults /\ faults < MaxFaults /\ faults' = faults + 1
Change(kind) == kind \in Changes /\ changes < MaxChanges /\ changes' = changes + 1

Without(f, m) == [x \in DOMAIN f \ {m} |-> f[x]]
With(f, m, v) == [x \in DOMAIN f \cup {m} |-> IF x = m THEN v ELSE f[x]]

(***************************************************************************)
(* The end of a reconciliation: UpdateStatusForExistingModules applies the *)
(* in-memory status with force, with the resourceVersion of the read: a    *)
(* Kyma that was changed since is a conflict.  The result is requeued at   *)
(* once when it is an error, else after an interval.                       *)
(***************************************************************************)
UpdateStatusForExistingModules(state, modules) ==
    IF work.stale THEN UNCHANGED <<status, lastStatus>>
    ELSE /\ lastStatus' = status
         /\ status' = [state |-> state, modules |-> modules]

\* The reconciliation ends; another one follows after an interval in any case.
Return == pc' = "idle" /\ work' = Idle

updateStatusWithError(modules) ==
    /\ Return
    /\ due' = TRUE
    /\ \/ UpdateStatusForExistingModules("Error", modules) /\ UNCHANGED faults
       \/ Fail("patch") /\ UNCHANGED <<status, lastStatus>>

\* The same within an action that has already counted a failure.
failWithError(kind, modules) ==
    /\ Fail(kind)
    /\ Return
    /\ due' = TRUE
    /\ UpdateStatusForExistingModules("Error", modules)

setModuleStatusesToError(modules) ==
    [m \in DOMAIN modules |-> [modules[m] EXCEPT !.state = "Error"]]

(***************************************************************************)
(* SetupWithManager: the Kyma controller watches the Manifests it owns,    *)
(* but its event filter lets only new generations, new labels, creations   *)
(* and removals through.                                                   *)
(***************************************************************************)
PassesEventFilter(before, after) ==
    \/ DOMAIN before # DOMAIN after
    \/ \E m \in DOMAIN before \cap DOMAIN after :
          <<before[m].version, before[m].deleting, before[m].channel>>
          # <<after[m].version, after[m].deleting, after[m].channel>>

Wakened == due' = (due \/ PassesEventFilter(manifests, manifests'))

(***************************************************************************)
(* Reconcile.  The work queue hands out the Kyma when it is due, or when   *)
(* its requeue interval is over; the read comes from the cache.            *)
(***************************************************************************)
Begin(read) ==
    /\ pc = "idle"
    /\ due' = FALSE
    /\ IF labels.skip
       THEN UNCHANGED <<pc, work>>
       ELSE /\ pc' = "prepare"
            /\ work' = [Idle EXCEPT !.status = read.modules, !.state = read.state,
                                   !.stale = read # status]
    /\ UNCHANGED <<clusterVars, remote, manifests, status, lastStatus, changes>>

Start == Begin(status) /\ UNCHANGED faults

StartStale == lastStatus # status /\ Fail("stale") /\ Begin(lastStatus)

\* No client for the SKR, or its API server does not answer.
ConnectFails ==
    /\ pc = "prepare"
    /\ \E modules \in {setModuleStatusesToError(work.status), work.status} :
          failWithError("connect", modules)
    /\ UNCHANGED <<clusterVars, remote, manifests, changes>>

EnsureLabelsAndFinalizers ==
    /\ pc = "prepare" /\ ~prepared
    /\ prepared' = ~work.stale
    /\ Return
    /\ due' = TRUE
    /\ UNCHANGED <<labels, kcp, catalog, window, descriptors, remote, manifests,
                   status, lastStatus, changes, faults>>

\* The update of the Kyma, SyncCRDs, SyncImagePullSecret or the read of the
\* remote Kyma fails.
SyncFails ==
    /\ pc = "prepare"
    /\ failWithError("skr", work.status)
    /\ UNCHANGED <<clusterVars, remote, manifests, changes>>

CreateOrFetchKyma(r) ==
    IF r.exists THEN r
    ELSE [r EXCEPT !.exists = TRUE, !.channel = kcp.channel,
                   !.modules = [m \in kcp.modules |-> [channel |-> "unset", managed |-> TRUE]]]

\* ReplaceSpec takes over the channel and the modules, nothing else.
ReplaceSpec(r) == [channel |-> r.channel, skipWindows |-> kcp.skipWindows, modules |-> r.modules]

ValidateDefaultChannel(spec) == spec.channel # "none"

replaceSpecFromRemote ==
    /\ pc = "prepare" /\ prepared
    /\ remote' = CreateOrFetchKyma(remote)
    /\ IF ValidateDefaultChannel(ReplaceSpec(remote'))
       THEN /\ pc' = IF work.state = "unset" THEN "finish" ELSE "lookup"
            /\ work' = [work EXCEPT !.spec = ReplaceSpec(remote')]
            /\ UNCHANGED <<due, status, lastStatus, faults>>
       ELSE updateStatusWithError(work.status)
    /\ UNCHANGED <<clusterVars, manifests, changes>>

handleInitialState ==
    /\ pc = "finish" /\ work.state = "unset"
    /\ due' = TRUE
    /\ \/ /\ UpdateStatusForExistingModules("Processing", work.status)
          /\ IF work.stale THEN Return
             ELSE work' = [work EXCEPT !.state = "Processing"] /\ pc' = "remote"
          /\ UNCHANGED faults
       \/ Fail("patch") /\ Return /\ UNCHANGED <<status, lastStatus>>
    /\ UNCHANGED <<clusterVars, remote, manifests, changes>>

(***************************************************************************)
(* reconcileManifests: look up the templates, bring every Manifest in line *)
(* with its template, then write the status entries, then delete what is   *)
(* no longer in the spec.                                                  *)
(***************************************************************************)

\* The descriptors that were looked up are cached.
Add(modules) ==
    descriptors \cup {<<m, modules[m].version>> : m \in {n \in DOMAIN modules :
                                                          modules[n].err \in {"nil", "updateNotAllowed"}}}

LookupWith(unread, missing) ==
    /\ pc = "lookup"
    /\ \E modules \in {GenerateModulesFromTemplates(
                           [spec |-> work.spec, status |-> work.status, labels |-> labels],
                           catalog, window, unread, (Modules \X Versions) \ (missing \ descriptors))} :
          /\ work' = [work EXCEPT !.modules = modules, !.todo = DOMAIN modules,
                                  !.states = [m \in DOMAIN modules |-> "unset"],
                                  !.window = window]
          /\ descriptors' = Add(modules)
    /\ pc' = "sync"
    /\ UNCHANGED <<labels, kcp, remote, prepared, catalog, window, manifests,
                   status, lastStatus, due, changes>>

LookupTemplates == LookupWith({}, {}) /\ UNCHANGED faults

LookupFails ==
    \E m \in Modules :
        \/ Fail("unread") /\ LookupWith({m}, {})
        \/ Fail("descriptor") /\ LookupWith({}, {m} \X Versions)

\* Mutant: only a new generation of the template counts.
NeedToUpdateTemplate(m, module) ==
    \/ m \notin DOMAIN manifests
    \/ m \in DOMAIN work.status /\ work.status[m].template \notin {0, module.generation}

IsSameChannel(manifest, other) == manifest.channel = other.channel

NeedToUpdate(m, module) ==
    IF m \notin DOMAIN manifests \/ manifests[m].unmanaged
    THEN ~module.unmanaged
    ELSE \/ module.unmanaged
         \/ manifests[m].version # module.version
         \/ ~IsSameChannel(module, manifests[m])
         \/ /\ m \in DOMAIN work.status
            /\ work.status[m].template \notin {0, module.generation}

\* The label of the channel and the annotation of an unmanaged module.
ApplyDefaultMetaToManifest(manifest, module) ==
    [manifest EXCEPT !.channel = module.channel, !.unmanaged = module.unmanaged]

\* The Manifest as the control plane has it after the force apply.
patchManifest(m, module) ==
    LET manifest == IF m \in DOMAIN manifests THEN [manifests[m] EXCEPT !.version = module.version]
                    ELSE [version |-> module.version, channel |-> "unset", unmanaged |-> FALSE,
                          deleting |-> FALSE, state |-> "unset", seen |-> 0]
    IN  ApplyDefaultMetaToManifest(manifest, module)

\* A disabled module: only the spec, and only of a Manifest that is there.
updateAvailableManifestSpec(m, module) == [manifests[m] EXCEPT !.version = module.version]

updateManifest(m, module) ==
    CASE ~NeedToUpdate(m, module) -> manifests
      [] NeedToUpdate(m, module) /\ module.enabled -> With(manifests, m, patchManifest(m, module))
      [] NeedToUpdate(m, module) /\ ~module.enabled ->
            IF m \in DOMAIN manifests
            THEN With(manifests, m, updateAvailableManifestSpec(m, module))
            ELSE manifests

MarkDeleted(m) ==
    IF m \in DOMAIN manifests THEN With(manifests, m, [manifests[m] EXCEPT !.deleting = TRUE])
    ELSE manifests

\* The goroutine of one module.  A delete that works still counts as an
\* error: deleteManifest wraps the nil error.
SyncModule(m) ==
    LET module == work.modules[m]
    IN  /\ pc = "sync" /\ m \in work.todo
        /\ CASE module.err = "notAllowed" ->
                  /\ manifests' = MarkDeleted(m)
                  /\ work' = [work EXCEPT !.todo = @ \ {m}, !.failed = @ \/ m \in DOMAIN manifests]
             [] module.err = "nil" ->
                  /\ manifests' = updateManifest(m, module)
                  /\ work' = [work EXCEPT !.todo = @ \ {m},
                                 !.states[m] = IF m \in DOMAIN manifests THEN manifests[m].state ELSE "unset"]
             [] OTHER ->
                  /\ work' = [work EXCEPT !.todo = @ \ {m}]
                  /\ UNCHANGED manifests
        /\ Wakened
        /\ UNCHANGED <<clusterVars, remote, status, lastStatus, pc, changes, faults>>

SyncModuleFails(m) ==
    /\ pc = "sync" /\ m \in work.todo /\ work.modules[m].err \in {"nil", "notAllowed"}
    /\ Fail("apply")
    /\ work' = [work EXCEPT !.todo = @ \ {m}, !.failed = TRUE]
    /\ UNCHANGED <<clusterVars, remote, manifests, status, lastStatus, due, pc, changes>>

\* An error of the runner keeps the statuses as they were read.
SyncEnds ==
    /\ pc = "sync" /\ work.todo = {}
    /\ pc' = IF work.failed THEN "finish" ELSE "status"
    /\ UNCHANGED <<clusterVars, remote, manifests, status, lastStatus, due, work, changes, faults>>

\* Mutant: the entry does not go with the Manifest.
DeleteUnreferencedModuleStatus(entries, spec, unread) ==
    LET gone == {m \in GetNoLongerExistingModuleStatus(spec, entries) : ~entries[m].manifest}
    IN  [m \in DOMAIN entries \ gone |-> entries[m]]

\* The entry of a module that is no longer in the spec goes with its Manifest,
\* or when it refers to none; its state is the one of the Manifest as read.
DeleteNoLongerExistingModuleStatus(entries, spec, unread) ==
    LET gone == {m \in GetNoLongerExistingModuleStatus(spec, entries) :
                    ~entries[m].manifest \/ (m \notin DOMAIN manifests /\ m \notin unread)}
    IN  [m \in DOMAIN entries \ gone |->
            IF m \in DOMAIN spec.modules THEN entries[m]
            ELSE [entries[m] EXCEPT !.state = IF m \in unread THEN "unset" ELSE manifests[m].state]]

UpdateModuleStatuses(unread) ==
    /\ pc = "status"
    /\ \E generated \in {[m \in DOMAIN work.modules |->
              GenerateModuleStatus(m, work.modules[m], work.states[m], work.status)]} :
          \E kept \in {DeleteNoLongerExistingModuleStatus(generated, work.spec, unread)} :
              work' = [work EXCEPT !.status = kept,
                         !.todo = {m \in GetNoLongerExistingModuleStatus(work.spec, kept) :
                                      kept[m].manifest}]
    /\ pc' = "delete"
    /\ UNCHANGED <<clusterVars, remote, manifests, status, lastStatus, due, changes>>

UpdateStatuses == UpdateModuleStatuses({}) /\ UNCHANGED faults

UpdateStatusesUnread ==
    /\ Fail("get")
    /\ \E m \in DOMAIN work.status : UpdateModuleStatuses({m})

\* err is assigned in every round: only the last round's error counts.
DeleteNoLongerExistingModules(m) ==
    /\ pc = "delete" /\ m \in work.todo
    /\ \/ /\ manifests' = MarkDeleted(m)
          /\ work' = [work EXCEPT !.todo = @ \ {m}, !.failed = FALSE]
          /\ UNCHANGED faults
       \/ /\ Fail("delete")
          /\ work' = [work EXCEPT !.todo = @ \ {m}, !.failed = TRUE]
          /\ UNCHANGED manifests
    /\ Wakened
    /\ UNCHANGED <<clusterVars, remote, status, lastStatus, pc, changes>>

DeleteEnds ==
    /\ pc = "delete" /\ work.todo = {}
    /\ pc' = "finish"
    /\ UNCHANGED <<clusterVars, remote, manifests, status, lastStatus, due, work, changes, faults>>

(***************************************************************************)
(* The errgroup is over.  The catalog sync and the webhook run beside the  *)
(* modules and touch only their own conditions: each may fail, the webhook *)
(* may also be not ready yet.                                              *)
(***************************************************************************)
handleProcessingState ==
    /\ pc = "finish" /\ work.state # "unset"
    /\ IF work.failed \/ work.stale THEN updateStatusWithError(work.status)
       ELSE \/ /\ \E others \in {TRUE} \cup (IF "notReady" \in Faults THEN {FALSE} ELSE {}) :
                  LET state == DetermineState(work.status, others /\ AllModulesReady(work.status))
                  IN  /\ UpdateStatusForExistingModules(state, work.status)
                      /\ work' = [work EXCEPT !.state = state]
               /\ pc' = "remote"
               /\ UNCHANGED <<due, faults>>
            \/ failWithError("catalog", work.status)
            \/ Fail("patch") /\ Return /\ due' = TRUE /\ UNCHANGED <<status, lastStatus>>
    /\ UNCHANGED <<clusterVars, remote, manifests, changes>>

\* An Error state is returned as an error, which puts the Kyma back at once.
syncStatusToRemote ==
    /\ pc = "remote"
    /\ remote' = [CreateOrFetchKyma(remote) EXCEPT !.state = work.state]
    /\ due' = (due \/ work.state = "Error")
    /\ Return
    /\ UNCHANGED <<clusterVars, manifests, status, lastStatus, changes, faults>>

syncStatusFails ==
    /\ pc = "remote"
    /\ failWithError("skr", work.status)
    /\ UNCHANGED <<clusterVars, remote, manifests, changes>>

\* The manager process dies; the in-memory descriptor cache with it.
Restart ==
    /\ Fail("restart")
    /\ pc' = "idle" /\ work' = Idle /\ descriptors' = {} /\ due' = TRUE
    /\ UNCHANGED <<labels, kcp, remote, prepared, catalog, window, manifests, status,
                   lastStatus, changes>>

(***************************************************************************)
(* The Manifest controller, from outside: a managed Manifest becomes Ready *)
(* in its version, a deleted or an unmanaged one goes.  The event filter   *)
(* of the Kyma controller drops the new state of a Manifest, which is      *)
(* found at the next requeue.                                              *)
(***************************************************************************)
ManifestSettles(m) ==
    /\ m \in DOMAIN manifests
    /\ IF manifests[m].deleting \/ manifests[m].unmanaged
       THEN manifests' = Without(manifests, m)
       ELSE /\ manifests[m].seen # manifests[m].version \/ manifests[m].state # "Ready"
            /\ manifests' = [manifests EXCEPT ![m].state = "Ready", ![m].seen = manifests[m].version]
    /\ Wakened
    /\ UNCHANGED <<clusterVars, remote, status, lastStatus, pc, work, changes, faults>>

(***************************************************************************)
(* The user.  The watcher in the SKR reports a changed Kyma.               *)
(***************************************************************************)
ByRuntimeIDFails == due' = due /\ Fail("event")

SKREvent ==
    \/ due' = TRUE /\ UNCHANGED faults
    \/ ByRuntimeIDFails

EditsKyma(modules, channel) ==
    /\ remote.exists
    /\ remote' = [remote EXCEPT !.modules = modules, !.channel = channel]
    /\ SKREvent
    /\ UNCHANGED <<clusterVars, manifests, status, lastStatus, pc, work>>

UserChanges ==
    \E m \in Modules :
        \/ /\ Change("enable") /\ m \notin DOMAIN remote.modules
           /\ EditsKyma(With(remote.modules, m, [channel |-> "unset", managed |-> TRUE]), remote.channel)
        \/ /\ Change("disable") /\ m \in DOMAIN remote.modules
           /\ EditsKyma(Without(remote.modules, m), remote.channel)
        \/ /\ Change("unmanage") /\ m \in DOMAIN remote.modules
           /\ EditsKyma([remote.modules EXCEPT ![m].managed = ~@], remote.channel)
        \/ /\ Change("channel") /\ m \in DOMAIN remote.modules
           /\ \E c \in Channels : EditsKyma([remote.modules EXCEPT ![m].channel = c], remote.channel)
        \/ /\ Change("none") /\ m \in DOMAIN remote.modules
           /\ EditsKyma([remote.modules EXCEPT ![m].channel = "none"], remote.channel)
        \/ Change("globalNone") /\ EditsKyma(remote.modules, "none")

\* Labels and spec of the control-plane Kyma; its own watch sees them.
OperatorChanges ==
    /\ \/ Change("beta") /\ labels' = [labels EXCEPT !.beta = ~@] /\ UNCHANGED kcp
       \/ Change("skip") /\ labels' = [labels EXCEPT !.skip = ~@] /\ UNCHANGED kcp
       \/ Change("skipWindows") /\ kcp' = [kcp EXCEPT !.skipWindows = ~@] /\ UNCHANGED labels
    /\ due' = TRUE
    /\ work' = IF pc = "idle" THEN work ELSE [work EXCEPT !.stale = TRUE]
    /\ UNCHANGED <<remote, prepared, catalog, window, manifests, status, lastStatus,
                   descriptors, pc, faults>>

\* Nobody is told when a window opens or closes.
WindowChanges ==
    /\ window' \in {"active", "inactive"} \cup (IF "noPolicy" \in Faults THEN {"unknown"} ELSE {})
    /\ window' # window
    /\ Change("window")
    /\ UNCHANGED <<labels, kcp, remote, prepared, catalog, manifests, status, lastStatus,
                   descriptors, due, pc, work, faults>>

(***************************************************************************)
(* The catalog.  The event handlers wake up the Kymas a change affects; a  *)
(* handler whose lookup of the Kymas fails drops the event.                *)
(***************************************************************************)
Wakes(affected) ==
    \/ due' = (due \/ affected) /\ UNCHANGED faults
    \/ due' = due /\ affected /\ Fail("event")

\* The handlers of the watch of ModuleReleaseMetas.  OnCreate: "not referenced by any
\* Kyma yet".
Create(m) == Wakes(FALSE)
Update(m, meta) ==
    Wakes(AffectedKymasOnUpdate(m, catalog.metas[m], meta, status.modules, kcp.channel))
Delete(m) == Wakes(AffectedKymasOnDelete(m, catalog.metas[m], status.modules, kcp.channel))

\* That of ModuleTemplates.
Watch(m, version) == Wakes(filterKymasWithTemplate(m, version, status.modules))

ReleasesModule(m, meta) ==
    /\ catalog' = [catalog EXCEPT !.metas = With(@, m, meta)]
    /\ Update(m, meta)

CatalogChanges ==
    /\ \E m \in Modules :
          \/ /\ m \in DOMAIN catalog.metas
             /\ \/ /\ Change("release")
                   /\ \E c \in Channels, v \in Versions :
                         ReleasesModule(m, [catalog.metas[m] EXCEPT !.channels = With(@, c, v)])
                \/ /\ Change("withdraw")
                   /\ \E c \in DOMAIN catalog.metas[m].channels :
                         ReleasesModule(m, [catalog.metas[m] EXCEPT !.channels = Without(@, c)])
                \/ /\ Change("mandatory")
                   /\ \E v \in Versions :
                         ReleasesModule(m, [catalog.metas[m] EXCEPT !.mandatory = v, !.channels = <<>>])
                \/ /\ Change("selector")
                   /\ ReleasesModule(m, [catalog.metas[m] EXCEPT !.selector = "mismatch"])
                \/ /\ Change("deleteMeta")
                   /\ catalog' = [catalog EXCEPT !.metas = Without(@, m)]
                   /\ Delete(m)
          \/ /\ m \notin DOMAIN catalog.metas
             /\ Change("release")
             /\ catalog' = [catalog EXCEPT !.metas = With(@, m, NewMeta(m))]
             /\ Create(m)
          \/ \E v \in Versions :
             /\ <<m, v>> \in DOMAIN catalog.templates
             /\ \/ /\ Change("template")
                   /\ catalog' = [catalog EXCEPT !.templates[<<m, v>>].generation = @ + 1]
                \/ /\ Change("deleteTemplate")
                   /\ catalog' = [catalog EXCEPT !.templates = Without(@, <<m, v>>)]
             /\ Watch(m, v)
    /\ UNCHANGED <<labels, kcp, remote, prepared, window, manifests, status, lastStatus,
                   descriptors, pc, work>>

Controller ==
    \/ Start \/ EnsureLabelsAndFinalizers \/ replaceSpecFromRemote \/ handleInitialState
    \/ LookupTemplates \/ SyncEnds \/ UpdateStatuses \/ DeleteEnds
    \/ handleProcessingState \/ syncStatusToRemote
    \/ \E m \in Modules : SyncModule(m) \/ DeleteNoLongerExistingModules(m)

Next ==
    \/ Controller
    \/ StartStale \/ ConnectFails \/ SyncFails \/ LookupFails \/ UpdateStatusesUnread
    \/ syncStatusFails \/ Restart
    \/ \E m \in Modules : SyncModuleFails(m) \/ ManifestSettles(m)
    \/ UserChanges \/ OperatorChanges \/ WindowChanges \/ CatalogChanges

Spec == Init /\ [][Next]_vars

(***************************************************************************)
(* Every reconciliation is requeued, after an interval at the latest, and  *)
(* a step of it ends by itself; the Manifest controller works on every     *)
(* Manifest.  Users and catalog need not do anything.                      *)
(***************************************************************************)
Fairness == WF_vars(Controller) /\ \A m \in Modules : WF_vars(ManifestSettles(m))

FairSpec == Spec /\ Fairness

(***************************************************************************)
(* Properties.                                                             *)
(***************************************************************************)

\* What the lookup would give for this module now.
Resolved(m) ==
    GenerateModulesFromTemplates(
        [spec |-> ReplaceSpec(remote), status |-> status.modules, labels |-> labels],
        catalog, window, {}, Modules \X Versions)[m]

\* A managed Manifest never goes back to a lower version: the status entry
\* markInvalidSkewUpdate compares with is as new as the Manifest.
NoDowngrade ==
    [][\A m \in DOMAIN manifests \cap DOMAIN manifests' :
          manifests[m].unmanaged \/ Core[manifests'[m].version] >= Core[manifests[m].version]]_vars

\* A Manifest stays until somebody deletes it, and the controller finds the
\* ones to delete through the status alone: a managed Manifest of a module
\* that is not in the spec has its reference in the status entry.
Tracked ==
    \A m \in DOMAIN manifests \ DOMAIN remote.modules :
        \/ manifests[m].deleting \/ manifests[m].unmanaged
        \/ pc # "idle"
        \/ due
        \/ m \in DOMAIN status.modules /\ status.modules[m].manifest

\* An installed module gets a version that needs downtime only when a
\* maintenance window was active at the lookup, or the Kyma skips them.
WindowRespected ==
    [][\A m \in DOMAIN manifests \cap DOMAIN manifests' :
          manifests'[m].version # manifests[m].version =>
              \/ ~NewTemplate[<<m, manifests'[m].version>>].requiresDowntime
              \/ manifests[m].unmanaged
              \/ work.window = "active"
              \/ work.spec.skipWindows]_vars

\* The events reach the Kymas they concern: between reconciliations a Kyma
\* whose installed module resolves to another version or template is in the
\* work queue, not waiting for its requeue interval.  There are two exceptions.  A
\* switch of the channel that is refused leaves the old channel in the entry, and the
\* events of the new one do not reach the Kyma.  And the status patch that first has the
\* module installed may come late when it takes back an unmanaged Manifest: the entry
\* before it names no template, or another channel, or is not there at all, and what
\* is released in the meantime is missed.
NoticedAtOnce ==
    pc = "idle" /\ ~due /\ ~labels.skip =>
        \A m \in DOMAIN status.modules \cap DOMAIN remote.modules :
            \/ status.modules[m].template = 0
            \/ Resolved(m).err # "nil"
            \/ status.modules[m].maintenance
            \/ status.modules[m].channel # getDesiredChannel(remote.modules[m].channel, remote.channel)
            \/ m \notin DOMAIN lastStatus.modules \/ lastStatus.modules[m].template = 0
            \/ /\ status.modules[m].version = Resolved(m).version
               /\ status.modules[m].template = Resolved(m).generation

\* The modules of the spec that the catalog resolves end up with a Manifest in
\* that version, and the status says so; a module the Kyma may not have ends
\* up without one.
Converges ==
    <>[](\/ labels.skip
         \/ remote.channel = "none"
         \/ \A m \in DOMAIN remote.modules :
               /\ Resolved(m).err = "nil" /\ ~Resolved(m).unmanaged =>
                     /\ m \in DOMAIN manifests /\ m \in DOMAIN status.modules
                     /\ manifests[m].version = Resolved(m).version
                     /\ manifests[m].seen = Resolved(m).version
                     /\ status.modules[m].version = Resolved(m).version
                     /\ status.modules[m].state = "Ready"
               /\ Resolved(m).err = "notAllowed" => m \notin DOMAIN manifests)

\* The removal of a module that left the spec comes to an end, even when
\* deleting its Manifest fails on the way: its status entry goes.
Removed ==
    <>[](\/ labels.skip
         \/ remote.channel = "none"
         \/ DOMAIN status.modules \subseteq DOMAIN remote.modules)
=============================================================================
