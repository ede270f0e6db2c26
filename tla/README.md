# Lifecycle Manager: TLA+ verification project

Kyma Lifecycle Manager (KLM) is a Kubernetes operator. It runs in a control plane cluster
(KCP) and installs, upgrades and removes modules in many remote runtime clusters (SKR). This
directory holds TLA+ models of its controllers, TLC configurations that check them on small
instances, and TLAPS proofs of theorems about them.

1. [The system](#the-system)
2. [The modules](#the-modules): how state and actions correspond to the code
3. [The runs](#the-runs): what TLC checks, with which bounds and fairness
4. [The proofs](#the-proofs)
5. [Findings](#findings) and [known counterexamples](#known-counterexamples)
6. [What is not modelled](#what-is-not-modelled)

To check everything: `tlc -config <cfg> <module>` for each run of `PROJECT.json`, and
`tlapm <module>` for the eight `_proofs` modules. Paths below are relative to `src/`.

## The system

KLM has no storage of its own. All its state is in Kubernetes objects, read through caches that
lag behind, written either with optimistic locking (`Update`) or without (server-side apply and
most status patches). Every reconciliation may fail or be interrupted at any remote call and is
then retried from its beginning. Several controllers and a person may write the same object. That
is what is hard about it: **which of the writes of an interrupted, retried or outdated
reconciliation take effect, whether finalizers keep an object until its traces are gone, and
whether what is forgotten in one reconciliation is found again in a later one.**

| Component | State it keeps | Operations | Module |
|---|---|---|---|
| Manifest controller (`internal/controller/manifest`, `internal/manifest`) | the Manifest: spec, finalizers, `sync-oci-ref` annotation, status | install, upgrade, unmanage, delete one module | `ManifestReconciler` |
| Manager state check (`internal/manifest/statecheck`) | none | conditions and pods to a state | `ManagerState` |
| Component descriptors, OCI access, rendering (`internal/descriptor`, `internal/manifest/img`, `internal/service/manifest`, `internal/imagerewrite`) | files, parse cache, descriptor cache | fetch, extract, parse, transform | `Rendering` |
| Kyma deletion service (`internal/service/kyma/deletion`) | none; reads everything anew | twelve use cases, the first applicable one per reconciliation | `KymaDeletion`, `Teardown` |
| Kyma controller, module synchronisation and status (`internal/controller/kyma`, `pkg/module/sync`, `internal/service/kyma/status`) | the Kyma, `Status.Modules` | create, update, delete Manifests; aggregate their states | `KymaModules` |
| Module template lookup, ModuleReleaseMeta events (`pkg/templatelookup`, `internal/watch`) | none | channel to template, refuse downgrades, defer to a window; whom an event wakes | `ModuleLookup` |
| SKR synchronisation (`internal/remote`, `internal/service/skrsync`) | the catalog, the CRDs and the Kyma in the SKR | apply, prune | `CatalogSync` |
| Mandatory modules (`internal/controller/mandatorymodule`) | finalizer of the ModuleReleaseMeta | install for every Kyma, delete everywhere | `MandatoryModules` |
| Gateway secret (`internal/gatewaysecret`) | bundle, server certificate, times | bundle a new CA, switch after a grace period | `GatewaySecret` |
| SKR certificates and webhook (`pkg/watcher`, `internal/service/watcher`) | a Certificate and Secret per Kyma, resources in the SKR | renew, build, apply | `SkrWebhook` |
| Watcher controller (`internal/controller/watcher`, `internal/istio`) | finalizer and status of the Watcher, a VirtualService | add, change, remove the route | `WatcherController` |
| Maintenance windows (`maintenancewindows/resolver`) | a policy file | the next or current window | `MaintenanceWindows` |
| Start and composition (`cmd`, `internal/pkg/flags`, `internal/setup`, `internal/crd`) | lease, caches, stored versions | validate, set up, lead | `Startup` |
| Metrics (`internal/pkg/metrics`) | gauges in memory | set, clean up | `Metrics` |
| SKR client caches (`internal/service/skrclient`, `internal/remote/client_cache.go`) | clients with a time to live | look up, create, evict | in `ManifestReconciler`, `KymaDeletion` |

What makes each correct, and what is hard about it:

* **Manifest controller.** What it applied is pruned before the Manifest goes. An upgrade leaves
  no orphans and its annotation moves only at its end. The operator of a module stays until the
  default CR and everything it has to finalize are gone. It converges when disturbances end.
  Hard: an old read, a status patch without resource version, a re-creating server-side apply,
  two looks at one CR in one reconciliation, partial failures of concurrent applies and deletes.
* **Rendering.** What is applied is what was released, although workers share files and caches.
* **Kyma deletion.** The finalizer is dropped only when both clusters are clean; the user sees
  the deletion first; the order is kept whatever fails; it ends. Hard: a look and the write it
  justifies are separate calls with other controllers in between; a missing client means either
  a missing SKR or a cache miss.
* **Modules of a Kyma.** The Manifests are those the spec asks for; a module removed from the spec
  is not forgotten before its Manifest is gone; a version never goes back; an update with downtime
  waits for its window; a release reaches the Kymas it concerns. Hard: the status is both the
  memory of the controller and what an error overwrites.
* **Catalog.** An SKR is offered what the lookup would accept, and keeps what its users made. Hard:
  the two filters are written twice, and two synchronisations fail on their own.
* **Mandatory modules.** The ModuleReleaseMeta outlives its Manifests. Hard: installation of the
  same module runs concurrently and the list comes from a cache.
* **Certificates.** At every moment each SKR trusts the gateway and the gateway trusts each SKR.
  Hard: three independent clocks (CA rotation, grace period, SKR renewal) and times in seconds.
* **Watcher.** The route follows the last spec and does not outlive the Watcher.
* **Maintenance windows.** Hard: windows across midnight, in other zones, and rules that fall back.
* **Start.** One replica works at a time, with everything it reads in its caches. Hard: the
  durations of the election come from flags that are validated one by one.

## The modules

| Module | Models |
|---|---|
| `ManifestReconciler` | the Manifest controller with one Manifest, its SKR and the actors around |
| `MCManifestReconciler` | a module with two versions for it |
| `Teardown` | abstract: what deleting a Kyma promises |
| `KymaDeletion` | the deletion branch of the Kyma controller and the deletion service; implements `Teardown` |
| `ModuleLookup` | operators: template lookup, status entries, events |
| `KymaModules` | a live Kyma, its modules and their Manifests |
| `MCKymaModules` | modules with three versions for it |
| `Rendering` | from a component descriptor to the resources that are applied |
| `MCModules` | `KymaModules` and `Rendering` side by side |
| `GatewaySecret`, `SkrWebhook` | rotation of the root certificate and the watcher in an SKR; the second extends the first |
| `MaintenanceWindows` | the resolver as operators, and an update that waits |
| `WatcherController` | one Watcher and its VirtualService |
| `MandatoryModules` | installation and deletion of mandatory modules |
| `CatalogSync` | what is copied to one SKR; extends `ModuleLookup` |
| `Startup` | replicas from their flags to the leader that works |
| `Metrics` | the gauges of Kymas, modules and certificates |
| `ManagerState` | the state of the manager of a module |
| `MCControlPlane` | instances of the last seven; a behaviour is one of one of them |
| `*_proofs` | theorems about the module they are named after; `ControlPlane_proofs` about `Startup`, which it extends, and about instances of `WatcherController` (`W`) and `MandatoryModules` (`M`) |

`PROJECT.json` maps every definition to the lines it models. Names are those of the code where TLA+
allows it.

### ManifestReconciler

The Manifest in the KCP is `kcp`; `read` is the version the controller read last and `fresh` says
whether that is still the latest one, which is all optimistic locking looks at. A reconciliation
works on its copy `m` and moves `pc` through the steps of `Reconcile`: `prepare` (status, client,
finalizers, spec), `resolve` (render), `prune`, `removeCR`, `sync`, `defaultCR`, `settle`,
`finish`. A step is a group of remote calls whose intermediate states no other actor tells apart;
other actors move between any two steps. `StartFresh` reads the latest version and `StartStale`
keeps the one read last.

* *Writes.* `UpdateManifest` is `Update`: it takes effect when `fresh`, and conflicts otherwise.
  `SsaSpec` and the status patch in `FinishReconcile` carry no resource version and take effect
  whatever was written meanwhile, as in the code. `Stored` is what the API server does with
  finalizers: an object under deletion without any is gone.
* *Ends.* `Finish`, `FinishSkrError` (evicts the client) and `Requeue` are the three ways a
  reconciliation ends; each error path of the code is an action (`RenderFails`, `PruneFails`,
  `SyncFails`, `CreateDefaultCRFails`, `CheckManagerFails`, `SpecFails`, `ListModuleCRsFails`, ...).
  `Abort` is a restart or a lost KCP connection between any two steps.
* *Concurrency inside a step.* Applies and deletes of a sync run concurrently, so the failing
  actions leave any subset of them done.
* *Data.* A resource is an identity; `ResOf` says what a reference renders to. The operation text
  is one of the places that write it, because `HasStatusDiff` compares it.

### KymaDeletion and Teardown

Each reconciliation of a Kyma under deletion runs through `UseCases` (`pc` is the position). `Look`
is `IsApplicable` of one use case: it moves on or sets `doing`. The action named after the use case
is its `Execute`, which ends the reconciliation. `read` and `listed` are the Kyma and the Manifests
as read; `kyma` and `manifests` are the truth. `client` is the cached SKR client: `ClientAfterInit`
creates one as long as there is an access Secret, and without it the SKR use cases are skipped.

The actors around are the watch (`CacheCatchesUp`, `ListCatchesUp`), the installation of mandatory
modules, which reads the Kyma and applies later (`StartInstallation`, `ApplyMandatory`), the
Manifest controller (`ManifestGone`), garbage collection, cert-manager, the runtime monitor with a
finalizer of its own, the SKR (`CrdGone`), its user, its end (`TearDownSkr`, `RemoveAccess`), and
the expiry of the client. A reconciliation of the live Kyma is one step, `ReconcileLive`, that may
stop after any of its parts; `KymaModules`, `CatalogSync` and `SkrWebhook` have its detail.

Two assumptions: reconciliations of a deletion are a second apart, so the Manifests are up to date
when one starts unless the fault `lateList` happens; and metrics, which are kept in memory, are not
part of what has to be gone (`Metrics` is about those).

`Teardown` has two variables: `stage` (kept, dismantling, released) and the `left` parts. Parts come
only while the Kyma is kept; it is released when none is left. `KymaDeletion!Promise` maps the stage
to the finalizer and the cached deletion timestamp, and the parts to Manifests, certificate and
what the SKR holds.

### ModuleLookup and KymaModules

`ModuleLookup` has the decisions as operators: `GenerateModulesFromTemplates` with the lookup by
channel, the checks for mandatory, restricted, beta and internal modules, the comparison that
refuses downgrades, the maintenance window decorator; how a status entry is made from a module, an
error or a Manifest; and which Kymas an event of a ModuleReleaseMeta concerns. A version is a
number, `Core` its major.minor.patch part (prereleases share one).

`KymaModules` has the Kyma of the SKR (`remote`, what the user edits), the labels and the status of
the Kyma in the KCP, the Manifests and the catalog. A reconciliation reads (`Start`, `StartStale`),
takes over the spec (`replaceSpecFromRemote`), looks up (`LookupTemplates`), writes one Manifest per
step (`SyncModule`, the goroutines of `ReconcileManifests`), builds the status (`UpdateStatuses`),
deletes what the spec no longer has, one per step (`DeleteNoLongerExistingModules`), and writes the
status (`handleProcessingState`) and its copy in the SKR (`syncStatusToRemote`). `work` is what it
carries along. `due` is the work queue. Every call that can fail has a fault of its own. The status
patch conflicts when the Kyma was edited since it was read. A nil error is `"nil"`, an empty channel
or state `"unset"`; neither is the name of a channel (`LookupAssumption`).

### Rendering

Each Manifest has a worker that moves through `download`, `extract`, `render` and `sync`; workers share
the files of layers (`files`, written in parts under a `lock` per file) and the cache of parsed
files. Descriptors are fetched, checked and mapped to layers and images; `Transform` and the image
rewrite are applied to resources as records. What a reconciliation does with the rendered resources is kept as
identities: `deployed` is what is in the SKR, `synced[m].ids` is `status.synced`, and `synced[m].ref` the annotation
`sync-oci-ref`. A Manifest without the annotation gets it first (`TrackSpec`); `pruneDiff` evicts the cache or
deletes what is missing, the operator's resources last; `SyncResources` applies, and writes the status when the
identities differ, the annotation in a later reconciliation when they do not. Downloads fail or break off, deletes
and applies fail in part, caches expire, the process restarts, the spec moves to another version.

### GatewaySecret and SkrWebhook

CAs are numbered in the order of their rotation; a bundle is the set of CAs in it, `notAfter` their expiry, and
time is a counter. `ManageGatewaySecret` is the handler: it bundles a new CA at once and switches the
server certificate when the grace period is over. A reconciliation of the Kyma creates or renews the
Certificate, takes the version of its Secret (`SetSecretResVer`), configures the Deployment with it,
reads certificate and bundle and applies the resources concurrently: one by one in any order, any of which may
fail, with a stop of KLM between any two. The SKR does not wait: a new label starts a pod (`PodStarts`) whether or not the
Secret has been applied yet. The configurator is shared by all Kymas, so another one (`OtherKymaReconciles`) may replace the
version in between. `Tick` does not let a Kyma wait longer than `SyncInterval`, nor cert-manager
miss a renewal: the rotation of ADR 007 relies on both.

### The components in MCControlPlane

* `MaintenanceWindows`: `Resolve`, `LookupAvailable` and `NextWindow` as operators over ticks; a
  regular expression is the set of values it accepts. `Reconcile` asks at every tick of a week.
  The reference definition, `Covers`, tells from the calendar alone when a window is open.
* `WatcherController`: `Read`, the deletion and processing handlers, and the status update at their
  end, each a write with the resource version that was read; edits of the Watcher and of the gateways in
  between.
* `MandatoryModules`: `HandleInstallation` reads the catalog and plans; `ReconcileManifests` writes the
  plan one Manifest at a time; `HandleDeletion` lists, deletes and drops the finalizer; releases,
  deletions and labels around, with the events that the filters let through. `late` remembers, for the properties, which Manifests were
  written by an installation that had been overtaken.
* `CatalogSync`: namespace, CRDs, pull secret, Kyma and its metadata, ModuleTemplates and
  ModuleReleaseMetas, in the order of the code, each apply and each deletion leaving any subset
  done when it fails. Objects of the SKR have a field manager (`by`).
* `Startup`: `Validate`, address of the gateway, registry, policy, controllers and caches, one step per
  thing that is read from the cluster; lease with its age; clean-up of stored versions.
* `Metrics`: who sets and who removes each gauge, with relabelling, restarts and removed finalizers.
* `ManagerState`: Deployment conditions and pods as the workload controllers change them, and the state
  the Manifest gets from them.

## The runs

Passing runs:

| Run | Shows |
|---|---|
| `manifest_lifecycle` (`ManifestLifecycle.cfg`) | Three changes (upgrade, policy, unmanage, delete, CRs, end of the SKR, rollout), late reads, no failures. Nothing of a deleted module is left (`NothingLeftBehind`), an unmanaged one loses its labels (`UnmanagedLosesLabels`), the default CR goes before the Manifest (`ManifestOutlivesDefaultCR`), an upgrade leaves no orphan (`UpgradeComplete`), the operator is deleted after what it has to finalize (`OperatorDeletedLast`). |
| `manifest_faults` (`ManifestFaults.cfg`) | A failure or restart at any step and two changes at any moment, also on a Manifest that is not settled. The annotation follows the sync (`AnnotationFollowsSync`), the operator outlives the default CR (`OperatorOutlivesCR`). |
| `manifest_liveness` (`ManifestLiveness.cfg`) | Fair retries. The controller settles (`EventuallySettles`) and a deletion becomes visible (`DeletingIsShown`). |
| `kyma_deletion` (`KymaDeletion.cfg`) | One failure and two changes at any moment. A released Kyma leaves nothing (`NothingLeftBehind`), the user sees the deletion before a module goes (`ShownBeforeDeleted`), the SKR is dismantled in order (`DismantledInOrder`), and the abstract specification is implemented (`ImplementsTeardown`). |
| `kyma_deletion_liveness` (`KymaDeletionLiveness.cfg`) | Fair retries. A requested deletion completes (`DeletionCompletes`), also after the failures the safety properties exclude. |
| `kyma_modules` (`KymaModules.cfg`, module `MCModules`) | Two modules, two changes and a failed read or deletion of a Manifest. No Manifest is forgotten (`Tracked`), none goes back to a lower version (`NoDowngrade`), downtime happens in windows (`WindowRespected`), a Kyma that a release concerns is in the queue (`NoticedAtOnce`, with two exceptions that [Known counterexamples](#known-counterexamples) explain). Of two workers that render: what is rendered is what was released (`RenderedAsReleased`), and a resource of the wanted version is deleted in the SKR only when a download broke off while the annotation named another layer (`KeepsResources`). |
| `kyma_modules_faults` (`KymaModulesFaults.cfg`) | One module, every kind of change, failure, late read and restart, fair retries. Spec, Manifest and status come together (`Converges`), a disabled module leaves the status (`Removed`). |
| `skr_webhook` (`SkrWebhook.cfg`) | A rotation of the root certificate against the renewal of the client certificate. The gateway accepts the client (`ServerTrustsClient`), the SKR accepts the gateway (`ClientTrustsServer`), the restart label is not ahead of the Secret in the SKR once everything is applied (`LabelIsHonest`), the last certificate restarts the pod unless it runs with it already, and the pod ends up with it if every pod finds the version of its label (`PodGetsCertificate`). |
| `control_plane` (`ControlPlane.cfg`, module `MCControlPlane`) | Windows: `UpdatesInsideWindow`, `UpdateHappens`. Watcher: `WatcherSettles`. Mandatory modules: `OnlyLateOnesStay`, `MandatorySettles`. Catalog: `CatalogIsUsable`, `UserObjectsStay`, `CatalogConverges`. Start: `OneReplicaServes`. Metrics: `MetricsSettle`. Manager state: `ManagerStateFollows`. |

The runs that end in a violation (`leak_vanishing_cr`, `upgrade_during_rollout`, `kyma_client_expiry`)
are described under [Findings](#findings).

### Bounds

* Two versions of a module that share the manager and differ in one resource are the smallest
  instance in which an upgrade has something to keep, to prune and to add. `kymaNs` is in the first
  only, because it is the resource that is never pruned.
* One Manifest is enough for `ManifestReconciler`: reconciliations of different Manifests share only the
  client cache, which each of them may find empty at any time, and the files and caches of layers,
  for which `Rendering` has two.
* One regular and one mandatory Manifest, and two webhook resources, are the smallest instance of a
  partial deletion. The liveness run uses one webhook resource.
* Two modules are the smallest instance in which one of several Manifests fails; three versions, of
  which the last two share major.minor.patch, are what the downgrade check can tell apart. Version
  2 needs downtime and version 3 is a beta. Modules are symmetric.
* `Rendering` in `MCModules`: two Manifests that begin with different versions, one fault (a failed call or a
  download that breaks off) and two events (upgrade, restart, expiry, change of the Secret). Upgrade, restart
  and a broken download are together what it takes to reach `pruneDiff` in the window that `KeepsResources` excepts.
* `SkrWebhook.cfg`: the first CA expires at tick 9 and is rotated 7 ticks before, on schedule, or by
  hand; a client certificate is renewed after 4, the grace period is 2, a Kyma is reconciled
  every tick. 11 ticks see the rotation, the switch, renewals on both sides of it, and the old CA leaving
  the bundle.
* `MCControlPlane`: a day has four ticks, so that windows begin, end and cross midnight at different ones;
  two zones; two edits of a Watcher; two mandatory modules in two versions with three events; a
  catalog of two modules in two channels with one change and one failure; two replicas.
* `MaxFaults` and `MaxChanges` (`MaxEvents`, `MaxEdits`, `MaxRotations`) bound failures and outside
  changes, not reconciliations. A failure is retried from the beginning, so one failure at any place,
  combined with some changes at any place, covers the interactions the hazards describe. The
  proofs have no such bound.
* `SettledOnly` restricts `upgrade`, `policy`, `unmanage` and `delete` to a Manifest that is Ready.
  `SteadyCR` keeps the default CR from vanishing between the two looks of one reconciliation.
  `OrderlyChanges` and `OrderlyFaults` leave out what makes `KymaModules` lose track. Where one of these
  holds, the property is known to be violated without it, and a finding or a known counterexample
  below says how.

Deadlock is not checked: an object that is gone, and a bounded world at rest, are legal ends.

### Fairness

* `WF(Reconcile)` (`Controller` in `KymaModules`, `KymaReconciles` in `SkrWebhook`, `HandleInstallation`,
  `ReconcileManifests` and `HandleDeletion` in `MandatoryModules`, `checkManagerState` in
  `ManagerState`, `Deletion` in `Metrics`): the work queue retries errors and requeues successes.
  `WF(Requeue)` is the requeue interval, `WF(scheduleMetricsCleanup)` the cleanup job.
* `SF(StartFresh)`, `WF(CacheCatchesUp)`: a watch delivers in the end, although any number of
  reconciliations may still start from an old version.
* `WF(ResourceGone)`, `WF(DefaultCRGone)`, `WF(CrdGone)`, `WF(ManifestGone)`, `WF(GarbageCollect)`:
  clusters finish deletions. The user's module CRs and the availability of the manager are not fair;
  `EventuallySettles` allows for both. In `ManagerState`, `WF(Proceeds)` is a rollout that comes to
  its end.
* `WF(ManifestSettles)` in `KymaModules` and `SF(ManifestGoes)` in `MandatoryModules` stand for the
  Manifest controller. The second is strong, because an installation that goes on may make the
  Manifest again between two attempts.
* `WF(RemoveAccess)`: the access Secret of an SKR that is gone is removed.
  `WF(MonitoringReleases)`, `WF(ApplyMandatory)`, `WF(PublishTemplate)`: the other actors finish what
  they began.
* `SF(ClientExpires)` in `KymaDeletion`: a cached client has a time to live that a hit does not
  extend. It is strong because the action is not continuously enabled in a model with bounded
  faults: it needs a moment between two reconciliations.
* `SkrWebhook`: cert-manager issues, pods start and time passes. `SF` of `ConfigureDeployment` with the
  version of the own Kyma says that another Kyma does not get in between every time; nothing in the
  code ensures it for a single attempt, and a reconciliation is repeated for ever.
* `Startup`: every replica goes on (`WF(Runs)`; the kubelet restarts it) and time passes.

## The proofs

TLAPS proves, for every set of resources, references, Manifests, modules, Kymas and replicas and for
every bound:

| Theorem | Statement |
|---|---|
| `ManifestReconciler_proofs!TypeCorrect` | `Spec => []TypeOK` |
| `ManifestReconciler_proofs!AnnotationFollows` | `Spec => AnnotationFollowsSync` |
| `ManifestReconciler_proofs!OperatorStays` | `Spec => OperatorOutlivesCR`, without the fault `crRead` and the change `policy`, when every version has the resources of the operator |
| `ManifestReconciler_proofs!CleanedUp` | `Spec => []NothingLeftBehind`, under `Undisturbed` |
| `ManifestReconciler_proofs!Unlabelled` | `Spec => []UnmanagedLosesLabels`, under `Undisturbed` |
| `ManifestReconciler_proofs!DefaultCRGoesFirst` | `Spec => ManifestOutlivesDefaultCR`, under `Undisturbed` |
| `ManifestReconciler_proofs!UpgradeLeavesNothing` | `Spec => UpgradeComplete`, under `Undisturbed` |
| `ManifestReconciler_proofs!OperatorGoesLast` | `Spec => OperatorDeletedLast`, under `Undisturbed`, when every version has the resources of the operator |
| `KymaDeletion_proofs!TypeCorrect` | `Spec => []TypeOK` |
| `KymaDeletion_proofs!CleanRelease` | `Spec => []NothingLeftBehind` |
| `KymaDeletion_proofs!UserIsTold` | `Spec => ShownBeforeDeleted` |
| `KymaDeletion_proofs!Order` | `Spec => DismantledInOrder` |
| `KymaDeletion_proofs!Refinement` | `Spec => ImplementsTeardown` |
| `KymaModules_proofs!ManifestsTracked` | `Spec => []Tracked`, under `Lossless` |
| `KymaModules_proofs!VersionsRise` | `Spec => NoDowngrade`, under `Lossless` |
| `KymaModules_proofs!WindowsKept` | `Spec => WindowRespected`, under `Lossless` |
| `KymaModules_proofs!EventsArrive` | `Spec => []NoticedAtOnce`, under `Informed` |
| `SkrWebhook_proofs!HonestLabel` | `Spec => []LabelIsHonest` |
| `SkrWebhook_proofs!ServerTrusts` | `Spec => []ServerTrustsClient`, under `ClientsRenewed` |
| `SkrWebhook_proofs!ClientTrusts` | `Spec /\ [][OneAtATime]_vars => []ClientTrustsServer`, under `ServerSwitches` |
| `ControlPlane_proofs!FinalizerHolds` | `M!Spec => [](M!TypeOK /\ M!OnlyLateOnesStay)` |
| `ControlPlane_proofs!RouteGoes` | `W!Spec => []W!NoRouteLeft` |
| `ControlPlane_proofs!OneLeads` | `Spec => []OneLeader`, when every command line has retry period + renew deadline < lease duration |
| `CatalogSync_proofs!OffersWhatIsAccepted` | `Spec => []CatalogIsUsable`, when every channel has a version |
| `CatalogSync_proofs!UsersKeepTheirObjects` | `Spec => UserObjectsStay`, under the same assumption |
| `Rendering_proofs!RenderedFromItsLayer` | `Spec => []RenderedAsReleased`, under `WellFormed` |
| `Rendering_proofs!ResourcesStay` | `Spec => KeepsResources`, under `WellFormed` |
| `MaintenanceWindows_proofs!UpdatesInTheirWindow` | `Spec => []UpdatesInsideWindow`, for policies with `IsPolicy` |

`Undisturbed` of `ManifestReconciler_proofs` is what the run `manifest_lifecycle` sets: no call fails
and nothing restarts, the Kyma controller upgrades or changes only a settled Manifest (one without a default
CR may be deleted at any time), and the default CR does not vanish between the two looks of one
reconciliation. Late reads, any number of changes in any order, users and the SKR's own steps stay. Without
each of these conditions TLC has a counterexample (see [Known
counterexamples](#known-counterexamples) and the run `leak_vanishing_cr`). `OperatorGoesLast` also takes the
kyma-system Namespace for one of the operator's resources, as `operatorRelatedResources` of
`internal/pkg/resources/cleanup.go` does.

The theorems about `KymaDeletion` other than `TypeCorrect` assume `Undisturbed`: no failed List of
Secrets, no late list, no client that expires inside a reconciliation, no finalizers removed by
hand. TLC finds `NothingLeftBehind` violated with each of the four (two late lists are needed); the
run `kyma_client_expiry` keeps one of them.

`Lossless` leaves out the kinds of failure and change after which the status is not what the
Manifests are: a stale, failed or conflicting status patch, a restart, a Manifest or a descriptor that
cannot be read or applied, and edits or releases that take the version of an installed module away
from its Kyma. TLC has a counterexample for each kind (see [Known
counterexamples](#known-counterexamples)); failed deletions and failures to reach the SKR, users who enable, disable,
unmanage and switch modules, releases, and windows stay. `Informed` is `Lossless` without lost events and without deleted
ModuleReleaseMetas. The run `kyma_modules` satisfies both.

`ClientsRenewed` says that a CA is rotated so early that every client certificate issued before is
renewed, and applied by a reconciliation, before it expires (`CertDuration + SyncInterval <=
RotateBefore`). The bound is exact: with `CertDuration` 4 and `SyncInterval` 1 the property
holds for `RotateBefore` 5 and fails for 4. `ServerSwitches` says that every Kyma is reconciled
within the grace period and that the grace period ends before the old CA does. `OneAtATime` is about the
operators: no second rotation by hand before the gateway presents the first.

`WellFormed` of `Rendering_proofs` is about what a module delivers. A descriptor has no two images of one
name and tag in different registries: the rewriters look for name and tag only, so the second one would
end up in the registry of the first. A raw manifest does not list the pull secret itself, as
the transform appends it without looking. Only workloads have containers, only the deployer module has Secrets to
inject into, and the Secret they are filled from has data. `IsPolicy` of `MaintenanceWindows_proofs` asks that a weekly
window of a rule ends, on its day, no earlier than the minimum duration after midnight in UTC
(`EndsInItsDay`). The search of `NextWindow` goes from the present day in UTC to the same weekday of the next
week; a window east of Greenwich that is over before midnight UTC of its day, or one that is
shorter than the minimum, can be missed, and then the default window decides. TLC evaluated both with the
constants of the runs `kyma_modules` and `control_plane`.

The other assumptions (`ResourcesAssumption`,
`BoundsAssumption`, `ConstantsAssumption`, `WebhookAssumption`, ...) say what the constants are.

**Annotation.** The property alone is not inductive, as it says nothing about the copy a
reconciliation works on. The invariant adds that what was read is the stored version while no one
wrote (`FreshReading`); that a reconciliation changes only the status of its copy (`WorkingCopy`)
and `synced` only at its end (`SyncedAsRead`); that what it rendered is the layer of that copy
(`Rendered`); that it gets past the sync only when the rendered resources are the synced ones
(`NothingDiffered`). The annotation is written by `Update` when `fresh`, so these give the property.
The other write is `SsaSpec`, which has no resource version. `ReplacedAnnotation` covers it: a
version whose annotation was replaced carries both finalizers or is under deletion, and such a
version is never applied again.

**Operator.** That the default CR was gone when nothing was rendered must still hold when the
difference is pruned (`EmptyMeansGone`). Only the controller makes a default CR, and only for a
Manifest with the policy (`CRNeedsPolicy`), which a reconciliation reads as it is (`PolicyKept`).

**What is left behind.** The controller knows what it applied from the status, which it writes only at
the end of a reconciliation, and the version it reads may have been replaced. So the invariant `LInv` relates the
version that was read last, the stored one and what carries the label (`Carried`), with one case for each
kind of version that can be read. Nothing was read, or it has no finalizers: nothing is carried (`NothingKind`,
`NewKind`). It is to be installed: the Manifest is still there, its status is sound (a sync that differs will show in
state or operation, so the patch is not skipped), and what is carried is listed in the stored status, except in
the steps after the sync, where the copy lists it (`InstallKind`). It is unmanaged: nothing is carried once the
label-removal finalizer is gone (`UnmanagedKind`). It is being deleted: what is carried is listed, and the CR
finalizer is there as long as the default CR is; nothing is rendered only when there is none, and the
finalizers go only when nothing was rendered and nothing is carried (`RemoveKind`). The
lemmas `NewKept`, `InstallKept`, `UnmanagedKept` and `RemoveKept` show that the steps of a reconciliation stay in
their case, `StartFreshKinds` that reading the latest version gives one of the cases again, and `EditKeeps`,
`DeleteKeeps` and `ClusterKinds` that everything else respects them. A label is only on what is there
(`LabelsLive`), and what has none is not there unless the module is unmanaged (`AllCarried`), which turns labels
into resources for `UpgradeComplete`. `LInv` was checked by TLC with the constants of `manifest_lifecycle` before it
was proved.

**Kyma deletion.** The invariant ties the position in the list of use cases to both clusters
(`Passed`): what lies before the position is gone and stays so until the reconciliation ends.
It needs that a reconciliation without a client has no SKR (`ClientKnown`), that it works on a Kyma
under deletion whose status says so (`SeenDeleting`), and that a Manifest of a module is never
further along in the list than in the KCP (`ListedBehind`). The finalizer goes at position twelve, where
`Passed` is exactly what `NothingLeftBehind` and the last step of `Teardown` ask for.

**Label.** The version is taken before the data and versions only grow, so what is built has a label that
is not newer than its data (`Building`, `Applying`). While the resources are applied in any order the old
label goes with the old or the new Secret, and the new label with the new one once all are there
(`Paired`). After a failed apply the pair may be broken until a reconciliation has applied everything, so between
reconciliations the theorem is about behaviours without failures, and at the end of one about all. It is about the
label and the Secret in the SKR. A pod that starts between two applies may have read an older Secret, and no theorem
says otherwise (see [Known counterexamples](#known-counterexamples)).

**Modules.** `Tracked`, `NoDowngrade` and `WindowRespected` rest on one fact: between reconciliations
the status entry of a managed Manifest refers to it, has a template and has its version (`Agree`
in `Kept`). Inside a reconciliation the fact moves from the old entries to the Manifests: a module that is
still to be written agrees with its entry, and one that was written has the version of the lookup (`Synced`). The
new status is built from the same lookup, so it agrees again. The lookup keeps its part
(`LookedUp`): an installed module gets an error that keeps its entry or a version that is not lower and that
needs no downtime outside of a window. These are facts about the operators of `ModuleLookup`
and are proved as lemmas (`LookupGives`, `TemplateChecked`, `EntryGiven`, `EntriesKept`).

**Events.** `NoticedAtOnce` speaks of the moment between two reconciliations; its invariant `EInv` follows a
release through one. When nothing is due the reconciliation works with the spec and the status of the cluster
(`Seen`); what was looked up is still what the catalog offers (`Fresh`), because a release of
the channel in the stored status would have made the Kyma due (`CatalogTells`, which is
`AffectedKymasOnUpdate` against `findAddedOrModifiedChannels`); a Manifest that changed version or channel
makes it due as well (`UpdateWakes`). So the new entries are up to date (`Ripe`), and after the
status patch so is the status (`Noticed`).

**Trust.** The gateway keeps every CA that has not expired (`Bundled`), so it is enough that no pod uses a
certificate after the expiry of the CA that signed it. A certificate is at most `CertDuration` old and was signed by a CA that had
`RotateBefore` left (`InTime`), and what is in the SKR, or on its way there, was issued in time for the
reconciliation that took it (`SignedInTime`). In the other direction the SKR must have the CA that the gateway
presents. That is the root or the CA before it, which outlives the grace period (`Presented`), and a
reconciliation that began after the root was bundled has brought it to the SKR (`Received`); before the switch
every Kyma has had one.

**Mandatory modules.** The finalizer goes in the step that finds no Manifest, and what comes after was
planned before and is `late`; the invariant adds the types of what is planned (`Planned`).

**Watcher.** A Watcher without finalizer has no route (`RouteNeedsFinalizer`), which a reconciliation in
flight keeps because what it has read still holds where it matters (`Reading`).

**Leader.** Who leads holds the lease, and the lease is not older than the time after which a leader gives
up (`LeaderHolds`). Another replica takes it only when it is older than the lease duration.

**Catalog.** The copy filters of `remote_catalog.go` and the checks of `templatelookup/regular.go` are shown
to be equivalent (`FiltersAgree`). The rest follows the order of the writes: the templates are there before
the metas that name them (`TemplatesThere`), the metas before the obsolete ones go (`MetasThere`), and
only chosen ones stay (`MetasOnly`). All of it is about one reading of the catalog (`Chosen`).

**Rendering.** The workers share files and cache, so the invariant `RInv` is about what these hold, whoever put
it there. A file holds a beginning of its layer, all of it if no download has broken off and nobody holds its
mutex (`FilesOK`); a cache entry holds resources of its layer (`CachesOK`); a worker that
downloads holds the mutex, and one that renders finds both files and a free mutex (`WorkersOK`), so what it
reads was not written halfway. The transforms are followed field by field (`SameBut`): each of
them changes the fields it is for, a rewritten value is in place (`InPlace`) and stays so when the name of the pull
secret is put into the environment, and the pull secret is appended once (`WorkloadFits`, `TransformedFits`). `First` is
the least index that passes a test; that there is one comes from the well-foundedness of the numbers
(`Least`). `RInv` was checked by TLC with the constants of `kyma_modules` before it was proved. `ResourcesStay` rests
on it: as long as no download broke off, what a worker has rendered has all identities of the layer of its Manifest
(`NormaliseSame`, `IdsGive`), so `Diff` has none of them; after one the rendered resources may be fewer, and then it is
the check of the annotation that keeps `pruneDiff` from deleting. `EndKeeps` is the step of the deletion.

**Maintenance windows.** `NextWindow` gives one of the days that suit, or nothing when no day does
(`NextWeekly`, by `Least`); one of eight days has the weekday of the window and, when the window ends in its
day, ends late enough, so nothing is never the answer for a weekly window (`NextGives`). `Resolve` stops at the rule
whose windows are the runtime's own (`RuleDecides`), so what `IsActive` accepts covers the present
(`ActiveInside`).

Only model-checked: liveness and anything about `ENABLED`, which are beyond the prover; all properties of
`Metrics` and `ManagerState` are liveness. The definitions `UpdatesInsideWindow`, `OnlyLateOnesStay`, `CatalogIsUsable`,
`UserObjectsStay`, `RenderedAsReleased` and `KeepsResources` of the composed modules are those of one
component with the constants of the run; the theorems above state them for the component itself.

## Findings

| Run | What happens |
|---|---|
| `leak_vanishing_cr` | The default CR vanishes between the two looks of one deletion: the last finalizer goes although nothing was pruned. |
| `upgrade_during_rollout` | The status is patched only when state or operation differ: a new `synced` list is lost and the Manifest never becomes Ready. |
| `kyma_client_expiry` | The use cases look the client up one by one: when it expires between two, the remaining ones are skipped and the finalizer is dropped with the SKR not cleaned. |

### Known counterexamples

Met while modelling, excluded from the passing runs by their constants and not kept as runs. Where a
property of the modules states what is violated it is named, with the constants that show it.

Manifest controller:

* `internal/manifest/modulecr/client.go:126`: a Get of the default CR that fails otherwise than with
  NotFound counts as success; the condition becomes true without a default CR (fault `crRead`).
* `internal/manifest/modulecr/client.go:196`: a failed List of module CRs counts as an empty one, so
  the operator is pruned while the default CR waits for it (`OperatorOutlivesCR` with `crRead`).
* A failed List of Secrets counts as a missing Secret: a deleted Manifest loses its finalizers while its
  SKR exists (`NothingLeftBehind` with the fault `secretList`).
* `internal/controller/manifest/controller.go:659`: an upgrade rolled back before it was recorded
  leaves the state Warning although every rendering is complete.
* A deletion in state Warning does not get past the sync until the state changes.
* `NothingLeftBehind` fails after a restart between applying resources and recording them, or when
  a deletion arrives while an installation is under way: what is applied and not listed in
  `status.synced` is not pruned. `SettledOnly` and the missing faults of `manifest_lifecycle`
  exclude these.
* `internal/controller/manifest/controller.go:660` evicts the cached parse result "to hope newly created
  resources back to normal", but a download that broke off stays on disk and is parsed again
  for ever (`Rendering!BackToNormal`).
* The same place says "we should prevent diff resources to be deleted". It does so only once the annotation
  `sync-oci-ref` has the new reference, which a reconciliation after the patch of `status.synced` writes
  (`internal/controller/manifest/controller.go:250`). If KLM restarts in between and the download of the layer breaks
  off, the resources that the file lacks are deleted although they belong to the version just installed
  (`Rendering!PreventsDiff` with the constants of `kyma_modules`). `KeepsResources` excepts this and shows that there is no
  other way.

Kyma controller:

* `KymaDeletion!NothingLeftBehind` with one `secretList` or two `lateList`: a client, or a Manifest,
  that a failed or late read does not show is taken for absent.
* `docs/contributor/02-controllers.md:13`: "process upgrades, but prohibit downgrades". A status patch that
  fails after the Manifests were written leaves the status of the time before, with which the next
  reconciliation compares (`NoDowngrade` with `Changes = {"release"}`, `Faults = {"patch"}`).
* For the same reason an update may be taken for an installation and happen outside of a window
  (`WindowRespected` with `Changes = {"beta", "release"}`: the edit makes the patch a conflict).
* "If module get removed from kyma, the module deletion happens here." (`internal/controller/kyma/controller.go`):
  a module disabled while its status entry has no Manifest, as after its channel became `none` or its
  version was withdrawn, leaves its Manifest behind (`Tracked` with `Changes = {"none", "disable"}`).
* Each kind of failure and change that `Lossless` excludes has such a counterexample: `stale`, `patch`, `restart`, `beta`
  and `skipWindows` violate `WindowRespected`; `unread`, `descriptor`, `skip`, `withdraw`, `mandatory` and
  `deleteTemplate` violate `Tracked`; `none` violates `NoDowngrade`, and with two modules so do
  `apply` and `selector`.
* A Kyma whose switch of channel is refused as a downgrade keeps the old channel in its status, and the events
  go by the status (`internal/watch/modulereleasemeta/mrm_handler.go`): a release in the new channel that would allow the
  switch waits for the requeue interval. The same holds for a module that is taken back from unmanaged: what is released
  before its status is patched is missed. `NoticedAtOnce` excepts both.
* A ModuleReleaseMeta that is deleted and created again wakes nobody, as "not referenced by any Kyma yet"
  is assumed of a new one (`NoticedAtOnce` with the change `deleteMeta`).
* Every change of the labels of the SKR Kyma costs one failed synchronisation of its status (a conflict),
  which the next reconciliation repairs.

Mandatory modules:

* `docs/contributor/02-controllers.md:39`: "Once all associated Manifest CRs are deleted, the finalizer is
  removed". An installation that read the ModuleReleaseMeta before its deletion writes a Manifest after it
  (`NoManifestStays`).
* The event filter of the deletion controller looks at the new object: the deletion of a
  ModuleReleaseMeta that is no longer mandatory is not seen (`DeletedOnesGo`).

Certificates and webhook:

* `internal/service/watcher/resources/resource_configurator.go:47`: the label is "used to trigger a rolling
  update of the watcher pod when the SKR's certificate changes". Deployment and Secret are applied concurrently
  (`internal/service/watcher/chartreader/chartreader_service.go:42`) and the SKR starts the pod when it sees the
  Deployment: a pod that starts before the Secret is applied has the new label and the old certificate, and keeps it until
  the next certificate is issued, as the label does not change again (`SkrWebhook!RolledOnChange` with
  `MaxFaults = 0`). The same happens when the apply of the Secret fails, or KLM stops between the two.
* Certificate and bundle with the same second: a client certificate signed by the previous CA counts as
  renewed. It is replaced in time only when cert-manager rotates early enough: `ServerTrustsClient` fails
  with `RotateBefore = 4`.
* Each rotation sets the time of the bundle anew and so puts off the switch of the server certificate: with three rotations by
  hand within the grace periods the CA that the gateway presents expires and leaves the bundle before the switch
  (`ClientTrustsServer` with `MaxRotations = 3`).

Windows, metrics, start:

* `maintenancewindows/resolver/maintwindow.go:109`: "if true then already started windows are returned if long
  enough". The search starts at the present day, so a weekly window that began yesterday is not found
  after midnight (`StartedWindowsFound`). Updates wait for the next one.
* The module series of a Kyma whose finalizers were removed by hand stay; so does the alert on its
  certificate (`Metrics!AlertGoes`); a Kyma that gets other labels leaves its old series
  (`MetricsSettle` with the change `relabel`).
* Neither `Validate` nor the client library asks for retry period + renew deadline < lease duration, which
  `OneLeads` assumes; the defaults (3, 120, 180 seconds) have it. `Validate` also returns the error of the
  jitter percentage for the probability, and the other way round.
* Caches are made for the namespaces of the flags while some repositories use fixed ones; gateway address
  and policy are read once; a second unreadable `.json` file in the directory disables the policy; the
  clean-up of stored versions runs in every replica and is not retried.
* A StatefulSet counts as ready when its first pod is, a restart of that pod shows Error, and only the
  first workload of a module counts (`ManagerState`).

## What is not modelled

* Code that no call reaches: `handleDeletingState` of the Kyma controller, `Remove` of the manager of the
  webhook, `DeleteAllManaged` and `RemoteCatalog.Delete`.
* Manifest controller: the skip-reconciliation label, which only delays; errors about labels
  in `cleanupMetrics`. That `SpecFails` drops finalizers of a deleted Manifest is by design (comment at
  `internal/controller/manifest/controller.go:434`).
* A step of one module that another has in detail is an action with its outcomes: rendering and the state of
  the manager in `ManifestReconciler`, the Manifest controller in `KymaModules`, `KymaDeletion` and
  `MandatoryModules`, windows in `KymaModules`. The compositions in `MCModules` and `MCControlPlane` put
  components side by side; they do not interact.
* `MandatoryModules` lists Manifests as they are; a list from a late cache may in addition overlook a
  Manifest written just before. A ModuleReleaseMeta is deleted only after it got its finalizer.
* `CatalogSync` assumes that a ModuleTemplate is named after module and version:
  `IsAllowedModuleVersion` compares the name, `FilterAllowedModuleTemplates` the fields of the spec.
* Several Kymas at once, except in `MandatoryModules` and through the configurator in `SkrWebhook`. The work
  queue never hands one object to two workers.
* Contents: PEM and YAML, URLs, header matches of routes, wording of errors and events. Counters and
  histograms of metrics, which nothing reads back. Profiling, logging, the wiring of constructors.
* Generated code (deep copies, apply configurations), `pkg/testutils`, the end-to-end tests.
