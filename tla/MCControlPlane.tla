--------------------------- MODULE MCControlPlane ---------------------------
(***************************************************************************)
(* Instances of the components of the control plane that run beside the    *)
(* Manifest and Kyma controllers: the maintenance windows, the Watcher     *)
(* controller, the mandatory modules, the catalog synchronisation, the     *)
(* start of the replicas, the metrics and the manager state check.  They   *)
(* share no state.  "which" is the component that a behaviour is about, the*)
(* others stay in their initial state, so that one run explores all of     *)
(* them without their product.                                             *)
(***************************************************************************)
EXTENDS Naturals, Sequences, TLC

CONSTANTS
    Policies, Runtimes,              \* of the maintenance windows
    FirstCatalog,                    \* the catalog at the start
    Flags, Gateways, Directories, Secrets, \* what the replicas start with
    Workloads                        \* of a module

VARIABLES
    which,
    policy, runtime, active, clock, asked, updated,
    watcher, gateways, virtualService, step, watcherRead, edits, failures,
    mrm, templates, skip, queued, pending, manifest, plan, late, releases,
    kcp, skr, pc, read, failed, condition, tampered, events, faults,
    flags, gateway, credSecret, policyFiles, process, built, lease, stored, cleanup,
    clusterEvents, conflicts,
    kymas, manifests, kymaState, moduleState, mandatory, duration, certNotRenew, changes,
    target, shown, troubled, pastEvents

windowVars == <<policy, runtime, active, clock, asked, updated>>
watcherVars == <<watcher, gateways, virtualService, step, watcherRead, edits, failures>>
mandatoryVars == <<mrm, templates, skip, queued, pending, manifest, plan, late, releases>>
catalogVars == <<kcp, skr, pc, read, failed, condition, tampered, events, faults>>
startupVars == <<flags, gateway, credSecret, policyFiles, process, built, lease, stored, cleanup,
                 clusterEvents, conflicts>>
metricVars == <<kymas, manifests, kymaState, moduleState, mandatory, duration, certNotRenew, changes>>
managerVars == <<target, shown, troubled, pastEvents>>
vars == <<which, windowVars, watcherVars, mandatoryVars, catalogVars, startupVars, metricVars,
          managerVars>>

(***************************************************************************)
(* Maintenance windows: a day has four ticks, an update takes one.  Windows*)
(* on one day and on two, that cross midnight or last a day, in two zones; *)
(* and windows with dates, past and to come.                               *)
(***************************************************************************)
Day == 4
Weekly == [days : {{5}, {6, 0}}, begin : {1, 3}, end : {1, 3}, zone : {0, 1}]
Once == {[days |-> {}, begin |-> 14 * Day + 5, end |-> 14 * Day + 9, zone |-> 0],
         [days |-> {}, begin |-> 3, end |-> 9, zone |-> 0]}
Lists == {<<a, b>> : a \in Once, b \in Weekly} \cup {<<b>> : b \in Weekly \cup Once}
Rules == {<<>>} \cup {<<[match |-> [plan |-> {"p"}], windows |-> l]>> : l \in Lists}
MCPolicies == {[rules |-> r, default |-> [days |-> {1}, begin |-> 0, end |-> 3, zone |-> 0]] : r \in Rules}
MCRuntimes == {[plan |-> "p"], [plan |-> ""]}

Windows == INSTANCE MaintenanceWindows WITH MinDuration <- 1

(***************************************************************************)
(* The Watcher controller: two destinations, one with the highest port, and*)
(* a port out of range; two gateways, of which one may lose its hosts.     *)
(***************************************************************************)
ServiceAt(port) == [name |-> "klm", namespace |-> "kcp", port |-> port]
WatcherSpecs ==
    {[service |-> ServiceAt(8082), manager |-> "", label |-> "kyma"],
     [service |-> ServiceAt(65535), manager |-> "kyma", label |-> "old"],
     [service |-> ServiceAt(65536), manager |-> "kyma", label |-> ""]}
IstioGateways ==
    {{}, {[name |-> "g1", hosts |-> {"kcp"}]},
     {[name |-> "g1", hosts |-> {"kcp"}], [name |-> "g2", hosts |-> {}]},
     {[name |-> "g1", hosts |-> {"kcp"}], [name |-> "g2", hosts |-> {"kcp2"}]}}
FirstSpec == CHOOSE s \in WatcherSpecs : s.service.port = 8082

Watcher == INSTANCE WatcherController WITH
    read <- watcherRead, Specs <- WatcherSpecs, GatewayLists <- IstioGateways,
    MaxEdits <- 2, MaxFaults <- 1

(***************************************************************************)
(* Mandatory modules: two, in two versions, for one Kyma.                  *)
(***************************************************************************)
MandatoryOnes == {"m1", "m2"}
Mandatory == INSTANCE MandatoryModules WITH
    events <- releases, Modules <- MandatoryOnes, Kymas <- {"k1"}, MaxVersion <- 2, MaxEvents <- 3

(***************************************************************************)
(* The catalog: two modules in two channels, a beta version, one module    *)
(* restricted; a user of the SKR with an object of their own name and one  *)
(* with the name of a copy.                                                *)
(***************************************************************************)
Modules == {"m1", "m2"}
Channels == {"fast", "regular"}
DefaultChannel == "regular"
Core == <<1, 2>>
RestrictedModules == {"m2"}
MCCatalog ==
    [metas |-> [m \in Modules |->
        [channels |-> [c \in Channels |-> IF c = "fast" THEN 2 ELSE 1], mandatory |-> 0,
         selector |-> IF m \in RestrictedModules THEN "match" ELSE "none"]],
     templates |-> [t \in Modules \X DOMAIN Core |->
        [beta |-> t[2] = 2, internal |-> FALSE, mandatory |-> FALSE,
         requiresDowntime |-> FALSE, generation |-> 1]]]

Catalog == INSTANCE CatalogSync WITH
    Catalog <- FirstCatalog,
    UserNames <- {<<"default", "m1">>, <<"kyma-system", "m2">>},
    Events <- {"release", "withdraw", "mandatory", "selector", "deleteTemplate", "template",
               "beta", "secret", "crd", "account", "userCreates", "userDeletes", "userDeletesCRD",
               "userDeletesKyma", "userUnlabels", "userDeletesNamespace"},
    MaxEvents <- 1, MaxFaults <- 1

(***************************************************************************)
(* The start: two replicas, the registry given by a host or by a Secret,   *)
(* with either scheme; command lines that are refused; a gateway with one  *)
(* host and with two; a Secret with one registry, with two, and none.      *)
(***************************************************************************)
Registry(scheme, host) == [scheme |-> scheme, host |-> host, path |-> <<"modules">>]
ServerOf(hosts) == [exists |-> TRUE, servers |-> <<hosts>>]
SecretOf(auths) == [exists |-> TRUE, key |-> TRUE, valid |-> TRUE, auths |-> auths]

Replicas == {"r1", "r2"}
Startup == INSTANCE Startup WITH
    events <- clusterEvents, faults <- conflicts, MaxEvents <- 2, MaxFaults <- 1

\* The default flags do not depend on what is being considered.
Defaults == INSTANCE Startup WITH
    events <- clusterEvents, faults <- conflicts, MaxEvents <- 0, MaxFaults <- 0,
    Flags <- {}, Gateways <- {}, Directories <- {}, Secrets <- {}

Directory(own, other) == [policy |-> own, other |-> other]
MCDirectories == {Directory("valid", "unreadable"), Directory("valid", "broken")}
Tagged == [Defaults!DefineFlagVar EXCEPT !.watcherImageTag = "1",
               !.dropStoredVersions = [kind \in {"Manifest", "Kyma"} |-> "v1beta1"]]
ByHost == [Tagged EXCEPT !.ociRegistryHost = Registry("https", "eu")]
MCFlags ==
    {Tagged, ByHost, [ByHost EXCEPT !.renewDeadline = 180], [ByHost EXCEPT !.istioNamespace = ""],
     [Tagged EXCEPT !.ociRegistryCredSecret = "credentials", !.subPath = <<"prod">>,
                    !.dropStoredVersions = <<>>, !.restrictedDefaultModules = <<"deployer">>,
                    !.certificateManagement = "cert.gardener.cloud/v1alpha1"]}
MCGateways == {ServerOf(<<"kcp">>), ServerOf(<<"kcp", "other">>)}
MCSecrets == {SecretOf({Registry("http", "us")}), SecretOf({Registry("https", "us"), Registry("https", "eu")}),
              [SecretOf({}) EXCEPT !.exists = FALSE]}

(***************************************************************************)
(* The metrics of one Kyma: it gets its labels late, its certificate is    *)
(* overdue, its finalizers are removed by hand.                            *)
(***************************************************************************)
Metrics == INSTANCE Metrics WITH
    Kymas <- {"k1"}, Changes <- {"label", "overdue", "force"}, MaxChanges <- 2

(***************************************************************************)
(* The manager of a module: none, a Deployment, or the first of two        *)
(* workloads; two upgrades or troubles.                                    *)
(***************************************************************************)
Config == [kind |-> "ConfigMap"]
Manager == INSTANCE ManagerState WITH
    manifest <- shown, MaxEvents <- 2, Positions <- 1..2, Targets <- Workloads
New == INSTANCE ManagerState WITH
    manifest <- shown, MaxEvents <- 0, Positions <- {}, Targets <- {}
MCWorkloads ==
    {<<Config>>, <<Config, New!NewDeployment>>, <<New!NewDeployment, New!NewStatefulSet(2)>>,
     <<New!NewStatefulSet(2), New!NewDeployment>>}

(***************************************************************************)
(* The specification.                                                      *)
(***************************************************************************)
Is(component) == which = component

Init ==
    /\ which \in {"windows", "watcher", "mandatory", "catalog", "startup", "metrics", "manager"}
    /\ IF Is("windows") THEN Windows!Init
       ELSE /\ policy = CHOOSE p \in Policies : TRUE
            /\ runtime = CHOOSE r \in Runtimes : TRUE
            /\ active = {} /\ clock = 14 * Day /\ asked = FALSE /\ updated = 0
    /\ Watcher!Init /\ (~Is("watcher") => gateways = {} /\ watcher.spec = FirstSpec)
    /\ Mandatory!Init /\ Catalog!Init
    /\ Startup!Init /\ policyFiles = Directory("valid", "unreadable")
    /\ ~Is("startup") \/ flags # ByHost => gateway = ServerOf(<<"kcp">>)
    /\ ~Is("startup") => flags = ByHost
    /\ flags.ociRegistryCredSecret = "" => ~credSecret.exists  \* it may appear later
    /\ Metrics!Init /\ (~Is("metrics") => kymas["k1"].shoot = "shoot")
    /\ Manager!Init /\ (~Is("manager") => target = <<Config>>)

Next ==
    \/ /\ Is("windows") /\ Windows!Next
       /\ UNCHANGED <<which, watcherVars, mandatoryVars, catalogVars, startupVars, metricVars, managerVars>>
    \/ /\ Is("watcher") /\ Watcher!Next
       /\ UNCHANGED <<which, windowVars, mandatoryVars, catalogVars, startupVars, metricVars, managerVars>>
    \/ /\ Is("mandatory") /\ Mandatory!Next
       /\ UNCHANGED <<which, windowVars, watcherVars, catalogVars, startupVars, metricVars, managerVars>>
    \/ /\ Is("catalog") /\ Catalog!Next
       /\ UNCHANGED <<which, windowVars, watcherVars, mandatoryVars, startupVars, metricVars, managerVars>>
    \/ /\ Is("startup") /\ Startup!Next
       /\ UNCHANGED <<which, windowVars, watcherVars, mandatoryVars, catalogVars, metricVars, managerVars>>
    \/ /\ Is("metrics") /\ Metrics!Next
       /\ UNCHANGED <<which, windowVars, watcherVars, mandatoryVars, catalogVars, startupVars, managerVars>>
    \/ /\ Is("manager") /\ Manager!Next
       /\ UNCHANGED <<which, windowVars, watcherVars, mandatoryVars, catalogVars, startupVars, metricVars>>

\* The fairness of the components that have liveness properties here.
Fairness ==
    /\ WF_windowVars(Is("windows") /\ Windows!Next)
    /\ WF_watcherVars(Is("watcher") /\ Watcher!Reconcile)
    /\ WF_catalogVars(Is("catalog") /\ Catalog!Reconcile)
    /\ WF_mandatoryVars(Is("mandatory") /\ Mandatory!HandleInstallation("k1"))
    /\ WF_mandatoryVars(Is("mandatory") /\ Mandatory!ReconcileManifests("k1"))
    /\ WF_mandatoryVars(Is("mandatory") /\ Mandatory!Requeue("k1"))
    /\ \A m \in MandatoryOnes :
        /\ WF_mandatoryVars(Is("mandatory") /\ Mandatory!HandleDeletion(m))
        /\ WF_mandatoryVars(Is("mandatory") /\ Mandatory!PublishTemplate(m))
        /\ SF_mandatoryVars(Is("mandatory") /\ Mandatory!ManifestGoes("k1", m))
    /\ \A r \in Replicas : WF_startupVars(Is("startup") /\ Startup!Runs(r))
    /\ WF_startupVars(Is("startup") /\ Startup!Tick)
    /\ WF_metricVars(Is("metrics") /\ Metrics!Deletion("k1"))
    /\ WF_metricVars(Is("metrics") /\ Metrics!scheduleMetricsCleanup)
    /\ WF_managerVars(Is("manager") /\ Manager!checkManagerState)
    /\ \A i \in 1..2 : WF_managerVars(Is("manager") /\ Manager!Proceeds(i))

FairSpec == Init /\ [][Next]_vars /\ Fairness

(***************************************************************************)
(* The properties of the components; their modules explain them.           *)
(***************************************************************************)

\* The type invariants of the components.
TypeOK ==
    /\ Is("windows") => Windows!TypeOK
    /\ Is("watcher") => Watcher!TypeOK
    /\ Is("mandatory") => Mandatory!TypeOK
    /\ Is("catalog") => Catalog!TypeOK
    /\ Is("startup") => Startup!TypeOK
    /\ Is("metrics") => Metrics!TypeOK
    /\ Is("manager") => Manager!TypeOK

\* An update with downtime happens inside of a window that applies (IsActive).
UpdatesInsideWindow == Is("windows") => Windows!UpdatesInsideWindow

\* An update with downtime does not wait for ever (NextWindow).
UpdateHappens == Is("windows") => Windows!UpdateHappens

\* A valid Watcher is routed, and a deleted one goes in the end and leaves no
\* VirtualService (handleProcessingState, handleDeletingState).
WatcherSettles == Is("watcher") => Watcher!WatcherSettles

\* Only an installation that was overtaken leaves the Manifest of a mandatory
\* module behind (DeleteManifests, RemoveFinalizer).
OnlyLateOnesStay == Is("mandatory") => Mandatory!OnlyLateOnesStay

\* Every Kyma gets the released version of a mandatory module, and a deleted
\* ModuleReleaseMeta goes in the end (HandleInstallation, the deletion service).
MandatorySettles == Is("mandatory") => Mandatory!MandatorySettles

\* The catalog in the SKR offers what the template lookup accepts
\* (SyncModuleCatalog, GetRegularTemplates).
CatalogIsUsable == Is("catalog") => Catalog!CatalogIsUsable

\* Objects of the users stay (DeleteConcurrently).
UserObjectsStay == [][Is("catalog") => Catalog!KeepsUserObjects]_vars

\* The SKR comes to hold what the Kyma may use (the SKR synchronisation).
CatalogConverges == Is("catalog") => Catalog!CatalogConverges

\* No two replicas run their controllers at the same time (configManager), and KLM
\* comes up and works in a cluster that has what it asks for (setupManager).
OneReplicaServes == Is("startup") => Startup!OneReplicaServes

\* The metrics show the status of a Kyma, and go with it (UpdateAll, CleanupMetrics).
MetricsSettle == Is("metrics") => Metrics!MetricsSettle

\* The state of a Manifest follows the rollout of the manager of its module (GetState,
\* determineDeploymentState).
ManagerStateFollows == Is("manager") => Manager!ManagerStateFollows
=============================================================================
