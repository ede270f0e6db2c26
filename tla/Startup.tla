------------------------------ MODULE Startup ------------------------------
(***************************************************************************)
(* How replicas of KLM come up and share the work (cmd/main.go, the flags, *)
(* internal/setup, cmd/composition).  A replica reads what it needs from   *)
(* the cluster once and exits when that fails; the kubelet starts it again.*)
(* The controllers work in the replica that holds the lease.               *)
(*                                                                         *)
(* Time is the number of ticks since a renewal.  A registry is [scheme,    *)
(* host, path]; the servers of the Istio gateway are sequences of hosts.   *)
(***************************************************************************)
EXTENDS Integers, Sequences, FiniteSets, Functions, TLC

CONSTANTS
    Replicas,
    Flags,        \* the command lines to consider
    Gateways,     \* [exists, servers] of the Istio gateway, in the course of time
    Directories,  \* the files [policy, other] in the directory of the policies, each
                  \* "absent", "unreadable", "broken" or "valid"
    Secrets,      \* [exists, key, valid, auths] of the registry credentials
    MaxEvents,    \* bound on changes of the cluster and stopped replicas
    MaxFaults     \* bound on conflicting updates of a CRD

VARIABLES
    flags,        \* the command line of the replicas
    gateway, credSecret, policyFiles,
    process,      \* per replica: where main stands
    built,        \* per replica: what setupManager has put together
    lease,        \* [holder, age], age being the ticks since the last renewal
    stored,       \* the stored versions of each CRD
    cleanup,      \* per replica: cleanupStoredVersions
    events, faults

vars == <<flags, gateway, credSecret, policyFiles, process, built, lease, stored, cleanup,
          events, faults>>

Nobody == "nobody"
ControlPlaneNamespace == "kcp-system"
CertificateSystems == {"cert-manager.io/v1", "cert.gardener.cloud/v1alpha1"}
CrdKinds == {"Manifest", "Watcher", "ModuleTemplate", "Kyma"}
NoRegistry == [scheme |-> "", host |-> "", path |-> <<>>]

(***************************************************************************)
(* The flags that matter here, with their defaults (seconds and percents). *)
(* The list of modules is given as its items between commas.               *)
(***************************************************************************)
FlagVar ==
    [certificateManagement : STRING, keySize : Nat,
     leaderElect : BOOLEAN, leaseDuration : Nat, renewDeadline : Nat, retryPeriod : Nat,
     jitterProbability : Int, jitterPercentage : Int,
     istioNamespace : STRING, istioGatewayNamespace : STRING, listenerPortOverwrite : STRING,
     dropStoredVersions : UNION {[kinds -> {"v1beta1"}] : kinds \in SUBSET CrdKinds},
     watcherImageRegistry : STRING, watcherImageTag : STRING,
     ociRegistryHost : [scheme : STRING, host : STRING, path : Seq(STRING)],
     ociRegistryCredSecret : STRING, subPath : Seq(STRING),
     restrictedDefaultModules : Seq(STRING)]

\* The stored versions, the image of the watcher, the registry of the modules.
ImageAndRegistryFlags ==
    [dropStoredVersions |-> [kind \in CrdKinds |-> "v1beta1"],
     watcherImageRegistry |-> "prod", watcherImageTag |-> "",
     ociRegistryHost |-> NoRegistry, ociRegistryCredSecret |-> "", subPath |-> <<>>,
     restrictedDefaultModules |-> <<>>]

DefineFlagVar ==
    [certificateManagement |-> "cert-manager.io/v1", keySize |-> 4096,
     leaderElect |-> TRUE, leaseDuration |-> 180, renewDeadline |-> 120, retryPeriod |-> 3,
     jitterProbability |-> 2, jitterPercentage |-> 2,
     istioNamespace |-> "istio-system", istioGatewayNamespace |-> "kcp-system",
     listenerPortOverwrite |-> ""] @@ ImageAndRegistryFlags

\* No item of the list is empty ...
validateRestrictedDefaultModules(f) == "" \notin Range(f.restrictedDefaultModules)

\* ... and an empty one would be skipped.
splitCommaSeparatedList(items) == SelectSeq(items, LAMBDA item : item # "")
GetRestrictedDefaultModules(f) == splitCommaSeparatedList(f.restrictedDefaultModules)

validateOciRegistryConfig(f) == (f.ociRegistryHost = NoRegistry) # (f.ociRegistryCredSecret = "")

Validate(f) ==
    /\ f.watcherImageTag # "" /\ f.watcherImageRegistry # ""
    /\ f.renewDeadline < f.leaseDuration
    /\ f.keySize = 4096
    /\ f.jitterProbability \in 0..5 /\ f.jitterPercentage \in 0..100
    /\ f.certificateManagement \in CertificateSystems
    /\ validateOciRegistryConfig(f)
    /\ validateRestrictedDefaultModules(f)

(***************************************************************************)
(* configManager: the election that the manager is told to hold.           *)
(***************************************************************************)

\* Mutant: every replica works.
configManagerWithoutElection(f) ==
    [leaderElection |-> FALSE, leaseDuration |-> f.leaseDuration,
     renewDeadline |-> f.renewDeadline, retryPeriod |-> f.retryPeriod]

configManager(f) ==
    [leaderElection |-> f.leaderElect, leaseDuration |-> f.leaseDuration,
     renewDeadline |-> f.renewDeadline, retryPeriod |-> f.retryPeriod]

(***************************************************************************)
(* The cache of the manager: which kinds are kept from which namespaces.   *)
(***************************************************************************)
getCertManagementCacheObjects(f) ==
    IF f.certificateManagement = "cert-manager.io/v1" THEN "cert-manager.io/Certificate"
    ELSE "cert.gardener.cloud/Certificate"

GetCacheOptions(c) ==
    ({"Secret", "Kyma", "ModuleTemplate", "ModuleReleaseMeta", "Manifest", "Watcher"}
        \X {c.kcpNamespace})
    \cup ({"Secret"} \X {c.istioNamespace})
    \cup ({c.certManagementCacheObjects} \X {c.kcpNamespace, c.istioNamespace})

SetupCacheOptions(f) ==
    GetCacheOptions([istioNamespace |-> f.istioNamespace,
                     kcpNamespace |-> f.istioGatewayNamespace,
                     certManagementCacheObjects |-> getCertManagementCacheObjects(f)])

\* The kinds that a client can handle at all.
registerSchemas ==
    {"Secret", "CustomResourceDefinition", "cert-manager.io/Certificate", "cert.gardener.cloud/Certificate",
     "Gateway", "VirtualService", "Kyma", "ModuleTemplate", "ModuleReleaseMeta", "Manifest", "Watcher"}

(***************************************************************************)
(* ComposeCertificateRepository, SetupCertInterface.                       *)
(***************************************************************************)
ComposeCertificateRepository(f) ==
    [kind |-> IF f.certificateManagement = "cert-manager.io/v1" THEN "cert-manager.io/Certificate"
              ELSE "cert.gardener.cloud/Certificate",
     namespace |-> f.istioNamespace]

\* What the constructors of the two repositories refuse.
MaxInt32 == 2147483647
CertManagerNewRepositoryError(f) == f.istioNamespace = ""
GcmNewRepositoryError(f) == f.keySize > MaxInt32 \/ f.istioNamespace = ""

ComposeCertificateRepositoryError(f) ==
    IF f.certificateManagement = "cert-manager.io/v1" THEN CertManagerNewRepositoryError(f)
    ELSE GcmNewRepositoryError(f)

SetupCertInterface(f) == [ComposeCertificateRepository(f) EXCEPT !.namespace = "istio-system"]

(***************************************************************************)
(* ResolveKcpAddr: the one host of the one server of the gateway.          *)
(***************************************************************************)
ResolveKcpAddrError(f) ==
    \/ ~gateway.exists
    \/ Len(gateway.servers) # 1 \/ Len(gateway.servers[1]) # 1 \/ gateway.servers[1][1] = ""
    \/ f.listenerPortOverwrite = "no number"

ResolveKcpAddr(f) ==
    [hostname |-> gateway.servers[1][1],
     port |-> IF f.listenerPortOverwrite = "" THEN "port of the gateway" ELSE f.listenerPortOverwrite]

(***************************************************************************)
(* NewOCIRegistry.                                                         *)
(***************************************************************************)
getDockerConfigFromSecretError(s) == ~s.key \/ ~s.valid \/ Cardinality(s.auths) # 1

getRegistryFromCredSecretError(s) ==
    ~s.exists \/ getDockerConfigFromSecretError(s) \/ \A a \in s.auths : a = NoRegistry

getRegistryError(f) ==
    \/ ~validateOciRegistryConfig(f)
    \/ f.ociRegistryHost = NoRegistry /\ getRegistryFromCredSecretError(credSecret)

getRegistry(f) ==
    IF f.ociRegistryHost # NoRegistry THEN f.ociRegistryHost
    ELSE CHOOSE a \in credSecret.auths : a # NoRegistry

trimScheme(registry) == [registry EXCEPT !.scheme = ""]

NewOCIRegistry(f) ==
    LET registry == getRegistry(f)
    IN  [insecure |-> registry.scheme = "http",
         reference |-> [trimScheme(registry) EXCEPT !.path = @ \o f.subPath]]

\* The repository of the component descriptors: no scheme, no leading slash.
NewRepositoryError(reference) == reference.scheme # "" \/ reference.host = ""

ComposeRepositoryError(f) == NewRepositoryError(NewOCIRegistry(f).reference)

(***************************************************************************)
(* The controllers of setupManager, with what each reads through the cache *)
(* of the manager.  The repositories of KLM read from kcp-system, whatever *)
(* the flags say; the gateway secret itself is read around the cache.      *)
(***************************************************************************)
InControlPlane(kinds) == kinds \X {ControlPlaneNamespace}

\* The keychain reads the Secret again for every pull.
keychainLookupFromFlag(f) == IF f.ociRegistryCredSecret = "" THEN {} ELSE InControlPlane({"Secret"})

\* What is read for a component descriptor.
ComposeCachedDescriptorProvider(f) == keychainLookupFromFlag(f)

\* The service for the certificates of the SKRs reads their Secrets and that of
\* the gateway.
setupSKRCertService(f) == {<<"Secret", f.istioNamespace>>}

\* The transforms for the resources of a Manifest; only that for the deployer
\* module reads anything.
ComposeRenderService(f) ==
    IF "deployer" \in Range(GetRestrictedDefaultModules(f)) THEN InControlPlane({"Secret"}) ELSE {}

setupKcpWatcherReconciler(f) == [name |-> "watcher", reads |-> InControlPlane({"Watcher"})]

SetupReconciler(f) ==
    [name |-> "istio-controller",
     reads |-> {<<"Secret", "istio-system">>,
                <<SetupCertInterface(f).kind, SetupCertInterface(f).namespace>>}]

setupKymaReconciler(f) ==
    [name |-> "kyma",
     reads |-> InControlPlane({"Kyma", "ModuleTemplate", "ModuleReleaseMeta", "Manifest", "Secret", "Watcher"})
               \cup {<<ComposeCertificateRepository(f).kind, ComposeCertificateRepository(f).namespace>>}
               \cup setupSKRCertService(f) \cup ComposeCachedDescriptorProvider(f)]

setupManifestReconciler(f) ==
    [name |-> "manifest",
     reads |-> InControlPlane({"Manifest", "Kyma", "Secret"})
               \cup keychainLookupFromFlag(f) \cup ComposeRenderService(f)]

setupMandatoryModuleReconciler(f) ==
    [name |-> "mandatory-module-installation",
     reads |-> InControlPlane({"Kyma", "ModuleReleaseMeta", "ModuleTemplate", "Manifest"})
               \cup ComposeCachedDescriptorProvider(f)]

setupMandatoryModuleDeletionReconciler(f) ==
    [name |-> "mandatory-module-deletion", reads |-> InControlPlane({"ModuleReleaseMeta", "Manifest"})]

Controllers(f) ==
    {setupKcpWatcherReconciler(f), SetupReconciler(f), setupKymaReconciler(f), setupManifestReconciler(f),
     setupMandatoryModuleReconciler(f), setupMandatoryModuleDeletionReconciler(f)}

Names(controllers) == {c.name : c \in controllers}

NothingBuilt == [kcpAddr |-> [hostname |-> "", port |-> ""],
                 registry |-> [insecure |-> FALSE, reference |-> NoRegistry],
                 window |-> "none", controllers |-> {}]

Init ==
    /\ flags \in Flags
    /\ gateway \in Gateways /\ credSecret \in Secrets /\ policyFiles \in Directories
    /\ process = [r \in Replicas |-> "down"]
    /\ built = [r \in Replicas |-> NothingBuilt]
    /\ lease = [holder |-> Nobody, age |-> 0]
    /\ stored = [kind \in DOMAIN flags.dropStoredVersions |-> {flags.dropStoredVersions[kind], "v1beta2"}]
    /\ cleanup = [r \in Replicas |-> "none"]
    /\ events = 0 /\ faults = 0

(***************************************************************************)
(* main and setupManager, up to the calls that read from the cluster.      *)
(***************************************************************************)
Goto(r, step) == process' = [process EXCEPT ![r] = step]

\* os.Exit, also the end of a process for any other reason.
Exit(r) ==
    /\ Goto(r, "down")
    /\ built' = [built EXCEPT ![r] = NothingBuilt]
    /\ cleanup' = [cleanup EXCEPT ![r] = "none"]

main(r) ==
    /\ process[r] = "down" /\ Validate(flags)
    /\ Goto(r, "webhook")
    /\ UNCHANGED <<flags, gateway, credSecret, policyFiles, built, lease, stored, cleanup, events, faults>>

\* ... after the certificate repository, with the reconcilers of the Watcher and of the
\* gateway secret.
ComposeSkrWebhookManager(r) ==
    /\ process[r] = "webhook"
    /\ IF ComposeCertificateRepositoryError(flags) \/ ResolveKcpAddrError(flags) THEN Exit(r)
       ELSE /\ built' = [built EXCEPT ![r].kcpAddr = ResolveKcpAddr(flags),
                                      ![r].controllers = Names({setupKcpWatcherReconciler(flags), SetupReconciler(flags)})]
            /\ Goto(r, "registry")
            /\ UNCHANGED cleanup
    /\ UNCHANGED <<flags, gateway, credSecret, policyFiles, lease, stored, events, faults>>

\* ... and the provider of the component descriptors.
ComposeRegistry(r) ==
    /\ process[r] = "registry"
    /\ IF getRegistryError(flags) \/ ComposeRepositoryError(flags) THEN Exit(r)
       ELSE /\ built' = [built EXCEPT ![r].registry = NewOCIRegistry(flags)]
            /\ Goto(r, "window")
            /\ UNCHANGED cleanup
    /\ UNCHANGED <<flags, gateway, credSecret, policyFiles, lease, stored, events, faults>>

\* All files of the directory must be readable, the one with the policy valid.
GetMaintenancePolicyPoolError(directory) == "unreadable" \in Range(directory)
GetMaintenancePolicyError(directory) == directory.policy # "valid"

InitializeMaintenanceWindow ==
    IF \/ policyFiles.policy = "absent"
       \/ GetMaintenancePolicyPoolError(policyFiles) \/ GetMaintenancePolicyError(policyFiles)
    THEN "none" ELSE "policy"

\* A policy that cannot be read is logged; the controllers are registered, the
\* clean-up of the stored versions goes off and the manager starts.
initMaintenanceWindow(r) ==
    /\ process[r] = "window"
    /\ built' = [built EXCEPT ![r].window = InitializeMaintenanceWindow,
                              ![r].controllers = Names(Controllers(flags))]
    /\ cleanup' = [cleanup EXCEPT ![r] = IF flags.dropStoredVersions = <<>> THEN "none" ELSE "due"]
    /\ Goto(r, "candidate")
    /\ UNCHANGED <<flags, gateway, credSecret, policyFiles, lease, stored, events, faults>>

(***************************************************************************)
(* cleanupStoredVersions runs in every replica, whoever leads.  An update  *)
(* that meets a conflict is logged.  The API server wants the version that *)
(* is stored to stay.                                                      *)
(***************************************************************************)
DropStoredVersion(kind) == stored[kind] \ {flags.dropStoredVersions[kind]}

cleanupStoredVersions(r) ==
    /\ process[r] \in {"candidate", "leading"} /\ cleanup[r] = "due"
    /\ cleanup' = [cleanup EXCEPT ![r] = "done"]
    /\ \E conflict \in SUBSET DOMAIN stored :
        /\ faults' = (IF conflict # {} THEN faults + 1 ELSE faults) /\ faults' <= MaxFaults
        /\ stored' = [kind \in DOMAIN stored |->
              IF kind \in conflict THEN stored[kind] ELSE DropStoredVersion(kind)]
    /\ UNCHANGED <<flags, gateway, credSecret, policyFiles, process, built, lease, events>>

(***************************************************************************)
(* The leader election of the manager: the leader renews its lease, waits  *)
(* RetryPeriod after each renewal and gives up when it cannot renew for    *)
(* RenewDeadline.  A candidate takes a lease that was not renewed for      *)
(* LeaseDuration, also when it was its own before a restart: an identity   *)
(* is that of a process.  The end of a process does not release a lease.   *)
(***************************************************************************)
Deadline(election) == election.retryPeriod + election.renewDeadline

Acquire(r) ==
    LET election == configManager(flags)
    IN  /\ process[r] = "candidate"
        /\ election.leaderElection => lease.holder = Nobody \/ lease.age >= election.leaseDuration
        /\ Goto(r, "leading")
        /\ lease' = IF election.leaderElection THEN [holder |-> r, age |-> 0] ELSE lease
        /\ UNCHANGED <<flags, gateway, credSecret, policyFiles, built, stored, cleanup, events, faults>>

GivesUp(r) ==
    /\ process[r] = "leading" /\ configManager(flags).leaderElection
    /\ lease.holder # r \/ lease.age >= Deadline(configManager(flags))

\* mgr.Start returns, and main exits with runtimeProblemExitCode.
LosesLease(r) ==
    /\ GivesUp(r)
    /\ Exit(r)
    /\ UNCHANGED <<flags, gateway, credSecret, policyFiles, lease, stored, events, faults>>

\* The age of the lease of an ended process reaches the next duration that matters.
\* Whoever must give up does so first.
Ages ==
    LET election == configManager(flags)
        later == {a \in {Deadline(election), election.leaseDuration} : a > lease.age}
    IN  later # {} /\ lease' = [lease EXCEPT !.age = CHOOSE a \in later : \A b \in later : a <= b]

Tick ==
    /\ lease.holder # Nobody /\ process[lease.holder] # "leading"
    /\ \A r \in Replicas : ~GivesUp(r)
    /\ Ages
    /\ UNCHANGED <<flags, gateway, credSecret, policyFiles, process, built, stored, cleanup, events, faults>>

(***************************************************************************)
(* Everybody else.                                                         *)
(***************************************************************************)
Event == events < MaxEvents /\ events' = events + 1

\* The API server is out of reach of the leader.
RenewalsFail ==
    /\ Event /\ lease.holder # Nobody /\ process[lease.holder] = "leading"
    /\ ~GivesUp(lease.holder) /\ Ages
    /\ UNCHANGED <<flags, gateway, credSecret, policyFiles, process, built, stored, cleanup, faults>>

ClusterChanges ==
    /\ Event
    /\ \/ gateway' \in Gateways \ {gateway} /\ UNCHANGED <<credSecret, policyFiles>>
       \/ credSecret' \in Secrets \ {credSecret} /\ UNCHANGED <<gateway, policyFiles>>
       \/ policyFiles' \in Directories \ {policyFiles} /\ UNCHANGED <<gateway, credSecret>>
    /\ UNCHANGED <<flags, process, built, lease, stored, cleanup, faults>>

Stops(r) ==
    /\ Event /\ process[r] # "down"
    /\ Exit(r)
    /\ UNCHANGED <<flags, gateway, credSecret, policyFiles, lease, stored, faults>>

setupManager(r) ==
    \/ main(r) \/ ComposeSkrWebhookManager(r) \/ ComposeRegistry(r) \/ initMaintenanceWindow(r)
    \/ Acquire(r) \/ LosesLease(r)

Runs(r) == setupManager(r) \/ cleanupStoredVersions(r)

Next ==
    \/ \E r \in Replicas : Runs(r) \/ Stops(r)
    \/ ClusterChanges \/ RenewalsFail \/ Tick

Spec == Init /\ [][Next]_vars

\* The kubelet starts a process that ended, and the clock goes on.
Fairness ==
    /\ \A r \in Replicas : WF_vars(Runs(r))
    /\ WF_vars(Tick)
FairSpec == Spec /\ Fairness

(***************************************************************************)
(* Properties.                                                             *)
(***************************************************************************)
TypeOK ==
    /\ flags \in FlagVar /\ gateway \in Gateways /\ credSecret \in Secrets /\ policyFiles \in Directories
    /\ process \in [Replicas -> {"down", "webhook", "registry", "window", "candidate", "leading"}]
    /\ \A r \in Replicas : built[r].window \in {"none", "policy"} /\ Cardinality(built[r].controllers) <= 6
    /\ lease.holder \in Replicas \cup {Nobody} /\ lease.age \in Nat
    /\ cleanup \in [Replicas -> {"none", "due", "done"}]

\* Two replicas never run their controllers at the same time.
OneLeader == flags.leaderElect => Cardinality({r \in Replicas : process[r] = "leading"}) <= 1

CanBoot ==
    /\ Validate(flags) /\ ~ComposeCertificateRepositoryError(flags) /\ ~ResolveKcpAddrError(flags)
    /\ ~getRegistryError(flags) /\ getRegistry(flags).host # ""

\* A replica that leads has all controllers, reads through the cache only what the
\* cache holds and the scheme knows, and pulls from one registry without a scheme.
Works(r) ==
    /\ process[r] = "leading"
    /\ built[r].controllers =
           {"watcher", "istio-controller", "kyma", "manifest", "mandatory-module-installation",
            "mandatory-module-deletion"}
    /\ \A c \in Controllers(flags) : c.reads \subseteq SetupCacheOptions(flags)
    /\ \A read \in SetupCacheOptions(flags) : read[1] \in registerSchemas
    /\ built[r].registry.reference.scheme = "" /\ built[r].registry.reference.host # ""

\* One replica serves.  Two never run their controllers at the same time, whatever is
\* renewed, stopped or started when: a leader that cannot renew is gone before its
\* lease can be taken over (configManager, with the deadlines of DefineFlagVar).  And
\* once the cluster has what setupManager asks for, KLM comes up and works, after any
\* number of exits; by then the old stored versions are dropped, unless an update met
\* a conflict (cleanupStoredVersions does not try again).
OneReplicaServes ==
    /\ []OneLeader
    /\ <>[](CanBoot =>
          /\ \E r \in Replicas : Works(r)
          /\ faults > 0 \/ \A kind \in DOMAIN stored : stored[kind] = {"v1beta2"})
=============================================================================
