---------------------------- MODULE KymaDeletion ----------------------------
(***************************************************************************)
(* The deletion of a Kyma: processDeletion of the Kyma controller, the     *)
(* deletion service with its twelve use cases, and the repositories they   *)
(* call.  Every reconciliation looks for the first applicable use case,    *)
(* executes it and returns; a use case is a look and, later, a write, and  *)
(* other actors take steps in between: the installation controller of      *)
(* mandatory modules, the Manifest controller, the SKR, cert-manager, the  *)
(* garbage collector and the operator of the SKR.                          *)
(***************************************************************************)
EXTENDS Naturals, Sequences, FiniteSets

CONSTANTS
    Regular,     \* the Manifests of the modules in the spec of the Kyma
    Mandatory,   \* the Manifests of mandatory modules
    Webhook,     \* the resources of the SKR webhook
    Faults,      \* the failures that may happen, a subset of FaultKinds
    MaxFaults,   \* how many of them
    Changes,     \* what may happen outside, a subset of ChangeKinds
    MaxChanges   \* how many reconciliations of the live Kyma and changes

VARIABLES
    kyma,        \* the Kyma in the KCP
    cache,       \* the Kyma in the cache of the controllers
    read,        \* the Kyma as the current reconciliation read it
    manifests,   \* the Manifests of the Kyma in the KCP
    listed,      \* the same in the cache
    installing,  \* an installation of mandatory modules is under way
    cert,        \* what there is of the watcher certificate in the KCP
    skr,         \* what KLM put into the SKR
    up,          \* the SKR exists
    access,      \* the access Secret exists
    client,      \* a client of the SKR is cached
    metrics,     \* the process reports metrics of the Kyma
    pc,          \* the position of the use case looked at, 0 between reconciliations
    doing,       \* it was found applicable
    faults,      \* failures so far
    changes      \* changes so far

kcpVars == <<kyma, manifests, installing, cert>>
skrVars == <<skr, up, access>>
vars == <<kyma, cache, read, manifests, listed, installing, cert, skr, up, access,
          client, metrics, pc, doing, faults, changes>>

Crds == {"moduletemplate", "modulereleasemeta", "kyma"}
Finalizers == {"Kyma", "RuntimeMonitoring"}
FaultKinds == {"skr", "kcp", "init", "restart", "secretList", "lateList", "expiry"}
ChangeKinds == {"install", "mandatory", "skrKyma", "teardown", "force"}

ASSUME ConstantsAssumption ==
    /\ Regular \cap Mandatory = {}
    /\ Faults \subseteq FaultKinds
    /\ Changes \subseteq ChangeKinds
    /\ MaxFaults \in Nat
    /\ MaxChanges \in Nat

Manifests == Regular \cup Mandatory

\* Mutants of UseCases: the modules go before the SKR shows it, the catalog
\* before the webhook.
UseCasesUnannounced ==
    << "SetKcpKymaStateDeleting", "DeleteManifests", "SetSkrKymaStateDeleting",
       "DeleteWatcherCertificateSetup", "DeleteSkrWebhookResources",
       "DeleteSkrModuleTemplateCrd", "DeleteSkrModuleReleaseMetaCrd", "DeleteSkrKyma",
       "DeleteSkrKymaCrd", "DeleteMetrics", "EnsureManifestDeletion", "DropKymaFinalizer" >>

UseCasesCatalogFirst ==
    << "SetKcpKymaStateDeleting", "SetSkrKymaStateDeleting", "DeleteManifests",
       "DeleteWatcherCertificateSetup", "DeleteSkrModuleTemplateCrd",
       "DeleteSkrModuleReleaseMetaCrd", "DeleteSkrWebhookResources", "DeleteSkrKyma",
       "DeleteSkrKymaCrd", "DeleteMetrics", "EnsureManifestDeletion", "DropKymaFinalizer" >>

\* The order NewService enforces.
UseCases == << "SetKcpKymaStateDeleting", "SetSkrKymaStateDeleting", "DeleteManifests",
               "DeleteWatcherCertificateSetup", "DeleteSkrWebhookResources",
               "DeleteSkrModuleTemplateCrd", "DeleteSkrModuleReleaseMetaCrd", "DeleteSkrKyma",
               "DeleteSkrKymaCrd", "DeleteMetrics", "EnsureManifestDeletion", "DropKymaFinalizer" >>

\* The use cases that talk to the SKR, and are left out without a client.
SkrUseCases == {"SetSkrKymaStateDeleting", "DeleteSkrWebhookResources",
                "DeleteSkrModuleTemplateCrd", "DeleteSkrModuleReleaseMetaCrd",
                "DeleteSkrKyma", "DeleteSkrKymaCrd"}

Kymas == [phase : {"live", "deleting", "gone"}, state : {"Other", "Error", "Deleting"},
          fins : SUBSET Finalizers]

Skrs == [kyma : {"none", "Other", "Deleting"}, webhook : SUBSET Webhook,
         crd : [Crds -> {"none", "present", "terminating"}]]

Presence == [Manifests -> {"none", "live", "deleting"}]

\* Between reconciliations nothing is remembered of what was read.
Unread == [phase |-> "live", state |-> "Other", fins |-> {}]
Unlisted == [m \in Manifests |-> "none"]

\* A Kyma that was not reconciled yet, or one that is fully installed.
Init ==
    /\ \E other \in SUBSET {"RuntimeMonitoring"} :
          kyma = [phase |-> "live", state |-> "Other", fins |-> {"Kyma"} \cup other]
    /\ cache = kyma
    /\ read = Unread
    /\ \/ /\ manifests = [m \in Manifests |-> "none"]
          /\ cert = {}
          /\ skr = [kyma |-> "none", webhook |-> {}, crd |-> [c \in Crds |-> "none"]]
       \/ /\ manifests = [m \in Manifests |-> "live"]
          /\ cert = {"certificate", "secret"}
          /\ skr = [kyma |-> "Other", webhook |-> Webhook, crd |-> [c \in Crds |-> "present"]]
    /\ listed = Unlisted
    /\ installing = FALSE
    /\ up = TRUE
    /\ access = TRUE
    /\ client = FALSE
    /\ metrics = FALSE
    /\ pc = 0
    /\ doing = FALSE
    /\ faults = 0
    /\ changes = 0

Fault(kind) ==
    /\ kind \in Faults
    /\ faults < MaxFaults
    /\ faults' = faults + 1

Change(kind) ==
    /\ kind \in Changes
    /\ changes < MaxChanges
    /\ changes' = changes + 1

----------------------------------------------------------------------------
(* The start of a reconciliation.  The watch has delivered the Manifests   *)
(* by then, as reconciliations of a deletion are a second apart, unless    *)
(* the list is late.                                                       *)

UseCaseOf(k) == UseCases[k]

\* Mutant of ClientAfterInit: a missing access Secret goes unnoticed.
ClientAlways == TRUE

\* Init of the SKR context: a cached client, a new one, or none when the
\* access Secret is not found, which the caller lets pass.
ClientAfterInit == client \/ access

\* A cache that has not seen the Manifests created last.
LateList == [m \in Manifests |-> IF manifests[m] = "live" THEN "none" ELSE manifests[m]]

\* Reconcile of a Kyma that is being deleted enters the deletion service.
StartDeletion ==
    /\ pc = 0
    /\ cache.phase = "deleting"
    /\ read' = cache
    /\ \/ listed' = manifests /\ client' = ClientAfterInit /\ UNCHANGED faults
       \/ Fault("secretList") /\ ~client /\ listed' = manifests /\ UNCHANGED client
       \/ Fault("lateList") /\ listed' = LateList /\ client' = ClientAfterInit
    /\ pc' = 1
    /\ UNCHANGED <<kcpVars, skrVars, cache, metrics, doing, changes>>

\* UpdateStatusForExistingModules: the status patch, with metrics, fails for
\* a Kyma that was changed since it was read.
WriteStatus(state) ==
    IF kyma # cache THEN UNCHANGED <<kyma, metrics>>
    ELSE kyma' = [kyma EXCEPT !.state = state] /\ metrics' = TRUE

\* No SKR context: the status becomes Error and the work queue retries.
InitFails ==
    /\ pc = 0
    /\ cache.phase # "gone"
    /\ ~client
    /\ access
    /\ Fault("init")
    /\ WriteStatus("Error")
    /\ UNCHANGED <<cache, read, manifests, listed, installing, cert, skrVars, client, pc, doing, changes>>

\* How far a reconciliation of the live Kyma came: the CRDs, the SKR Kyma,
\* then Manifests, webhook and certificate concurrently.
Installed(far, ms, ws, cs) ==
    /\ skr' = [kyma    |-> IF far >= 2 /\ skr.kyma = "none" THEN "Other" ELSE skr.kyma,
               webhook |-> IF far >= 3 THEN skr.webhook \cup ws ELSE skr.webhook,
               crd     |-> [c \in Crds |-> "present"]]
    /\ manifests' = [m \in Manifests |->
                        IF far >= 3 /\ m \in ms /\ manifests[m] = "none" THEN "live" ELSE manifests[m]]
    /\ cert' = IF far >= 3 THEN cert \cup cs ELSE cert

\* Mutant of ReconcileLive: the deletion timestamp is not looked at.
ReconcileAlways ==
    /\ pc = 0
    /\ cache.phase # "gone"
    /\ Change("install")
    /\ up
    /\ access
    /\ client' = TRUE
    /\ \E far \in 1..3, ms \in {{}, Regular}, ws \in {{}, Webhook}, cs \in {{}, {"certificate"}} :
          Installed(far, ms, ws, cs)
    /\ \E state \in {"Other", "Error"} : WriteStatus(state)
    /\ UNCHANGED <<cache, read, listed, installing, up, access, pc, doing, faults>>

\* Reconcile of a Kyma read as live, which may be deleted in the meantime.
ReconcileLive ==
    /\ pc = 0
    /\ cache.phase = "live"
    /\ Change("install")
    /\ up
    /\ access
    /\ client' = TRUE
    /\ \E far \in 1..3, ms \in {{}, Regular}, ws \in {{}, Webhook}, cs \in {{}, {"certificate"}} :
          Installed(far, ms, ws, cs)
    /\ \E state \in {"Other", "Error"} : WriteStatus(state)
    /\ UNCHANGED <<cache, read, listed, installing, up, access, pc, doing, faults>>

\* The Kyma is not found: what is left of its certificate is deleted.
ReconcileGone ==
    /\ pc = 0
    /\ cache.phase = "gone"
    /\ cert # {}
    /\ cert' = {}
    /\ UNCHANGED <<kyma, cache, read, manifests, listed, installing, skrVars, client, metrics, pc, doing,
                   faults, changes>>

----------------------------------------------------------------------------
(* The use cases: when each is applicable and what it does.                *)

CrdOf(u) == CASE u = "DeleteSkrModuleTemplateCrd"    -> "moduletemplate"
              [] u = "DeleteSkrModuleReleaseMetaCrd" -> "modulereleasemeta"
              [] u = "DeleteSkrKymaCrd"              -> "kyma"

SkrApplicable(u) ==
    CASE u = "SetSkrKymaStateDeleting"   -> skr.kyma = "Other"
      [] u = "DeleteSkrWebhookResources" -> read.state = "Deleting" /\ skr.webhook # {}
      [] u = "DeleteSkrKyma"             -> skr.kyma # "none"
      [] OTHER                           -> skr.crd[CrdOf(u)] # "none"

\* Without a client the SKR use cases are not applicable.
ApplicableWithClientOnly(u) == client /\ SkrApplicable(u)

\* Mutant of IsApplicable: the barrier lets Manifests under deletion pass.
LiveManifestsOnly(u) ==
    CASE u \in SkrUseCases                      -> ApplicableWithClientOnly(u)
      [] u = "SetKcpKymaStateDeleting"       -> read.state # "Deleting"
      [] u = "DeleteManifests"               -> \E m \in Manifests : listed[m] = "live"
      [] u = "DeleteWatcherCertificateSetup" -> read.state = "Deleting" /\ cert # {}
      [] u = "DeleteMetrics"                 -> metrics
      [] u = "EnsureManifestDeletion"        -> \E m \in Manifests : listed[m] = "live"
      [] u = "DropKymaFinalizer"             -> "Kyma" \in read.fins

IsApplicable(u) ==
    CASE u \in SkrUseCases                      -> ApplicableWithClientOnly(u)
      [] u = "SetKcpKymaStateDeleting"       -> read.state # "Deleting"
      [] u = "DeleteManifests"               -> \E m \in Manifests : listed[m] = "live"
      [] u = "DeleteWatcherCertificateSetup" -> read.state = "Deleting" /\ cert # {}
      [] u = "DeleteMetrics"                 -> metrics
      [] u = "EnsureManifestDeletion"        -> \E m \in Manifests : listed[m] # "none"
      [] u = "DropKymaFinalizer"             -> "Kyma" \in read.fins

\* A call to the SKR is about to be made.
CallsSkr(k) == k \in 1..Len(UseCases) /\ UseCaseOf(k) \in SkrUseCases /\ client

Executes(u) == pc > 0 /\ doing /\ UseCaseOf(pc) = u

\* The use case returns its result, and with it the reconciliation ends.
Return == pc' = 0 /\ doing' = FALSE /\ read' = Unread /\ listed' = Unlisted

Look ==
    /\ pc \in 1..Len(UseCases)
    /\ ~doing
    /\ CallsSkr(pc) => up
    /\ IF IsApplicable(UseCaseOf(pc)) THEN doing' = TRUE /\ UNCHANGED pc
                                      ELSE pc' = pc + 1 /\ UNCHANGED doing
    /\ UNCHANGED <<kcpVars, skrVars, cache, read, listed, client, metrics, faults, changes>>

\* No use case is applicable: the error makes the work queue retry.
NoUseCaseApplicable ==
    /\ pc = Len(UseCases) + 1
    /\ Return
    /\ UNCHANGED <<kcpVars, skrVars, cache, client, metrics, faults, changes>>

\* Mutant of SetKcpKymaStateDeleting: a state the API does not know.
SetKcpKymaStateTerminating ==
    /\ Executes("SetKcpKymaStateDeleting")
    /\ Return
    /\ kyma' = IF kyma # read THEN kyma ELSE [kyma EXCEPT !.state = "Terminating"]
    /\ UNCHANGED <<manifests, installing, cert, skrVars, cache, client, metrics, faults, changes>>

\* The status patch carries the resourceVersion that was read.
SetKcpKymaStateDeleting ==
    /\ Executes("SetKcpKymaStateDeleting")
    /\ Return
    /\ kyma' = IF kyma # read THEN kyma ELSE [kyma EXCEPT !.state = "Deleting"]
    /\ UNCHANGED <<manifests, installing, cert, skrVars, cache, client, metrics, faults, changes>>

SkrUnchanged == UNCHANGED <<kcpVars, up, access, cache, client, metrics, faults, changes>>

\* The status of a Kyma that vanished cannot be patched.
SetSkrKymaStateDeleting ==
    /\ Executes("SetSkrKymaStateDeleting")
    /\ up /\ client
    /\ Return
    /\ skr' = IF skr.kyma = "none" THEN skr ELSE [skr EXCEPT !.kyma = "Deleting"]
    /\ SkrUnchanged

\* DeleteAllOf gives every Manifest of the Kyma a deletion timestamp, also
\* those the cache does not know yet.
DeletedFrom(ms) == [m \in Manifests |-> IF m \in ms /\ manifests[m] = "live" THEN "deleting" ELSE manifests[m]]

DeleteManifests ==
    /\ Executes("DeleteManifests")
    /\ Return
    /\ \/ manifests' = DeletedFrom(Manifests) /\ UNCHANGED faults
       \/ Fault("kcp") /\ \E ms \in SUBSET Manifests : manifests' = DeletedFrom(ms)
    /\ UNCHANGED <<kyma, installing, cert, skrVars, cache, client, metrics, changes>>

\* The Certificate first, so that cert-manager does not issue the Secret again.
DeleteWatcherCertificateSetup ==
    /\ Executes("DeleteWatcherCertificateSetup")
    /\ Return
    /\ \/ cert' = {} /\ UNCHANGED faults
       \/ cert' = cert \ {"certificate"} /\ Fault("kcp")
    /\ UNCHANGED <<kyma, manifests, installing, skrVars, cache, client, metrics, changes>>

DeleteSkrWebhookResources ==
    /\ Executes("DeleteSkrWebhookResources")
    /\ up /\ client
    /\ Return
    /\ \/ skr' = [skr EXCEPT !.webhook = {}] /\ UNCHANGED faults
       \/ Fault("skr") /\ \E ws \in SUBSET skr.webhook : skr' = [skr EXCEPT !.webhook = ws]
    /\ UNCHANGED <<kcpVars, up, access, cache, client, metrics, changes>>

DeleteSkrCrd(u) ==
    /\ Executes(u)
    /\ up /\ client
    /\ Return
    /\ skr' = IF skr.crd[CrdOf(u)] = "none" THEN skr ELSE [skr EXCEPT !.crd[CrdOf(u)] = "terminating"]
    /\ SkrUnchanged

DeleteSkrKyma ==
    /\ Executes("DeleteSkrKyma")
    /\ up /\ client
    /\ Return
    /\ skr' = [skr EXCEPT !.kyma = "none"]
    /\ SkrUnchanged

DeleteMetrics ==
    /\ Executes("DeleteMetrics")
    /\ Return
    /\ metrics' = FALSE
    /\ UNCHANGED <<kcpVars, skrVars, cache, client, faults, changes>>

EnsureManifestDeletion ==
    /\ Executes("EnsureManifestDeletion")
    /\ Return
    /\ UNCHANGED <<kcpVars, skrVars, cache, client, metrics, faults, changes>>

\* An object under deletion goes with its last finalizer.
WithFinalizers(fins) ==
    [kyma EXCEPT !.fins = fins, !.phase = IF fins = {} /\ @ = "deleting" THEN "gone" ELSE @]

\* DropFinalizer writes the list of the cache without its own finalizer.  The
\* API server refuses a list that brings a finalizer back.
DropKymaFinalizer ==
    /\ Executes("DropKymaFinalizer")
    /\ Return
    /\ LET rest == cache.fins \ {"Kyma"} IN
          kyma' = IF "Kyma" \in cache.fins /\ rest \subseteq kyma.fins THEN WithFinalizers(rest) ELSE kyma
    /\ UNCHANGED <<manifests, installing, cert, skrVars, cache, client, metrics, faults, changes>>

\* A failed call to the SKR, or one without a client, ends the reconciliation.
\* Only an error that looks like a lost connection makes the next one look for a
\* new client.
SkrCallFails ==
    /\ pc > 0
    /\ CallsSkr(pc) \/ (doing /\ UseCaseOf(pc) \in SkrUseCases)
    /\ IF up /\ client THEN Fault("skr") ELSE UNCHANGED faults
    /\ Return
    /\ client' \in {FALSE, client}
    /\ UNCHANGED <<kcpVars, skrVars, cache, metrics, changes>>

\* A failed call to the KCP ends the reconciliation; a restart also empties
\* the memory of the process.
Abort ==
    /\ pc > 0
    /\ Return
    /\ \/ Fault("kcp") /\ UNCHANGED <<client, metrics>>
       \/ Fault("restart") /\ client' = FALSE /\ metrics' = FALSE
    /\ UNCHANGED <<kcpVars, skrVars, cache, changes>>

----------------------------------------------------------------------------
(* The other actors.                                                       *)

\* The user or the provisioner deletes the Kyma.
RequestDeletion ==
    /\ kyma.phase = "live"
    /\ kyma' = [kyma EXCEPT !.phase = "deleting"]
    /\ UNCHANGED <<cache, read, manifests, listed, installing, cert, skrVars, client, metrics, pc, doing,
                   faults, changes>>

\* The watch delivers the Kyma.
CacheCatchesUp ==
    /\ cache # kyma
    /\ cache' = kyma
    /\ UNCHANGED <<kcpVars, read, listed, skrVars, client, metrics, pc, doing, faults, changes>>

\* The watch delivers the Manifests during a reconciliation.
ListCatchesUp ==
    /\ pc > 0
    /\ listed # manifests
    /\ listed' = manifests
    /\ UNCHANGED <<kcpVars, cache, read, skrVars, client, metrics, pc, doing, faults, changes>>

\* HandleInstallation of mandatory modules: the Kyma is read from the cache,
\* the Manifests are applied later.
StartInstallation ==
    /\ ~installing
    /\ cache.phase = "live"
    /\ Change("mandatory")
    /\ installing' = TRUE
    /\ UNCHANGED <<kyma, cache, read, manifests, listed, cert, skrVars, client, metrics, pc, doing, faults>>

ApplyMandatory ==
    /\ installing
    /\ installing' = FALSE
    /\ manifests' = [m \in Manifests |->
                        IF m \in Mandatory /\ manifests[m] = "none" THEN "live" ELSE manifests[m]]
    /\ UNCHANGED <<kyma, cache, read, listed, cert, skrVars, client, metrics, pc, doing, faults, changes>>

\* The Manifest controller finishes a deletion.
ManifestGone(m) ==
    /\ manifests[m] = "deleting"
    /\ manifests' = [manifests EXCEPT ![m] = "none"]
    /\ UNCHANGED <<kyma, cache, read, listed, installing, cert, skrVars, client, metrics, pc, doing,
                   faults, changes>>

\* A Manifest without its owner is collected.
GarbageCollect(m) ==
    /\ kyma.phase = "gone"
    /\ manifests[m] = "live"
    /\ manifests' = [manifests EXCEPT ![m] = "deleting"]
    /\ UNCHANGED <<kyma, cache, read, listed, installing, cert, skrVars, client, metrics, pc, doing,
                   faults, changes>>

CertManagerIssues ==
    /\ "certificate" \in cert
    /\ "secret" \notin cert
    /\ cert' = cert \cup {"secret"}
    /\ UNCHANGED <<kyma, cache, read, manifests, listed, installing, skrVars, client, metrics, pc, doing,
                   faults, changes>>

MonitoringReleases ==
    /\ kyma.phase = "deleting"
    /\ "RuntimeMonitoring" \in kyma.fins
    /\ kyma' = WithFinalizers(kyma.fins \ {"RuntimeMonitoring"})
    /\ UNCHANGED <<cache, read, manifests, listed, installing, cert, skrVars, client, metrics, pc, doing,
                   faults, changes>>

CrdGone(c) ==
    /\ up
    /\ skr.crd[c] = "terminating"
    /\ skr' = [skr EXCEPT !.crd[c] = "none", !.kyma = IF c = "kyma" THEN "none" ELSE @]
    /\ UNCHANGED <<kcpVars, up, access, cache, read, listed, client, metrics, pc, doing, faults, changes>>

\* The user of the SKR deletes its Kyma.
UserDeletesSkrKyma ==
    /\ up
    /\ skr.kyma # "none"
    /\ Change("skrKyma")
    /\ skr' = [skr EXCEPT !.kyma = "none"]
    /\ UNCHANGED <<kcpVars, up, access, cache, read, listed, client, metrics, pc, doing, faults>>

\* Someone removes all finalizers by hand.
ForceRelease ==
    /\ kyma.phase = "deleting"
    /\ Change("force")
    /\ kyma' = WithFinalizers({})
    /\ UNCHANGED <<cache, read, manifests, listed, installing, cert, skrVars, client, metrics, pc, doing, faults>>

TearDownSkr ==
    /\ up
    /\ kyma.phase # "live"
    /\ Change("teardown")
    /\ up' = FALSE
    /\ UNCHANGED <<kcpVars, skr, access, cache, read, listed, client, metrics, pc, doing, faults>>

\* The access Secret goes after the SKR.
RemoveAccess ==
    /\ ~up
    /\ access
    /\ access' = FALSE
    /\ UNCHANGED <<kcpVars, skr, up, cache, read, listed, client, metrics, pc, doing, faults, changes>>

\* The cached client is a day old: every call looks it up again, so that it may
\* be missed in the middle of a reconciliation.
ClientExpires ==
    /\ client
    /\ client' = FALSE
    /\ IF pc = 0 THEN UNCHANGED faults ELSE Fault("expiry")
    /\ UNCHANGED <<kcpVars, skrVars, cache, read, listed, metrics, pc, doing, changes>>

----------------------------------------------------------------------------

Execute ==
    \/ SetKcpKymaStateDeleting
    \/ SetSkrKymaStateDeleting
    \/ DeleteManifests
    \/ DeleteWatcherCertificateSetup
    \/ DeleteSkrWebhookResources
    \/ DeleteSkrCrd("DeleteSkrModuleTemplateCrd")
    \/ DeleteSkrCrd("DeleteSkrModuleReleaseMetaCrd")
    \/ DeleteSkrKyma
    \/ DeleteSkrCrd("DeleteSkrKymaCrd")
    \/ DeleteMetrics
    \/ EnsureManifestDeletion
    \/ DropKymaFinalizer

Reconcile == StartDeletion \/ Look \/ Execute \/ NoUseCaseApplicable \/ SkrCallFails \/ ReconcileGone

Delivery == CacheCatchesUp \/ ListCatchesUp

Surroundings ==
    \/ ApplyMandatory
    \/ \E m \in Manifests : ManifestGone(m) \/ GarbageCollect(m)
    \/ CertManagerIssues
    \/ MonitoringReleases
    \/ \E c \in Crds : CrdGone(c)
    \/ RemoveAccess
    \/ ClientExpires

Disturbances ==
    InitFails \/ ReconcileLive \/ Abort \/ RequestDeletion \/ StartInstallation \/ UserDeletesSkrKyma
    \/ TearDownSkr \/ ForceRelease

Next == Reconcile \/ Delivery \/ Surroundings \/ Disturbances

Spec == Init /\ [][Next]_vars

----------------------------------------------------------------------------
(* Properties.                                                             *)

Values ==
    /\ kyma \in Kymas /\ cache \in Kymas /\ read \in Kymas
    /\ manifests \in Presence /\ listed \in Presence
    /\ cert \in SUBSET {"certificate", "secret"}
    /\ skr \in Skrs
    /\ pc \in 0..(Len(UseCases) + 1)
    /\ faults \in 0..MaxFaults /\ changes \in 0..MaxChanges

Flags ==
    /\ installing \in BOOLEAN /\ up \in BOOLEAN /\ access \in BOOLEAN
    /\ client \in BOOLEAN /\ metrics \in BOOLEAN /\ doing \in BOOLEAN

\* The variables stay within their types: the status, the finalizers and the
\* presence of everything the use cases look at.
TypeOK == Values /\ Flags

SkrClean == skr.kyma = "none" /\ skr.webhook = {} /\ \A c \in Crds : skr.crd[c] = "none"

Released == "Kyma" \notin kyma.fins

\* When DropKymaFinalizer has released the Kyma, the Manifests of its modules
\* are gone, the watcher certificate and its Secret are gone, and an SKR that
\* still exists holds neither webhook nor CRDs nor Kyma: a client that is
\* missing skips the SKR use cases only when there is no SKR any more.
NothingLeftBehind ==
    Released => /\ \A m \in Regular : manifests[m] = "none"
                /\ cert = {}
                /\ up => SkrClean

\* The user sees Deleting in the SKR before the first module goes: while the
\* Kyma exists, DeleteManifests takes a Manifest only when the SKR Kyma shows
\* the state, was deleted, or the SKR is gone.
ShownBeforeDeleted ==
    [][\A m \in Manifests :
          manifests[m] = "live" /\ manifests'[m] = "deleting" /\ kyma.phase # "gone"
             => ~up \/ skr.kyma # "Other"]_vars

\* The SKR is dismantled in the order of enforceUseCaseOrder, whatever fails
\* in between: the webhook goes after the modules and the certificate, the
\* catalog after the webhook, the CRD of the Kyma last.
DismantledInOrder ==
    [][/\ ~(skr.webhook \subseteq skr'.webhook) =>
             cert = {} /\ \A m \in Regular : manifests[m] # "live"
       /\ \A c \in Crds : skr.crd[c] = "present" /\ skr'.crd[c] = "terminating" =>
             /\ skr.webhook = {}
             /\ c = "kyma" => skr.kyma = "none" /\ \A d \in Crds \ {c} : skr.crd[d] = "none"]_vars

\* The deletion implements its promise.
Stage == IF Released THEN "released" ELSE IF cache.phase = "live" THEN "kept" ELSE "dismantling"

Left ==
    {m \in Regular : manifests[m] # "none"}
    \cup (IF cert = {} THEN {} ELSE {"certificate"})
    \cup (IF up THEN {c \in Crds : skr.crd[c] # "none"} \cup skr.webhook
                     \cup (IF skr.kyma # "none" THEN {"skrKyma"} ELSE {})
                ELSE {})

Parts == Regular \cup Crds \cup Webhook \cup {"certificate", "skrKyma"}

Promise == INSTANCE Teardown WITH stage <- Stage, left <- Left

\* The deletion service implements Teardown: after the request was seen nothing
\* of a module, the certificate or the SKR comes back, and the finalizer is
\* dropped only when all of it is gone.
ImplementsTeardown == Promise!Spec

----------------------------------------------------------------------------

\* The work queue retries, watches deliver, the controllers and clusters around
\* finish what was deleted, and a cached client expires with its time to live.
Fairness ==
    /\ WF_vars(Reconcile)
    /\ WF_vars(CacheCatchesUp)
    /\ WF_vars(ApplyMandatory)
    /\ \A m \in Manifests : WF_vars(ManifestGone(m)) /\ WF_vars(GarbageCollect(m))
    /\ WF_vars(MonitoringReleases)
    /\ \A c \in Crds : WF_vars(CrdGone(c))
    /\ WF_vars(RemoveAccess)
    /\ SF_vars(ClientExpires)

FairSpec == Spec /\ Fairness

\* A requested deletion completes although calls fail, the process restarts,
\* the SKR disappears, mandatory modules are installed late or the finalizers
\* are removed by hand: the Kyma goes, and with it every Manifest, those of
\* mandatory modules included, and the certificate.
DeletionCompletes ==
    kyma.phase = "deleting" ~>
       /\ kyma.phase = "gone"
       /\ cert = {}
       /\ \A m \in Manifests : manifests[m] = "none"

=============================================================================
