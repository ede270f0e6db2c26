------------------------------ MODULE Metrics ------------------------------
(***************************************************************************)
(* The metrics that KLM keeps per Kyma and per Manifest in the memory of   *)
(* its process (internal/pkg/metrics), who writes them and who removes     *)
(* them.  A gauge that has a series per state, one of them 1 and the       *)
(* others 0 (calcStateValue), is a function to the state that is 1.        *)
(* Counters of requeues are left out: nothing reads or resets them.        *)
(***************************************************************************)
EXTENDS Naturals, FiniteSets, Functions

CONSTANTS
    Kymas,        \* names; each Kyma has one module and one mandatory module
    Changes,      \* what happens to a Kyma: a subset of {"label", "relabel", "overdue", "force"}
    MaxChanges    \* bound on such changes, failed calls and restarts

VARIABLES
    kymas,        \* per name: the Kyma
    manifests,    \* per Kyma: the Manifest of its mandatory module
    kymaState,    \* <<kyma, shoot, instance>> -> state
    moduleState,  \* <<kyma, shoot, instance>> -> state of the module
    mandatory,    \* kyma -> state of the mandatory module
    duration,     \* the Manifests with a reconciliation that took a minute
    certNotRenew, \* the Kymas with a certificate that is not renewed
    changes

gauges == <<kymaState, moduleState, mandatory, duration, certNotRenew>>
vars == <<kymas, manifests, gauges, changes>>

States == {"Ready", "Error"}
None == "none"
Empty == [x \in {} |-> None]

\* The gauge with the value set for the series.
With(gauge, series, value) == [s \in DOMAIN gauge \cup {series} |-> IF s = series THEN value ELSE gauge[s]]

\* The gauge without the series of a Kyma, whatever their other labels.
DeletePartialMatch(gauge, k) == Restrict(gauge, {s \in DOMAIN gauge : s[1] # k})

Init ==
    /\ \E shoot \in {None, "shoot"} : kymas = [k \in Kymas |->
          [phase |-> "live", state |-> None, module |-> None, shoot |-> shoot, instance |-> "instance",
           overdue |-> FALSE, forced |-> FALSE]]
    /\ manifests = [k \in Kymas |-> [phase |-> "live", state |-> None]]
    /\ kymaState = Empty /\ moduleState = Empty /\ mandatory = Empty
    /\ duration = {} /\ certNotRenew = {} /\ changes = 0

Change == changes < MaxChanges /\ changes' = changes + 1

(***************************************************************************)
(* KymaMetrics.  Without a shoot and an instance ID nothing is recorded.   *)
(***************************************************************************)
ExtractShootID(kyma) == kyma.shoot
ExtractInstanceID(kyma) == kyma.instance

Series(k, kyma) == <<k, ExtractShootID(kyma), ExtractInstanceID(kyma)>>

setKymaStateGauge(k, kyma) == kymaState' = With(kymaState, Series(k, kyma), kyma.state)

setModuleStateGauge(gauge, k, kyma) ==
    moduleState' = IF kyma.module = None THEN gauge ELSE With(gauge, Series(k, kyma), kyma.module)

UpdateAll(k, kyma, gauge) ==
    IF None \in {ExtractShootID(kyma), ExtractInstanceID(kyma)}
        THEN moduleState' = gauge /\ UNCHANGED kymaState
        ELSE setKymaStateGauge(k, kyma) /\ setModuleStateGauge(gauge, k, kyma)

RemoveModuleStateMetrics(k) == DeletePartialMatch(moduleState, k)

hasMetricsForKyma(gauge, k) == \E s \in DOMAIN gauge : s[1] = k

HasMetrics(k) == hasMetricsForKyma(kymaState, k) \/ hasMetricsForKyma(moduleState, k)

CleanupMetrics(k) ==
    /\ kymaState' = DeletePartialMatch(kymaState, k)
    /\ moduleState' = DeletePartialMatch(moduleState, k)

(***************************************************************************)
(* The Kyma controller.  UpdateStatusForExistingModules records a status   *)
(* that was written; the series of a module that is gone are removed       *)
(* before that (DeleteNoLongerExistingModuleStatus).                       *)
(***************************************************************************)
UpdateStatusForExistingModules(k) ==
    /\ kymas[k].phase = "live"
    /\ \E state \in States, module \in States \cup {None} :
        LET kyma == [kymas[k] EXCEPT !.state = state, !.module = module]
            gauge == IF module = None THEN RemoveModuleStateMetrics(k) ELSE moduleState
        IN  \/ /\ kymas' = [kymas EXCEPT ![k] = kyma]
               /\ UpdateAll(k, kyma, gauge)
               /\ UNCHANGED changes
            \/ /\ Change
               /\ moduleState' = gauge
               /\ UNCHANGED <<kymas, kymaState>>
    /\ UNCHANGED <<manifests, mandatory, duration, certNotRenew>>

\* SkrContextFactory.Init fails, also while the Kyma is deleted.
updateStatusWithError(k) ==
    /\ Change /\ kymas[k].phase # "gone"
    /\ LET kyma == [kymas[k] EXCEPT !.state = "Error", !.module = IF @ = None THEN None ELSE "Error"]
       IN  kymas' = [kymas EXCEPT ![k] = kyma] /\ UpdateAll(k, kyma, moduleState)
    /\ UNCHANGED <<manifests, mandatory, duration, certNotRenew>>

\* The use cases DeleteMetrics, EnsureManifestDeletion and DropKymaFinalizer.
DeleteMetrics(k) ==
    /\ kymas[k].phase = "deleting" /\ HasMetrics(k)
    /\ CleanupMetrics(k)
    /\ UNCHANGED <<kymas, manifests, mandatory, duration, certNotRenew, changes>>

DropKymaFinalizer(k) ==
    /\ kymas[k].phase = "deleting" /\ ~HasMetrics(k) /\ manifests[k].phase = "gone"
    /\ kymas' = [kymas EXCEPT ![k].phase = "gone"]
    /\ UNCHANGED <<manifests, gauges, changes>>

IsSkrCertificateRenewalOverdue(k) == kymas[k].overdue

SetCertNotRenew(k) == certNotRenew \cup {k}

\* With every reconciliation of the webhook.
writeCertificateRenewalMetrics(k) ==
    /\ kymas[k].phase = "live"
    /\ certNotRenew' = IF IsSkrCertificateRenewalOverdue(k) THEN SetCertNotRenew(k) ELSE certNotRenew \ {k}
    /\ UNCHANGED <<kymas, manifests, kymaState, moduleState, mandatory, duration, changes>>

(***************************************************************************)
(* The clean-up job of scheduleMetricsCleanup.                             *)
(***************************************************************************)
getKymaNames == {k \in Kymas : kymas[k].phase # "gone"}

\* Mutant: an empty list of Kymas ends the job.
CleanupUnlessEmpty ==
    /\ getKymaNames # {}
    /\ kymaState' = Restrict(kymaState, {s \in DOMAIN kymaState : s[1] \in getKymaNames})
    /\ UNCHANGED <<kymas, manifests, moduleState, mandatory, duration, certNotRenew, changes>>

\* The series of modules stay.
CleanupNonExistingKymaCrsMetrics ==
    /\ kymaState' = Restrict(kymaState, {s \in DOMAIN kymaState : s[1] \in getKymaNames})
    /\ UNCHANGED <<kymas, manifests, moduleState, mandatory, duration, certNotRenew, changes>>

\* The job of every few minutes.  One that cannot list the Kymas does nothing.
scheduleMetricsCleanup == CleanupNonExistingKymaCrsMetrics

(***************************************************************************)
(* The Manifest controller.                                                *)
(***************************************************************************)

\* The state that the last reconciliation has left.
RecordMandatoryModuleState(k) == mandatory' = With(mandatory, k, manifests[k].state)

RecordManifestDuration(k) == duration' = duration \cup {k}
RemoveManifestDuration(k) == duration' = duration \ {k}

recordReconciliationDuration(k) ==
    \/ Change /\ RecordManifestDuration(k)
    \/ RemoveManifestDuration(k) /\ UNCHANGED changes

ReconcileManifest(k) ==
    /\ manifests[k].phase = "live"
    /\ RecordMandatoryModuleState(k)
    /\ \E state \in States : manifests' = [manifests EXCEPT ![k].state = state]
    /\ recordReconciliationDuration(k)
    /\ UNCHANGED <<kymas, kymaState, moduleState, certNotRenew>>

\* The resources are not gone yet, or a call fails.
DeletionGoesOn(k) ==
    /\ manifests[k].phase = "deleting" /\ Change
    /\ RecordMandatoryModuleState(k)
    /\ UNCHANGED <<kymas, manifests, kymaState, moduleState, duration, certNotRenew>>

cleanupMetrics(k) == mandatory' = Restrict(mandatory, DOMAIN mandatory \ {k})

\* The deferred recordReconciliationDuration comes after the clean-up.
cleanupManifest(k) ==
    /\ manifests[k].phase = "deleting"
    /\ cleanupMetrics(k)
    /\ manifests' = [manifests EXCEPT ![k].phase = "gone"]
    /\ recordReconciliationDuration(k)
    /\ UNCHANGED <<kymas, kymaState, moduleState, certNotRenew>>

\* The requeued reconciliation finds nothing, and does so at once.
ManifestNotFound(k) ==
    /\ manifests[k].phase = "gone" /\ k \in duration
    /\ RemoveManifestDuration(k)
    /\ UNCHANGED <<kymas, manifests, kymaState, moduleState, mandatory, certNotRenew, changes>>

(***************************************************************************)
(* Everybody else.                                                         *)
(***************************************************************************)
DeleteKyma(k) ==
    /\ kymas[k].phase = "live"
    /\ kymas' = [kymas EXCEPT ![k].phase = "deleting"]
    /\ UNCHANGED <<manifests, gauges, changes>>

DeleteManifest(k) ==
    /\ kymas[k].phase # "live" /\ manifests[k].phase = "live"
    /\ manifests' = [manifests EXCEPT ![k].phase = "deleting"]
    /\ UNCHANGED <<kymas, gauges, changes>>

KymaChanges(k) ==
    /\ Change /\ kymas[k].phase # "gone"
    /\ \/ /\ "label" \in Changes /\ kymas[k].shoot = None
          /\ kymas' = [kymas EXCEPT ![k].shoot = "shoot"]
       \/ /\ "relabel" \in Changes
          /\ kymas' = [kymas EXCEPT ![k].instance = "other"]
       \/ /\ "overdue" \in Changes
          /\ kymas' = [kymas EXCEPT ![k].overdue = ~@]
       \/ /\ "force" \in Changes /\ kymas[k].phase = "deleting"
          /\ kymas' = [kymas EXCEPT ![k].phase = "gone", ![k].forced = TRUE]
    /\ UNCHANGED <<manifests, gauges>>

Restart ==
    /\ Change
    /\ kymaState' = Empty /\ moduleState' = Empty /\ mandatory' = Empty
    /\ duration' = {} /\ certNotRenew' = {}
    /\ UNCHANGED <<kymas, manifests>>

Deletion(k) ==
    \/ DeleteMetrics(k) \/ DropKymaFinalizer(k)
    \/ DeleteManifest(k) \/ cleanupManifest(k) \/ ManifestNotFound(k)

Next ==
    \/ \E k \in Kymas :
        \/ UpdateStatusForExistingModules(k) \/ updateStatusWithError(k)
        \/ writeCertificateRenewalMetrics(k)
        \/ ReconcileManifest(k) \/ DeletionGoesOn(k) \/ Deletion(k)
        \/ DeleteKyma(k) \/ KymaChanges(k)
    \/ scheduleMetricsCleanup \/ Restart

Spec == Init /\ [][Next]_vars

\* Reconciliations are retried, and the job runs every few minutes.
Fairness == (\A k \in Kymas : WF_vars(Deletion(k))) /\ WF_vars(scheduleMetricsCleanup)
FairSpec == Spec /\ Fairness

(***************************************************************************)
(* Properties.                                                             *)
(***************************************************************************)
TypeOK ==
    /\ \A k \in Kymas :
        /\ kymas[k].phase \in {"live", "deleting", "gone"} /\ manifests[k].phase \in {"live", "deleting", "gone"}
        /\ kymas[k].state \in States \cup {None} /\ manifests[k].state \in States \cup {None}
    /\ duration \subseteq Kymas /\ certNotRenew \subseteq Kymas /\ DOMAIN mandatory \subseteq Kymas
    /\ changes \in 0..MaxChanges

\* What is shown of a live Kyma is its status, under one set of labels.
ShowsStatus(k) ==
    kymas[k].phase = "live" => \A s \in DOMAIN kymaState : s[1] = k => kymaState[s] = kymas[k].state

NoSeries(k) ==
    /\ ~hasMetricsForKyma(kymaState, k)
    /\ kymas[k].forced \/ ~hasMetricsForKyma(moduleState, k)
    /\ k \notin DOMAIN mandatory /\ k \notin duration

\* The metrics tell the truth.  A live Kyma is shown in the state of its status and in
\* no other, and the metrics of a Kyma that is gone go too: those of its modules with
\* the use case DeleteMetrics, its own also when the finalizers were removed by hand
\* (the job of scheduleMetricsCleanup), those of its Manifest with cleanupManifest,
\* also when the last reconciliation was slow.
MetricsSettle ==
    /\ [](\A k \in Kymas : ShowsStatus(k))
    /\ <>[](\A k \in Kymas : kymas[k].phase = "gone" => NoSeries(k))

\* A Kyma that is gone leaves no alert on its certificate behind.
AlertGoes == <>[](\A k \in Kymas : kymas[k].phase = "gone" => k \notin certNotRenew)
=============================================================================
