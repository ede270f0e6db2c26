-------------------------- MODULE MandatoryModules --------------------------
(***************************************************************************)
(* Mandatory modules (internal/controller/mandatorymodule,                 *)
(* internal/service/mandatorymodule): the installation controller gives    *)
(* every Kyma a Manifest for every ModuleReleaseMeta with a mandatory      *)
(* version; the deletion controller holds the ModuleReleaseMeta with a     *)
(* finalizer until the Manifests are gone.                                 *)
(*                                                                         *)
(* The two controllers share nothing but the API server: an installation   *)
(* reads the catalog, and writes the Manifests later, one by one.          *)
(***************************************************************************)
EXTENDS Naturals

CONSTANTS
    Modules, Kymas,
    MaxVersion,   \* a mandatory module is released in versions 1..MaxVersion
    MaxEvents     \* bound on releases, deletions and label changes

VARIABLES
    mrm,        \* the ModuleReleaseMetas: [version, mandatory, finalizer, deleting], version 0: none
    templates,  \* versions with a ModuleTemplate, per module
    skip,       \* Kymas with the label skip-reconciliation
    queued,     \* Kymas in the queue of the installation controller
    pending,    \* ModuleReleaseMetas in the queue of the deletion controller
    manifest,   \* per Kyma and module: version, deleting; version 0: none
    plan,       \* what the installation for a Kyma still has to write
    late,       \* Manifests written after the deletion of their ModuleReleaseMeta began
    events

vars == <<mrm, templates, skip, queued, pending, manifest, plan, late, events>>

NoMeta == [version |-> 0, mandatory |-> FALSE, finalizer |-> FALSE, deleting |-> FALSE]
NoManifest == [version |-> 0, deleting |-> FALSE]
Versions == 0..MaxVersion

Init ==
    /\ mrm = [m \in Modules |-> NoMeta]
    /\ templates = [m \in Modules |-> {}]
    /\ skip = {}
    /\ queued = Kymas
    /\ pending = {}
    /\ manifest = [k \in Kymas |-> [m \in Modules |-> NoManifest]]
    /\ plan = [k \in Kymas |-> <<>>]
    /\ late = {}
    /\ events = 0

(***************************************************************************)
(* The events of a ModuleReleaseMeta.  Both controllers look at the new    *)
(* object only; the installation controller also ignores an update that    *)
(* changes neither the specification nor the labels.                       *)
(***************************************************************************)
isMandatoryMrm(meta) == meta.mandatory

\* A mandatory module concerns every Kyma.
mandatoryAffectedKymas(meta) == IF meta.mandatory THEN Kymas ELSE {}

EnqueueMeta(m, meta) == pending' = IF isMandatoryMrm(meta) THEN pending \cup {m} ELSE pending

EnqueueKymas(meta) ==
    queued' = IF isMandatoryMrm(meta) THEN queued \cup mandatoryAffectedKymas(meta) ELSE queued

\* A new generation of a ModuleReleaseMeta.
Update(m, meta) ==
    /\ mrm' = [mrm EXCEPT ![m] = meta]
    /\ EnqueueMeta(m, meta) /\ EnqueueKymas(meta)

(***************************************************************************)
(* HandleInstallation.  plan[k] is a partial function from modules to      *)
(* versions: the goroutines of ReconcileManifests that have not run yet.   *)
(***************************************************************************)

\* The index of the ModuleReleaseMetas.
MrmMandatoryModule(meta) == IF meta.mandatory THEN "true" ELSE "false"

ListMandatory == {m \in Modules : mrm[m].version # 0 /\ MrmMandatoryModule(mrm[m]) = "true"}

Installable == {m \in ListMandatory : ~mrm[m].deleting}

GetSpecificVersionForModule(m, version) == version \in templates[m]

GenerateMandatoryModulesFromTemplates == [m \in Installable |-> mrm[m].version]

\* The first missing ModuleTemplate ends the installation of all modules.
HandleInstallation(k) ==
    /\ k \in queued /\ plan[k] = <<>>
    /\ IF k \in skip
       THEN queued' = queued \ {k} /\ UNCHANGED plan
       ELSE /\ \A m \in Installable : GetSpecificVersionForModule(m, mrm[m].version)
            /\ plan' = [plan EXCEPT ![k] = GenerateMandatoryModulesFromTemplates]
            /\ queued' = queued \ {k}
    /\ UNCHANGED <<mrm, templates, skip, pending, manifest, late, events>>

\* Mutant: an existing Manifest keeps its version.
writeOnce(old, version) == IF old.version # 0 THEN old ELSE [old EXCEPT !.version = version]

\* A Manifest is created, or patched; one that is being deleted goes on being so.
updateManifest(old, version) == [old EXCEPT !.version = version]

ReconcileManifests(k) ==
    /\ \E m \in DOMAIN plan[k] :
          /\ manifest' = [manifest EXCEPT ![k][m] = updateManifest(@, plan[k][m])]
          /\ plan' = [plan EXCEPT ![k] = [n \in DOMAIN plan[k] \ {m} |-> plan[k][n]]]
          /\ late' = IF mrm[m].version = 0 \/ mrm[m].deleting THEN late \cup {<<k, m>>} ELSE late
    /\ UNCHANGED <<mrm, templates, skip, queued, pending, events>>

(***************************************************************************)
(* HandleDeletion runs the first use case that applies and is repeated     *)
(* after an interval, until the ModuleReleaseMeta is gone or need not go.  *)
(***************************************************************************)
WithFinalizer(meta) == [meta EXCEPT !.finalizer = TRUE]

EnsureFinalizer(m) ==
    /\ m \in pending /\ mrm[m].version # 0
    /\ ~mrm[m].finalizer /\ ~mrm[m].deleting
    /\ mrm' = [mrm EXCEPT ![m] = WithFinalizer(@)]
    /\ UNCHANGED <<templates, skip, queued, pending, manifest, plan, late, events>>

\* The reconciliation is not repeated.
NotRequeued(m) == pending' = pending \ {m}

\* Also for a ModuleReleaseMeta that is not found.
SkipNonDeleting(m) ==
    /\ m \in pending
    /\ mrm[m].version = 0 \/ (mrm[m].finalizer /\ ~mrm[m].deleting)
    /\ NotRequeued(m)
    /\ UNCHANGED <<mrm, templates, skip, queued, manifest, plan, late, events>>

ListAllForModule(m) == {k \in Kymas : manifest[k][m].version # 0}

DeleteAllForModule(m) ==
    manifest' = [k \in Kymas |->
        IF k \in ListAllForModule(m) THEN [manifest[k] EXCEPT ![m].deleting = TRUE] ELSE manifest[k]]

DeleteManifests(m) ==
    /\ m \in pending /\ mrm[m].deleting
    /\ ListAllForModule(m) # {}
    /\ DeleteAllForModule(m)
    /\ UNCHANGED <<mrm, templates, skip, queued, pending, plan, late, events>>

\* The last finalizer goes, and the ModuleReleaseMeta with it.
DropFinalizer(m) ==
    /\ mrm' = [mrm EXCEPT ![m] = NoMeta]
    /\ EnqueueKymas(mrm[m])
    /\ UNCHANGED <<templates, skip, pending, manifest, plan, late, events>>

\* Mutant: the finalizer goes when every Manifest is marked for deletion.
RemoveFinalizerEarly(m) ==
    /\ m \in pending /\ mrm[m].deleting /\ mrm[m].finalizer
    /\ \A k \in ListAllForModule(m) : manifest[k][m].deleting
    /\ DropFinalizer(m)

RemoveFinalizer(m) ==
    /\ m \in pending /\ mrm[m].deleting /\ mrm[m].finalizer
    /\ ListAllForModule(m) = {}
    /\ DropFinalizer(m)

HandleDeletion(m) ==
    \/ EnsureFinalizer(m)
    \/ SkipNonDeleting(m)
    \/ DeleteManifests(m)
    \/ RemoveFinalizer(m)

(***************************************************************************)
(* The Manifest controller removes what is being deleted.                  *)
(***************************************************************************)
ManifestGoes(k, m) ==
    /\ manifest[k][m].deleting
    /\ manifest' = [manifest EXCEPT ![k][m] = NoManifest]
    /\ late' = late \ {<<k, m>>}
    /\ UNCHANGED <<mrm, templates, skip, queued, pending, plan, events>>

(***************************************************************************)
(* Operators: a release, the deletion of a ModuleReleaseMeta, its change   *)
(* into one with channels, a label.                                        *)
(***************************************************************************)
Event == events < MaxEvents /\ events' = events + 1

Release(m) ==
    /\ Event
    /\ mrm[m].version < MaxVersion /\ ~mrm[m].deleting
    /\ mrm[m].version # 0 => mrm[m].mandatory
    /\ Update(m, [mrm[m] EXCEPT !.version = @ + 1, !.mandatory = TRUE])
    /\ UNCHANGED <<templates, skip, manifest, plan, late>>

PublishTemplate(m) ==
    /\ mrm[m].version # 0 /\ mrm[m].version \notin templates[m]
    /\ templates' = [templates EXCEPT ![m] = @ \cup {mrm[m].version}]
    /\ UNCHANGED <<mrm, skip, queued, pending, manifest, plan, late, events>>

\* The finalizer is there by the time somebody deletes the ModuleReleaseMeta.
DeleteMeta(m) ==
    /\ Event
    /\ mrm[m].finalizer /\ ~mrm[m].deleting
    /\ Update(m, [mrm[m] EXCEPT !.deleting = TRUE])
    /\ UNCHANGED <<templates, skip, manifest, plan, late>>

\* The module becomes a regular one.
Demote(m) ==
    /\ Event
    /\ mrm[m].mandatory
    /\ Update(m, [mrm[m] EXCEPT !.mandatory = FALSE])
    /\ UNCHANGED <<templates, skip, manifest, plan, late>>

\* A label change wakes the Kyma.
Skip(k) ==
    /\ Event
    /\ skip' = IF k \in skip THEN skip \ {k} ELSE skip \cup {k}
    /\ queued' = queued \cup {k}
    /\ UNCHANGED <<mrm, templates, pending, manifest, plan, late>>

\* The requeue interval is over.
Requeue(k) ==
    /\ k \notin queued /\ k \notin skip
    /\ queued' = queued \cup {k}
    /\ UNCHANGED <<mrm, templates, skip, pending, manifest, plan, late, events>>

Next ==
    \/ \E k \in Kymas : HandleInstallation(k) \/ ReconcileManifests(k) \/ Skip(k) \/ Requeue(k)
    \/ \E m \in Modules : HandleDeletion(m)
    \/ \E m \in Modules : Release(m) \/ PublishTemplate(m) \/ DeleteMeta(m) \/ Demote(m)
    \/ \E k \in Kymas, m \in Modules : ManifestGoes(k, m)

Spec == Init /\ [][Next]_vars

\* The queues come back to every object; a ModuleTemplate follows its release.
FairSpec ==
    /\ Spec
    /\ \A k \in Kymas : WF_vars(HandleInstallation(k)) /\ WF_vars(ReconcileManifests(k)) /\ WF_vars(Requeue(k))
    /\ \A m \in Modules :
          /\ WF_vars(HandleDeletion(m)) /\ WF_vars(PublishTemplate(m))
          /\ \A k \in Kymas : SF_vars(ManifestGoes(k, m))

(***************************************************************************)
(* Properties.                                                             *)
(***************************************************************************)
TypeOK ==
    /\ mrm \in [Modules ->
          [version : Versions, mandatory : BOOLEAN, finalizer : BOOLEAN, deleting : BOOLEAN]]
    /\ manifest \in [Kymas -> [Modules -> [version : Versions, deleting : BOOLEAN]]]
    /\ late \subseteq Kymas \X Modules /\ queued \subseteq Kymas /\ pending \subseteq Modules

\* "Once all associated Manifest CRs are deleted, the finalizer is removed":
\* a ModuleReleaseMeta that is gone leaves no Manifest behind, except those of
\* an installation that read it before its deletion and wrote after it.
OnlyLateOnesStay ==
    \A k \in Kymas, m \in Modules :
        mrm[m].version = 0 /\ manifest[k][m].version # 0 => <<k, m>> \in late

\* The same without the exception.
NoManifestStays ==
    \A k \in Kymas, m \in Modules : mrm[m].version = 0 => manifest[k][m].version = 0

\* Once nothing is released any more, every Kyma has the released version of a
\* mandatory module, whatever was released, deleted or skipped before; and a deleted
\* ModuleReleaseMeta is gone: the installations do not keep its Manifests coming, and
\* a change into a regular module does not stop a deletion that has begun.  Only the
\* deletion of a ModuleReleaseMeta that is no longer mandatory is not seen.
MandatorySettles ==
    <>[](\A m \in Modules :
        /\ mrm[m].deleting => ~isMandatoryMrm(mrm[m]) /\ m \notin pending
        /\ \A k \in Kymas \ skip :
            m \in Installable => manifest[k][m] = [version |-> mrm[m].version, deleting |-> FALSE])

\* The same without the exception.
DeletedOnesGo == <>[](\A m \in Modules : ~mrm[m].deleting)
=============================================================================
