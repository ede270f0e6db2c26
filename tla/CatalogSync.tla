---------------------------- MODULE CatalogSync ----------------------------
(***************************************************************************)
(* What KLM copies to the SKR of one Kyma (internal/service/skrsync,       *)
(* internal/remote): the namespace, the CRDs, the image pull secret, the   *)
(* Kyma with its metadata and status, and the part of the module catalog   *)
(* the Kyma may use.  The catalog in KCP, the labels of the Kyma and the   *)
(* objects in the SKR change while a synchronisation runs.                 *)
(*                                                                         *)
(* An object of the SKR has a key <<namespace, name>>; by tells who its    *)
(* fields belong to ("kcp" is the field manager ModuleCatalogSync).  The   *)
(* spec of a copied ModuleTemplate is its generation, that of a copied     *)
(* ModuleReleaseMeta the channels that KLM owns.                           *)
(***************************************************************************)
EXTENDS ModuleLookup, Functions

CONSTANTS
    Catalog,     \* the catalog at the start: [metas, templates]
    UserNames,   \* names a user of the SKR gives to catalog objects of their own
    Events,      \* the kinds of changes that happen
    MaxEvents,   \* bound on the changes
    MaxFaults    \* bound on failing calls

VARIABLES
    kcp,         \* [metas, templates, labels, ids, secret, crd]
    skr,         \* [namespace, crds, templates, metas, secret, kyma]
    pc,          \* where the reconciliation stands
    read,        \* the labels and lists the reconciliation works with
    failed,      \* an error of this synchronisation, joined at its end
    condition,   \* ConditionTypeModuleCatalog
    tampered,    \* a user touched the catalog in the SKR since the start
    events, faults

vars == <<kcp, skr, pc, read, failed, condition, tampered, events, faults>>

Kinds == {"templates", "metas"}
SkrNamespace == "kyma-system"
NoLabels == [beta |-> FALSE, internal |-> FALSE]

\* f without the keys in S.
Without(f, S) == [x \in DOMAIN f \ S |-> f[x]]

\* f with the entries of g.
Merge(f, g) == [x \in DOMAIN f \cup DOMAIN g |-> IF x \in DOMAIN g THEN g[x] ELSE f[x]]

\* f with v at x.
Put(f, x, v) == Merge(f, [y \in {x} |-> v])

\* The Kyma in the SKR; its labels are the ones KLM writes, and their values.
NoKyma == [exists |-> FALSE, labels |-> <<>>, annotated |-> FALSE, state |-> "none"]

NothingRead == [labels |-> NoLabels, templates |-> <<>>, metas |-> <<>>,
                toSync |-> [templates |-> <<>>, metas |-> <<>>], kyma |-> NoKyma]

Init ==
    /\ kcp = [metas |-> Catalog.metas, templates |-> Catalog.templates,
              labels |-> NoLabels, ids |-> [RuntimeID |-> "1"], secret |-> 1,
              crd |-> [spec |-> 1, conversion |-> "Webhook"]]
    /\ skr = [namespace |-> FALSE, crds |-> <<>>, templates |-> <<>>, metas |-> <<>>, secret |-> 0,
              kyma |-> NoKyma]
    /\ pc = "start"
    /\ read = NothingRead
    /\ failed = FALSE
    /\ condition = "none"
    /\ tampered = FALSE
    /\ events = 0 /\ faults = 0

(***************************************************************************)
(* What is offered to a Kyma.                                              *)
(***************************************************************************)

\* Mutant: a mandatory ModuleTemplate is copied like any other.
SyncEnabledMandatory(template, labels) ==
    /\ template.beta => labels.beta
    /\ template.internal => labels.internal

SyncEnabled(template, labels) ==
    /\ template.beta => labels.beta
    /\ template.internal => labels.internal
    /\ ~template.mandatory

IsAllowedModuleVersion(m, version, templates, labels) ==
    /\ <<m, version>> \in DOMAIN templates
    /\ SyncEnabled(templates[<<m, version>>], labels)

MayUse(m, meta) ==
    /\ meta.mandatory = 0
    /\ IF m \in RestrictedModules THEN RestrictedModuleMatch(meta) ELSE meta.selector = "none"

AllowedChannels(m, meta, templates, labels) ==
    {c \in DOMAIN meta.channels :
        MayUse(m, meta) /\ IsAllowedModuleVersion(m, meta.channels[c], templates, labels)}

\* A ModuleReleaseMeta keeps the allowed channels; one without any is left out.
GetModuleReleaseMetasToSync(metas, templates, labels) ==
    [m \in {m \in DOMAIN metas : AllowedChannels(m, metas[m], templates, labels) # {}} |->
        [c \in AllowedChannels(m, metas[m], templates, labels) |-> metas[m].channels[c]]]

FilterAllowedModuleTemplates(templates, metasToSync, labels) ==
    [t \in {t \in DOMAIN templates :
              /\ SyncEnabled(templates[t], labels)
              /\ t[1] \in DOMAIN metasToSync
              /\ \E c \in DOMAIN metasToSync[t[1]] : metasToSync[t[1]][c] = t[2]} |->
        templates[t].generation]

ToSync(metas, templates, labels) ==
    LET chosen == GetModuleReleaseMetasToSync(metas, templates, labels)
    IN  [metas |-> chosen,
         templates |-> FilterAllowedModuleTemplates(templates, chosen, labels)]

(***************************************************************************)
(* The steps of a reconciliation that write to the SKR.  A call that may   *)
(* fail does so while faults are left.                                     *)
(***************************************************************************)
Fault(happens) == faults' = (IF happens THEN faults + 1 ELSE faults) /\ faults' <= MaxFaults

Return == pc' = "start" /\ read' = NothingRead /\ failed' = FALSE

\* Without the namespace nothing can be written, and the client is thrown away.
CreateKymaNamespace ==
    /\ pc = "start"
    /\ \E lost \in BOOLEAN :
        /\ Fault(lost)
        /\ skr' = [skr EXCEPT !.namespace = @ \/ ~lost]
        /\ IF lost THEN Return ELSE pc' = "crds" /\ UNCHANGED <<read, failed>>
    /\ UNCHANGED <<kcp, condition, tampered, events>>

CRDs == Kinds \cup {"kyma"}

\* The webhook that converts is in KCP only.
buildSkrCrd(crd) == [crd EXCEPT !.conversion = "None"]

\* Apply, one call for each CRD; one CRD of KCP stands for all.
Apply(kinds) == [kind \in kinds |-> buildSkrCrd(kcp.crd)]

\* SyncCRDs: one CRD that fails does not stop the others, and ends the
\* reconciliation.
SyncCRDs ==
    /\ pc = "crds"
    /\ \E lost \in {{}, CRDs} \cup {{c} : c \in CRDs} :
        /\ Fault(lost # {})
        /\ skr' = [skr EXCEPT !.crds = Merge(@, Apply(CRDs \ lost))]
        /\ IF lost # {} THEN Return
           ELSE /\ pc' = "secret"
                /\ read' = [read EXCEPT !.labels = kcp.labels]
                /\ UNCHANGED failed
    /\ tampered' = FALSE
    /\ UNCHANGED <<kcp, condition, events>>

\* Mutant: a Secret that is in the SKR already is not written again.
SyncImagePullSecretOnce ==
    /\ pc = "secret"
    /\ IF kcp.secret = 0 THEN Return /\ UNCHANGED skr
       ELSE /\ skr' = [skr EXCEPT !.secret = IF @ = 0 THEN kcp.secret ELSE @]
            /\ pc' = "kyma"
            /\ UNCHANGED <<read, failed>>
    /\ UNCHANGED <<kcp, condition, tampered, events, faults>>

\* SyncImagePullSecret: without the Secret in KCP nothing else is copied.
SyncImagePullSecret ==
    /\ pc = "secret"
    /\ \E lost \in BOOLEAN :
        /\ Fault(lost)
        /\ IF lost \/ kcp.secret = 0 \/ ~skr.namespace THEN Return /\ UNCHANGED skr
           ELSE /\ skr' = [skr EXCEPT !.secret = kcp.secret]
                /\ pc' = "kyma"
                /\ UNCHANGED <<read, failed>>
    /\ UNCHANGED <<kcp, condition, tampered, events>>

(***************************************************************************)
(* The Kyma in the SKR.  What its spec says is the matter of KymaModules.  *)
(***************************************************************************)
getRemoteKyma == skr.kyma

\* A Kyma that is not there is made again, without labels and without status.
CreateOrFetchKyma == IF getRemoteKyma.exists THEN getRemoteKyma ELSE [NoKyma EXCEPT !.exists = TRUE]

fetchRemoteKyma(next) ==
    \E lost \in BOOLEAN :
        /\ Fault(lost)
        /\ IF lost \/ ~skr.namespace \/ "kyma" \notin DOMAIN skr.crds THEN Return /\ UNCHANGED skr
           ELSE /\ skr' = [skr EXCEPT !.kyma = CreateOrFetchKyma]
                /\ read' = [read EXCEPT !.kyma = CreateOrFetchKyma]
                /\ pc' = next
                /\ UNCHANGED failed

replaceSpecFromRemote ==
    /\ pc = "kyma"
    /\ fetchRemoteKyma("list")
    /\ UNCHANGED <<kcp, condition, tampered, events>>

\* MergeMaps: what is not in the second map stays.
MergeMaps(map1, map2) == Merge(map1, map2)

syncWatcherLabelsAnnotations(kyma) ==
    [kyma EXCEPT !.labels = MergeMaps(@, Merge([WatchedBy |-> "klm", ManagedBy |-> "klm"],
                                               Restrict(kcp.ids, DOMAIN kcp.ids \cap {"RuntimeID"}))),
                 !.annotated = TRUE]

syncBTPRelatedLabels(kyma) ==
    [kyma EXCEPT !.labels = MergeMaps(@, Restrict(kcp.ids, DOMAIN kcp.ids \cap {"GlobalAccountID", "SubAccountID"}))]

\* Written only if something changed; the apply takes what is there by force.
SynchronizeKymaMetadata ==
    /\ pc = "metadata"
    /\ \E lost \in BOOLEAN, wanted \in {syncBTPRelatedLabels(syncWatcherLabelsAnnotations(read.kyma))} :
        /\ Fault(lost)
        /\ lost => wanted # read.kyma
        /\ IF lost \/ (wanted # read.kyma /\ ~skr.kyma.exists) THEN Return /\ UNCHANGED skr
           ELSE /\ pc' = "status"
                /\ skr' = IF wanted = read.kyma THEN skr
                          ELSE [skr EXCEPT !.kyma.labels = Merge(@, wanted.labels), !.kyma.annotated = TRUE]
                /\ UNCHANGED <<read, failed>>
    /\ UNCHANGED <<kcp, condition, tampered, events>>

\* The update carries the resourceVersion of the Kyma as it was fetched: after a
\* change of its metadata it is a conflict, and the reconciliation is repeated.
SynchronizeKymaStatus ==
    /\ pc = "status"
    /\ \E lost \in BOOLEAN :
        /\ Fault(lost)
        /\ skr' = IF lost \/ read.kyma # skr.kyma THEN skr ELSE [skr EXCEPT !.kyma.state = condition]
    /\ Return
    /\ UNCHANGED <<kcp, condition, tampered, events>>

ListModuleTemplates ==
    /\ pc = "list"
    /\ read' = [read EXCEPT !.templates = kcp.templates]
    /\ pc' = "listMetas"
    /\ UNCHANGED <<kcp, skr, failed, condition, tampered, events, faults>>

ListModuleReleaseMetas ==
    /\ pc = "listMetas"
    /\ read' = [read EXCEPT !.metas = kcp.metas,
                            !.toSync = ToSync(kcp.metas, read.templates, read.labels)]
    /\ pc' = "applyTemplates"
    /\ UNCHANGED <<kcp, skr, failed, condition, tampered, events, faults>>

\* Mutant: the objects stay in the namespace of KCP.
prepareInPlace(objects) ==
    [k \in {"kcp-system"} \X DOMAIN objects |-> [by |-> "kcp", spec |-> objects[k[2]]]]

\* prepareModuleTemplateForSSA: it moves the listed objects themselves to the
\* namespace of the SKR, and the diff that follows compares with those.
prepareForSSA(objects) ==
    [k \in {SkrNamespace} \X DOMAIN objects |-> [by |-> "kcp", spec |-> objects[k[2]]]]

Desired(kind) == prepareForSSA(read.toSync[kind])

\* SyncConcurrently: one goroutine per object, all of them run.
SyncConcurrently(kind) ==
    \E desired \in {Desired(kind)} :
    \E lost \in {{}, DOMAIN desired} \cup {{k} : k \in DOMAIN desired} :
        LET refused == IF kind \in DOMAIN skr.crds /\ skr.namespace THEN lost ELSE DOMAIN desired
        IN  /\ Fault(lost # {})
            /\ skr' = [skr EXCEPT ![kind] = Merge(@, Without(desired, refused))]
            /\ failed' = (failed \/ refused # {})
            /\ pc' = CASE kind = "templates" /\ refused = {} -> "deleteTemplates"
                       [] kind = "templates" /\ refused # {} -> "applyMetas"
                       [] kind = "metas" /\ refused = {} -> "deleteMetas"
                       [] kind = "metas" /\ refused # {} -> "end"
    /\ UNCHANGED <<kcp, read, condition, tampered, events>>

\* Mutant: everything the control plane does not know is taken away.
isManaged(object) == object.by \in {"kcp", "user"}

isModuleTemplateManagedByKcp(object) == object.by = "kcp"
isModuleReleaseMetaManagedByKcp(object) == object.by = "kcp"

NotExistingIn(objects, desired) == DOMAIN objects \ DOMAIN desired

moduleTemplatesDiffFor(objects, desired) ==
    {k \in NotExistingIn(objects, desired) : isModuleTemplateManagedByKcp(objects[k])}
moduleReleaseMetasDiffFor(objects, desired) ==
    {k \in NotExistingIn(objects, desired) : isModuleReleaseMetaManagedByKcp(objects[k])}

\* DeleteConcurrently on the difference; without the CRD there is nothing
\* to list.
DeleteConcurrently(kind) ==
    \E obsolete \in {IF kind = "templates" THEN moduleTemplatesDiffFor(skr.templates, Desired(kind))
                     ELSE moduleReleaseMetasDiffFor(skr.metas, Desired(kind))} :
    \E lost \in {{}, obsolete} \cup {{k} : k \in obsolete} :
        /\ Fault(lost # {})
        /\ skr' = [skr EXCEPT ![kind] = Without(@, obsolete \ lost)]
        /\ failed' = (failed \/ lost # {})
        /\ pc' = IF kind = "templates" THEN "applyMetas" ELSE "end"
        /\ UNCHANGED <<kcp, read, condition, tampered, events>>

ApplyTemplates == pc = "applyTemplates" /\ SyncConcurrently("templates")
DeleteTemplates == pc = "deleteTemplates" /\ DeleteConcurrently("templates")
ApplyMetas == pc = "applyMetas" /\ SyncConcurrently("metas")
DeleteMetas == pc = "deleteMetas" /\ DeleteConcurrently("metas")

\* SyncModuleCatalog returns the joined errors; the reconciliation is
\* repeated in any case, at once or after the requeue interval.
SyncEnds ==
    /\ pc = "end"
    /\ condition' = IF failed THEN "False" ELSE "True"
    /\ IF failed THEN Return ELSE pc' = "remote" /\ UNCHANGED <<read, failed>>
    /\ UNCHANGED <<kcp, skr, tampered, events, faults>>

syncStatusToRemote ==
    /\ pc = "remote"
    /\ fetchRemoteKyma("metadata")
    /\ UNCHANGED <<kcp, condition, tampered, events>>

SyncTemplatesToSKR == ApplyTemplates \/ DeleteTemplates
SyncMetasToSKR == ApplyMetas \/ DeleteMetas

Reconcile ==
    \/ CreateKymaNamespace \/ SyncCRDs \/ SyncImagePullSecret \/ replaceSpecFromRemote
    \/ ListModuleTemplates \/ ListModuleReleaseMetas
    \/ SyncTemplatesToSKR \/ SyncMetasToSKR \/ SyncEnds
    \/ syncStatusToRemote \/ SynchronizeKymaMetadata \/ SynchronizeKymaStatus

(***************************************************************************)
(* Changes in KCP and by the users of the SKR.                             *)
(***************************************************************************)
Event(kind) ==
    /\ kind \in Events /\ events < MaxEvents
    /\ events' = events + 1
    /\ UNCHANGED <<pc, read, failed, condition, faults>>

EditMeta(m, meta) == kcp' = [kcp EXCEPT !.metas = Put(@, m, meta)]

KcpChanges ==
    /\ \/ /\ Event("release")
          /\ \E m \in DOMAIN kcp.metas, c \in Channels, v \in Versions :
                EditMeta(m, [kcp.metas[m] EXCEPT !.channels = Put(@, c, v)])
       \/ /\ Event("withdraw")
          /\ \E m \in DOMAIN kcp.metas, c \in Channels :
                EditMeta(m, [kcp.metas[m] EXCEPT !.channels = Without(@, {c})])
       \/ /\ Event("mandatory")
          /\ \E m \in DOMAIN kcp.metas :
                EditMeta(m, [channels |-> <<>>, mandatory |-> 1, selector |-> "none"])
       \/ /\ Event("selector")
          /\ \E m \in DOMAIN kcp.metas, s \in {"none", "match", "mismatch"} :
                EditMeta(m, [kcp.metas[m] EXCEPT !.selector = s])
       \/ /\ Event("deleteTemplate")
          /\ \E t \in DOMAIN kcp.templates : kcp' = [kcp EXCEPT !.templates = Without(@, {t})]
       \/ /\ Event("template")
          /\ \E t \in DOMAIN kcp.templates :
                kcp' = [kcp EXCEPT !.templates[t].mandatory = ~@, !.templates[t].generation = @ + 1]
       \/ /\ Event("beta")
          /\ kcp' = [kcp EXCEPT !.labels.beta = ~@]
       \/ /\ Event("secret")
          /\ \E n \in {0, 2} : kcp' = [kcp EXCEPT !.secret = n]
       \/ /\ Event("crd")
          /\ kcp' = [kcp EXCEPT !.crd.spec = @ + 1]
       \/ /\ Event("account")
          /\ kcp' = [kcp EXCEPT !.ids = Put(@, "GlobalAccountID", "2")]
    /\ UNCHANGED <<skr, tampered>>

\* A user makes or overwrites an object of the catalog, or takes one away.
UserChanges ==
    /\ \/ /\ Event("userCreates") /\ "metas" \in DOMAIN skr.crds
          /\ \E k \in UserNames \ DOMAIN skr.metas :
                skr' = [skr EXCEPT !.metas = Put(@, k, [by |-> "user", spec |-> <<>>])]
       \/ /\ Event("userDeletes")
          /\ \E kind \in Kinds : \E k \in DOMAIN skr[kind] :
                skr' = [skr EXCEPT ![kind] = Without(@, {k})]
       \/ /\ Event("userDeletesCRD")
          /\ \E kind \in DOMAIN skr.crds :
                skr' = [skr EXCEPT !.crds = Without(@, {kind}), ![kind] = IF kind = "kyma" THEN NoKyma ELSE <<>>]
       \/ /\ Event("userDeletesKyma")
          /\ skr' = [skr EXCEPT !.kyma = NoKyma]
       \/ /\ Event("userUnlabels")
          /\ \E l \in DOMAIN skr.kyma.labels : skr' = [skr EXCEPT !.kyma.labels = Without(@, {l})]
       \/ /\ Event("userDeletesNamespace") /\ skr.namespace
          /\ skr' = [skr EXCEPT !.namespace = FALSE, !.templates = <<>>, !.secret = 0, !.kyma = NoKyma,
                                !.metas = Restrict(@, {k \in DOMAIN @ : k[1] # SkrNamespace})]
    /\ tampered' = TRUE
    /\ UNCHANGED kcp

Next == Reconcile \/ KcpChanges \/ UserChanges

Spec == Init /\ [][Next]_vars

\* The queue brings a Kyma back after every reconciliation.
FairSpec == Spec /\ WF_vars(Reconcile)

-----------------------------------------------------------------------------

TypeOK ==
    /\ DOMAIN kcp.metas \subseteq Modules
    /\ \A m \in DOMAIN kcp.metas : kcp.metas[m] \in ModuleReleaseMeta
    /\ \A t \in DOMAIN kcp.templates : kcp.templates[t] \in ModuleTemplate
    /\ DOMAIN skr.crds \subseteq CRDs
    /\ skr.kyma.exists => skr.namespace /\ "kyma" \in DOMAIN skr.crds
    /\ \A kind \in Kinds \ DOMAIN skr.crds : skr[kind] = <<>>
    /\ DOMAIN skr.metas \subseteq ({SkrNamespace} \X Modules) \cup UserNames
    /\ DOMAIN skr.templates \subseteq {SkrNamespace} \X (Modules \X Versions)
    /\ skr.secret \in 0..2
    /\ condition \in {"none", "True", "False"}
    /\ failed \in BOOLEAN /\ tampered \in BOOLEAN

\* Does the template lookup of the Kyma controller accept module m from
\* channel c, with what this synchronisation read?
Accepted(m, c) ==
    /\ m \in DOMAIN read.metas
    /\ read.metas[m].mandatory = 0
    /\ LET found == Lookup(m, c, read.metas[m], read.templates)
       IN  /\ found.err = "nil"
           /\ ValidateTemplateMode(m, read.templates[<<m, found.version>>],
                                   read.labels, read.metas[m]) = "nil"

Offered(m, c) ==
    /\ <<SkrNamespace, m>> \in DOMAIN skr.metas
    /\ c \in DOMAIN skr.metas[<<SkrNamespace, m>>].spec

\* When a synchronisation ends without error, and no user interfered, the SKR
\* offers a module from a channel exactly if the template lookup accepts it,
\* and the ModuleTemplate of the offered version is there: the filters of
\* remote_catalog.go and the checks of templatelookup/regular.go are written
\* twice and must agree, and templates and metas are copied, and taken away,
\* by two synchronisations that fail on their own.
CatalogIsUsable ==
    pc = "end" /\ ~failed /\ ~tampered =>
        \A m \in Modules, c \in Channels :
            /\ Offered(m, c) <=> Accepted(m, c)
            /\ Offered(m, c) =>
                <<SkrNamespace, <<m, skr.metas[<<SkrNamespace, m>>].spec[c]>>>> \in DOMAIN skr.templates

\* KLM never takes away a catalog object that a user made and that has not the
\* name of a copy: DeleteConcurrently takes what KCP does not know, and only
\* what the field manager ModuleCatalogSync wrote.
KeepsUserObjects ==
    Reconcile => \A kind \in Kinds : \A k \in DOMAIN skr[kind] :
        skr[kind][k].by = "user" => k \in DOMAIN skr'[kind]
UserObjectsStay == [][KeepsUserObjects]_vars

CatalogCopied ==
    \E want \in {ToSync(kcp.metas, kcp.templates, kcp.labels)} :
        \A kind \in Kinds :
            /\ \A k \in DOMAIN skr[kind] :
                skr[kind][k].by = "kcp" => k[1] = SkrNamespace /\ k[2] \in DOMAIN want[kind]
            /\ \A x \in DOMAIN want[kind] :
                /\ <<SkrNamespace, x>> \in DOMAIN skr[kind]
                /\ skr[kind][<<SkrNamespace, x>>] = [by |-> "kcp", spec |-> want[kind][x]]

\* The Kyma of the SKR has what the watcher in the SKR looks for and the last IDs of
\* the Kyma of KCP, and tells how the synchronisation went.
KymaCopied ==
    /\ skr.kyma.exists /\ skr.kyma.annotated /\ skr.kyma.state = "True"
    /\ {"WatchedBy", "ManagedBy"} \subseteq DOMAIN skr.kyma.labels
    /\ \A id \in DOMAIN kcp.ids : id \in DOMAIN skr.kyma.labels /\ skr.kyma.labels[id] = kcp.ids[id]

\* Once KCP and the users are quiet, the SKR comes to hold exactly the copies of
\* what the Kyma may use, in their last form, and a Kyma that is labelled and says so:
\* whatever a failed apply, a failed deletion, a conflict, a CRD or a namespace taken
\* away or a list read too early left behind.  Without the image pull secret in KCP
\* nothing is copied at all.
CatalogConverges ==
    <>[](kcp.secret # 0 =>
            /\ \A kind \in CRDs : kind \in DOMAIN skr.crds /\ skr.crds[kind] = buildSkrCrd(kcp.crd)
            /\ CatalogCopied /\ KymaCopied /\ skr.secret = kcp.secret /\ condition = "True")
=============================================================================
