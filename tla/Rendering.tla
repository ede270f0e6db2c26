----------------------------- MODULE Rendering -----------------------------
(***************************************************************************)
(* From a component descriptor to the resources that are applied in an SKR *)
(* (internal/service/manifest/parser, internal/manifest/img,               *)
(* internal/service/manifest/{spec,render}, internal/imagerewrite), and    *)
(* what of them is deleted there (internal/controller/manifest,            *)
(* internal/manifest/skrresources, internal/pkg/resources).                *)
(*                                                                         *)
(* Every Manifest has a worker.  The workers share the files of the        *)
(* fetched layers, one mutex per file, and the cache of parsed files, in   *)
(* which Manifests of the same module version share an entry.              *)
(*                                                                         *)
(* A value that may be the reference of an image is                        *)
(* [domain, path, tag, digest], path being a sequence of names; one that   *)
(* is no reference has no path.  Absent lists are empty sequences.         *)
(***************************************************************************)
EXTENDS Naturals, Sequences, FiniteSets, FiniteSetsExt

CONSTANTS
    Manifests,      \* the Manifests, each in an SKR of its own
    Descriptors,    \* the component descriptors of the module, by version
    Artifacts,      \* the artifact in the registry that holds a descriptor
    Content,        \* the resources in the raw manifest layer, by digest
    Manager,        \* spec.manager: <<kind, name, namespace>>, or <<>> for nil
    ModuleName,     \* the module name label of the Manifests
    KcpSecrets,     \* what the Secrets in KCP may be, in the course of time
    PullSecret,     \* --skr-image-pull-secret
    Clustered,      \* kinds that are not namespaced
    Unknown,        \* kinds the API server of the SKR does not know
    MaxFaults,      \* bound on failing calls and downloads that break off
    MaxEvents       \* bound on upgrades, expired entries and Secret changes

VARIABLES
    described, \* the versions in the cache of descriptors
    spec,      \* per Manifest: what newManifestFromTemplate put into it
    files,     \* per path: [exists, whole, readable], see below
    lock,      \* per path: the worker that holds the mutex, or "free"
    parsed,    \* the cache of parsed files, per path: [hit, resources]
    worker,    \* where the worker of a Manifest stands
    target,    \* the resources rendered for a Manifest
    synced,    \* per Manifest: [ref, ids], the annotation sync-oci-ref and the
               \* identities in status.synced, which are written one by one
    deployed,  \* the identities of the resources in the SKR of a Manifest
    secret,    \* the Secrets in KCP: [exists, module, data] of the one with
               \* data for the SKR, and whether the one for the registry exists
    faults, copyFaults, events

vars == <<described, spec, files, lock, parsed, worker, target, synced, deployed,
          secret, faults, copyFaults, events>>

(***************************************************************************)
(* GetComponentDescriptor.  An artifact is [digest, entries]: the digest   *)
(* that its configuration gives for the layer of the descriptor, "" if     *)
(* none, and the entries [name, size, cut] of the archive in that layer.   *)
(***************************************************************************)
MaxDescriptorSize == 100

\* FromSecretKeychainProvider.Get reads the credentials for every request ...
GetError == ~secret.credentials

\* ... before it is made.
stdOptionsError == GetError
ConfigError(v) == stdOptionsError \/ Artifacts[v].digest = ""
PullLayerError == stdOptionsError

\* A descriptor is asked for by a name and a version.
NewComponentIdError(d) == d.name = "" \/ d.version = ""

\* The index of the first element that passes the test, 0 if there is none.
First(s, Test(_)) ==
    LET passing == {i \in DOMAIN s : Test(s[i])}
    IN  IF passing = {} THEN 0 ELSE Min(passing)

UnTarError(entries, name) ==
    LET i == First(entries, LAMBDA e : e.name = name)
    IN  i = 0 \/ \E j \in 1..i : entries[j].cut \/ (j = i /\ entries[j].size > MaxDescriptorSize)

ExtractFileFromLayerError(entries) ==
    entries = <<>> \/ UnTarError(entries, "component-descriptor.yaml")

GetComponentDescriptorError(v) ==
    \/ NewComponentIdError(Descriptors[v])
    \/ ConfigError(v) \/ PullLayerError
    \/ ExtractFileFromLayerError(Artifacts[v].entries)

(***************************************************************************)
(* img.Parse and newManifestFromTemplate.                                  *)
(***************************************************************************)
NoImage == [domain |-> "", path |-> <<>>, tag |-> "", digest |-> ""]
NoInstall == [type |-> "", name |-> "", hashed |-> FALSE, ref |-> ""]

Local(d) == SelectSeq(d.resources, LAMBDA r : r.access = "localBlob")

Artifact == {"ociArtifact", "ociArtifact/v1"}

\* A descriptor without a repository context has no layers at all.
ParseError(d) ==
    /\ d.context # "none"
    /\ \/ d.context # "OCIRegistry"
       \/ \E i \in DOMAIN d.resources : d.resources[i].access \notin Artifact \cup {"localBlob"}
       \/ Local(d) # <<>> /\ d.mapping \notin {"urlPath", "sha256-digest"}

getOCIRef(d, r) ==
    [type |-> IF r.tar THEN "oci-dir" ELSE "oci-ref",
     name |-> d.name,
     hashed |-> d.mapping = "sha256-digest",
     ref |-> IF r.ref = "" THEN d.version ELSE r.ref]

\* The last layer with a name stays: that of the raw manifest, and that of the
\* configuration (ConvertToImageSpec); the default CR does not come from a layer.
insertLayerIntoManifest(d, name) ==
    LET layers == SelectSeq(Local(d), LAMBDA r : r.name = name)
    IN  IF d.context # "none" /\ layers # <<>> THEN getOCIRef(d, layers[Len(layers)]) ELSE NoInstall

getLocalizedImagesFromDescriptor(d) ==
    LET artifacts == SelectSeq(d.resources, LAMBDA r : r.access = "ociArtifact" /\ r.image # NoImage)
    IN  [i \in DOMAIN artifacts |-> artifacts[i].image]

newManifestFromTemplate(d) ==
    [install |-> insertLayerIntoManifest(d, "raw-manifest"),
     config |-> insertLayerIntoManifest(d, "config"),
     localizedImages |-> getLocalizedImagesFromDescriptor(d),
     version |-> d.version]

(***************************************************************************)
(* The transforms, for one resource of Manifest m.                         *)
(***************************************************************************)
Workload(r) == r.kind \in {"Deployment", "StatefulSet"}

\* reference.ParseNormalizedNamed.
Parses(value) == value.path # <<>>

extractImageName(value) == value.path[Len(value.path)]
extractRepositoryPath(value) == SubSeq(value.path, 1, Len(value.path) - 1)
buildHostAndPath(value) == <<value.domain>> \o extractRepositoryPath(value)
buildNameAndTag(value) == <<extractImageName(value), value.tag>>

NewDockerImageReference(value) ==
    [HostAndPath |-> buildHostAndPath(value),
     NameAndTag |-> buildNameAndTag(value),
     Digest |-> value.digest]

\* The reference as a value again.
String(ir) ==
    [domain |-> Head(ir.HostAndPath),
     path |-> Append(Tail(ir.HostAndPath), ir.NameAndTag[1]),
     tag |-> ir.NameAndTag[2],
     digest |-> ir.Digest]

Matches(ir, nameAndTag) == ir.NameAndTag = nameAndTag

AsImageReferences(values) == [i \in DOMAIN values |-> NewDockerImageReference(values[i])]

\* The first localized image with the name and the tag of the container's.
PodContainerImageRewriter(c, targets) ==
    LET i == First(targets, LAMBDA t : Matches(t, buildNameAndTag(c.image)))
    IN  IF i = 0 THEN c ELSE [c EXCEPT !.image = String(targets[i])]

isImageRefForReplacement(value, nameAndTag) ==
    Parses(value) /\ Matches(NewDockerImageReference(value), nameAndTag)

\* Every variable with a value that is the reference of a localized image.
PodContainerEnvsRewriter(c, targets) ==
    [c EXCEPT !.env = [n \in DOMAIN c.env |->
        LET i == First(targets, LAMBDA t : isImageRefForReplacement(c.env[n], t.NameAndTag))
        IN  IF i = 0 THEN c.env[n] ELSE String(targets[i])]]

rewriteContainers(containers, targets) ==
    [i \in DOMAIN containers |->
        PodContainerEnvsRewriter(PodContainerImageRewriter(containers[i], targets), targets)]

getPodContainers(r) == r.containers
getPodInitContainers(r) == r.initContainers

\* An empty list is not set: a resource without init containers gets none.
setContainersGeneric(containers, r, changed) == IF containers = <<>> THEN r ELSE changed

setPodContainers(r, containers) ==
    setContainersGeneric(containers, r, [r EXCEPT !.containers = containers])
setPodInitContainers(r, containers) ==
    setContainersGeneric(containers, r, [r EXCEPT !.initContainers = containers])

ReplaceImages(r, targets) ==
    IF ~Workload(r) THEN r
    ELSE LET rewritten == setPodContainers(r, rewriteContainers(getPodContainers(r), targets))
         IN  setPodInitContainers(rewritten, rewriteContainers(getPodInitContainers(rewritten), targets))

\* An image that is no reference ends the rendering, a variable does not.
ReplaceImagesError(r, values) ==
    /\ values # <<>>
    /\ \/ \E i \in DOMAIN values : ~Parses(values[i])
       \/ Workload(r) /\ \E i \in DOMAIN (r.containers \o r.initContainers) :
                              ~Parses((r.containers \o r.initContainers)[i].image)

Env == "SKR_IMG_PULL_SECRET"

resourceIsManager(r) == Manager = <<>> \/ Manager = <<r.kind, r.name, r.namespace>>

patchEnvInContainers(c) ==
    [c EXCEPT !.env = [n \in DOMAIN @ \cup {Env} |->
                          IF n = Env THEN [NoImage EXCEPT !.tag = PullSecret] ELSE @[n]]]

SkrImagePullSecretTransform(r) ==
    IF ~Workload(r) THEN r
    ELSE [r EXCEPT !.imagePullSecrets = Append(@, PullSecret),
                   !.containers = IF resourceIsManager(r)
                                  THEN [i \in DOMAIN @ |-> patchEnvInContainers(@[i])] ELSE @]

ErrSkrImagePullSecretEnvAlreadyExists(r) ==
    /\ Workload(r) /\ resourceIsManager(r)
    /\ \E i \in DOMAIN r.containers : Env \in DOMAIN r.containers[i].env

isInjectableSecret(r) == ModuleName = "deployer" /\ r.kind = "Secret" /\ r.inject

\* stringData would win over the data.
replaceSecretData(r, data) == [r EXCEPT !.stringData = FALSE, !.data = data]

DeployerModuleImagePullSecretTransform(r) ==
    IF isInjectableSecret(r) THEN replaceSecretData(r, secret.data) ELSE r

ErrInjectDataFromKCP(r) ==
    isInjectableSecret(r) /\ (~secret.exists \/ secret.module # ModuleName)

\* ManagedByOwnedBy, KymaComponentTransform and DisclaimerTransform.
Owned(m, r) == [r EXCEPT !.owner = m]

NormaliseNamespace(r) ==
    CASE r.kind \in Unknown -> r
      [] r.kind \in Clustered \ Unknown -> [r EXCEPT !.namespace = ""]
      [] OTHER -> IF r.namespace = "" THEN [r EXCEPT !.namespace = "default"] ELSE r

TransformError(m, r) ==
    \/ ReplaceImagesError(r, spec[m].localizedImages)
    \/ ErrSkrImagePullSecretEnvAlreadyExists(r)
    \/ ErrInjectDataFromKCP(r)

Transformed(m, r) ==
    NormaliseNamespace(
        DeployerModuleImagePullSecretTransform(
            SkrImagePullSecretTransform(
                ReplaceImages(Owned(m, r), AsImageReferences(spec[m].localizedImages)))))

(***************************************************************************)
(* The files.  The path of a layer has its name and its reference; a layer *)
(* that is an archive is extracted next to it.  Of a file we keep whether  *)
(* it exists, how many of the resources of the layer it still has, and     *)
(* whether it can be parsed.                                               *)
(***************************************************************************)
Absent == [exists |-> FALSE, whole |-> 0, readable |-> TRUE]
Created == [exists |-> TRUE, whole |-> 0, readable |-> TRUE]
Complete(ref) == [exists |-> TRUE, whole |-> Len(Content[ref]), readable |-> TRUE]
Broken == [exists |-> TRUE, whole |-> 0, readable |-> FALSE]
CutShort(ref) == {Broken} \cup [exists : {TRUE}, whole : 0..Len(Content[ref]) - 1, readable : {TRUE}]

getFsChartPath(install, file) ==
    [name |-> install.name, hashed |-> install.hashed, ref |-> install.ref, file |-> file]

Installs == {newManifestFromTemplate(Descriptors[v]).install : v \in DOMAIN Descriptors}
Paths == {getFsChartPath(i, f) : i \in Installs, f \in {"layer", "extracted"}}

Layer(m) == getFsChartPath(spec[m].install, "layer")
Packed(m) == spec[m].install.type = "oci-dir"
RawManifest(m) == getFsChartPath(spec[m].install, IF Packed(m) THEN "extracted" ELSE "layer")

Miss == [hit |-> FALSE, resources |-> {}]
NotYet == [ref |-> "", ids |-> {}]
Free == "free"

Init ==
    /\ described = {}
    /\ spec \in [Manifests -> {newManifestFromTemplate(Descriptors[v]) :
                                v \in {w \in DOMAIN Descriptors : ~ParseError(Descriptors[w])}}]
    /\ files = [p \in Paths |-> Absent]
    /\ lock = [p \in Paths |-> Free]
    /\ parsed = [p \in Paths |-> Miss]
    /\ worker = [m \in Manifests |-> "idle"]
    /\ target = [m \in Manifests |-> {}]
    /\ synced = [m \in Manifests |-> NotYet]
    /\ deployed = [m \in Manifests |-> {}]
    /\ secret \in KcpSecrets
    /\ faults = 0 /\ copyFaults = 0 /\ events = 0

Goto(m, step) == worker' = [worker EXCEPT ![m] = step]

\* The reconciliation ends, and what it rendered is forgotten.
Ends(m) == Goto(m, "idle") /\ target' = [target EXCEPT ![m] = {}]
MayFail == faults + copyFaults < MaxFaults
Fault == MayFail /\ faults' = faults + 1

\* Mutant: every caller gets a mutex of its own.
NoLocker(m) == TRUE

\* GetLocker: one mutex per path, that of the layer for as long as it is fetched.
GetLocker(m) == lock[Layer(m)] = Free

\* GetSpec reads the credentials; GetPathForFetchedLayer, with the mutex of the
\* path: a file that exists is taken for the layer; otherwise the layer is pulled
\* and the file created.
FetchLayer(m) ==
    /\ worker[m] = "idle"
    /\ spec[m].install.type # ""
    /\ ~GetError
    /\ GetLocker(m)
    /\ \/ /\ files[Layer(m)].exists
          /\ Goto(m, IF Packed(m) THEN "extract" ELSE "render")
          /\ UNCHANGED <<files, lock>>
       \/ /\ ~files[Layer(m)].exists
          /\ spec[m].install.ref \in DOMAIN Content
          /\ files' = [files EXCEPT ![Layer(m)] = Created]
          /\ lock' = [lock EXCEPT ![Layer(m)] = m]
          /\ Goto(m, "download")
    /\ UNCHANGED <<described, spec, parsed, target, synced, deployed, secret, faults, copyFaults, events>>

\* There are no credentials, or the registry does not answer; the next
\* reconciliation starts over.
PullFails(m) ==
    /\ worker[m] = "idle" /\ spec[m].install.type # ""
    /\ \/ GetError /\ UNCHANGED faults
       \/ GetLocker(m) /\ ~files[Layer(m)].exists /\ Fault
    /\ UNCHANGED <<described, spec, files, lock, parsed, worker, target, synced, deployed, secret,
                   copyFaults, events>>

\* io.Copy ends, or breaks off: then the error is returned and the file stays
\* as it is.
Download(m) ==
    /\ worker[m] = "download"
    /\ lock' = [lock EXCEPT ![Layer(m)] = Free]
    /\ \/ /\ files' = [files EXCEPT ![Layer(m)] = Complete(spec[m].install.ref)]
          /\ Goto(m, IF Packed(m) THEN "extract" ELSE "render")
          /\ UNCHANGED copyFaults
       \/ /\ MayFail
          /\ copyFaults' = copyFaults + 1
          /\ \E left \in CutShort(spec[m].install.ref) : files' = [files EXCEPT ![Layer(m)] = left]
          /\ Goto(m, "idle")
    /\ UNCHANGED <<described, spec, parsed, target, synced, deployed, secret, faults, events>>

\* ExtractLayer, under a mutex of its own.  An archive that is cut short gives
\* an error, and leaves what could be extracted.
ExtractLayer(m) ==
    /\ worker[m] = "extract"
    /\ LET ref == spec[m].install.ref
           out == RawManifest(m)
       IN  \/ files[out].exists /\ Goto(m, "render") /\ UNCHANGED files
           \/ /\ ~files[out].exists /\ files[Layer(m)] = Complete(ref)
              /\ files' = [files EXCEPT ![out] = Complete(ref)]
              /\ Goto(m, "render")
           \/ /\ ~files[out].exists /\ files[Layer(m)] # Complete(ref)
              /\ \/ files[Layer(m)].readable /\ files' = [files EXCEPT ![out] = files[Layer(m)]]
                 \/ ~files[Layer(m)].readable /\ UNCHANGED files
              /\ Goto(m, "idle")
    /\ UNCHANGED <<described, spec, lock, parsed, target, synced, deployed, secret, faults, copyFaults, events>>

Id(r) == [kind |-> r.kind, name |-> r.name, namespace |-> r.namespace]

\* The first resource with an identity stays.
ParseManifestToObjects(path) ==
    LET c == Content[path.ref]
        firsts == {i \in 1..files[path].whole : \A j \in 1..i - 1 : Id(c[j]) # Id(c[i])}
    IN  {c[i] : i \in firsts}

\* The resources for the path, from the cache or from the file.
Parse(path) == IF parsed[path].hit THEN parsed[path].resources ELSE ParseManifestToObjects(path)

\* What stays in the cache: the callers get deep copies, which they transform.
cached(resources) == [hit |-> TRUE, resources |-> resources]

\* resolveAndTrackSpec: a Manifest without the annotation gets it, with the
\* reference of the layer that is about to be installed, and no more in this
\* reconciliation.  The update may fail.
TrackSpec(m) ==
    /\ worker[m] = "render"
    /\ synced[m].ref = NotYet.ref
    /\ Goto(m, "idle")
    /\ \/ synced' = [synced EXCEPT ![m].ref = spec[m].install.ref] /\ UNCHANGED faults
       \/ Fault /\ UNCHANGED synced
    /\ UNCHANGED <<described, spec, files, lock, parsed, target, deployed, secret, copyFaults, events>>

\* RenderTargetResources; it may also fail on the REST mapping.
RenderTargetResources(m) ==
    /\ worker[m] = "render"
    /\ synced[m].ref # NotYet.ref
    /\ LET path == RawManifest(m)
       IN  \/ /\ ~parsed[path].hit /\ ~files[path].readable
              /\ Goto(m, "idle")
              /\ UNCHANGED <<parsed, target, faults>>
           \/ /\ parsed[path].hit \/ files[path].readable
              /\ \E resources \in {Parse(path)} :
                 \E rendered \in {{Transformed(m, r) : r \in resources}} :
                    /\ parsed' = [parsed EXCEPT ![path] = cached(resources)]
                    /\ \/ /\ \E r \in resources : TransformError(m, r)
                          /\ Goto(m, "idle")
                          /\ UNCHANGED <<target, faults>>
                       \/ /\ \A r \in resources : ~TransformError(m, r)
                          /\ Goto(m, "sync")
                          /\ target' = [target EXCEPT ![m] = rendered]
                          /\ UNCHANGED faults
                       \/ /\ Fault /\ Goto(m, "idle")
                          /\ UNCHANGED target
    /\ UNCHANGED <<described, spec, files, lock, synced, deployed, secret, copyFaults, events>>

Ids(resources) == {Id(r) : r \in resources}

\* The Namespace kyma-system is spared.
pruneResource(ids) == {id \in ids : ~(id.kind = "Namespace" /\ id.name = "kyma-system")}

\* What was synchronised and is not rendered any more.
Diff(m) == pruneResource(synced[m].ids \ Ids(target[m]))

\* Mutant: what is missing in the rendered resources is always pruned.
alwaysPruned(m) == FALSE

manifestNotInDeletingAndOciRefNotChangedButDiffDetected(m) ==
    Diff(m) # {} /\ synced[m].ref = spec[m].install.ref

IsOperatorRelatedResources(kind) ==
    kind \in {"CustomResourceDefinition", "Namespace", "ServiceAccount", "Role", "ClusterRole", "RoleBinding",
              "ClusterRoleBinding", "Service", "Deployment"}

\* DeleteDiffResources: what the operator manages first; the rest once that is
\* gone.
DiffResources(m) ==
    LET present == Diff(m) \cap deployed[m]
        managed == {id \in present : ~IsOperatorRelatedResources(id.kind)}
    IN  IF managed # {} THEN managed ELSE present

\* pruneDiff, when it ends the reconciliation: with a diff in the same layer, as
\* long as there are resources to delete, or when some of the deletes fail.
pruneDiff(m) ==
    /\ worker[m] = "sync"
    /\ Ends(m)
    /\ \/ /\ manifestNotInDeletingAndOciRefNotChangedButDiffDetected(m)
          /\ parsed' = [parsed EXCEPT ![RawManifest(m)] = Miss]
          /\ UNCHANGED <<deployed, faults>>
       \/ /\ ~manifestNotInDeletingAndOciRefNotChangedButDiffDetected(m)
          /\ DiffResources(m) # {}
          /\ \/ deployed' = [deployed EXCEPT ![m] = @ \ DiffResources(m)] /\ UNCHANGED faults
             \/ /\ Fault
                /\ \E gone \in SUBSET DiffResources(m) : deployed' = [deployed EXCEPT ![m] = @ \ gone]
          /\ UNCHANGED parsed
    /\ UNCHANGED <<described, spec, files, lock, synced, secret, copyFaults, events>>

HasDiff(m) == synced[m].ids # Ids(target[m])

\* SyncResources applies what was rendered.  Other identities than before go into
\* the status, which is patched at the end of this reconciliation unless it has
\* the same state and operation already; the annotation follows in a later one,
\* which finds no diff and the manager ready.  Of the applies some may fail, or
\* the patch after them.
SyncResources(m) ==
    /\ worker[m] = "sync"
    /\ ~manifestNotInDeletingAndOciRefNotChangedButDiffDetected(m)
    /\ DiffResources(m) = {}
    /\ Ends(m)
    /\ \/ /\ Fault
          /\ \E part \in SUBSET Ids(target[m]) : deployed' = [deployed EXCEPT ![m] = @ \cup part]
          /\ UNCHANGED synced
       \/ /\ deployed' = [deployed EXCEPT ![m] = @ \cup Ids(target[m])]
          /\ \/ UNCHANGED synced
             \/ HasDiff(m) /\ synced' = [synced EXCEPT ![m].ids = Ids(target[m])]
             \/ ~HasDiff(m) /\ synced' = [synced EXCEPT ![m].ref = spec[m].install.ref]
          /\ UNCHANGED faults
    /\ UNCHANGED <<described, spec, files, lock, parsed, secret, copyFaults, events>>

Reconcile(m) ==
    \/ FetchLayer(m) \/ PullFails(m) \/ Download(m) \/ ExtractLayer(m)
    \/ TrackSpec(m) \/ RenderTargetResources(m) \/ pruneDiff(m) \/ SyncResources(m)

Event == events < MaxEvents /\ events' = events + 1

\* The Manifest gets another version: the template lookup puts the descriptor
\* into the cache (Add), the parser takes it from there.  A descriptor that
\* cannot be had or does not parse leaves the Manifest alone.  A worker works
\* on the Manifest it read, so a change under way is a change after it.
Upgrade(m) ==
    /\ Event /\ worker[m] = "idle"
    /\ \E v \in DOMAIN Descriptors :
        \/ /\ v \in described \/ ~GetComponentDescriptorError(v)
           /\ described' = described \cup {v}
           /\ spec' = IF ParseError(Descriptors[v]) THEN spec
                      ELSE [spec EXCEPT ![m] = newManifestFromTemplate(Descriptors[v])]
        \/ /\ v \notin described /\ GetComponentDescriptorError(v)
           /\ UNCHANGED <<described, spec>>
    /\ UNCHANGED <<files, lock, parsed, worker, target, synced, deployed, secret, faults, copyFaults>>

\* The entries live for DefaultInMemoryParseTTL.
CacheExpires ==
    /\ Event
    /\ \E p \in DOMAIN files : parsed[p].hit /\ parsed' = [parsed EXCEPT ![p] = Miss]
    /\ UNCHANGED <<described, spec, files, lock, worker, target, synced, deployed, secret, faults, copyFaults>>

SecretChanges ==
    /\ Event
    /\ secret' \in KcpSecrets \ {secret}
    /\ UNCHANGED <<described, spec, files, lock, parsed, worker, target, synced, deployed, faults, copyFaults>>

\* The container restarts: the caches, the mutexes and the files in the
\* temporary directory are gone.
Restart ==
    /\ Event
    /\ described' = {}
    /\ files' = [p \in DOMAIN files |-> Absent]
    /\ lock' = [p \in DOMAIN files |-> Free]
    /\ parsed' = [p \in DOMAIN files |-> Miss]
    /\ worker' = [m \in Manifests |-> "idle"]
    /\ target' = [m \in Manifests |-> {}]
    /\ UNCHANGED <<spec, synced, deployed, secret, faults, copyFaults>>

Next ==
    \/ \E m \in Manifests : Reconcile(m) \/ Upgrade(m)
    \/ CacheExpires \/ SecretChanges \/ Restart

Spec == Init /\ [][Next]_vars

\* Every Manifest is reconciled again and again.
Fairness == \A m \in Manifests : WF_vars(Reconcile(m))
FairSpec == Spec /\ Fairness

(***************************************************************************)
(* Properties.                                                             *)
(***************************************************************************)
TypeOK ==
    /\ described \subseteq DOMAIN Descriptors
    /\ worker \in [Manifests -> {"idle", "download", "extract", "render", "sync"}]
    /\ lock \in [DOMAIN files -> Manifests \cup {Free}]
    /\ \A p \in DOMAIN files : files[p].whole \in Nat /\ parsed[p].hit \in BOOLEAN
    /\ faults \in 0..MaxFaults /\ copyFaults \in 0..MaxFaults /\ events \in 0..MaxEvents

\* The identities in the layer of the Manifest's version, up to the namespace.
Named(resources) == {[kind |-> r.kind, name |-> r.name] : r \in resources}
Released(m) == Named({Content[spec[m].install.ref][i] : i \in DOMAIN Content[spec[m].install.ref]})

\* The images that a container runs and names.
Images(c) == {c.image} \cup Range(c.env)

\* What is rendered for a Manifest is its layer and nothing else: all of it, as
\* long as no download broke off, although two workers may need the same file at
\* the same time (GetPathForFetchedLayer, MutexCache); and whatever was rendered
\* for other Manifests from the shared cache before (CachedManifestParser.Parse),
\* every resource has its own Manifest for an owner, no image that is left
\* unlocalized, the pull secret exactly once, and injected data that counts.
RenderedAsReleased ==
    \A m \in Manifests : worker[m] = "sync" =>
        /\ Named(target[m]) \subseteq Released(m)
        /\ copyFaults = 0 => Named(target[m]) = Released(m)
        /\ \A r \in target[m] :
            /\ r.owner = m
            /\ Workload(r) => Cardinality({i \in DOMAIN r.imagePullSecrets :
                                               r.imagePullSecrets[i] = PullSecret}) = 1
            /\ r.inject => r.data > 0 /\ ~r.stringData
            /\ \A c \in Range(r.containers) \cup Range(r.initContainers) :
               \A image \in Images(c), localized \in Range(spec[m].localizedImages) :
                    isImageRefForReplacement(image, buildNameAndTag(localized))
                        => image.domain = localized.domain

\* The identities of the resources in the layer of the Manifest's version, in
\* the namespaces they are applied to.
ReleasedIds(m) ==
    {Id(NormaliseNamespace(Content[spec[m].install.ref][i])) : i \in DOMAIN Content[spec[m].install.ref]}

\* What belongs to the layer of the Manifest's version is deleted in the SKR only
\* when two things come together: a download broke off, and the annotation still
\* names another layer (pruneDiff: "we should prevent diff resources to be
\* deleted").  Workers that share files and cache, restarts in the middle of an
\* upgrade, failed deletes, applies and patches alone never lead to it, nor does
\* an incomplete file once the annotation has been updated.
KeepsReleased ==
    \A m \in Manifests : \A id \in deployed[m] \ deployed'[m] :
        id \in ReleasedIds(m) => copyFaults # 0 /\ synced[m].ref # spec[m].install.ref
KeepsResources == [][KeepsReleased]_vars

\* The same without the exception.  It does not hold: between the patch of the
\* status and the update of the annotation, a restart and a download that breaks
\* off make pruneDiff delete resources of the version that was just installed.
PreventsDiff ==
    [][\A m \in Manifests : \A id \in deployed[m] \ deployed'[m] : id \notin ReleasedIds(m)]_vars

Renderable(m) ==
    /\ spec[m].install.ref \in DOMAIN Content
    /\ \A i \in DOMAIN Content[spec[m].install.ref] : ~TransformError(m, Content[spec[m].install.ref][i])

CompletelyRendered(m) == worker[m] = "sync" /\ Named(target[m]) = Released(m)

\* "it means the resources read from cache is incomplete ... evict cache to hope
\* newly created resources back to normal" (pruneDiff): after resources were
\* missing, a Manifest that can be rendered is rendered completely again.
BackToNormal ==
    \A m \in Manifests : <>[]Renderable(m) => []<>CompletelyRendered(m)
=============================================================================
