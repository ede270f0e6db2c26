-------------------------- MODULE Rendering_proofs --------------------------
(***************************************************************************)
(* What is rendered and what is deleted, for any number of Manifests,      *)
(* versions, resources and failures.                                       *)
(***************************************************************************)
EXTENDS Rendering, FiniteSetTheorems, WellFoundedInduction, TLAPS

(***************************************************************************)
(* The transforms of one resource.                                         *)
(***************************************************************************)
\* A sequence.
IsList(s) == Len(s) \in Nat /\ DOMAIN s = 1..Len(s)

\* The fields of a resource.
Fields == {"kind", "name", "namespace", "owner", "containers", "initContainers", "imagePullSecrets",
           "data", "stringData", "inject"}

\* A container has an image and variables.
IsContainer(c) == DOMAIN c = {"image", "env"}

\* A resource of a raw manifest: only workloads have containers, the pull secret is added
\* by KLM alone, and only the deployer module has Secrets to inject into.
IsResource(r) ==
    /\ DOMAIN r = Fields
    /\ IsList(r.containers) /\ IsList(r.initContainers) /\ r.imagePullSecrets \in Seq(STRING)
    /\ \A c \in Range(r.containers) \cup Range(r.initContainers) : IsContainer(c)
    /\ ~Workload(r) => r.containers = <<>> /\ r.initContainers = <<>>
    /\ \A i \in DOMAIN r.imagePullSecrets : r.imagePullSecrets[i] # PullSecret
    /\ r.inject => ModuleName = "deployer" /\ r.kind = "Secret"

\* The fields that only one of the transforms sets are what they were.
SameBut(x, r, fields) == DOMAIN x = DOMAIN r /\ \A f \in Fields \ fields : x[f] = r[f]

\* The owner label is set, the rest stays.
LEMMA OwnedGives ==
    ASSUME NEW m, NEW r, DOMAIN r = Fields
    PROVE  SameBut(Owned(m, r), r, {"owner"}) /\ Owned(m, r).owner = m
  BY DEF Owned, SameBut, Fields

\* A container with its image and its variables localized.
Rewritten(c, targets) == PodContainerEnvsRewriter(PodContainerImageRewriter(c, targets), targets)

\* Every container of one list comes from a container of the other.
FromRewritten(new, old, targets) ==
    /\ DOMAIN new = DOMAIN old
    /\ \A i \in DOMAIN old : new[i] = Rewritten(old[i], targets)

\* A list that stays because the rewritten one is empty is empty as well.
LEMMA ListRewritten ==
    ASSUME NEW old, NEW targets, NEW new,
           new = IF rewriteContainers(old, targets) = <<>> THEN old ELSE rewriteContainers(old, targets)
    PROVE  FromRewritten(new, old, targets)
  <1>. DEFINE list == rewriteContainers(old, targets)
  <1>1. DOMAIN list = DOMAIN old /\ \A i \in DOMAIN old : list[i] = Rewritten(old[i], targets)
    BY Zenon DEF rewriteContainers, Rewritten
  <1>2. DOMAIN <<>> = {}
    OBVIOUS
  <1>. HIDE DEF list
  <1>. QED BY <1>1, <1>2, Zenon DEF FromRewritten, list

\* ReplaceImages rewrites the containers and the init containers, and nothing else.
LEMMA RewriteGives ==
    ASSUME NEW r, NEW targets, DOMAIN r = Fields, Workload(r), NEW x, x = ReplaceImages(r, targets)
    PROVE  /\ SameBut(x, r, {"containers", "initContainers"})
           /\ FromRewritten(x.containers, r.containers, targets)
           /\ FromRewritten(x.initContainers, r.initContainers, targets)
  <1>. DEFINE cs == rewriteContainers(r.containers, targets)
              y == setPodContainers(r, cs)
              is == rewriteContainers(y.initContainers, targets)
  <1>1. x = setPodInitContainers(y, is)
    BY DEF ReplaceImages, getPodContainers, getPodInitContainers
  <1>2. SameBut(y, r, {"containers"}) /\ y.containers = IF cs = <<>> THEN r.containers ELSE cs
    <2>. HIDE DEF cs
    <2>. QED BY DEF setPodContainers, setContainersGeneric, SameBut, Fields
  <1>3. y.initContainers = r.initContainers
    BY <1>2, Zenon DEF SameBut, Fields
  <1>4. DOMAIN y = Fields
    BY <1>2, Zenon DEF SameBut
  <1>. HIDE DEF y
  <1>5. SameBut(x, y, {"initContainers"}) /\ x.initContainers = IF is = <<>> THEN y.initContainers ELSE is
    <2>. HIDE DEF is
    <2>. QED BY <1>1, <1>4 DEF setPodInitContainers, setContainersGeneric, SameBut, Fields
  <1>6. x.containers = y.containers
    BY <1>5, Zenon DEF SameBut, Fields
  <1>7. SameBut(x, r, {"containers", "initContainers"})
    BY <1>2, <1>5, Zenon DEF SameBut
  <1>8. FromRewritten(x.containers, r.containers, targets)
    BY <1>2, <1>6, ListRewritten
  <1>9. FromRewritten(x.initContainers, r.initContainers, targets)
    BY <1>3, <1>5, ListRewritten
  <1>. QED BY <1>7, <1>8, <1>9

\* The pull secret is appended, and its name put into the environment of the manager.
LEMMA PullSecretGives ==
    ASSUME NEW r, DOMAIN r = Fields, Workload(r),
           NEW x, x = SkrImagePullSecretTransform(r)
    PROVE  /\ SameBut(x, r, {"containers", "imagePullSecrets"})
           /\ x.imagePullSecrets = Append(r.imagePullSecrets, PullSecret)
           /\ \/ x.containers = r.containers
              \/ x.containers = [i \in DOMAIN r.containers |-> patchEnvInContainers(r.containers[i])]
  <1>. DEFINE secrets == Append(r.imagePullSecrets, PullSecret)
              patched == IF resourceIsManager(r) THEN [i \in DOMAIN r.containers |-> patchEnvInContainers(r.containers[i])]
                         ELSE r.containers
              y == [r EXCEPT !.imagePullSecrets = secrets]
  <1>1. x = [y EXCEPT !.containers = patched]
    <2>1. x = [r EXCEPT !.imagePullSecrets = secrets, !.containers = patched]
      BY DEF SkrImagePullSecretTransform, Fields
    <2>. QED BY <2>1
  <1>2. patched = r.containers
        \/ patched = [i \in DOMAIN r.containers |-> patchEnvInContainers(r.containers[i])]
    BY Zenon
  <1>. HIDE DEF secrets, patched
  <1>3. SameBut(y, r, {"imagePullSecrets"}) /\ y.imagePullSecrets = secrets
    BY DEF SameBut, Fields
  <1>4. DOMAIN y = Fields
    BY <1>3, Zenon DEF SameBut
  <1>. HIDE DEF y
  <1>5. SameBut(x, y, {"containers"}) /\ x.containers = patched
    BY <1>1, <1>4 DEF SameBut, Fields
  <1>6. x.imagePullSecrets = y.imagePullSecrets
    BY <1>5, Zenon DEF SameBut, Fields
  <1>7. SameBut(x, r, {"containers", "imagePullSecrets"})
    BY <1>3, <1>5, Zenon DEF SameBut
  <1>. QED BY <1>2, <1>3, <1>5, <1>6, <1>7, Zenon DEF secrets

\* The data from KCP replaces that of an injectable Secret, stringData included.
LEMMA InjectGives ==
    ASSUME NEW r, DOMAIN r = Fields, NEW x, x = DeployerModuleImagePullSecretTransform(r)
    PROVE  /\ SameBut(x, r, {"data", "stringData"})
           /\ isInjectableSecret(r) => x.data = secret.data /\ ~x.stringData
  BY Zenon DEF DeployerModuleImagePullSecretTransform, replaceSecretData, SameBut, Fields

\* The namespace that a resource is applied to depends on its identity alone.
LEMMA NormaliseSame ==
    ASSUME NEW r, {"kind", "name", "namespace"} \subseteq DOMAIN r,
           NEW x, {"kind", "name", "namespace"} \subseteq DOMAIN x, Id(x) = Id(r)
    PROVE  Id(NormaliseNamespace(x)) = Id(NormaliseNamespace(r))
  <1>1. x.kind = r.kind /\ x.name = r.name /\ x.namespace = r.namespace
    BY DEF Id
  <1>2. CASE r.kind \in Unknown
    BY <1>1, <1>2, Zenon DEF NormaliseNamespace, Id
  <1>3. CASE r.kind \notin Unknown /\ r.kind \in Clustered
    BY <1>1, <1>3, Zenon DEF NormaliseNamespace, Id
  <1>4. CASE r.kind \notin Unknown /\ r.kind \notin Clustered
    BY <1>1, <1>4, Zenon DEF NormaliseNamespace, Id
  <1>. QED BY <1>2, <1>3, <1>4

\* Only the namespace is normalised.
LEMMA NormaliseGives ==
    ASSUME NEW r, DOMAIN r = Fields, NEW x, x = NormaliseNamespace(r)
    PROVE  SameBut(x, r, {"namespace"})
  <1>1. x \in {r, [r EXCEPT !.namespace = ""], [r EXCEPT !.namespace = "default"]}
    BY Zenon DEF NormaliseNamespace
  <1>. QED BY <1>1, Zenon DEF SameBut, Fields

\* The first of some indices, for the searches that First stands for.
LEMMA Least ==
    ASSUME NEW S \in SUBSET Nat, S # {}
    PROVE  \E n \in S : \A k \in S : n <= k
  <1>1. PICK n \in S : \A k \in S : ~(<<k, n>> \in OpToRel(<, Nat))
    BY NatLessThanWellFounded, WFMin, Zenon
  <1>2. \A k \in S : ~(k < n)
    BY <1>1, Zenon DEF OpToRel
  <1>. QED BY <1>2

\* The least of some numbers is one of them.
LEMMA MinGives ==
    ASSUME NEW S \in SUBSET Nat, S # {}
    PROVE  Min(S) \in S
  BY Least, Zenon DEF Min

\* The localized images of a descriptor: references, one for a name and a tag.
AreImages(values) ==
    /\ IsList(values)
    /\ \A i \in DOMAIN values : values[i].path \in Seq(STRING)
    /\ \A i, j \in DOMAIN values :
        buildNameAndTag(values[i]) = buildNameAndTag(values[j]) => values[i].domain = values[j].domain

\* A value is not a localized image in another registry.
InPlace(value, values) ==
    \A i \in DOMAIN values :
        isImageRefForReplacement(value, buildNameAndTag(values[i])) => value.domain = values[i].domain

\* A localized image as the rewriters write it: in the same registry, with the same
\* name and tag.
LEMMA StringGives ==
    ASSUME NEW v, v.path \in Seq(STRING), Parses(v), NEW s, s = String(NewDockerImageReference(v))
    PROVE  /\ s.domain = v.domain /\ buildNameAndTag(s) = buildNameAndTag(v)
  <1>1. v.path # <<>> /\ Len(v.path) \in Nat \ {0}
    BY DEF Parses
  <1>2. PICK front : front = SubSeq(v.path, 1, Len(v.path) - 1)
    BY Zenon
  <1>3. front \in Seq(STRING)
    BY <1>1, <1>2
  <1>4. PICK host : host = <<v.domain>> \o front
    BY Zenon
  <1>5. Head(host) = v.domain /\ Tail(host) = front
    BY <1>3, <1>4
  <1>6. PICK name : name = v.path[Len(v.path)]
    BY Zenon
  <1>7. s = [domain |-> Head(host), path |-> Append(Tail(host), name), tag |-> v.tag, digest |-> v.digest]
    BY <1>2, <1>4, <1>6 DEF String, NewDockerImageReference, buildHostAndPath, buildNameAndTag,
           extractRepositoryPath, extractImageName
  <1>8. s.domain = v.domain /\ s.path = Append(front, name) /\ s.tag = v.tag
    <2>1. s = [domain |-> v.domain, path |-> Append(front, name), tag |-> v.tag, digest |-> v.digest]
      BY <1>5, <1>7, Zenon
    <2>2. PICK path : path = Append(front, name)
      BY Zenon
    <2>. QED BY <2>1, <2>2
  <1>9. s.path[Len(s.path)] = name
    BY <1>3, <1>8
  <1>. QED BY <1>6, <1>8, <1>9 DEF buildNameAndTag, extractImageName

\* A value that the rewriters have written is in place.
LEMMA WrittenInPlace ==
    ASSUME NEW values, AreImages(values), NEW i \in DOMAIN values, Parses(values[i])
    PROVE  InPlace(String(AsImageReferences(values)[i]), values)
  <1>1. AsImageReferences(values)[i] = NewDockerImageReference(values[i])
    BY DEF AsImageReferences
  <1>2. PICK s : s = String(NewDockerImageReference(values[i]))
    BY Zenon
  <1>3. s.domain = values[i].domain /\ buildNameAndTag(s) = buildNameAndTag(values[i])
    BY <1>2, StringGives DEF AreImages
  <1>4. NewDockerImageReference(s).NameAndTag = buildNameAndTag(s)
    BY DEF NewDockerImageReference
  <1>. QED BY <1>1, <1>2, <1>3, <1>4 DEF InPlace, isImageRefForReplacement, Matches, AreImages

\* The localized images as the rewriters take them.
LEMMA TargetsGive ==
    ASSUME NEW values, IsList(values), NEW targets, targets = AsImageReferences(values)
    PROVE  /\ DOMAIN targets = DOMAIN values /\ Len(targets) = Len(values)
           /\ \A i \in DOMAIN values : targets[i].NameAndTag = buildNameAndTag(values[i])
  <1>1. targets = [i \in 1..Len(values) |-> NewDockerImageReference(values[i])]
    BY DEF AsImageReferences, IsList
  <1>2. DOMAIN targets = 1..Len(values) /\ Len(targets) = Len(values)
    BY <1>1 DEF IsList
  <1>3. \A i \in DOMAIN values : targets[i].NameAndTag = buildNameAndTag(values[i])
    BY <1>1 DEF IsList, NewDockerImageReference
  <1>. QED BY <1>2, <1>3 DEF IsList

\* What the rewriters make of a value, whichever way they look for the localized image:
\* S holds the indices of those that fit.
LEMMA ValueInPlace ==
    ASSUME NEW values, AreImages(values), \A i \in DOMAIN values : Parses(values[i]),
           NEW value, NEW S,
           S \in SUBSET DOMAIN values,
           \A i \in DOMAIN values : isImageRefForReplacement(value, buildNameAndTag(values[i])) => i \in S,
           NEW new, NEW i,
           i = IF S = {} THEN 0 ELSE Min(S),
           new = IF i = 0 THEN value ELSE String(AsImageReferences(values)[i])
    PROVE  InPlace(new, values)
  <1>1. CASE S = {}
    <2>1. new = value
      BY <1>1, Zenon
    <2>. QED BY <1>1, <2>1, Zenon DEF InPlace
  <1>2. CASE S # {}
    <2>1. S \in SUBSET Nat /\ 0 \notin S
      BY DEF AreImages, IsList
    <2>2. i \in S
      BY <1>2, <2>1, MinGives
    <2>3. new = String(AsImageReferences(values)[i]) /\ i \in DOMAIN values
      BY <2>1, <2>2
    <2>. QED BY <2>3, WrittenInPlace
  <1>. QED BY <1>1, <1>2

\* The image of a container.
LEMMA ImageInPlace ==
    ASSUME NEW values, AreImages(values), \A i \in DOMAIN values : Parses(values[i]),
           NEW c, IsContainer(c), NEW x, x = PodContainerImageRewriter(c, AsImageReferences(values))
    PROVE  IsContainer(x) /\ x.env = c.env /\ InPlace(x.image, values)
  <1>1. PICK targets : targets = AsImageReferences(values)
    BY Zenon
  <1>2. /\ DOMAIN targets = DOMAIN values /\ Len(targets) = Len(values)
        /\ \A i \in DOMAIN values : targets[i].NameAndTag = buildNameAndTag(values[i])
    BY <1>1, TargetsGive DEF AreImages
  <1>. DEFINE S == {i \in DOMAIN targets : Matches(targets[i], buildNameAndTag(c.image))}
              new == IF S = {} THEN 0 ELSE Min(S)
  <1>3. x = IF new = 0 THEN c ELSE [c EXCEPT !.image = String(targets[new])]
    BY <1>1, Zenon DEF PodContainerImageRewriter, First
  <1>4. S \in SUBSET DOMAIN values
    BY <1>2 DEF AreImages, IsList
  <1>5. \A i \in DOMAIN values : isImageRefForReplacement(c.image, buildNameAndTag(values[i])) => i \in S
    <2>1. NewDockerImageReference(c.image).NameAndTag = buildNameAndTag(c.image)
      BY DEF NewDockerImageReference
    <2>. QED BY <1>2, <2>1 DEF isImageRefForReplacement, Matches, AreImages, IsList
  <1>6. PICK image : image = IF new = 0 THEN c.image ELSE String(targets[new])
    BY Zenon
  <1>7. InPlace(image, values)
    <2>. HIDE DEF S
    <2>. QED BY <1>1, <1>4, <1>5, <1>6, ValueInPlace, Zenon
  <1>. HIDE DEF new
  <1>8. x.image = image /\ x.env = c.env /\ DOMAIN x = DOMAIN c
    BY <1>3, <1>6 DEF IsContainer
  <1>. QED BY <1>7, <1>8 DEF IsContainer

\* The variables of a container.
LEMMA EnvInPlace ==
    ASSUME NEW values, AreImages(values), \A i \in DOMAIN values : Parses(values[i]),
           NEW c, IsContainer(c), NEW x, x = PodContainerEnvsRewriter(c, AsImageReferences(values))
    PROVE  /\ IsContainer(x) /\ x.image = c.image
           /\ \A n \in DOMAIN x.env : InPlace(x.env[n], values)
  <1>1. PICK targets : targets = AsImageReferences(values)
    BY Zenon
  <1>2. /\ DOMAIN targets = DOMAIN values /\ Len(targets) = Len(values)
        /\ \A i \in DOMAIN values : targets[i].NameAndTag = buildNameAndTag(values[i])
    BY <1>1, TargetsGive DEF AreImages
  <1>. DEFINE S(n) == {i \in DOMAIN targets : isImageRefForReplacement(c.env[n], targets[i].NameAndTag)}
              first(n) == IF S(n) = {} THEN 0 ELSE Min(S(n))
              new(n) == IF first(n) = 0 THEN c.env[n] ELSE String(targets[first(n)])
              env == [n \in DOMAIN c.env |-> new(n)]
  <1>3. x = [c EXCEPT !.env = env]
    BY <1>1, Zenon DEF PodContainerEnvsRewriter, First
  <1>4. \A n \in DOMAIN c.env : InPlace(new(n), values)
    <2>. SUFFICES ASSUME NEW n \in DOMAIN c.env PROVE InPlace(new(n), values)
      BY Zenon
    <2>1. S(n) \in SUBSET DOMAIN values
      BY <1>2 DEF AreImages, IsList
    <2>2. \A i \in DOMAIN values : isImageRefForReplacement(c.env[n], buildNameAndTag(values[i])) => i \in S(n)
      BY <1>2 DEF AreImages, IsList
    <2>. HIDE DEF S
    <2>. QED BY <1>1, <2>1, <2>2, ValueInPlace
  <1>5. DOMAIN env = DOMAIN c.env /\ \A n \in DOMAIN env : env[n] = new(n)
    <2>. HIDE DEF new
    <2>. QED OBVIOUS
  <1>. HIDE DEF env, new
  <1>6. x.env = env /\ x.image = c.image /\ DOMAIN x = DOMAIN c
    BY <1>3 DEF IsContainer
  <1>. QED BY <1>4, <1>5, <1>6 DEF IsContainer

\* A container whose image and variables are in place.
ContainerInPlace(c, values) ==
    InPlace(c.image, values) /\ \A n \in DOMAIN c.env : InPlace(c.env[n], values)

\* The image first, then the variables: a rewritten container is in place.
LEMMA RewrittenInPlace ==
    ASSUME NEW values, AreImages(values), \A i \in DOMAIN values : Parses(values[i]),
           NEW c, IsContainer(c), NEW x, x = Rewritten(c, AsImageReferences(values))
    PROVE  IsContainer(x) /\ ContainerInPlace(x, values)
  <1>1. PICK y : y = PodContainerImageRewriter(c, AsImageReferences(values))
    BY Zenon
  <1>2. IsContainer(y) /\ InPlace(y.image, values)
    BY <1>1, ImageInPlace
  <1>3. x = PodContainerEnvsRewriter(y, AsImageReferences(values))
    BY <1>1, Zenon DEF Rewritten
  <1>. QED BY <1>2, <1>3, EnvInPlace DEF ContainerInPlace

\* The name of the pull secret is no reference of an image.
LEMMA PatchInPlace ==
    ASSUME NEW values, NEW c, IsContainer(c), ContainerInPlace(c, values)
    PROVE  ContainerInPlace(patchEnvInContainers(c), values)
  <1>. DEFINE name == [NoImage EXCEPT !.tag = PullSecret]
              env == [n \in DOMAIN c.env \cup {Env} |-> IF n = Env THEN name ELSE c.env[n]]
  <1>1. ~Parses(name)
    BY DEF Parses, NoImage
  <1>2. InPlace(name, values)
    BY <1>1, Zenon DEF InPlace, isImageRefForReplacement
  <1>3. patchEnvInContainers(c) = [c EXCEPT !.env = env]
    BY Zenon DEF patchEnvInContainers
  <1>. HIDE DEF name
  <1>4. \A n \in DOMAIN env : InPlace(env[n], values)
    BY <1>2 DEF ContainerInPlace
  <1>. HIDE DEF env
  <1>5. patchEnvInContainers(c).image = c.image /\ patchEnvInContainers(c).env = env
    BY <1>3 DEF IsContainer
  <1>. QED BY <1>4, <1>5 DEF ContainerInPlace

\* What RenderedAsReleased says of a single resource.
Fits(m, values, r) ==
    /\ r.owner = m
    /\ Workload(r) => Cardinality({i \in DOMAIN r.imagePullSecrets : r.imagePullSecrets[i] = PullSecret}) = 1
    /\ r.inject => r.data > 0 /\ ~r.stringData
    /\ \A c \in Range(r.containers) \cup Range(r.initContainers) :
       \A image \in Images(c), localized \in Range(values) :
            isImageRefForReplacement(image, buildNameAndTag(localized)) => image.domain = localized.domain

\* Containers in place have no image that is left in another registry.
LEMMA InPlaceFits ==
    ASSUME NEW values, NEW c, ContainerInPlace(c, values),
           NEW image \in Images(c), NEW localized \in Range(values),
           isImageRefForReplacement(image, buildNameAndTag(localized))
    PROVE  image.domain = localized.domain
  <1>1. InPlace(image, values)
    BY DEF Images, Range, ContainerInPlace
  <1>. QED BY <1>1 DEF InPlace, Range

\* How often an element is in a list.
Times(list, e) == Cardinality({i \in DOMAIN list : list[i] = e})

\* The pull secret is there once when it was not there before.
LEMMA AppendedOnce ==
    ASSUME NEW list \in Seq(STRING), NEW e, \A i \in DOMAIN list : list[i] # e,
           NEW new, new = Append(list, e)
    PROVE  Times(new, e) = 1
  <1>1. /\ DOMAIN list = 1..Len(list) /\ Len(list) \in Nat
        /\ DOMAIN new = 1..(Len(list) + 1) /\ new[Len(list) + 1] = e /\ \A i \in 1..Len(list) : new[i] = list[i]
    OBVIOUS
  <1>2. {i \in DOMAIN new : new[i] = e} = {Len(list) + 1}
    BY <1>1
  <1>. QED BY <1>2, FS_Singleton, Zenon DEF Times

\* The transforms one after the other, for a workload.
LEMMA WorkloadFits ==
    ASSUME NEW m, NEW r, IsResource(r), Workload(r),
           NEW values, AreImages(values), \A i \in DOMAIN values : Parses(values[i]),
           NEW y, y = SkrImagePullSecretTransform(ReplaceImages(Owned(m, r), AsImageReferences(values)))
    PROVE  /\ SameBut(y, r, {"owner", "containers", "initContainers", "imagePullSecrets"})
           /\ y.owner = m
           /\ Times(y.imagePullSecrets, PullSecret) = 1
           /\ \A c \in Range(y.containers) \cup Range(y.initContainers) : ContainerInPlace(c, values)
  <1>. DEFINE targets == AsImageReferences(values)
  <1>1. PICK p : p = Owned(m, r)
    BY Zenon
  <1>2. PICK q : q = ReplaceImages(p, targets)
    BY Zenon
  <1>3. y = SkrImagePullSecretTransform(q)
    BY <1>1, <1>2, Zenon
  <1>4. SameBut(p, r, {"owner"}) /\ p.owner = m
    BY <1>1, OwnedGives DEF IsResource
  <1>5. /\ DOMAIN p = Fields /\ p.kind = r.kind /\ p.containers = r.containers /\ p.initContainers = r.initContainers
        /\ p.imagePullSecrets = r.imagePullSecrets
    BY <1>4, Zenon DEF SameBut, Fields, IsResource
  <1>6. /\ SameBut(q, p, {"containers", "initContainers"})
        /\ FromRewritten(q.containers, r.containers, targets)
        /\ FromRewritten(q.initContainers, r.initContainers, targets)
    BY <1>2, <1>5, RewriteGives DEF Workload
  <1>7. DOMAIN q = Fields /\ q.kind = r.kind /\ q.imagePullSecrets = r.imagePullSecrets /\ q.owner = m
    BY <1>4, <1>5, <1>6, Zenon DEF SameBut, Fields
  <1>8. /\ SameBut(y, q, {"containers", "imagePullSecrets"})
        /\ y.imagePullSecrets = Append(r.imagePullSecrets, PullSecret)
        /\ \/ y.containers = q.containers
           \/ y.containers = [i \in DOMAIN q.containers |-> patchEnvInContainers(q.containers[i])]
    BY <1>3, <1>7, PullSecretGives DEF Workload, IsResource
  <1>9. y.owner = m /\ y.initContainers = q.initContainers
    BY <1>7, <1>8, Zenon DEF SameBut, Fields
  <1>10. SameBut(y, r, {"owner", "containers", "initContainers", "imagePullSecrets"})
    BY <1>4, <1>6, <1>8, Zenon DEF SameBut
  <1>11. Times(y.imagePullSecrets, PullSecret) = 1
    <2>1. r.imagePullSecrets \in Seq(STRING) /\ \A i \in DOMAIN r.imagePullSecrets : r.imagePullSecrets[i] # PullSecret
      BY Zenon DEF IsResource
    <2>. QED BY <1>8, <2>1, AppendedOnce, Zenon
  <1>12. \A i \in DOMAIN q.containers : IsContainer(q.containers[i]) /\ ContainerInPlace(q.containers[i], values)
    BY <1>6, RewrittenInPlace DEF FromRewritten, IsResource, Range
  <1>13. \A i \in DOMAIN q.initContainers : ContainerInPlace(q.initContainers[i], values)
    BY <1>6, RewrittenInPlace DEF FromRewritten, IsResource, Range
  <1>14. \A i \in DOMAIN y.containers : ContainerInPlace(y.containers[i], values)
    BY <1>8, <1>12, PatchInPlace
  <1>15. \A c \in Range(y.containers) \cup Range(y.initContainers) : ContainerInPlace(c, values)
    BY <1>9, <1>13, <1>14 DEF Range
  <1>. QED BY <1>9, <1>10, <1>11, <1>15

\* What the transforms that succeed make of a resource.
LEMMA TransformedFits ==
    ASSUME NEW m, NEW r, IsResource(r),
           NEW values, values = spec[m].localizedImages, AreImages(values),
           ~TransformError(m, r), secret.exists => secret.data > 0,
           NEW x, x = Transformed(m, r)
    PROVE  Fits(m, values, x) /\ x.kind = r.kind /\ x.name = r.name /\ Id(x) = Id(NormaliseNamespace(r))
  <1>1. \A i \in DOMAIN values : Parses(values[i])
    <2>1. ~ReplaceImagesError(r, values)
      BY Zenon DEF TransformError
    <2>2. DOMAIN values # {} => values # <<>>
      OBVIOUS
    <2>. QED BY <2>1, <2>2, Zenon DEF ReplaceImagesError
  <1>2. PICK y : y = SkrImagePullSecretTransform(ReplaceImages(Owned(m, r), AsImageReferences(values)))
    BY Zenon
  <1>3. PICK z : z = DeployerModuleImagePullSecretTransform(y)
    BY Zenon
  <1>4. x = NormaliseNamespace(z)
    BY <1>2, <1>3, Zenon DEF Transformed
  <1>5. /\ SameBut(y, r, {"owner", "containers", "initContainers", "imagePullSecrets"})
        /\ y.owner = m
        /\ Workload(r) => Times(y.imagePullSecrets, PullSecret) = 1
        /\ \A c \in Range(y.containers) \cup Range(y.initContainers) : ContainerInPlace(c, values)
    <2>1. CASE Workload(r)
      BY <1>1, <1>2, <2>1, WorkloadFits
    <2>2. CASE ~Workload(r)
      <3>1. PICK p : p = Owned(m, r)
        BY Zenon
      <3>2. SameBut(p, r, {"owner"}) /\ p.owner = m
        BY <3>1, OwnedGives DEF IsResource
      <3>3. p.kind = r.kind /\ p.containers = <<>> /\ p.initContainers = <<>>
        BY <2>2, <3>2, Zenon DEF SameBut, Fields, IsResource
      <3>4. y = p
        BY <1>2, <2>2, <3>1, <3>3 DEF SkrImagePullSecretTransform, ReplaceImages, Workload
      <3>5. Range(<<>>) = {}
        BY DEF Range
      <3>6. SameBut(p, r, {"owner", "containers", "initContainers", "imagePullSecrets"})
        BY <3>2, Zenon DEF SameBut
      <3>. QED BY <2>2, <3>2, <3>3, <3>4, <3>5, <3>6
    <2>. QED BY <2>1, <2>2
  <1>6. DOMAIN y = Fields /\ y.kind = r.kind /\ y.name = r.name /\ y.inject = r.inject /\ y.namespace = r.namespace
    BY <1>5, Zenon DEF SameBut, Fields, IsResource
  <1>7. SameBut(z, y, {"data", "stringData"}) /\ (isInjectableSecret(y) => z.data = secret.data /\ ~z.stringData)
    BY <1>3, <1>6, InjectGives
  <1>8. /\ DOMAIN z = Fields /\ z.kind = r.kind /\ z.name = r.name /\ z.inject = r.inject /\ z.owner = m
        /\ z.containers = y.containers /\ z.initContainers = y.initContainers
        /\ z.imagePullSecrets = y.imagePullSecrets
    BY <1>5, <1>6, <1>7, Zenon DEF SameBut, Fields
  <1>9. SameBut(x, z, {"namespace"})
    BY <1>4, <1>8, NormaliseGives
  <1>15. Id(x) = Id(NormaliseNamespace(r))
    <2>1. z.namespace = r.namespace
      BY <1>6, <1>7, Zenon DEF SameBut, Fields
    <2>2. Id(z) = Id(r)
      BY <1>8, <2>1, Zenon DEF Id
    <2>3. {"kind", "name", "namespace"} \subseteq DOMAIN z /\ {"kind", "name", "namespace"} \subseteq DOMAIN r
      BY <1>8 DEF IsResource, Fields
    <2>. QED BY <1>4, <2>2, <2>3, NormaliseSame, Zenon
  <1>10. /\ x.kind = r.kind /\ x.name = r.name /\ x.inject = r.inject /\ x.owner = m
         /\ x.containers = y.containers /\ x.initContainers = y.initContainers
         /\ x.imagePullSecrets = y.imagePullSecrets /\ x.data = z.data /\ x.stringData = z.stringData
    BY <1>8, <1>9, Zenon DEF SameBut, Fields
  <1>11. r.inject => x.data > 0 /\ ~x.stringData
    <2>. SUFFICES ASSUME r.inject PROVE x.data > 0 /\ ~x.stringData
      OBVIOUS
    <2>1. isInjectableSecret(r) /\ isInjectableSecret(y)
      BY <1>6, Zenon DEF isInjectableSecret, IsResource
    <2>2. secret.exists
      BY <2>1, Zenon DEF TransformError, ErrInjectDataFromKCP
    <2>. QED BY <1>7, <1>10, <2>1, <2>2, Zenon
  <1>12. Workload(x) => Times(x.imagePullSecrets, PullSecret) = 1
    BY <1>5, <1>10, Zenon DEF Workload
  <1>13. \A c \in Range(x.containers) \cup Range(x.initContainers) : ContainerInPlace(c, values)
    BY <1>5, <1>10, Zenon
  <1>14. ASSUME NEW c \in Range(x.containers) \cup Range(x.initContainers),
                NEW image \in Images(c), NEW localized \in Range(values),
                isImageRefForReplacement(image, buildNameAndTag(localized))
         PROVE  image.domain = localized.domain
    <2>1. ContainerInPlace(c, values)
      BY <1>13, Zenon
    <2>. QED BY <1>14, <2>1, InPlaceFits
  <1>. QED BY <1>10, <1>11, <1>12, <1>14, <1>15, Zenon DEF Fits, Times

(***************************************************************************)
(* The files, the cache and the workers.                                   *)
(***************************************************************************)
\* The specifications that a Manifest may get.
Specs == {newManifestFromTemplate(Descriptors[v]) : v \in DOMAIN Descriptors}

\* What is assumed of the module and of KCP: a descriptor has no two images with the same
\* name and tag in different registries, the raw manifests are lists of resources as above,
\* and the Secret to inject has data.
WellFormed ==
    /\ Free \notin Manifests
    /\ \A s \in Specs : AreImages(s.localizedImages)
    /\ \A ref \in DOMAIN Content : IsList(Content[ref]) /\ \A r \in Range(Content[ref]) : IsResource(r)
    /\ \A s \in KcpSecrets : s.exists => s.data > 0

\* The shapes of the variables.
Types ==
    /\ spec \in [Manifests -> Specs]
    /\ DOMAIN worker = Manifests /\ DOMAIN target = Manifests /\ DOMAIN synced = Manifests
    /\ DOMAIN deployed = Manifests
    /\ DOMAIN files = Paths /\ DOMAIN lock = Paths /\ DOMAIN parsed = Paths
    /\ secret \in KcpSecrets
    /\ copyFaults \in Nat

\* The paths of a specification.
LayerOf(s) == getFsChartPath(s.install, "layer")
RawOf(s) == getFsChartPath(s.install, IF s.install.type = "oci-dir" THEN "extracted" ELSE "layer")

\* The names of all resources in a layer, their identities in the file, and those in
\* the SKR.
All(ref) == Named(Range(Content[ref]))
InFile(ref) == Ids(Range(Content[ref]))
InSkr(ref) == {Id(NormaliseNamespace(r)) : r \in Range(Content[ref])}

\* A file holds the beginning of its layer, and all of it when no download broke off and
\* nobody is writing it; only layers are written under the mutex.
FileOK(p, file, holder, broken) ==
    /\ file.exists => p.ref \in DOMAIN Content /\ file.whole \in 0..Len(Content[p.ref])
    /\ ~broken /\ file.exists /\ holder = Free => file = Complete(p.ref)
    /\ p.file = "extracted" => holder = Free

\* The cache holds resources of the layer as they are in the file, and all of them when
\* no download broke off.
CacheOK(p, entry, broken) ==
    entry.hit => /\ p.ref \in DOMAIN Content
                 /\ entry.resources \subseteq Range(Content[p.ref])
                 /\ ~broken => Ids(entry.resources) = InFile(p.ref)

\* A worker has the mutex of the layer as long as it downloads it, later the files are there.
AtWork(m, s, at, fs, locks) ==
    /\ at = "download" => fs[LayerOf(s)].exists /\ locks[LayerOf(s)] = m
    /\ at \in {"extract", "render"} => fs[LayerOf(s)].exists /\ locks[LayerOf(s)] = Free
    /\ at = "render" => fs[RawOf(s)].exists

\* What was rendered fits the Manifest, and is complete when no download broke off.
Rendered(m, s, at, resources, broken) ==
    at = "sync" => /\ Named(resources) \subseteq All(s.install.ref)
                   /\ ~broken => Named(resources) = All(s.install.ref) /\ Ids(resources) = InSkr(s.install.ref)
                   /\ \A r \in resources : Fits(m, s.localizedImages, r)

\* All of them.
FilesOK == \A p \in Paths : FileOK(p, files[p], lock[p], copyFaults # 0)
CachesOK == \A p \in Paths : CacheOK(p, parsed[p], copyFaults # 0)
WorkersOK == \A m \in Manifests : AtWork(m, spec[m], worker[m], files, lock)
TargetsOK == \A m \in Manifests : Rendered(m, spec[m], worker[m], target[m], copyFaults # 0)

\* The inductive invariant.
RInv == Types /\ FilesOK /\ CachesOK /\ WorkersOK /\ TargetsOK

\* The paths of the Manifests.
LEMMA PathsGive ==
    ASSUME NEW s \in Specs
    PROVE  /\ LayerOf(s) \in Paths /\ RawOf(s) \in Paths
           /\ LayerOf(s).ref = s.install.ref /\ RawOf(s).ref = s.install.ref
           /\ LayerOf(s).file = "layer"
           /\ RawOf(s) = LayerOf(s) \/ RawOf(s).file = "extracted"
  <1>1. s.install \in Installs
    BY DEF Specs, Installs
  <1>2. PICK i \in Installs : i = s.install
    BY <1>1
  <1>3. getFsChartPath(i, "layer") \in Paths /\ getFsChartPath(i, "extracted") \in Paths
    BY DEF Paths
  <1>4. RawOf(s) = getFsChartPath(i, "extracted") \/ RawOf(s) = getFsChartPath(i, "layer")
    BY <1>2, Zenon DEF RawOf
  <1>5. LayerOf(s) = getFsChartPath(i, "layer")
    BY <1>2, Zenon DEF LayerOf
  <1>6. /\ getFsChartPath(i, "layer").ref = i.ref /\ getFsChartPath(i, "extracted").ref = i.ref
        /\ getFsChartPath(i, "layer").file = "layer" /\ getFsChartPath(i, "extracted").file = "extracted"
    BY DEF getFsChartPath
  <1>. QED BY <1>2, <1>3, <1>4, <1>5, <1>6, Zenon

\* The invariant holds before anything is downloaded.
LEMMA InitR ==
    ASSUME WellFormed, Init
    PROVE  RInv
  <1>1. spec \in [Manifests -> Specs]
    BY DEF Init, Specs
  <1>2. Types
    BY <1>1 DEF Init, Types
  <1>3. FilesOK
    BY DEF Init, FilesOK, FileOK, Absent
  <1>4. CachesOK
    BY DEF Init, CachesOK, CacheOK, Miss
  <1>5. WorkersOK
    BY DEF Init, WorkersOK, AtWork
  <1>6. TargetsOK
    BY DEF Init, TargetsOK, Rendered
  <1>. QED BY <1>2, <1>3, <1>4, <1>5, <1>6 DEF RInv

\* When a file is created or changed and stays, the workers stay where they were.
LEMMA WorkersKept ==
    ASSUME WorkersOK, Types, NEW n \in Manifests,
           spec' = spec,
           \A p \in Paths : files[p].exists => files'[p].exists,
           \A m \in Manifests \ {n} : worker'[m] = worker[m],
           \A m \in Manifests \ {n} :
               worker[m] \in {"download", "extract", "render"} => lock'[LayerOf(spec[m])] = lock[LayerOf(spec[m])],
           AtWork(n, spec[n], worker'[n], files', lock')
    PROVE  WorkersOK'
  <1>. SUFFICES ASSUME NEW m \in Manifests PROVE AtWork(m, spec[m], worker'[m], files', lock')
    BY DEF WorkersOK
  <1>1. spec[m] \in Specs
    BY DEF Types
  <1>2. LayerOf(spec[m]) \in Paths /\ RawOf(spec[m]) \in Paths
    BY <1>1, PathsGive
  <1>3. CASE m = n
    BY <1>3
  <1>4. CASE m # n
    BY <1>2, <1>4 DEF WorkersOK, AtWork
  <1>. QED BY <1>3, <1>4

\* A worker that is not about to synchronise has nothing to show.
LEMMA TargetsKept ==
    ASSUME TargetsOK, NEW n,
           spec' = spec, target' = target,
           \A m \in Manifests \ {n} : worker'[m] = worker[m],
           n \in Manifests => worker'[n] # "sync",
           copyFaults # 0 => copyFaults' # 0
    PROVE  TargetsOK'
  BY DEF TargetsOK, Rendered

\* The cache does not depend on what else happens.
LEMMA CachesKept ==
    ASSUME CachesOK, parsed' = parsed, copyFaults # 0 => copyFaults' # 0
    PROVE  CachesOK'
  BY DEF CachesOK, CacheOK

\* Entries that expire or are evicted do no harm.
LEMMA CachesMissed ==
    ASSUME CachesOK, \A p \in Paths : parsed'[p] = parsed[p] \/ parsed'[p] = Miss,
           copyFaults' = copyFaults
    PROVE  CachesOK'
  <1>. SUFFICES ASSUME NEW p \in Paths PROVE CacheOK(p, parsed'[p], copyFaults # 0)
    BY Zenon DEF CachesOK
  <1>1. CASE parsed'[p] = parsed[p]
    BY <1>1, Zenon DEF CachesOK
  <1>2. CASE parsed'[p] = Miss
    <2>1. ~Miss.hit
      BY DEF Miss
    <2>. QED  BY <1>2, <2>1, Zenon DEF CacheOK
  <1>. QED  BY <1>1, <1>2, Zenon

\* Layer and RawManifest are the paths of the specification.
LEMMA PathsOf ==
    ASSUME NEW m
    PROVE  Layer(m) = LayerOf(spec[m]) /\ RawManifest(m) = RawOf(spec[m])
  BY Zenon DEF Layer, RawManifest, Packed, LayerOf, RawOf

\* A file that exists is taken; a new one is created under the mutex.
LEMMA FetchKeeps ==
    ASSUME WellFormed, RInv, NEW n \in Manifests, FetchLayer(n)
    PROVE  RInv'
  <1>. DEFINE s == spec[n]
              p == LayerOf(s)
  <1>1. Types /\ FilesOK /\ CachesOK /\ WorkersOK /\ TargetsOK
    BY DEF RInv
  <1>2. s \in Specs
    BY <1>1 DEF Types
  <1>3. p \in Paths /\ p.ref = s.install.ref /\ p.file = "layer" /\ (RawOf(s) = p \/ RawOf(s).file = "extracted")
    BY <1>2, PathsGive
  <1>4. UNCHANGED <<described, spec, parsed, target, synced, deployed, secret, faults, copyFaults, events>>
    BY Zenon DEF FetchLayer
  <1>5. lock[p] = Free
    BY PathsOf, Zenon DEF FetchLayer, GetLocker
  <1>6. CASE files[p].exists
    <2>1. files' = files /\ lock' = lock
      BY <1>6, PathsOf, Zenon DEF FetchLayer
    <2>2. worker' = [worker EXCEPT ![n] = IF Packed(n) THEN "extract" ELSE "render"]
      BY <1>6, PathsOf, Zenon DEF FetchLayer, Goto
    <2>3. Types'
      BY <1>1, <1>4, <2>1, <2>2 DEF Types
    <2>4. FilesOK'
      BY <1>1, <1>4, <2>1 DEF FilesOK
    <2>5. worker'[n] \in {"extract", "render"} /\ (worker'[n] = "render" => RawOf(s) = p)
      BY <1>1, <2>2 DEF Types, Packed, RawOf, LayerOf
    <2>6. AtWork(n, s, worker'[n], files', lock')
      BY <1>5, <1>6, <2>1, <2>5 DEF AtWork
    <2>7. \A m \in Manifests \ {n} : worker'[m] = worker[m]
      BY <1>1, <2>2 DEF Types
    <2>. HIDE DEF p, s
    <2>8. WorkersOK'
      BY <1>1, <1>4, <2>1, <2>6, <2>7, WorkersKept DEF s
    <2>9. TargetsOK'
      BY <1>1, <1>4, <2>5, <2>7, TargetsKept
    <2>. QED BY <1>1, <1>4, <2>3, <2>4, <2>8, <2>9, CachesKept DEF RInv
  <1>7. CASE ~files[p].exists
    <2>1. /\ files' = [files EXCEPT ![p] = Created] /\ lock' = [lock EXCEPT ![p] = n]
          /\ worker' = [worker EXCEPT ![n] = "download"] /\ s.install.ref \in DOMAIN Content
      BY <1>7, PathsOf, Zenon DEF FetchLayer, Goto
    <2>. HIDE DEF p
    <2>2. /\ files'[p] = Created /\ lock'[p] = n /\ worker'[n] = "download"
          /\ \A q \in Paths \ {p} : files'[q] = files[q] /\ lock'[q] = lock[q]
          /\ \A m \in Manifests \ {n} : worker'[m] = worker[m]
      BY <1>1, <1>3, <2>1 DEF Types
    <2>3. Types'
      BY <1>1, <1>4, <2>1 DEF Types
    <2>4. FilesOK'
      <3>. SUFFICES ASSUME NEW q \in Paths PROVE FileOK(q, files'[q], lock'[q], copyFaults' # 0)
        BY DEF FilesOK
      <3>1. CASE q # p
        BY <1>1, <1>4, <2>2, <3>1 DEF FilesOK
      <3>2. CASE q = p
        <4>1. IsList(Content[p.ref]) /\ n # Free
          BY <1>3, <2>1 DEF WellFormed
        <4>. QED BY <1>3, <2>1, <2>2, <3>2, <4>1 DEF FileOK, Created, IsList
      <3>. QED BY <3>1, <3>2
    <2>5. Created.exists
      BY DEF Created
    <2>6. AtWork(n, s, worker'[n], files', lock')
      BY <2>2, <2>5 DEF AtWork, p
    <2>7. \A m \in Manifests \ {n} :
              worker[m] \in {"download", "extract", "render"} => LayerOf(spec[m]) # p /\ LayerOf(spec[m]) \in Paths
      BY <1>1, <1>7, PathsGive DEF WorkersOK, AtWork, Types
    <2>8. WorkersOK'
      BY <1>1, <1>4, <2>2, <2>5, <2>6, <2>7, WorkersKept
    <2>9. TargetsOK'
      BY <1>1, <1>4, <2>2, TargetsKept
    <2>. QED BY <1>1, <1>4, <2>3, <2>4, <2>8, <2>9, CachesKept DEF RInv
  <1>. QED BY <1>6, <1>7

\* The download ends, or breaks off.
LEMMA DownloadKeeps ==
    ASSUME WellFormed, RInv, NEW n \in Manifests, Download(n)
    PROVE  RInv'
  <1>. DEFINE s == spec[n]
              p == LayerOf(s)
  <1>1. Types /\ FilesOK /\ CachesOK /\ WorkersOK /\ TargetsOK
    BY DEF RInv
  <1>2. s \in Specs
    BY <1>1 DEF Types
  <1>3. p \in Paths /\ p.ref = s.install.ref /\ p.file = "layer" /\ (RawOf(s) = p \/ RawOf(s).file = "extracted")
    BY <1>2, PathsGive
  <1>4. UNCHANGED <<described, spec, parsed, target, synced, deployed, secret, faults, events>>
    BY DEF Download
  <1>5. files[p].exists /\ lock[p] = n
    BY <1>1 DEF Download, WorkersOK, AtWork
  <1>6. lock' = [lock EXCEPT ![p] = Free]
    BY PathsOf, Zenon DEF Download
  <1>7. p.ref \in DOMAIN Content /\ Len(Content[p.ref]) \in Nat
    BY <1>1, <1>3, <1>5, Zenon DEF FilesOK, FileOK, WellFormed, IsList
  <1>8. PICK file, at :
          /\ files' = [files EXCEPT ![p] = file] /\ worker' = [worker EXCEPT ![n] = at]
          /\ \/ /\ file = Complete(p.ref) /\ at = (IF Packed(n) THEN "extract" ELSE "render")
                /\ copyFaults' = copyFaults
             \/ file \in CutShort(p.ref) /\ at = "idle" /\ copyFaults' = copyFaults + 1
    BY <1>3, PathsOf DEF Download, Goto
  <1>9. file.exists /\ file.whole \in 0..Len(Content[p.ref])
    <2>1. CASE file \in {Complete(p.ref), Broken}
      BY <1>7, <2>1 DEF Complete, Broken
    <2>2. CASE file \in [exists : {TRUE}, whole : 0..Len(Content[p.ref]) - 1, readable : {TRUE}]
      <3>1. file.exists = TRUE /\ file.whole \in 0..Len(Content[p.ref]) - 1
        BY <2>2, Zenon
      <3>. QED BY <1>7, <3>1
    <2>. QED BY <1>8, <2>1, <2>2, Zenon DEF CutShort
  <1>10. /\ copyFaults' \in Nat /\ (copyFaults # 0 => copyFaults' # 0)
         /\ copyFaults' = 0 => file = Complete(p.ref)
    BY <1>1, <1>8 DEF Types
  <1>11. at \in {"extract", "render", "idle"} /\ (at = "render" => RawOf(s) = p)
    BY <1>8 DEF Packed, RawOf, LayerOf
  <1>. HIDE DEF p
  <1>12. /\ files'[p] = file /\ lock'[p] = Free /\ worker'[n] = at
         /\ \A q \in Paths \ {p} : files'[q] = files[q] /\ lock'[q] = lock[q]
         /\ \A m \in Manifests \ {n} : worker'[m] = worker[m]
    BY <1>1, <1>3, <1>6, <1>8 DEF Types
  <1>13. Types'
    BY <1>1, <1>4, <1>6, <1>8, <1>10 DEF Types
  <1>14. FilesOK'
    <2>. SUFFICES ASSUME NEW q \in Paths PROVE FileOK(q, files'[q], lock'[q], copyFaults' # 0)
      BY DEF FilesOK
    <2>1. CASE q # p
      BY <1>1, <1>10, <1>12, <2>1, Zenon DEF FilesOK, FileOK
    <2>2. CASE q = p
      BY <1>7, <1>9, <1>10, <1>12, <2>2 DEF FileOK
    <2>. QED BY <2>1, <2>2
  <1>15. AtWork(n, s, worker'[n], files', lock')
    BY <1>9, <1>11, <1>12 DEF AtWork, p
  <1>16. \A m \in Manifests \ {n} :
            worker[m] \in {"download", "extract", "render"} => LayerOf(spec[m]) # p /\ LayerOf(spec[m]) \in Paths
    BY <1>1, <1>5, PathsGive, ZenonT(60) DEF WorkersOK, AtWork, Types, WellFormed
  <1>17. WorkersOK'
    BY <1>1, <1>4, <1>9, <1>12, <1>15, <1>16, WorkersKept, Zenon
  <1>18. TargetsOK'
    BY <1>1, <1>4, <1>10, <1>11, <1>12, TargetsKept
  <1>. QED BY <1>1, <1>4, <1>10, <1>13, <1>14, <1>17, <1>18, CachesKept, Zenon DEF RInv

\* An archive that is there as a whole is extracted as a whole.
LEMMA ExtractKeeps ==
    ASSUME WellFormed, RInv, NEW n \in Manifests, ExtractLayer(n)
    PROVE  RInv'
  <1>. DEFINE s == spec[n]
              p == LayerOf(s)
              out == RawOf(s)
  <1>1. Types /\ FilesOK /\ CachesOK /\ WorkersOK /\ TargetsOK
    BY DEF RInv
  <1>2. s \in Specs
    BY <1>1 DEF Types
  <1>3. /\ p \in Paths /\ p.ref = s.install.ref /\ out \in Paths /\ out.ref = s.install.ref
        /\ out = p \/ out.file = "extracted"
    BY <1>2, PathsGive
  <1>4. UNCHANGED <<described, spec, lock, parsed, target, synced, deployed, secret, faults, copyFaults, events>>
    BY DEF ExtractLayer
  <1>5. files[p].exists /\ lock[p] = Free
    BY <1>1, Zenon DEF ExtractLayer, WorkersOK, AtWork
  <1>6. p.ref \in DOMAIN Content /\ files[p].whole \in 0..Len(Content[p.ref]) /\ Len(Content[p.ref]) \in Nat
    BY <1>1, <1>3, <1>5 DEF FilesOK, FileOK, WellFormed, IsList
  <1>7. copyFaults = 0 => files[p] = Complete(p.ref)
    BY <1>1, <1>3, <1>5 DEF FilesOK, FileOK
  <1>8. PICK at : /\ worker' = [worker EXCEPT ![n] = at]
                  /\ \/ files[out].exists /\ at = "render" /\ files' = files
                     \/ /\ ~files[out].exists /\ at = "render"
                        /\ files' = [files EXCEPT ![out] = Complete(p.ref)]
                     \/ /\ at = "idle" /\ files[p] # Complete(p.ref)
                        /\ files' \in {files, [files EXCEPT ![out] = files[p]]}
    BY <1>3, PathsOf DEF ExtractLayer, Goto
  <1>. HIDE DEF p, out
  <1>9. /\ worker'[n] = at /\ at \in {"idle", "render"}
        /\ \A m \in Manifests \ {n} : worker'[m] = worker[m]
        /\ DOMAIN files' = Paths /\ DOMAIN worker' = Manifests
        /\ \A q \in Paths \ {out} : files'[q] = files[q]
        /\ \/ files'[out] = files[out] /\ (at = "render" => files[out].exists)
           \/ files'[out] = Complete(p.ref)
           \/ files'[out] = files[p] /\ at = "idle" /\ copyFaults # 0
    BY <1>1, <1>3, <1>7, <1>8 DEF Types
  <1>10. Complete(p.ref).exists /\ Complete(p.ref).whole \in 0..Len(Content[p.ref])
    BY <1>6 DEF Complete
  <1>11. Types'
    BY <1>1, <1>4, <1>9 DEF Types
  <1>12. FilesOK'
    <2>. SUFFICES ASSUME NEW q \in Paths PROVE FileOK(q, files'[q], lock'[q], copyFaults' # 0)
      BY DEF FilesOK
    <2>1. CASE q # out
      BY <1>1, <1>4, <1>9, <2>1, Zenon DEF FilesOK
    <2>2. CASE q = out
      <3>1. FileOK(out, files[out], lock[out], copyFaults # 0)
        BY <1>1, <1>3 DEF FilesOK
      <3>. QED BY <1>3, <1>4, <1>6, <1>9, <1>10, <2>2, <3>1, Zenon DEF FileOK
    <2>. QED BY <2>1, <2>2
  <1>13. \A q \in Paths : files[q].exists => files'[q].exists
    BY <1>5, <1>9, <1>10, Zenon
  <1>14. AtWork(n, s, worker'[n], files', lock')
    BY <1>3, <1>4, <1>5, <1>9, <1>10, <1>13, Zenon DEF AtWork, p, out
  <1>15. WorkersOK'
    BY <1>1, <1>4, <1>9, <1>13, <1>14, WorkersKept, Zenon
  <1>16. TargetsOK'
    BY <1>1, <1>4, <1>9, TargetsKept, Zenon
  <1>. QED BY <1>1, <1>4, <1>11, <1>12, <1>15, <1>16, CachesKept DEF RInv

\* Every name in a file is that of the first resource with its identity.
LEMMA ParseGives ==
    ASSUME WellFormed, NEW p, p.ref \in DOMAIN Content, files[p].whole \in 0..Len(Content[p.ref])
    PROVE  /\ ParseManifestToObjects(p) \subseteq Range(Content[p.ref])
           /\ files[p].whole = Len(Content[p.ref]) => Ids(ParseManifestToObjects(p)) = InFile(p.ref)
  <1>. DEFINE c == Content[p.ref]
              firsts == {i \in 1..files[p].whole : \A j \in 1..i - 1 : Id(c[j]) # Id(c[i])}
  <1>1. ParseManifestToObjects(p) = {c[i] : i \in firsts}
    BY Zenon DEF ParseManifestToObjects
  <1>2. Len(c) \in Nat /\ DOMAIN c = 1..Len(c)
    BY DEF WellFormed, IsList
  <1>3. firsts \subseteq DOMAIN c
    BY <1>2
  <1>4. ParseManifestToObjects(p) \subseteq Range(c)
    BY <1>1, <1>3 DEF Range
  <1>5. ASSUME files[p].whole = Len(c), NEW r \in Range(c)
        PROVE  \E x \in ParseManifestToObjects(p) : Id(x) = Id(r)
    <2>1. PICK k \in DOMAIN c : r = c[k]
      BY <1>5 DEF Range
    <2>. DEFINE S == {i \in 1..Len(c) : Id(c[i]) = Id(r)}
    <2>2. S \in SUBSET Nat /\ S # {}
      BY <1>2, <2>1
    <2>3. PICK i \in S : \A j \in S : i <= j
      BY <2>2, Least, Zenon
    <2>4. i \in 1..files[p].whole /\ Id(c[i]) = Id(r)
      BY <1>5, <2>3
    <2>5. \A j \in 1..i - 1 : Id(c[j]) # Id(c[i])
      BY <1>2, <2>3
    <2>6. i \in firsts
      BY <2>4, <2>5
    <2>. QED BY <1>1, <2>4, <2>6
  <1>6. ASSUME files[p].whole = Len(c)
        PROVE  Ids(ParseManifestToObjects(p)) = Ids(Range(c))
    <2>1. Ids(ParseManifestToObjects(p)) \subseteq Ids(Range(c))
      BY <1>4 DEF Ids
    <2>2. Ids(Range(c)) \subseteq Ids(ParseManifestToObjects(p))
      BY <1>5, <1>6, Zenon DEF Ids
    <2>. QED BY <2>1, <2>2, Zenon
  <1>. QED BY <1>4, <1>6 DEF InFile

\* Resources with all the identities of a file have all its names, and cover all that
\* is applied.
LEMMA IdsGive ==
    ASSUME NEW R, NEW S, Ids(R) = Ids(S), \A r \in R \cup S : IsResource(r)
    PROVE  /\ Named(R) = Named(S)
           /\ {Id(NormaliseNamespace(r)) : r \in R} = {Id(NormaliseNamespace(r)) : r \in S}
  <1>1. \A r \in R : \E x \in S : Id(x) = Id(r)
    BY DEF Ids
  <1>2. \A r \in S : \E x \in R : Id(x) = Id(r)
    BY DEF Ids
  <1>3. \A x, y : Id(x) = Id(y) => x.kind = y.kind /\ x.name = y.name
    BY DEF Id
  <1>4. \A x, y \in R \cup S : Id(x) = Id(y) => Id(NormaliseNamespace(x)) = Id(NormaliseNamespace(y))
    <2>1. \A x \in R \cup S : {"kind", "name", "namespace"} \subseteq DOMAIN x
      BY DEF IsResource, Fields
    <2>. QED BY <2>1, NormaliseSame, Zenon
  <1>5. Named(R) = Named(S)
    BY <1>1, <1>2, <1>3 DEF Named
  <1>6. {Id(NormaliseNamespace(r)) : r \in R} \subseteq {Id(NormaliseNamespace(r)) : r \in S}
    BY <1>1, <1>4
  <1>7. {Id(NormaliseNamespace(r)) : r \in S} \subseteq {Id(NormaliseNamespace(r)) : r \in R}
    BY <1>2, <1>4
  <1>. QED BY <1>5, <1>6, <1>7, Zenon

\* What is rendered comes from the cache or from the file of the version, both of which
\* hold the layer, and is transformed for the Manifest.
LEMMA RenderKeeps ==
    ASSUME WellFormed, RInv, NEW n \in Manifests, RenderTargetResources(n)
    PROVE  RInv'
  <1>. DEFINE s == spec[n]
              path == RawOf(s)
  <1>1. Types /\ FilesOK /\ CachesOK /\ WorkersOK /\ TargetsOK
    BY DEF RInv
  <1>2. s \in Specs
    BY <1>1 DEF Types
  <1>3. path \in Paths /\ path.ref = s.install.ref /\ (path = LayerOf(s) \/ path.file = "extracted")
    BY <1>2, PathsGive
  <1>4. UNCHANGED <<described, spec, files, lock, synced, deployed, secret, copyFaults, events>>
    BY Zenon DEF RenderTargetResources
  <1>5. files[path].exists /\ lock[path] = Free
    BY <1>1, <1>3, Zenon DEF RenderTargetResources, WorkersOK, AtWork, FilesOK, FileOK
  <1>6. /\ path.ref \in DOMAIN Content /\ files[path].whole \in 0..Len(Content[path.ref])
        /\ copyFaults = 0 => files[path] = Complete(path.ref)
    BY <1>1, <1>3, <1>5 DEF FilesOK, FileOK
  <1>7. /\ Parse(path) \subseteq Range(Content[path.ref])
        /\ copyFaults = 0 => Ids(Parse(path)) = InFile(path.ref)
    <2>1. CASE parsed[path].hit
      BY <1>1, <1>3, <2>1, Zenon DEF CachesOK, CacheOK, Parse
    <2>2. CASE ~parsed[path].hit
      <3>1. Complete(path.ref).whole = Len(Content[path.ref])
        BY DEF Complete
      <3>2. Parse(path) = ParseManifestToObjects(path)
        BY <2>2, Zenon DEF Parse
      <3>. QED BY <1>6, <3>1, <3>2, ParseGives
    <2>. QED BY <2>1, <2>2, Zenon
  <1>8. PICK resources : resources = Parse(path)
    BY Zenon
  <1>9. /\ resources \subseteq Range(Content[path.ref])
        /\ copyFaults = 0 => Ids(resources) = InFile(path.ref)
    BY <1>7, <1>8, Zenon
  <1>10. PICK at :
          /\ worker' = [worker EXCEPT ![n] = at]
          /\ parsed' = parsed \/ parsed' = [parsed EXCEPT ![path] = cached(resources)]
          /\ \/ at = "idle" /\ target' = target
             \/ /\ at = "sync" /\ target' = [target EXCEPT ![n] = {Transformed(n, r) : r \in resources}]
                /\ \A r \in resources : ~TransformError(n, r)
    BY <1>8, PathsOf, ZenonT(60) DEF RenderTargetResources, Goto
  <1>. HIDE DEF path
  <1>11. /\ worker'[n] = at /\ at \in {"idle", "sync"} /\ DOMAIN worker' = Manifests
         /\ DOMAIN target' = Manifests /\ DOMAIN parsed' = Paths
         /\ \A m \in Manifests \ {n} : worker'[m] = worker[m] /\ target'[m] = target[m]
    BY <1>1, <1>10, Zenon DEF Types
  <1>12. Types'
    BY <1>1, <1>4, <1>11 DEF Types
  <1>13. FilesOK'
    BY <1>1, <1>4, Zenon DEF FilesOK
  <1>14. CachesOK'
    <2>. SUFFICES ASSUME NEW q \in Paths PROVE CacheOK(q, parsed'[q], copyFaults' # 0)
      BY DEF CachesOK
    <2>1. CASE parsed'[q] = parsed[q]
      BY <1>1, <1>4, <2>1 DEF CachesOK
    <2>2. CASE q = path /\ parsed'[q] = cached(resources)
      <3>1. cached(resources).resources = resources
        BY DEF cached
      <3>. QED BY <1>4, <1>6, <1>9, <2>2, <3>1 DEF CacheOK
    <2>. QED BY <1>1, <1>3, <1>10, <2>1, <2>2, Zenon DEF Types
  <1>15. AtWork(n, s, worker'[n], files', lock')
    BY <1>11 DEF AtWork
  <1>16. WorkersOK'
    BY <1>1, <1>4, <1>11, <1>15, WorkersKept, Zenon
  <1>17. Rendered(n, s, worker'[n], target'[n], copyFaults # 0)
    <2>. SUFFICES ASSUME at = "sync" PROVE Rendered(n, s, "sync", target'[n], copyFaults # 0)
      BY <1>11, Zenon DEF Rendered
    <2>. DEFINE values == s.localizedImages
    <2>1. target'[n] = {Transformed(n, r) : r \in resources} /\ \A r \in resources : ~TransformError(n, r)
      BY <1>1, <1>10, Zenon DEF Types
    <2>2. \A r \in resources : IsResource(r)
      BY <1>6, <1>9 DEF WellFormed
    <2>3. AreImages(values) /\ (secret.exists => secret.data > 0)
      BY <1>1, <1>2, Zenon DEF WellFormed, Types
    <2>4. \A r \in resources : /\ Fits(n, values, Transformed(n, r))
                               /\ Transformed(n, r).kind = r.kind /\ Transformed(n, r).name = r.name
                               /\ Id(Transformed(n, r)) = Id(NormaliseNamespace(r))
      <3>. SUFFICES ASSUME NEW r \in resources
                    PROVE  /\ Fits(n, values, Transformed(n, r))
                           /\ Transformed(n, r).kind = r.kind /\ Transformed(n, r).name = r.name
                           /\ Id(Transformed(n, r)) = Id(NormaliseNamespace(r))
        OBVIOUS
      <3>. QED BY <2>1, <2>2, <2>3, TransformedFits
    <2>5. Named(target'[n]) = Named(resources)
      BY <2>1, <2>4 DEF Named
    <2>6. Named(resources) \subseteq All(path.ref)
      BY <1>9 DEF Named, All
    <2>7. \A r \in target'[n] : Fits(n, values, r)
      BY <2>1, <2>4
    <2>8. Ids(target'[n]) = {Id(NormaliseNamespace(r)) : r \in resources}
      BY <2>1, <2>4 DEF Ids
    <2>9. copyFaults = 0 => Named(target'[n]) = All(path.ref) /\ Ids(target'[n]) = InSkr(path.ref)
      <3>. SUFFICES ASSUME copyFaults = 0
                    PROVE  Named(target'[n]) = All(path.ref) /\ Ids(target'[n]) = InSkr(path.ref)
        OBVIOUS
      <3>1. \A r \in resources \cup Range(Content[path.ref]) : IsResource(r)
        BY <1>6, <2>2, Zenon DEF WellFormed
      <3>2. Ids(resources) = Ids(Range(Content[path.ref]))
        BY <1>9, Zenon DEF InFile
      <3>. QED BY <2>5, <2>8, <3>1, <3>2, IdsGive, Zenon DEF All, InSkr
    <2>. QED BY <1>3, <2>5, <2>6, <2>7, <2>9 DEF Rendered
  <1>18. TargetsOK'
    BY <1>1, <1>4, <1>11, <1>17, Zenon DEF TargetsOK
  <1>. QED BY <1>12, <1>13, <1>14, <1>16, <1>18 DEF RInv

\* The end of a reconciliation: the annotation is set, resources are deleted or applied.
LEMMA EndKeeps ==
    ASSUME RInv, NEW n \in Manifests, TrackSpec(n) \/ pruneDiff(n) \/ SyncResources(n)
    PROVE  RInv'
  <1>1. Types /\ FilesOK /\ CachesOK /\ WorkersOK /\ TargetsOK
    BY DEF RInv
  <1>2. UNCHANGED <<described, spec, files, lock, secret, copyFaults, events>>
    BY Zenon DEF TrackSpec, pruneDiff, SyncResources
  <1>3. /\ worker' = [worker EXCEPT ![n] = "idle"]
        /\ target' = target \/ target' = [target EXCEPT ![n] = {}]
    BY Zenon DEF TrackSpec, pruneDiff, SyncResources, Ends, Goto
  <1>4. DOMAIN synced' = Manifests /\ DOMAIN deployed' = Manifests
    <2>1. CASE TrackSpec(n)
      BY <1>1, <2>1 DEF TrackSpec, Types
    <2>2. CASE pruneDiff(n)
      BY <1>1, <2>2, Zenon DEF pruneDiff, Types
    <2>3. CASE SyncResources(n)
      BY <1>1, <2>3 DEF SyncResources, Types
    <2>. QED BY <2>1, <2>2, <2>3, Zenon
  <1>5. DOMAIN parsed' = Paths /\ \A p \in Paths : parsed'[p] = parsed[p] \/ parsed'[p] = Miss
    <2>1. parsed' = parsed \/ parsed' = [parsed EXCEPT ![RawManifest(n)] = Miss]
      BY Zenon DEF TrackSpec, pruneDiff, SyncResources
    <2>. QED BY <1>1, <2>1 DEF Types
  <1>6. /\ worker'[n] = "idle" /\ DOMAIN worker' = Manifests /\ DOMAIN target' = Manifests
        /\ \A m \in Manifests \ {n} : worker'[m] = worker[m] /\ target'[m] = target[m]
    BY <1>1, <1>3, Zenon DEF Types
  <1>7. Types'
    BY <1>1, <1>2, <1>4, <1>5, <1>6, Zenon DEF Types
  <1>8. FilesOK'
    BY <1>1, <1>2 DEF FilesOK
  <1>9. CachesOK'
    BY <1>1, <1>2, <1>5, CachesMissed, Zenon
  <1>10. AtWork(n, spec[n], worker'[n], files', lock')
    BY <1>6, Zenon DEF AtWork
  <1>11. WorkersOK'
    BY <1>1, <1>2, <1>6, <1>10, WorkersKept
  <1>12. TargetsOK'
    <2>. SUFFICES ASSUME NEW m \in Manifests PROVE Rendered(m, spec[m], worker'[m], target'[m], copyFaults # 0)
      BY <1>2, Zenon DEF TargetsOK
    <2>1. CASE m = n
      BY <1>6, <2>1 DEF Rendered
    <2>2. CASE m # n
      BY <1>1, <1>6, <2>2, Zenon DEF TargetsOK
    <2>. QED BY <2>1, <2>2
  <1>. QED BY <1>7, <1>8, <1>9, <1>11, <1>12 DEF RInv

\* A Manifest gets another version only when its worker is idle.
LEMMA UpgradeKeeps ==
    ASSUME RInv, NEW n \in Manifests, Upgrade(n)
    PROVE  RInv'
  <1>1. Types /\ FilesOK /\ CachesOK /\ WorkersOK /\ TargetsOK
    BY DEF RInv
  <1>2. UNCHANGED <<files, lock, parsed, worker, target, synced, deployed, secret, faults, copyFaults>> /\ worker[n] = "idle"
    BY DEF Upgrade
  <1>3. PICK v \in DOMAIN Descriptors :
          spec' = spec \/ spec' = [spec EXCEPT ![n] = newManifestFromTemplate(Descriptors[v])]
    BY DEF Upgrade
  <1>4. newManifestFromTemplate(Descriptors[v]) \in Specs
    BY DEF Specs
  <1>5. spec' \in [Manifests -> Specs] /\ \A m \in Manifests \ {n} : spec'[m] = spec[m]
    BY <1>1, <1>3, <1>4 DEF Types
  <1>6. Types'
    BY <1>1, <1>2, <1>5, Zenon DEF Types
  <1>7. FilesOK' /\ CachesOK'
    BY <1>1, <1>2 DEF FilesOK, CachesOK
  <1>8. WorkersOK'
    <2>. SUFFICES ASSUME NEW m \in Manifests PROVE AtWork(m, spec'[m], worker[m], files, lock)
      BY <1>2 DEF WorkersOK
    <2>1. CASE m = n
      BY <1>2, <2>1 DEF AtWork
    <2>2. CASE m # n
      BY <1>1, <1>5, <2>2 DEF WorkersOK
    <2>. QED BY <2>1, <2>2
  <1>9. TargetsOK'
    <2>. SUFFICES ASSUME NEW m \in Manifests PROVE Rendered(m, spec'[m], worker[m], target[m], copyFaults # 0)
      BY <1>2, Zenon DEF TargetsOK
    <2>1. CASE m = n
      BY <1>2, <2>1 DEF Rendered
    <2>2. CASE m # n
      BY <1>1, <1>5, <2>2 DEF TargetsOK
    <2>. QED BY <2>1, <2>2
  <1>. QED BY <1>6, <1>7, <1>8, <1>9 DEF RInv

\* Expired entries, other Secrets and a restart.
LEMMA AroundKeeps ==
    ASSUME RInv, CacheExpires \/ SecretChanges \/ Restart
    PROVE  RInv'
  <1>1. Types /\ FilesOK /\ CachesOK /\ WorkersOK /\ TargetsOK
    BY DEF RInv
  <1>2. CASE CacheExpires \/ SecretChanges
    <2>1. UNCHANGED <<spec, files, lock, worker, target, synced, deployed, copyFaults>> /\ secret' \in KcpSecrets
      BY <1>1, <1>2, Zenon DEF CacheExpires, SecretChanges, Types
    <2>2. DOMAIN parsed' = Paths /\ \A p \in Paths : parsed'[p] = parsed[p] \/ parsed'[p] = Miss
      BY <1>1, <1>2, Zenon DEF CacheExpires, SecretChanges, Types
    <2>3. Types'
      BY <1>1, <2>1, <2>2, Zenon DEF Types
    <2>4. CachesOK'
      BY <1>1, <2>1, <2>2, CachesMissed, Zenon
    <2>5. FilesOK' /\ WorkersOK' /\ TargetsOK'
      BY <1>1, <2>1, Zenon DEF FilesOK, WorkersOK, TargetsOK
    <2>. QED BY <2>3, <2>4, <2>5, Zenon DEF RInv
  <1>3. CASE Restart
    <2>1. /\ UNCHANGED <<spec, synced, deployed, secret, copyFaults>>
          /\ files' = [p \in Paths |-> Absent] /\ lock' = [p \in Paths |-> Free] /\ parsed' = [p \in Paths |-> Miss]
          /\ worker' = [m \in Manifests |-> "idle"] /\ target' = [m \in Manifests |-> {}]
      BY <1>1, <1>3, Zenon DEF Restart, Types
    <2>2. Types'
      BY <1>1, <2>1 DEF Types
    <2>3. FilesOK'
      BY <2>1 DEF FilesOK, FileOK, Absent
    <2>4. CachesOK'
      <3>1. \A p \in Paths : parsed'[p] = Miss
        BY <2>1, Zenon
      <3>. QED  BY <1>1, <2>1, <3>1, CachesMissed, Zenon
    <2>5. \A m \in Manifests : worker'[m] = "idle"
      BY <2>1, Zenon
    <2>6. WorkersOK'
      BY <2>5 DEF WorkersOK, AtWork
    <2>7. TargetsOK'
      BY <2>5 DEF TargetsOK, Rendered
    <2>. QED BY <2>2, <2>3, <2>4, <2>6, <2>7, Zenon DEF RInv
  <1>. QED BY <1>2, <1>3, Zenon

\* Nothing happens that the invariant can see.
LEMMA StutterKeeps ==
    ASSUME RInv, UNCHANGED <<spec, files, lock, parsed, worker, target, synced, deployed, secret, copyFaults>>
    PROVE  RInv'
  <1>1. Types'
    BY Zenon DEF RInv, Types
  <1>2. FilesOK' /\ CachesOK' /\ WorkersOK' /\ TargetsOK'
    BY Zenon DEF RInv, FilesOK, CachesOK, WorkersOK, TargetsOK
  <1>. QED BY <1>1, <1>2 DEF RInv

\* The invariant is inductive.
LEMMA NextKeeps ==
    ASSUME WellFormed, RInv, [Next]_vars
    PROVE  RInv'
  <1>1. CASE UNCHANGED vars
    BY <1>1, StutterKeeps DEF vars
  <1>2. ASSUME NEW n \in Manifests, Reconcile(n) PROVE RInv'
    <2>1. CASE PullFails(n)
      BY <2>1, StutterKeeps, Zenon DEF PullFails
    <2>. QED BY <1>2, <2>1, FetchKeeps, DownloadKeeps, ExtractKeeps, RenderKeeps, EndKeeps DEF Reconcile
  <1>. QED BY <1>1, <1>2, UpgradeKeeps, AroundKeeps DEF Next

\* What is rendered for a Manifest is its layer, all of it unless a download broke off,
\* although its worker shares the files and the cache with the others; and every resource is
\* transformed for this Manifest: its owner, its images, the pull secret once, the injected
\* data (GetPathForFetchedLayer, Parse, RenderTargetResources).
THEOREM RenderedFromItsLayer ==
    ASSUME WellFormed
    PROVE  Spec => []RenderedAsReleased
  <1>1. RInv => RenderedAsReleased
    <2>. SUFFICES ASSUME RInv, NEW m \in Manifests, worker[m] = "sync"
                 PROVE  /\ Named(target[m]) \subseteq Released(m)
                        /\ copyFaults = 0 => Named(target[m]) = Released(m)
                        /\ \A r \in target[m] : Fits(m, spec[m].localizedImages, r)
      BY Zenon DEF RenderedAsReleased, Fits
    <2>1. Released(m) = All(spec[m].install.ref)
      BY Zenon DEF Released, All, Range
    <2>. QED BY <2>1 DEF RInv, TargetsOK, Rendered
  <1>. QED BY <1>1, InitR, NextKeeps, PTL DEF Spec

\* What belongs to the layer of the Manifest's version is deleted in the SKR only when a
\* download broke off, and while the annotation names another layer; however many Manifests
\* share the files and the cache, and whatever fails or restarts (pruneDiff, SyncResources).
THEOREM ResourcesStay ==
    ASSUME WellFormed
    PROVE  Spec => KeepsResources
  <1>1. ASSUME RInv, [Next]_vars
        PROVE  KeepsReleased
    <2>. SUFFICES ASSUME NEW m \in Manifests, NEW id \in deployed[m] \ deployed'[m], id \in ReleasedIds(m)
                  PROVE  copyFaults # 0 /\ synced[m].ref # spec[m].install.ref
      BY Zenon DEF KeepsReleased
    <2>0. DOMAIN deployed = Manifests
      BY <1>1, Zenon DEF RInv, Types
    <2>1. \/ deployed' = deployed
          \/ \E n \in Manifests : pruneDiff(n) \/ SyncResources(n)
      BY <1>1, Zenon DEF Next, Reconcile, FetchLayer, PullFails, Download, ExtractLayer, TrackSpec,
             RenderTargetResources, Upgrade, CacheExpires, SecretChanges, Restart, vars
    <2>2. PICK n \in Manifests : pruneDiff(n) \/ SyncResources(n)
      BY <2>1
    <2>3. ~SyncResources(n)
      <3>. SUFFICES ASSUME SyncResources(n) PROVE FALSE
        OBVIOUS
      <3>1. PICK more : deployed' = [deployed EXCEPT ![n] = @ \cup more]
        BY Zenon DEF SyncResources
      <3>. QED BY <2>0, <3>1
    <2>4. pruneDiff(n) /\ worker[n] = "sync"
      BY <2>2, <2>3, Zenon DEF pruneDiff
    <2>5. PICK gone \in SUBSET DiffResources(n) :
            /\ deployed' = [deployed EXCEPT ![n] = @ \ gone]
            /\ ~manifestNotInDeletingAndOciRefNotChangedButDiffDetected(n)
      <3>1. deployed' # deployed
        OBVIOUS
      <3>2. DiffResources(n) \in SUBSET DiffResources(n)
        OBVIOUS
      <3>. QED BY <2>4, <3>1, <3>2, Zenon DEF pruneDiff
    <2>6. m = n /\ id \in gone
      BY <2>0, <2>5
    <2>7. id \in Diff(n)
      BY <2>5, <2>6, Zenon DEF DiffResources
    <2>8. id \notin Ids(target[n])
      BY <2>7 DEF Diff, pruneResource
    <2>9. synced[n].ref # spec[n].install.ref
      BY <2>5, <2>7, Zenon DEF manifestNotInDeletingAndOciRefNotChangedButDiffDetected
    <2>10. Rendered(n, spec[n], worker[n], target[n], copyFaults # 0)
      BY <1>1, Zenon DEF RInv, TargetsOK
    <2>11. ReleasedIds(n) = InSkr(spec[n].install.ref)
      BY Zenon DEF ReleasedIds, InSkr, Range
    <2>. QED BY <2>4, <2>6, <2>8, <2>9, <2>10, <2>11, Zenon DEF Rendered
  <1>. QED BY <1>1, InitR, NextKeeps, PTL DEF Spec, KeepsResources
=============================================================================
