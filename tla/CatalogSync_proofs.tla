------------------------- MODULE CatalogSync_proofs -------------------------
(***************************************************************************)
(* The catalog in the SKR offers what the template lookup accepts, and the *)
(* objects of the users stay: for every catalog, every change of it and    *)
(* every failure of a call.                                                *)
(***************************************************************************)
EXTENDS CatalogSync, TLAPS

(***************************************************************************)
(* The invariant.                                                          *)
(***************************************************************************)
IsMeta(meta) ==
    /\ meta = [channels |-> meta.channels, mandatory |-> meta.mandatory, selector |-> meta.selector]
    /\ \A c \in DOMAIN meta.channels : meta.channels[c] # 0

\* A channel always has a version.
AreMetas(metas) == \A m \in DOMAIN metas : IsMeta(metas[m])

\* What KLM did not write has no channels that KLM owns.
AreOwned(objects) ==
    \A k \in DOMAIN objects : objects[k].by # "kcp" => objects[k].spec = <<>>

KcpShape ==
    /\ kcp = [metas |-> kcp.metas, templates |-> kcp.templates, labels |-> kcp.labels,
              ids |-> kcp.ids, secret |-> kcp.secret, crd |-> kcp.crd]
    /\ AreMetas(kcp.metas)

SkrShape ==
    /\ skr = [namespace |-> skr.namespace, crds |-> skr.crds, templates |-> skr.templates,
              metas |-> skr.metas, secret |-> skr.secret, kyma |-> skr.kyma]
    /\ DOMAIN skr.crds \subseteq CRDs
    /\ AreOwned(skr.metas)

ReadShape ==
    read = [labels |-> read.labels, templates |-> read.templates, metas |-> read.metas,
            toSync |-> read.toSync, kyma |-> read.kyma]

Shape == KcpShape /\ SkrShape /\ ReadShape

Writing == {"applyTemplates", "deleteTemplates", "applyMetas", "deleteMetas", "end"}

\* The filters work on one reading of the catalog.
Chosen ==
    pc \in Writing => /\ read.toSync = ToSync(read.metas, read.templates, read.labels)
                      /\ AreMetas(read.metas)

Undisturbed == ~failed /\ ~tampered

\* The templates stay until the metas that name them are there.
TemplatesThere ==
    pc \in Writing \ {"applyTemplates"} /\ Undisturbed =>
        \A t \in DOMAIN read.toSync.templates : <<SkrNamespace, t>> \in DOMAIN skr.templates

MetasThere ==
    pc \in {"deleteMetas", "end"} /\ Undisturbed =>
        \A m \in DOMAIN read.toSync.metas :
            /\ <<SkrNamespace, m>> \in DOMAIN skr.metas
            /\ skr.metas[<<SkrNamespace, m>>].spec = read.toSync.metas[m]

MetasOnly ==
    pc = "end" /\ Undisturbed =>
        \A k \in DOMAIN skr.metas :
            skr.metas[k].by = "kcp" => k[2] \in DOMAIN read.toSync.metas

Inv == Shape /\ Chosen /\ TemplatesThere /\ MetasThere /\ MetasOnly

(***************************************************************************)
(* The two filters.                                                        *)
(***************************************************************************)

\* What Accepted says of a ModuleReleaseMeta and the templates.
Accepts(m, c, meta, templates, labels) ==
    /\ meta.mandatory = 0
    /\ LET found == Lookup(m, c, meta, templates)
       IN  /\ found.err = "nil"
           /\ ValidateTemplateMode(m, templates[<<m, found.version>>], labels, meta) = "nil"

\* A channel is copied exactly if the lookup finds its version and accepts the template.
LEMMA FiltersAgree ==
    ASSUME NEW m, NEW c, NEW meta, NEW templates, NEW labels, IsMeta(meta)
    PROVE  c \in AllowedChannels(m, meta, templates, labels) <=> Accepts(m, c, meta, templates, labels)
<1> DEFINE found == Lookup(m, c, meta, templates)
<1>1. CASE meta.mandatory # 0
  BY <1>1 DEF Accepts, AllowedChannels, MayUse
<1>2. CASE meta.mandatory = 0 /\ c \notin DOMAIN meta.channels
  BY <1>2 DEF Accepts, AllowedChannels, Lookup, GetChannelVersionForModule
<1>3. CASE meta.mandatory = 0 /\ c \in DOMAIN meta.channels
  <2> DEFINE v == meta.channels[c]
  <2>1. v # 0
    BY <1>3 DEF IsMeta
  <2>2. found.version = v
    BY <1>3 DEF Lookup, GetChannelVersionForModule
  <2>3. found.err = "nil" <=> <<m, v>> \in DOMAIN templates
    BY <1>3, <2>1 DEF Lookup, GetChannelVersionForModule, getTemplateByVersion
  <2> HIDE DEF found, v
  <2>4. ValidateTemplateMode(m, templates[<<m, v>>], labels, meta) = "nil" <=>
          MayUse(m, meta) /\ SyncEnabled(templates[<<m, v>>], labels)
    BY <1>3 DEF ValidateTemplateMode, MayUse, SyncEnabled, RestrictedModuleMatch
  <2>5. c \in AllowedChannels(m, meta, templates, labels) <=>
          MayUse(m, meta) /\ <<m, v>> \in DOMAIN templates /\ SyncEnabled(templates[<<m, v>>], labels)
    BY <1>3 DEF AllowedChannels, IsAllowedModuleVersion, v
  <2> QED BY <1>3, <2>2, <2>3, <2>4, <2>5 DEF Accepts, found
<1> QED BY <1>1, <1>2, <1>3

\* The template of every copied channel is copied too.
LEMMA TemplateChosen ==
    ASSUME NEW metas, NEW templates, NEW labels,
           NEW m \in DOMAIN ToSync(metas, templates, labels).metas,
           NEW c \in DOMAIN ToSync(metas, templates, labels).metas[m]
    PROVE  <<m, ToSync(metas, templates, labels).metas[m][c]>>
               \in DOMAIN ToSync(metas, templates, labels).templates
<1> DEFINE chosen == GetModuleReleaseMetasToSync(metas, templates, labels)
           allowed == AllowedChannels(m, metas[m], templates, labels)
           v == metas[m].channels[c]
<1>1. m \in DOMAIN chosen /\ c \in DOMAIN chosen[m]
  BY DEF ToSync
<1>2. m \in DOMAIN metas /\ c \in allowed /\ chosen[m][c] = v
  BY <1>1 DEF GetModuleReleaseMetasToSync
<1>3. <<m, v>> \in DOMAIN templates /\ SyncEnabled(templates[<<m, v>>], labels)
  BY <1>2 DEF AllowedChannels, IsAllowedModuleVersion
<1> HIDE DEF chosen, v
<1>4. <<m, v>> \in DOMAIN FilterAllowedModuleTemplates(templates, chosen, labels)
  BY <1>1, <1>2, <1>3 DEF FilterAllowedModuleTemplates
<1> QED BY <1>2, <1>4 DEF ToSync, chosen

(***************************************************************************)
(* The steps.                                                              *)
(***************************************************************************)

\* The first state satisfies the invariant.
LEMMA Initial ==
    ASSUME AreMetas(Catalog.metas), Init
    PROVE  Inv
<1>1. Shape
  <2>1. KcpShape
    BY DEF Init, KcpShape
  <2>2. SkrShape
    BY DEF Init, SkrShape, AreOwned
  <2>3. ReadShape
    BY DEF Init, ReadShape, NothingRead
  <2> QED BY <2>1, <2>2, <2>3 DEF Shape
<1>2. pc \notin Writing
  BY DEF Init, Writing
<1> QED BY <1>1, <1>2 DEF Inv, Chosen, TemplatesThere, MetasThere, MetasOnly, Writing

\* A step to a place where nothing is written needs the shapes only.
LEMMA Elsewhere ==
    ASSUME Shape', pc' \notin Writing
    PROVE  Inv'
BY DEF Inv, Chosen, TemplatesThere, MetasThere, MetasOnly, Writing

\* A reconciliation that gives up starts again.
LEMMA ReturnKeeps ==
    ASSUME Return
    PROVE  ReadShape' /\ pc' \notin Writing
BY DEF Return, ReadShape, NothingRead, Writing

\* Copies leave the objects of others as they are.
LEMMA MergeOwned ==
    ASSUME NEW f, NEW g, AreOwned(f), \A k \in DOMAIN g : g[k].by = "kcp"
    PROVE  AreOwned(Merge(f, g))
BY DEF AreOwned, Merge

\* So do deletions.
LEMMA WithoutOwned ==
    ASSUME NEW f, NEW S, AreOwned(f)
    PROVE  AreOwned(Without(f, S))
BY DEF AreOwned, Without

\* The steps before and after the catalog.
LEMMA OtherSteps ==
    ASSUME Inv,
           \/ CreateKymaNamespace \/ SyncCRDs \/ SyncImagePullSecret \/ replaceSpecFromRemote
           \/ ListModuleTemplates \/ syncStatusToRemote
           \/ SynchronizeKymaMetadata \/ SynchronizeKymaStatus \/ SyncEnds
    PROVE  Inv' /\ skr'.metas = skr.metas /\ skr'.templates = skr.templates
<1> USE DEF Shape, KcpShape
<1>0. Shape
  BY DEF Inv
<1>1. CASE CreateKymaNamespace
  <2>1. SkrShape' /\ skr'.metas = skr.metas /\ skr'.templates = skr.templates
    BY <1>0, <1>1 DEF CreateKymaNamespace, SkrShape
  <2>2. ReadShape' /\ pc' \notin Writing
    BY <1>0, <1>1, ReturnKeeps DEF CreateKymaNamespace, ReadShape, Writing
  <2>3. KcpShape'
    BY <1>0, <1>1 DEF CreateKymaNamespace
  <2> QED BY <2>1, <2>2, <2>3, Elsewhere
<1>2. CASE SyncCRDs
  <2>1. SkrShape' /\ skr'.metas = skr.metas /\ skr'.templates = skr.templates
    BY <1>0, <1>2 DEF SyncCRDs, SkrShape, Merge, Apply
  <2>2. ReadShape' /\ pc' \notin Writing
    BY <1>0, <1>2, ReturnKeeps DEF SyncCRDs, ReadShape, Writing
  <2>3. KcpShape'
    BY <1>0, <1>2 DEF SyncCRDs
  <2> QED BY <2>1, <2>2, <2>3, Elsewhere
<1>3. CASE SyncImagePullSecret
  <2>1. SkrShape' /\ skr'.metas = skr.metas /\ skr'.templates = skr.templates
    BY <1>0, <1>3 DEF SyncImagePullSecret, SkrShape
  <2>2. ReadShape' /\ pc' \notin Writing
    BY <1>0, <1>3, ReturnKeeps DEF SyncImagePullSecret, ReadShape, Writing
  <2>3. KcpShape'
    BY <1>0, <1>3 DEF SyncImagePullSecret
  <2> QED BY <2>1, <2>2, <2>3, Elsewhere
<1>4. ASSUME NEW next \in {"list", "metadata"}, fetchRemoteKyma(next), UNCHANGED kcp
      PROVE  Inv' /\ skr'.metas = skr.metas /\ skr'.templates = skr.templates
  <2>1. SkrShape' /\ skr'.metas = skr.metas /\ skr'.templates = skr.templates
    BY <1>0, <1>4 DEF fetchRemoteKyma, SkrShape
  <2>2. ReadShape' /\ pc' \notin Writing
    BY <1>0, <1>4, ReturnKeeps DEF fetchRemoteKyma, ReadShape, Writing
  <2>3. KcpShape'
    BY <1>0, <1>4
  <2> QED BY <2>1, <2>2, <2>3, Elsewhere
<1>5. CASE replaceSpecFromRemote
  BY <1>4, <1>5 DEF replaceSpecFromRemote
<1>6. CASE syncStatusToRemote
  BY <1>4, <1>6 DEF syncStatusToRemote
<1>7. CASE ListModuleTemplates
  <2>1. Shape' /\ pc' \notin Writing
    BY <1>0, <1>7 DEF ListModuleTemplates, SkrShape, ReadShape, Writing
  <2> QED BY <1>7, <2>1, Elsewhere DEF ListModuleTemplates
<1>8. CASE SynchronizeKymaMetadata
  <2>1. SkrShape' /\ skr'.metas = skr.metas /\ skr'.templates = skr.templates
    BY <1>0, <1>8, Zenon DEF SynchronizeKymaMetadata, SkrShape
  <2>2. ReadShape' /\ pc' \notin Writing
    BY <1>0, <1>8, ReturnKeeps DEF SynchronizeKymaMetadata, ReadShape, Writing
  <2>3. KcpShape'
    BY <1>0, <1>8 DEF SynchronizeKymaMetadata
  <2> QED BY <2>1, <2>2, <2>3, Elsewhere
<1>9. CASE SynchronizeKymaStatus
  <2>1. SkrShape' /\ skr'.metas = skr.metas /\ skr'.templates = skr.templates
    BY <1>0, <1>9 DEF SynchronizeKymaStatus, SkrShape
  <2>2. KcpShape' /\ ReadShape' /\ pc' \notin Writing
    BY <1>0, <1>9, ReturnKeeps DEF SynchronizeKymaStatus
  <2> QED BY <2>1, <2>2, Elsewhere
<1>10. CASE SyncEnds
  <2>1. Shape' /\ pc' \notin Writing
    BY <1>0, <1>10, ReturnKeeps DEF SyncEnds, SkrShape, ReadShape, Writing
  <2> QED BY <1>10, <2>1, Elsewhere DEF SyncEnds
<1> QED BY <1>1, <1>2, <1>3, <1>5, <1>6, <1>7, <1>8, <1>9, <1>10

\* From here on the filters have chosen what is copied.
LEMMA Listing ==
    ASSUME Inv, ListModuleReleaseMetas
    PROVE  Inv' /\ UNCHANGED skr
<1>1. Shape
  BY DEF Inv
<1>2. Shape' /\ UNCHANGED skr
  BY <1>1, Zenon DEF ListModuleReleaseMetas, Shape, KcpShape, SkrShape, ReadShape
<1>3. read'.toSync = ToSync(read'.metas, read'.templates, read'.labels) /\ AreMetas(read'.metas)
  BY <1>1 DEF ListModuleReleaseMetas, Shape, KcpShape, ReadShape
<1>4. pc' = "applyTemplates"
  BY DEF ListModuleReleaseMetas
<1> QED BY <1>2, <1>3, <1>4 DEF Inv, Chosen, TemplatesThere, MetasThere, MetasOnly, Writing

\* What is applied belongs to KLM.
LEMMA DesiredOwned ==
    ASSUME NEW kind
    PROVE  /\ DOMAIN Desired(kind) = {SkrNamespace} \X DOMAIN read.toSync[kind]
           /\ \A k \in DOMAIN Desired(kind) :
                Desired(kind)[k] = [by |-> "kcp", spec |-> read.toSync[kind][k[2]]]
BY DEF Desired, prepareForSSA

\* The same, for the metas.
LEMMA DesiredMetas ==
    /\ \A k \in DOMAIN Desired("metas") :
        Desired("metas")[k].by = "kcp" /\ k[2] \in DOMAIN read.toSync.metas
    /\ \A m \in DOMAIN read.toSync.metas :
        /\ <<SkrNamespace, m>> \in DOMAIN Desired("metas")
        /\ Desired("metas")[<<SkrNamespace, m>>].spec = read.toSync.metas[m]
<1> DEFINE chosen == read.toSync.metas
<1>1. /\ DOMAIN Desired("metas") = {SkrNamespace} \X DOMAIN chosen
      /\ \A k \in DOMAIN Desired("metas") : Desired("metas")[k] = [by |-> "kcp", spec |-> chosen[k[2]]]
  BY DesiredOwned, Zenon
<1> HIDE DEF chosen
<1>2. ASSUME NEW k \in DOMAIN Desired("metas")
      PROVE  Desired("metas")[k].by = "kcp" /\ k[2] \in DOMAIN chosen
  BY <1>1
<1>3. ASSUME NEW m \in DOMAIN chosen
      PROVE  /\ <<SkrNamespace, m>> \in DOMAIN Desired("metas")
             /\ Desired("metas")[<<SkrNamespace, m>>].spec = chosen[m]
  <2>1. <<SkrNamespace, m>> \in DOMAIN Desired("metas")
    BY <1>1
  <2>2. Desired("metas")[<<SkrNamespace, m>>] = [by |-> "kcp", spec |-> chosen[<<SkrNamespace, m>>[2]]]
    BY <1>1, <2>1
  <2> QED BY <2>1, <2>2
<1> QED BY <1>2, <1>3 DEF chosen

\* The goroutines of an apply write the objects that no call failed for.
LEMMA ApplyEffect ==
    ASSUME SkrShape, NEW kind \in Kinds, SyncConcurrently(kind)
    PROVE  \E refused \in SUBSET DOMAIN Desired(kind) :
             /\ skr'[kind] = Merge(skr[kind], Without(Desired(kind), refused))
             /\ skr' = [namespace |-> skr.namespace, crds |-> skr.crds, templates |-> skr'.templates,
                        metas |-> skr'.metas, secret |-> skr.secret, kyma |-> skr.kyma]
             /\ \A other \in Kinds \ {kind} : skr'[other] = skr[other]
             /\ failed' = (failed \/ refused # {})
             /\ pc' = IF kind = "templates"
                      THEN IF refused = {} THEN "deleteTemplates" ELSE "applyMetas"
                      ELSE IF refused = {} THEN "deleteMetas" ELSE "end"
             /\ UNCHANGED <<kcp, read, tampered>>
<1>1. PICK lost \in {{}, DOMAIN Desired(kind)} \cup {{k} : k \in DOMAIN Desired(kind)} :
        LET refused == IF kind \in DOMAIN skr.crds /\ skr.namespace THEN lost ELSE DOMAIN Desired(kind)
        IN  /\ skr' = [skr EXCEPT ![kind] = Merge(@, Without(Desired(kind), refused))]
            /\ failed' = (failed \/ refused # {})
            /\ pc' = CASE kind = "templates" /\ refused = {} -> "deleteTemplates"
                       [] kind = "templates" /\ refused # {} -> "applyMetas"
                       [] kind = "metas" /\ refused = {} -> "deleteMetas"
                       [] kind = "metas" /\ refused # {} -> "end"
  BY ZenonT(60) DEF SyncConcurrently
<1> DEFINE refused == IF kind \in DOMAIN skr.crds /\ skr.namespace THEN lost ELSE DOMAIN Desired(kind)
           merged == Merge(skr[kind], Without(Desired(kind), refused))
<1>2. refused \in SUBSET DOMAIN Desired(kind)
  OBVIOUS
<1>3. /\ skr' = [skr EXCEPT ![kind] = merged]
      /\ failed' = (failed \/ refused # {})
      /\ UNCHANGED <<kcp, read, tampered>>
  BY <1>1, Zenon DEF SyncConcurrently
<1>4. pc' = IF kind = "templates"
            THEN IF refused = {} THEN "deleteTemplates" ELSE "applyMetas"
            ELSE IF refused = {} THEN "deleteMetas" ELSE "end"
  BY <1>1 DEF Kinds
<1> HIDE DEF refused, merged
<1>5. /\ skr'[kind] = merged
      /\ skr' = [namespace |-> skr.namespace, crds |-> skr.crds, templates |-> skr'.templates,
                 metas |-> skr'.metas, secret |-> skr.secret, kyma |-> skr.kyma]
      /\ \A other \in Kinds \ {kind} : skr'[other] = skr[other]
  BY <1>3, Zenon DEF SkrShape, Kinds
<1> QED BY <1>2, <1>3, <1>4, <1>5 DEF merged

\* What KLM wrote and the catalog does not have any more.
Obsolete(kind) == {k \in DOMAIN skr[kind] \ DOMAIN Desired(kind) : skr[kind][k].by = "kcp"}

\* A deletion takes only what is obsolete.
LEMMA DeleteEffect ==
    ASSUME SkrShape, NEW kind \in Kinds, DeleteConcurrently(kind)
    PROVE  \E lost \in SUBSET Obsolete(kind) :
             /\ skr'[kind] = Without(skr[kind], Obsolete(kind) \ lost)
             /\ skr' = [namespace |-> skr.namespace, crds |-> skr.crds, templates |-> skr'.templates,
                        metas |-> skr'.metas, secret |-> skr.secret, kyma |-> skr.kyma]
             /\ \A other \in Kinds \ {kind} : skr'[other] = skr[other]
             /\ failed' = (failed \/ lost # {})
             /\ pc' = IF kind = "templates" THEN "applyMetas" ELSE "end"
             /\ UNCHANGED <<kcp, read, tampered>>
<1>1. Obsolete(kind) = IF kind = "templates" THEN moduleTemplatesDiffFor(skr.templates, Desired(kind))
                       ELSE moduleReleaseMetasDiffFor(skr.metas, Desired(kind))
  BY DEF Obsolete, moduleTemplatesDiffFor, moduleReleaseMetasDiffFor, NotExistingIn, Kinds,
         isModuleTemplateManagedByKcp, isModuleReleaseMetaManagedByKcp
<1>2. PICK lost \in {{}, Obsolete(kind)} \cup {{k} : k \in Obsolete(kind)} :
        /\ skr' = [skr EXCEPT ![kind] = Without(@, Obsolete(kind) \ lost)]
        /\ failed' = (failed \/ lost # {})
        /\ pc' = IF kind = "templates" THEN "applyMetas" ELSE "end"
        /\ UNCHANGED <<kcp, read, condition, tampered, events>>
  BY <1>1, Zenon DEF DeleteConcurrently
<1> DEFINE rest == Without(skr[kind], Obsolete(kind) \ lost)
<1>3. skr' = [skr EXCEPT ![kind] = rest]
  BY <1>2
<1> HIDE DEF rest
<1>4. /\ skr'[kind] = rest
      /\ skr' = [namespace |-> skr.namespace, crds |-> skr.crds, templates |-> skr'.templates,
                 metas |-> skr'.metas, secret |-> skr.secret, kyma |-> skr.kyma]
      /\ \A other \in Kinds \ {kind} : skr'[other] = skr[other]
  BY <1>3, Zenon DEF SkrShape, Kinds
<1>5. lost \in SUBSET Obsolete(kind)
  BY <1>2
<1> QED BY <1>2, <1>4, <1>5, Zenon DEF rest

\* An apply of templates or metas keeps the invariant.
LEMMA Applying ==
    ASSUME Inv, ApplyTemplates \/ ApplyMetas
    PROVE  Inv'
<1>0. Shape /\ Chosen
  BY DEF Inv
<1>1. CASE ApplyTemplates
  <2>1. PICK refused \in SUBSET DOMAIN Desired("templates") :
          /\ skr'.templates = Merge(skr.templates, Without(Desired("templates"), refused))
          /\ skr' = [namespace |-> skr.namespace, crds |-> skr.crds, templates |-> skr'.templates,
                     metas |-> skr'.metas, secret |-> skr.secret, kyma |-> skr.kyma]
          /\ skr'.metas = skr.metas
          /\ failed' = (failed \/ refused # {})
          /\ pc' = IF refused = {} THEN "deleteTemplates" ELSE "applyMetas"
          /\ UNCHANGED <<kcp, read, tampered>>
    BY <1>0, <1>1, ApplyEffect DEF ApplyTemplates, Kinds, Shape
  <2>2. Shape'
    BY <1>0, <2>1 DEF Shape, KcpShape, SkrShape, ReadShape
  <2>3. Chosen'
    BY <1>0, <1>1, <2>1 DEF Chosen, ApplyTemplates, Writing
  <2>4. TemplatesThere'
    <3> SUFFICES ASSUME Undisturbed', NEW t \in DOMAIN read.toSync.templates
                 PROVE  <<SkrNamespace, t>> \in DOMAIN skr'.templates
      BY <2>1 DEF TemplatesThere
    <3>1. refused = {}
      BY <2>1, Zenon DEF Undisturbed
    <3>2. <<SkrNamespace, t>> \in DOMAIN Desired("templates")
      BY DesiredOwned, Zenon
    <3> QED BY <2>1, <3>1, <3>2 DEF Merge, Without
  <2>5. MetasThere' /\ MetasOnly'
    BY <2>1 DEF MetasThere, MetasOnly
  <2> QED BY <2>2, <2>3, <2>4, <2>5 DEF Inv
<1>2. CASE ApplyMetas
  <2>1. PICK refused \in SUBSET DOMAIN Desired("metas") :
          /\ skr'.metas = Merge(skr.metas, Without(Desired("metas"), refused))
          /\ skr' = [namespace |-> skr.namespace, crds |-> skr.crds, templates |-> skr'.templates,
                     metas |-> skr'.metas, secret |-> skr.secret, kyma |-> skr.kyma]
          /\ skr'.templates = skr.templates
          /\ failed' = (failed \/ refused # {})
          /\ pc' = IF refused = {} THEN "deleteMetas" ELSE "end"
          /\ UNCHANGED <<kcp, read, tampered>>
    BY <1>0, <1>2, ApplyEffect DEF ApplyMetas, Kinds, Shape
  <2>2. Shape'
    <3>1. \A k \in DOMAIN Without(Desired("metas"), refused) :
            Without(Desired("metas"), refused)[k].by = "kcp"
      BY DesiredMetas DEF Without
    <3>2. AreOwned(skr'.metas)
      BY <1>0, <2>1, <3>1, MergeOwned DEF Shape, SkrShape
    <3> QED BY <1>0, <2>1, <3>2 DEF Shape, KcpShape, SkrShape, ReadShape
  <2>3. Chosen'
    BY <1>0, <1>2, <2>1 DEF Chosen, ApplyMetas, Writing
  <2>4. TemplatesThere'
    BY <1>2, <2>1, Zenon DEF Inv, TemplatesThere, Undisturbed, ApplyMetas, Writing
  <2>5. MetasThere'
    <3> SUFFICES ASSUME Undisturbed', NEW m \in DOMAIN read.toSync.metas
                 PROVE  /\ <<SkrNamespace, m>> \in DOMAIN skr'.metas
                        /\ skr'.metas[<<SkrNamespace, m>>].spec = read.toSync.metas[m]
      BY <2>1 DEF MetasThere
    <3>1. refused = {}
      BY <2>1, Zenon DEF Undisturbed
    <3>2. /\ <<SkrNamespace, m>> \in DOMAIN Desired("metas")
          /\ Desired("metas")[<<SkrNamespace, m>>].spec = read.toSync.metas[m]
      BY DesiredMetas
    <3> QED BY <2>1, <3>1, <3>2 DEF Merge, Without
  <2>6. MetasOnly'
    BY <2>1, Zenon DEF MetasOnly, Undisturbed
  <2> QED BY <2>2, <2>3, <2>4, <2>5, <2>6 DEF Inv
<1> QED BY <1>1, <1>2

\* So does a deletion: nothing that the filters chose goes.
LEMMA Deleting ==
    ASSUME Inv, DeleteTemplates \/ DeleteMetas
    PROVE  Inv'
<1>0. Shape /\ Chosen
  BY DEF Inv
<1>1. CASE DeleteTemplates
  <2>1. PICK lost \in SUBSET Obsolete("templates") :
          /\ skr'.templates = Without(skr.templates, Obsolete("templates") \ lost)
          /\ skr' = [namespace |-> skr.namespace, crds |-> skr.crds, templates |-> skr'.templates,
                     metas |-> skr'.metas, secret |-> skr.secret, kyma |-> skr.kyma]
          /\ skr'.metas = skr.metas
          /\ failed' = (failed \/ lost # {})
          /\ pc' = "applyMetas"
          /\ UNCHANGED <<kcp, read, tampered>>
    BY <1>0, <1>1, DeleteEffect, Zenon DEF DeleteTemplates, Kinds, Shape
  <2>2. Shape'
    BY <1>0, <2>1 DEF Shape, KcpShape, SkrShape, ReadShape
  <2>3. Chosen'
    BY <1>0, <1>1, <2>1 DEF Chosen, DeleteTemplates, Writing
  <2>4. TemplatesThere'
    <3> SUFFICES ASSUME Undisturbed', NEW t \in DOMAIN read.toSync.templates
                 PROVE  <<SkrNamespace, t>> \in DOMAIN skr'.templates
      BY <2>1 DEF TemplatesThere
    <3>1. <<SkrNamespace, t>> \in DOMAIN skr.templates
      BY <1>1, <2>1, Zenon DEF Inv, TemplatesThere, Undisturbed, DeleteTemplates, Writing
    <3>2. <<SkrNamespace, t>> \notin Obsolete("templates")
      BY DesiredOwned, Zenon DEF Obsolete
    <3> QED BY <2>1, <3>1, <3>2 DEF Without
  <2>5. MetasThere' /\ MetasOnly'
    BY <2>1 DEF MetasThere, MetasOnly
  <2> QED BY <2>2, <2>3, <2>4, <2>5 DEF Inv
<1>2. CASE DeleteMetas
  <2>1. PICK lost \in SUBSET Obsolete("metas") :
          /\ skr'.metas = Without(skr.metas, Obsolete("metas") \ lost)
          /\ skr' = [namespace |-> skr.namespace, crds |-> skr.crds, templates |-> skr'.templates,
                     metas |-> skr'.metas, secret |-> skr.secret, kyma |-> skr.kyma]
          /\ skr'.templates = skr.templates
          /\ failed' = (failed \/ lost # {})
          /\ pc' = "end"
          /\ UNCHANGED <<kcp, read, tampered>>
    BY <1>0, <1>2, DeleteEffect, Zenon DEF DeleteMetas, Kinds, Shape
  <2>2. Shape'
    <3>1. AreOwned(skr'.metas)
      BY <1>0, <2>1, WithoutOwned DEF Shape, SkrShape
    <3> QED BY <1>0, <2>1, <3>1 DEF Shape, KcpShape, SkrShape, ReadShape
  <2>3. Chosen'
    BY <1>0, <1>2, <2>1 DEF Chosen, DeleteMetas, Writing
  <2>4. TemplatesThere'
    BY <1>2, <2>1, Zenon DEF Inv, TemplatesThere, Undisturbed, DeleteMetas, Writing
  <2>5. MetasThere'
    <3> SUFFICES ASSUME Undisturbed', NEW m \in DOMAIN read.toSync.metas
                 PROVE  /\ <<SkrNamespace, m>> \in DOMAIN skr'.metas
                        /\ skr'.metas[<<SkrNamespace, m>>].spec = read.toSync.metas[m]
      BY <2>1, Zenon DEF MetasThere
    <3>1. /\ <<SkrNamespace, m>> \in DOMAIN skr.metas
          /\ skr.metas[<<SkrNamespace, m>>].spec = read.toSync.metas[m]
      BY <1>2, <2>1, Zenon DEF Inv, MetasThere, Undisturbed, DeleteMetas
    <3>2. <<SkrNamespace, m>> \notin Obsolete("metas")
      BY DesiredOwned, Zenon DEF Obsolete
    <3> QED BY <2>1, <3>1, <3>2 DEF Without
  <2>6. MetasOnly'
    <3> SUFFICES ASSUME Undisturbed', NEW k \in DOMAIN skr'.metas, skr'.metas[k].by = "kcp"
                 PROVE  k[2] \in DOMAIN read.toSync.metas
      BY <2>1 DEF MetasOnly
    <3>1. lost = {}
      BY <2>1, Zenon DEF Undisturbed
    <3>2. k \in DOMAIN skr.metas /\ k \notin Obsolete("metas") /\ skr.metas[k].by = "kcp"
      BY <2>1, <3>1 DEF Without
    <3>3. k \in DOMAIN Desired("metas")
      BY <3>2 DEF Obsolete
    <3> QED BY <3>3, DesiredMetas
  <2> QED BY <2>2, <2>3, <2>4, <2>5, <2>6 DEF Inv
<1> QED BY <1>1, <1>2

\* An edited ModuleReleaseMeta is one.
LEMMA MetaEdited ==
    ASSUME KcpShape, NEW m, NEW meta, IsMeta(meta), EditMeta(m, meta)
    PROVE  KcpShape'
<1> DEFINE edited == Put(kcp.metas, m, meta)
<1>1. AreMetas(edited)
  BY DEF KcpShape, AreMetas, Put, Merge
<1>2. kcp' = [kcp EXCEPT !.metas = edited]
  BY DEF EditMeta
<1> HIDE DEF edited
<1> QED BY <1>1, <1>2 DEF KcpShape

\* The control plane changes nothing that a reconciliation works with.
LEMMA ControlPlaneChanges ==
    ASSUME Inv, KcpChanges
    PROVE  Inv'
<1>0. KcpShape
  BY DEF Inv, Shape
<1>1. UNCHANGED <<skr, tampered, pc, read, failed>>
  BY Zenon DEF KcpChanges, Event
<1>2. KcpShape'
  <2>1. ASSUME NEW m \in DOMAIN kcp.metas, NEW c \in Channels, NEW v \in Versions,
               EditMeta(m, [kcp.metas[m] EXCEPT !.channels = Put(@, c, v)])
        PROVE  KcpShape'
    <3> DEFINE more == Put(kcp.metas[m].channels, c, v)
    <3>1. IsMeta(kcp.metas[m]) /\ v # 0
      BY <1>0, LookupAssumption DEF KcpShape, AreMetas
    <3>2. \A x \in DOMAIN more : more[x] # 0
      BY <3>1 DEF IsMeta, Put, Merge
    <3> HIDE DEF more
    <3>3. IsMeta([kcp.metas[m] EXCEPT !.channels = more])
      BY <3>1, <3>2 DEF IsMeta
    <3> QED BY <1>0, <2>1, <3>3, MetaEdited DEF more
  <2>2. ASSUME NEW m \in DOMAIN kcp.metas, NEW c \in Channels,
               EditMeta(m, [kcp.metas[m] EXCEPT !.channels = Without(@, {c})])
        PROVE  KcpShape'
    <3> DEFINE less == Without(kcp.metas[m].channels, {c})
    <3>1. IsMeta(kcp.metas[m])
      BY <1>0 DEF KcpShape, AreMetas
    <3>2. \A x \in DOMAIN less : less[x] # 0
      BY <3>1 DEF IsMeta, Without
    <3> HIDE DEF less
    <3>3. IsMeta([kcp.metas[m] EXCEPT !.channels = less])
      BY <3>1, <3>2 DEF IsMeta
    <3> QED BY <1>0, <2>2, <3>3, MetaEdited DEF less
  <2>3. ASSUME NEW m \in DOMAIN kcp.metas,
               EditMeta(m, [channels |-> <<>>, mandatory |-> 1, selector |-> "none"])
        PROVE  KcpShape'
    <3>1. IsMeta([channels |-> <<>>, mandatory |-> 1, selector |-> "none"])
      BY DEF IsMeta
    <3> QED BY <1>0, <2>3, <3>1, MetaEdited
  <2>4. ASSUME NEW m \in DOMAIN kcp.metas, NEW s \in {"none", "match", "mismatch"},
               EditMeta(m, [kcp.metas[m] EXCEPT !.selector = s])
        PROVE  KcpShape'
    <3>1. IsMeta(kcp.metas[m])
      BY <1>0 DEF KcpShape, AreMetas
    <3>2. IsMeta([kcp.metas[m] EXCEPT !.selector = s])
      BY <3>1 DEF IsMeta
    <3> QED BY <1>0, <2>4, <3>2, MetaEdited
  <2>5. CASE Event("template") /\ \E t \in DOMAIN kcp.templates :
              kcp' = [kcp EXCEPT !.templates[t].mandatory = ~@, !.templates[t].generation = @ + 1]
    BY <1>0, <2>5, Zenon DEF KcpShape
  <2>6. CASE Event("beta") /\ kcp' = [kcp EXCEPT !.labels.beta = ~@]
    BY <1>0, <2>6 DEF KcpShape
  <2>7. CASE Event("crd") /\ kcp' = [kcp EXCEPT !.crd.spec = @ + 1]
    BY <1>0, <2>7 DEF KcpShape
  <2>8. CASE Event("deleteTemplate")
                /\ \E t \in DOMAIN kcp.templates : kcp' = [kcp EXCEPT !.templates = Without(@, {t})]
    BY <1>0, <2>8 DEF KcpShape
  <2>9. CASE Event("secret") /\ \E n \in {0, 2} : kcp' = [kcp EXCEPT !.secret = n]
    BY <1>0, <2>9 DEF KcpShape
  <2>10. CASE Event("account") /\ kcp' = [kcp EXCEPT !.ids = Put(@, "GlobalAccountID", "2")]
    BY <1>0, <2>10 DEF KcpShape
  <2> QED BY <2>1, <2>2, <2>3, <2>4, <2>5, <2>6, <2>7, <2>8, <2>9, <2>10, Zenon DEF KcpChanges
<1> QED BY <1>1, <1>2 DEF Inv, Shape, SkrShape, ReadShape, Chosen, Undisturbed,
           TemplatesThere, MetasThere, MetasOnly

\* A user leaves the objects of the SKR in their shape, and disturbs the rest.
LEMMA SkrChanges ==
    ASSUME Inv, UserChanges
    PROVE  Inv'
<1>0. SkrShape
  BY DEF Inv, Shape
<1>1. tampered' = TRUE /\ UNCHANGED <<kcp, pc, read, failed>>
  BY Zenon DEF UserChanges, Event
<1>2. SkrShape'
  <2>1. CASE \E k \in UserNames \ DOMAIN skr.metas :
               skr' = [skr EXCEPT !.metas = Put(@, k, [by |-> "user", spec |-> <<>>])]
    <3>1. PICK k : skr' = [skr EXCEPT !.metas = Put(@, k, [by |-> "user", spec |-> <<>>])]
      BY <2>1
    <3> DEFINE metas == Put(skr.metas, k, [by |-> "user", spec |-> <<>>])
    <3>2. AreOwned(metas)
      BY <1>0 DEF SkrShape, AreOwned, Put, Merge
    <3>3. skr' = [skr EXCEPT !.metas = metas]
      BY <3>1
    <3> HIDE DEF metas
    <3> QED BY <1>0, <3>2, <3>3 DEF SkrShape
  <2>2. CASE \E kind \in Kinds : \E k \in DOMAIN skr[kind] :
               skr' = [skr EXCEPT ![kind] = Without(@, {k})]
    <3>0. PICK kind \in Kinds : \E k \in DOMAIN skr[kind] : skr' = [skr EXCEPT ![kind] = Without(@, {k})]
      BY <2>2, Zenon
    <3>1. PICK k \in DOMAIN skr[kind] : skr' = [skr EXCEPT ![kind] = Without(@, {k})]
      BY <3>0, Zenon
    <3>2. AreOwned(Without(skr.metas, {k}))
      BY <1>0, WithoutOwned DEF SkrShape
    <3>3. CASE kind = "metas"
      <4> DEFINE metas == Without(skr.metas, {k})
      <4>1. skr' = [skr EXCEPT !.metas = metas]
        BY <3>1, <3>3, Zenon
      <4> HIDE DEF metas
      <4> QED BY <1>0, <3>2, <4>1 DEF SkrShape, metas
    <3>4. CASE kind = "templates"
      BY <1>0, <3>1, <3>4, Zenon DEF SkrShape
    <3> QED BY <3>3, <3>4 DEF Kinds
  <2>3. CASE \E kind \in DOMAIN skr.crds :
               skr' = [skr EXCEPT !.crds = Without(@, {kind}),
                                  ![kind] = IF kind = "kyma" THEN NoKyma ELSE <<>>]
    <3>1. PICK kind \in DOMAIN skr.crds :
            skr' = [skr EXCEPT !.crds = Without(@, {kind}),
                               ![kind] = IF kind = "kyma" THEN NoKyma ELSE <<>>]
      BY <2>3, Zenon
    <3> DEFINE crds == Without(skr.crds, {kind})
    <3>2. kind \in {"templates", "metas", "kyma"} /\ DOMAIN crds \subseteq CRDs
      BY <1>0 DEF SkrShape, CRDs, Kinds, Without
    <3>3. skr' = [skr EXCEPT !.crds = crds, ![kind] = IF kind = "kyma" THEN NoKyma ELSE <<>>]
      BY <3>1
    <3> HIDE DEF crds
    <3>4. /\ skr' = [namespace |-> skr'.namespace, crds |-> skr'.crds, templates |-> skr'.templates,
                     metas |-> skr'.metas, secret |-> skr'.secret, kyma |-> skr'.kyma]
          /\ skr'.crds = crds
          /\ skr'.metas \in {skr.metas, <<>>}
      BY <1>0, <3>2, <3>3, Zenon DEF SkrShape
    <3>5. AreOwned(<<>>)
      BY DEF AreOwned
    <3> QED BY <1>0, <3>2, <3>4, <3>5 DEF SkrShape
  <2>4. CASE skr' = [skr EXCEPT !.kyma = NoKyma]
    BY <1>0, <2>4 DEF SkrShape
  <2>5. CASE \E l \in DOMAIN skr.kyma.labels : skr' = [skr EXCEPT !.kyma.labels = Without(@, {l})]
    BY <1>0, <2>5 DEF SkrShape
  <2>6. CASE skr' = [skr EXCEPT !.namespace = FALSE, !.templates = <<>>, !.secret = 0, !.kyma = NoKyma,
                                !.metas = Restrict(@, {k \in DOMAIN @ : k[1] # SkrNamespace})]
    <3> DEFINE metas == Restrict(skr.metas, {k \in DOMAIN skr.metas : k[1] # SkrNamespace})
    <3>1. AreOwned(metas)
      BY <1>0 DEF SkrShape, AreOwned, Restrict
    <3>2. skr' = [skr EXCEPT !.namespace = FALSE, !.templates = <<>>, !.secret = 0, !.kyma = NoKyma,
                             !.metas = metas]
      BY <2>6
    <3> HIDE DEF metas
    <3> QED BY <1>0, <3>1, <3>2, Zenon DEF SkrShape
  <2> QED BY <2>1, <2>2, <2>3, <2>4, <2>5, <2>6, Zenon DEF UserChanges
<1> QED BY <1>1, <1>2 DEF Inv, Shape, KcpShape, ReadShape, Chosen, Undisturbed,
           TemplatesThere, MetasThere, MetasOnly

\* Every step keeps the invariant.
LEMMA Inductive ==
    ASSUME Inv, [Next]_vars
    PROVE  Inv'
<1>1. CASE Reconcile
  BY <1>1, OtherSteps, Listing, Applying, Deleting DEF Reconcile, SyncTemplatesToSKR, SyncMetasToSKR
<1>2. CASE KcpChanges
  BY <1>2, ControlPlaneChanges
<1>3. CASE UserChanges
  BY <1>3, SkrChanges
<1>4. CASE UNCHANGED vars
  BY <1>4 DEF vars, Inv, Shape, KcpShape, SkrShape, ReadShape, Chosen, Undisturbed,
              TemplatesThere, MetasThere, MetasOnly
<1> QED BY <1>1, <1>2, <1>3, <1>4 DEF Next

(***************************************************************************)
(* The results.                                                            *)
(***************************************************************************)

\* The invariant gives the property.
LEMMA Usable ==
    ASSUME Inv
    PROVE  CatalogIsUsable
<1> SUFFICES ASSUME pc = "end", ~failed, ~tampered, NEW m \in Modules, NEW c \in Channels
             PROVE  /\ Offered(m, c) <=> Accepted(m, c)
                    /\ Offered(m, c) =>
                         <<SkrNamespace, <<m, skr.metas[<<SkrNamespace, m>>].spec[c]>>>>
                             \in DOMAIN skr.templates
  BY DEF CatalogIsUsable
<1> DEFINE key == <<SkrNamespace, m>>
           chosen == read.toSync.metas
           allowed == AllowedChannels(m, read.metas[m], read.templates, read.labels)
<1>1. /\ read.toSync = ToSync(read.metas, read.templates, read.labels)
      /\ AreMetas(read.metas)
      /\ \A t \in DOMAIN read.toSync.templates : <<SkrNamespace, t>> \in DOMAIN skr.templates
      /\ \A n \in DOMAIN chosen : /\ <<SkrNamespace, n>> \in DOMAIN skr.metas
                                  /\ skr.metas[<<SkrNamespace, n>>].spec = chosen[n]
      /\ \A k \in DOMAIN skr.metas : skr.metas[k].by = "kcp" => k[2] \in DOMAIN chosen
      /\ AreOwned(skr.metas)
  <2>1. /\ pc \in Writing /\ pc \in Writing \ {"applyTemplates"} /\ pc \in {"deleteMetas", "end"}
        /\ Undisturbed
    BY DEF Writing, Undisturbed
  <2> QED BY <2>1, Zenon DEF Inv, Chosen, TemplatesThere, MetasThere, MetasOnly, Shape, SkrShape
<1>2. m \in DOMAIN chosen /\ c \in DOMAIN chosen[m] <=> m \in DOMAIN read.metas /\ c \in allowed
  <2>1. chosen = GetModuleReleaseMetasToSync(read.metas, read.templates, read.labels)
    <3>1. read.toSync = ToSync(read.metas, read.templates, read.labels)
      BY <1>1, Zenon
    <3> QED BY <3>1 DEF ToSync
  <2>2. /\ m \in DOMAIN chosen <=> m \in DOMAIN read.metas /\ allowed # {}
        /\ m \in DOMAIN chosen => DOMAIN chosen[m] = allowed
    BY <2>1 DEF GetModuleReleaseMetasToSync
  <2> HIDE DEF chosen, allowed
  <2> QED BY <2>2
<1>3. m \in DOMAIN read.metas /\ c \in allowed <=> Accepted(m, c)
  <2>1. CASE m \in DOMAIN read.metas
    <3>1. IsMeta(read.metas[m])
      BY <1>1, <2>1 DEF AreMetas
    <3>2. c \in allowed <=> Accepts(m, c, read.metas[m], read.templates, read.labels)
      BY <3>1, FiltersAgree
    <3> QED BY <2>1, <3>2, Zenon DEF Accepted, Accepts
  <2>2. CASE m \notin DOMAIN read.metas
    BY <2>2 DEF Accepted
  <2> QED BY <2>1, <2>2
<1> HIDE DEF chosen, allowed
<1>4. CASE m \in DOMAIN chosen
  <2>1. Offered(m, c) <=> c \in DOMAIN chosen[m]
    BY <1>1, <1>4 DEF Offered
  <2>2. ASSUME c \in DOMAIN chosen[m]
        PROVE  <<SkrNamespace, <<m, skr.metas[key].spec[c]>>>> \in DOMAIN skr.templates
    <3> DEFINE selected == ToSync(read.metas, read.templates, read.labels)
    <3>1. m \in DOMAIN selected.metas /\ c \in DOMAIN selected.metas[m]
      BY <1>1, <1>4, <2>2 DEF chosen
    <3>2. <<m, selected.metas[m][c]>> \in DOMAIN selected.templates
      BY <3>1, TemplateChosen, Zenon
    <3>3. <<m, chosen[m][c]>> \in DOMAIN read.toSync.templates
      BY <1>1, <3>2, Zenon DEF chosen
    <3> QED BY <1>1, <1>4, <3>3
  <2> QED BY <1>2, <1>3, <1>4, <2>1, <2>2
<1>5. CASE m \notin DOMAIN chosen
  <2>1. ~Offered(m, c)
    <3> SUFFICES ASSUME key \in DOMAIN skr.metas
                 PROVE  c \notin DOMAIN skr.metas[key].spec
      BY DEF Offered
    <3>1. key[2] = m
      OBVIOUS
    <3>2. skr.metas[key].by # "kcp"
      BY <1>1, <1>5, <3>1
    <3>3. skr.metas[key].spec = <<>>
      BY <1>1, <3>2 DEF AreOwned
    <3> QED BY <3>3
  <2> QED BY <1>2, <1>3, <1>5, <2>1
<1> QED BY <1>4, <1>5

\* Whenever a synchronisation of the catalog ends without error and undisturbed, the
\* SKR offers exactly what the template lookup accepts, with its ModuleTemplates
\* (SyncModuleCatalog, GetRegularTemplates): for every catalog whose channels have
\* versions, and every change and failure.
THEOREM OffersWhatIsAccepted ==
    ASSUME AreMetas(Catalog.metas)
    PROVE  Spec => []CatalogIsUsable
<1>1. Init => Inv
  BY Initial
<1>2. Inv /\ [Next]_vars => Inv'
  BY Inductive
<1>3. Inv => CatalogIsUsable
  BY Usable
<1> QED BY <1>1, <1>2, <1>3, PTL DEF Spec

\* A step of KLM takes no object of a user.
LEMMA UserObjects ==
    ASSUME Inv, Reconcile
    PROVE  KeepsUserObjects
<1> SUFFICES ASSUME NEW kind \in Kinds, NEW k \in DOMAIN skr[kind], skr[kind][k].by = "user"
             PROVE  k \in DOMAIN skr'[kind]
  BY DEF KeepsUserObjects
<1>0. SkrShape
  BY DEF Inv, Shape
<1>1. ASSUME skr'.metas = skr.metas, skr'.templates = skr.templates
      PROVE  k \in DOMAIN skr'[kind]
  BY <1>1 DEF Kinds
<1>2. ASSUME NEW other \in Kinds, SyncConcurrently(other)
      PROVE  k \in DOMAIN skr'[kind]
  <2>1. skr'[kind] = skr[kind] \/ \E g : skr'[kind] = Merge(skr[kind], g)
    BY <1>0, <1>2, ApplyEffect
  <2> QED BY <2>1, Zenon DEF Merge
<1>3. ASSUME NEW other \in Kinds, DeleteConcurrently(other)
      PROVE  k \in DOMAIN skr'[kind]
  <2>1. skr'[kind] = skr[kind] \/ \E lost : skr'[kind] = Without(skr[kind], Obsolete(kind) \ lost)
    BY <1>0, <1>3, DeleteEffect, Zenon
  <2>2. k \notin Obsolete(kind)
    BY DEF Obsolete
  <2> QED BY <2>1, <2>2, Zenon DEF Without
<1>4. CASE SyncTemplatesToSKR \/ SyncMetasToSKR
  BY <1>2, <1>3, <1>4 DEF SyncTemplatesToSKR, SyncMetasToSKR, Kinds,
                         ApplyTemplates, ApplyMetas, DeleteTemplates, DeleteMetas
<1>5. CASE ListModuleReleaseMetas
  BY <1>1, <1>5, Listing
<1> QED BY <1>1, <1>4, <1>5, OtherSteps DEF Reconcile

\* KLM never takes away a catalog object that a user of the SKR made
\* (DeleteConcurrently), whatever the catalog and however the synchronisation fails.
THEOREM UsersKeepTheirObjects ==
    ASSUME AreMetas(Catalog.metas)
    PROVE  Spec => UserObjectsStay
<1>1. Init => Inv
  BY Initial
<1>2. Inv /\ [Next]_vars => Inv'
  BY Inductive
<1>3. Inv /\ [Next]_vars => [KeepsUserObjects]_vars
  BY UserObjects DEF KeepsUserObjects
<1> QED BY <1>1, <1>2, <1>3, PTL DEF Spec, UserObjectsStay

=============================================================================
