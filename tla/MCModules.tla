----------------------------- MODULE MCModules -----------------------------
(***************************************************************************)
(* The modules of a Kyma (KymaModules) and the rendering of the Manifests  *)
(* that come out of them (Rendering), side by side: they share no state,   *)
(* and a behaviour is one of either.                                       *)
(***************************************************************************)
EXTENDS MCKymaModules

VARIABLES
    which,
    described, spec, files, lock, parsed, worker, target, synced, deployed, secret,
    renderFaults, copyFaults, renderEvents

renderingVars == <<described, spec, files, lock, parsed, worker, target, synced, deployed, secret,
                   renderFaults, copyFaults, renderEvents>>

(***************************************************************************)
(* Rendering: two Manifests of one module.  Version 2 has its layer in an  *)
(* archive and a resource twice, version 3 an unknown access type, version *)
(* 4 no repository context, and the descriptor of version 5 cannot be read.*)
(***************************************************************************)
Image(domain, name, tag) == [domain |-> domain, path |-> <<"kyma", name>>, tag |-> tag, digest |-> ""]
NoImage == [domain |-> "", path |-> <<>>, tag |-> "", digest |-> ""]
Item(name, access, tar, ref, image) ==
    [name |-> name, access |-> access, tar |-> tar, ref |-> ref, image |-> image]
Descriptor(version, context, mapping, items) ==
    [name |-> "module", version |-> version, context |-> context, mapping |-> mapping, resources |-> items]

MCDescriptors == <<
    Descriptor("1", "OCIRegistry", "urlPath",
        <<Item("default-cr", "localBlob", FALSE, "d1", NoImage),
          Item("config", "localBlob", FALSE, "c1", NoImage),
          Item("raw-manifest", "localBlob", FALSE, "r1", NoImage),
          Item("image", "ociArtifact", FALSE, "", Image("eu", "app", "1"))>>),
    Descriptor("2", "OCIRegistry", "sha256-digest",
        <<Item("raw-manifest", "localBlob", TRUE, "r2", NoImage),
          Item("image", "ociArtifact", FALSE, "", Image("eu", "app", "2")),
          Item("image", "ociArtifact/v1", FALSE, "", Image("us", "app", "2"))>>),
    Descriptor("3", "OCIRegistry", "urlPath", <<Item("raw-manifest", "other", FALSE, "r1", NoImage)>>),
    Descriptor("4", "none", "urlPath", <<Item("raw-manifest", "localBlob", FALSE, "r1", NoImage)>>),
    Descriptor("5", "OCIRegistry", "urlPath", <<>>)>>

Entry(name) == [name |-> name, size |-> 4, cut |-> FALSE]
MCArtifacts == [v \in 1..5 |->
    [digest |-> "d", entries |-> <<Entry(IF v = 5 THEN "readme" ELSE "component-descriptor.yaml")>>]]

Resource(kind, name, namespace, containers, initContainers, inject) ==
    [kind |-> kind, name |-> name, namespace |-> namespace, owner |-> "",
     containers |-> containers, initContainers |-> initContainers, imagePullSecrets |-> <<>>,
     data |-> 0, stringData |-> inject, inject |-> inject]
Container(name, tag, env) == [image |-> Image("hub", name, tag), env |-> env]
Deployment(tag) ==
    Resource("Deployment", "manager", "",
        <<Container("app", tag, [IMAGE |-> Image("hub", "app", tag), LEVEL |-> NoImage])>>,
        <<Container("init", "1", <<>>), Container("app", tag, <<>>)>>, FALSE)

MCContent ==
    [r1 |-> <<Deployment("1"), Resource("CustomResourceDefinition", "crd", "stray", <<>>, <<>>, FALSE),
              Resource("Secret", "pull", "kyma", <<>>, <<>>, TRUE)>>,
     r2 |-> <<Deployment("2"), Deployment("2"), Resource("ModuleCR", "cr", "", <<>>, <<>>, FALSE)>>]

KcpSecret(exists, module, credentials) ==
    [exists |-> exists, module |-> module, data |-> 1, credentials |-> credentials]

Manifests == {"a", "b"}
Rendering == INSTANCE Rendering WITH
    Descriptors <- MCDescriptors, Artifacts <- MCArtifacts, Content <- MCContent,
    Manager <- <<>>, ModuleName <- "deployer", PullSecret <- "pull",
    KcpSecrets <- {KcpSecret(TRUE, "deployer", TRUE), KcpSecret(TRUE, "other", TRUE), KcpSecret(FALSE, "", FALSE)},
    Clustered <- {"CustomResourceDefinition"}, Unknown <- {"ModuleCR"},
    faults <- renderFaults, events <- renderEvents,
    MaxFaults <- 1, MaxEvents <- 2

(***************************************************************************)
(* The specification.                                                      *)
(***************************************************************************)
BothInit ==
    /\ which \in {"modules", "rendering"}
    /\ Init
    /\ Rendering!Init /\ secret = KcpSecret(TRUE, "deployer", TRUE)
    /\ spec["a"].version = "1" /\ spec["b"].version = "2"

BothNext ==
    \/ which = "modules" /\ Next /\ UNCHANGED <<which, renderingVars>>
    \/ which = "rendering" /\ Rendering!Next /\ UNCHANGED <<which, vars>>

BothSpec == BothInit /\ [][BothNext]_<<which, vars, renderingVars>>

\* What is rendered for a Manifest is its layer, all of it and transformed for
\* it alone (GetPathForFetchedLayer, Parse, RenderTargetResources).
RenderedAsReleased == Rendering!RenderedAsReleased

\* What belongs to the version is deleted in the SKR only after a broken download,
\* and only while the annotation names another layer (pruneDiff).
KeepsResources == [][Rendering!KeepsReleased]_renderingVars
=============================================================================
