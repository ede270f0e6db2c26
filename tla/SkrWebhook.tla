----------------------------- MODULE SkrWebhook -----------------------------
(***************************************************************************)
(* The watcher of one SKR (pkg/watcher, internal/service/watcher): the     *)
(* Kyma reconciliation asks cert-manager for a client certificate, renews  *)
(* it once the gateway's CA bundle is newer, and applies certificate, CA   *)
(* bundle, Deployment and webhook configuration to the SKR.  Composed with *)
(* GatewaySecret, this is the rotation of docs/contributor/adr/007.        *)
(*                                                                         *)
(* Reads and writes are cut where the other actors can move.  The other    *)
(* Kymas appear only through the ResourceConfigurator that all             *)
(* reconciliations share.                                                  *)
(***************************************************************************)
EXTENDS GatewaySecret

CONSTANTS
    CertDuration,   \* cert-manager reissues a client certificate after that long
    SyncInterval,   \* a Kyma is reconciled successfully at least that often
    MaxFaults       \* bound on failed applies

ASSUME WebhookAssumption == {CertDuration, SyncInterval, MaxFaults} \subseteq Nat

VARIABLES
    cert,         \* the Certificate CR: [exists, notBefore, issuing]
    certSecret,   \* its Secret in the control plane: [version, signer]
    secretResVer, \* of the shared ResourceConfigurator
    skr,          \* the resources in the SKR: [label, signer, version, ca, hookCA]
    pod,          \* the running watcher pod: [label, version]
    domain,       \* the Kyma has the annotation skr-domain
    condition,    \* condition SKRWebhook of the Kyma
    pc, todo, built, startedAt, syncedAt, faults

skrVars == <<cert, certSecret, secretResVer, skr, pod, domain, condition, pc, todo, built,
             startedAt, syncedAt, faults>>
vars == <<clock, gatewayVars, skrVars>>

Resources == {"secret", "deployment", "webhook"}
OtherKyma == 99   \* the resourceVersion of another Kyma's Secret
Nothing == [label |-> 0, signer |-> 0, version |-> 0, ca |-> {}, hookCA |-> {}]

WebhookInit ==
    /\ cert = [exists |-> FALSE, notBefore |-> 0, issuing |-> FALSE]
    /\ certSecret = [version |-> 0, signer |-> 0]
    /\ secretResVer = 0
    /\ skr = Nothing
    /\ pod = [label |-> 0, version |-> 0]
    /\ domain \in BOOLEAN
    /\ condition = FALSE
    /\ pc = "idle" /\ todo = {} /\ built = Nothing
    /\ startedAt = clock /\ syncedAt = clock
    /\ faults = 0

Init == GatewayInit /\ WebhookInit

(***************************************************************************)
(* cert-manager signs with the CA of the root secret.                      *)
(***************************************************************************)
IssueDue ==
    cert.exists /\ (cert.issuing \/ clock >= cert.notBefore + CertDuration \/ certSecret.version = 0)

IssueCertificate ==
    /\ IssueDue
    /\ cert' = [cert EXCEPT !.notBefore = clock, !.issuing = FALSE]
    /\ certSecret' = [version |-> certSecret.version + 1, signer |-> root]
    /\ UNCHANGED <<clock, gatewayVars, secretResVer, skr, pod, domain, condition, pc, todo, built,
                   startedAt, syncedAt, faults>>

(***************************************************************************)
(* SkrWebhookManifestManager.Reconcile.                                    *)
(***************************************************************************)
\* An error ends the reconciliation; it is requeued.
Fails ==
    /\ condition' = FALSE
    /\ pc' = "idle" /\ todo' = {} /\ built' = Nothing

\* The Certificate CR of cert-manager or of Gardener: Create applies it, Renew
\* asks for a new certificate.  One that was never issued has no validity.
Create(c) == [c EXCEPT !.exists = TRUE]
Renew(c) == [c EXCEPT !.issuing = TRUE]
GetValidity(c) == c.notBefore # 0

\* The certificate is for the domain of the SKR and for the service of the watcher.
constructDNSNames == domain

CreateSkrCertificate ==
    /\ pc = "idle"
    /\ startedAt' = clock
    /\ IF constructDNSNames
       THEN cert' = Create(cert) /\ pc' = "renew" /\ UNCHANGED <<condition, todo, built>>
       ELSE Fails /\ UNCHANGED cert
    /\ UNCHANGED <<clock, gatewayVars, certSecret, secretResVer, skr, pod, domain, syncedAt, faults>>

\* The provisioner sets the annotation.
SetDomain ==
    /\ ~domain
    /\ domain' = TRUE
    /\ UNCHANGED <<clock, gatewayVars, cert, certSecret, secretResVer, skr, pod, condition, pc, todo,
                   built, startedAt, syncedAt, faults>>

skrCertificateNeedsRenewal == GetValidity(cert) /\ cert.notBefore < gateway.bundledAt

RenewSkrCertificate ==
    /\ pc = "renew"
    /\ IF GetValidity(cert) /\ ~gateway.exists
       THEN Fails /\ UNCHANGED cert
       ELSE /\ cert' = IF skrCertificateNeedsRenewal THEN Renew(cert) ELSE cert
            /\ pc' = "configure"
            /\ UNCHANGED <<condition, todo, built>>
    /\ UNCHANGED <<clock, gatewayVars, certSecret, secretResVer, skr, pod, domain, startedAt, syncedAt, faults>>

\* The Secrets of the control plane, and whether they hold what is asked for.
GetSkrCertificateSecret == certSecret.version # 0
NewCertificateSecretData == certSecret.signer # 0
GetSkrCertificateSecretData == GetSkrCertificateSecret /\ NewCertificateSecretData
NewGatewaySecretData == gateway.ca # {}
GetGatewayCertificateSecretData == GetGatewaySecret /\ NewGatewaySecretData

\* The Secret is read and its version put into the shared configurator ...
SetSecretResVer ==
    /\ pc = "configure"
    /\ IF ~GetSkrCertificateSecret
       THEN Fails /\ UNCHANGED secretResVer
       ELSE /\ secretResVer' = certSecret.version
            /\ pc' = "deployment"
            /\ UNCHANGED <<condition, todo, built>>
    /\ UNCHANGED <<clock, gatewayVars, cert, certSecret, skr, pod, domain, startedAt, syncedAt, faults>>

\* ... where the reconciliation of another Kyma may replace it ...
OtherKymaReconciles ==
    /\ pc = "deployment"
    /\ secretResVer' = OtherKyma
    /\ UNCHANGED <<clock, gatewayVars, cert, certSecret, skr, pod, domain, condition, pc, todo, built,
                   startedAt, syncedAt, faults>>

\* Mutant: the pod template gets the label of the first version only.
ConfigureDeploymentOnce ==
    /\ pc = "deployment"
    /\ built' = [built EXCEPT !.label = IF skr.label = 0 THEN secretResVer ELSE skr.label]
    /\ pc' = "data"
    /\ UNCHANGED <<clock, gatewayVars, cert, certSecret, secretResVer, skr, pod, domain, condition, todo,
                   startedAt, syncedAt, faults>>

\* ... before the Deployment is labelled with it.
ConfigureDeployment ==
    /\ pc = "deployment"
    /\ built' = [built EXCEPT !.label = secretResVer]
    /\ pc' = "data"
    /\ UNCHANGED <<clock, gatewayVars, cert, certSecret, secretResVer, skr, pod, domain, condition, todo,
                   startedAt, syncedAt, faults>>

\* The Secret is read again, with the gateway's CA bundle.
getCertificateData ==
    /\ pc = "data"
    /\ IF ~GetSkrCertificateSecretData \/ ~GetGatewayCertificateSecretData
       THEN Fails
       ELSE /\ built' = [built EXCEPT !.signer = certSecret.signer, !.version = certSecret.version,
                                      !.ca = gateway.ca, !.hookCA = gateway.ca]
            /\ pc' = "apply" /\ todo' = Resources
            /\ UNCHANGED condition
    /\ UNCHANGED <<clock, gatewayVars, cert, certSecret, secretResVer, skr, pod, domain, startedAt, syncedAt,
                   faults>>

\* Mutant: the Secret is created and never updated.
BuildSKRSecretOnce ==
    IF skr.version # 0 THEN skr
    ELSE [skr EXCEPT !.signer = built.signer, !.ca = built.ca, !.version = built.version]

BuildSKRSecret ==
    [skr EXCEPT !.signer = built.signer, !.version = built.version, !.ca = built.ca]

BuildValidatingWebhookConfigFromWatchers == [skr EXCEPT !.hookCA = built.hookCA]

Applied(res) ==
    CASE res = "secret"     -> BuildSKRSecret
      [] res = "deployment" -> [skr EXCEPT !.label = built.label]
      [] res = "webhook"    -> BuildValidatingWebhookConfigFromWatchers

ApplyResource ==
    /\ pc = "apply"
    /\ \E res \in todo :
          /\ skr' = Applied(res)
          /\ todo' = todo \ {res}
    /\ UNCHANGED <<clock, gatewayVars, cert, certSecret, secretResVer, pod, domain, condition, pc, built,
                   startedAt, syncedAt, faults>>

\* The first error cancels the applies that are still running; or KLM stops
\* between two of them, and the status stays as it was.
ApplyFails ==
    /\ pc = "apply" /\ todo # {}
    /\ faults < MaxFaults
    /\ faults' = faults + 1
    /\ \/ Fails
       \/ pc' = "idle" /\ todo' = {} /\ built' = Nothing /\ UNCHANGED condition
    /\ UNCHANGED <<clock, gatewayVars, cert, certSecret, secretResVer, skr, pod, domain, startedAt, syncedAt>>

\* The Deployment counts as ready once a pod of it runs.
AssertDeploymentReady ==
    /\ pc = "apply" /\ todo = {}
    /\ condition' = (pod.label # 0)
    /\ syncedAt' = startedAt
    /\ pc' = "idle" /\ built' = Nothing
    /\ UNCHANGED <<clock, gatewayVars, cert, certSecret, secretResVer, skr, pod, domain, todo, startedAt, faults>>

(***************************************************************************)
(* The SKR rolls the pod when the label in its template changes; the new   *)
(* pod reads the Secret as it is.  The applies of Deployment and Secret    *)
(* run concurrently, and the SKR does not wait for the other one.          *)
(***************************************************************************)
RolloutDue == skr.label # 0 /\ pod.label # skr.label

PodStarts ==
    /\ RolloutDue
    /\ skr.version # 0
    /\ pod' = [label |-> skr.label, version |-> skr.version]
    /\ UNCHANGED <<clock, gatewayVars, cert, certSecret, secretResVer, skr, domain, condition, pc, todo, built,
                   startedAt, syncedAt, faults>>

(***************************************************************************)
(* Time passes once everybody has done what is due in this tick.           *)
(***************************************************************************)
Tick ==
    /\ clock < MaxTime
    /\ managed
    /\ ~RotationDue /\ ~IssueDue /\ ~RolloutDue
    /\ clock - syncedAt < SyncInterval
    /\ clock' = clock + 1
    /\ managed' = FALSE
    /\ UNCHANGED <<root, notAfter, gateway, skrVars>>

Gateway == (RotateRoot \/ ManageGatewaySecret) /\ UNCHANGED skrVars

KymaReconciles ==
    \/ CreateSkrCertificate \/ RenewSkrCertificate \/ SetSecretResVer \/ ConfigureDeployment
    \/ getCertificateData \/ ApplyResource \/ AssertDeploymentReady

Next ==
    \/ Gateway \/ IssueCertificate \/ KymaReconciles
    \/ SetDomain \/ OtherKymaReconciles \/ ApplyFails \/ PodStarts \/ Tick

Spec == Init /\ [][Next]_vars

\* The queues hand out every request again and cert-manager and the SKR do
\* their work.  Another Kyma does not get in between forever.
FairSpec ==
    /\ Spec
    /\ WF_vars(ManageGatewaySecret /\ UNCHANGED skrVars) /\ WF_vars(KymaReconciles)
    /\ WF_vars(SetDomain) /\ WF_vars(IssueCertificate) /\ SF_vars(PodStarts) /\ WF_vars(Tick)
    /\ SF_vars(ConfigureDeployment /\ secretResVer # OtherKyma)

(***************************************************************************)
(* Properties.                                                             *)
(***************************************************************************)
\* The gateway accepts the client certificate that the SKR uses: its CA is in
\* the bundle from before the certificate gets to the SKR until after it is
\* replaced there.  (A certificate signed by a CA that was rotated in the same
\* moment is accepted once the gateway controller has seen the rotation.)
\* ADR 007: the gateway trusts all client certificates until their expiry.
ServerTrustsClient == skr.signer # 0 /\ managed => containsCert(gateway.ca, skr.signer)

\* The CA bundle in the SKR holds the certificate the gateway presents: the
\* server certificate is switched only after every SKR got the new CA.
\* ADR 007: the skr-webhook deployment trusts the server certificate.
ClientTrustsServer == skr.signer # 0 => containsCert(skr.ca, gateway.tls)

\* A label with a version of the Kyma's own Secret is not ahead of the Secret in
\* the SKR, since the label is read before the data, whatever cert-manager issues
\* in between: when a reconciliation has applied everything, whatever failed
\* before it, and from then until the next one applies, if no apply fails.  A pod
\* that starts then has read the version it is labelled with or a later one.
LabelIsHonest ==
    /\ IF pc = "apply" THEN todo = {} ELSE faults = 0
    /\ skr.label # OtherKyma
    => skr.version >= skr.label

\* The pod has read the version of its label.  A pod that starts between the
\* applies of Deployment and Secret has not, nor has one whose Secret failed to
\* be applied, and nothing restarts it before the next certificate.
RolledOnChange == pod.label # OtherKyma => pod.version >= pod.label

\* PodRestartLabelKey "is used to trigger a rolling update of the watcher pod
\* when the SKR's certificate changes": the last certificate restarts the pod if
\* it does not run with it already, although another Kyma's reconciliation may
\* replace the version in the shared configurator, and applies may fail.  If
\* every pod finds the version of its label, the pod ends up with the last
\* certificate.
PodGetsCertificate ==
    /\ <>[](certSecret.version \in {pod.label, pod.version})
    /\ []RolledOnChange => <>[](pod.version = certSecret.version)
=============================================================================
