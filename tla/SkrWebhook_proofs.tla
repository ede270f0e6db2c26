-------------------------- MODULE SkrWebhook_proofs --------------------------
(***************************************************************************)
(* The label of the Deployment and the version of its Secret, and the      *)
(* trust between gateway and SKR while root certificates are rotated:      *)
(* proofs for every rotation, interval and number of failures.             *)
(***************************************************************************)
EXTENDS SkrWebhook, TLAPS

\* The shape of what is built for the SKR and applied to it.
IsResources(r) ==
    /\ r = [label |-> r.label, signer |-> r.signer, version |-> r.version, ca |-> r.ca, hookCA |-> r.hookCA]
    /\ r.label \in Nat /\ r.version \in Nat

Types ==
    /\ IsResources(skr) /\ IsResources(built)
    /\ {certSecret.version, secretResVer, faults} \subseteq Nat
    /\ todo \subseteq Resources

\* A label of the Kyma's own Secret is not newer than a version.
NotNewer(label, version) == label # OtherKyma => label <= version

\* The version is taken before the data, and versions only grow.
Building ==
    /\ NotNewer(secretResVer, certSecret.version)
    /\ skr.version <= certSecret.version
    /\ pc = "data" => NotNewer(built.label, certSecret.version)

\* While the resources are applied, each of them is either the old or the new one,
\* and the new version is not older than the old one.
Applying ==
    pc = "apply" =>
        /\ NotNewer(built.label, built.version)
        /\ skr.version <= built.version /\ built.version <= certSecret.version
        /\ "secret" \notin todo => skr.version = built.version
        /\ "deployment" \notin todo => skr.label = built.label

\* Old Deployment and old or new Secret fit, as long as no apply failed.
Paired ==
    faults = 0 /\ (pc # "apply" \/ "deployment" \in todo) => NotNewer(skr.label, skr.version)

IInv == Types /\ Building /\ Applying /\ Paired

\* The invariant holds before the first reconciliation.
LEMMA InitHolds == Init => IInv
  BY DEF Init, WebhookInit, IInv, Types, IsResources, Nothing, Building, Applying, Paired, NotNewer,
         OtherKyma, Resources

\* The steps of the gateway, of cert-manager and of the clock leave the SKR alone; a
\* version that is issued is newer.
LEMMA OthersKeep ==
    ASSUME IInv, Gateway \/ IssueCertificate \/ SetDomain \/ Tick
    PROVE  IInv'
  <1>1. CASE Gateway \/ SetDomain \/ Tick
    BY <1>1 DEF Gateway, SetDomain, Tick, skrVars, IInv, Types, IsResources, Building, Applying, Paired,
                NotNewer
  <1>2. CASE IssueCertificate
    BY <1>2 DEF IssueCertificate, IInv, Types, IsResources, Building, Applying, Paired, NotNewer
  <1>. QED  BY <1>1, <1>2

\* The steps up to the label leave the SKR alone.
LEMMA PreparationKeeps ==
    ASSUME IInv, CreateSkrCertificate \/ RenewSkrCertificate \/ SetSecretResVer \/ OtherKymaReconciles
    PROVE  IInv'
  <1>0. IsResources(Nothing)
    BY DEF IsResources, Nothing
  <1>1. CASE CreateSkrCertificate
    BY <1>0, <1>1 DEF CreateSkrCertificate, Fails, IInv, Types, IsResources, Building, Applying, Paired, NotNewer
  <1>2. CASE RenewSkrCertificate
    BY <1>0, <1>2 DEF RenewSkrCertificate, Fails, IInv, Types, IsResources, Building, Applying, Paired, NotNewer
  <1>3. CASE SetSecretResVer
    BY <1>0, <1>3 DEF SetSecretResVer, Fails, IInv, Types, IsResources, Building, Applying, Paired, NotNewer
  <1>4. CASE OtherKymaReconciles
    BY <1>4 DEF OtherKymaReconciles, IInv, Types, IsResources, Building, Applying, Paired, NotNewer, OtherKyma
  <1>. QED  BY <1>1, <1>2, <1>3, <1>4

\* The Deployment is labelled, and then the Secret is read again.
LEMMA BuildingKeeps ==
    ASSUME IInv, ConfigureDeployment \/ getCertificateData
    PROVE  IInv'
  <1>0. IsResources(Nothing)
    BY DEF IsResources, Nothing
  <1>1. CASE ConfigureDeployment
    <2>1. IsResources(built') /\ built'.label = secretResVer
      BY <1>1 DEF ConfigureDeployment, IInv, Types, IsResources
    <2>. QED
      BY <1>1, <2>1 DEF ConfigureDeployment, IInv, Types, Building, Applying, Paired, NotNewer, IsResources
  <1>2. CASE getCertificateData
    <2>1. CASE ~GetSkrCertificateSecretData \/ ~GetGatewayCertificateSecretData
      BY <1>0, <1>2, <2>1 DEF getCertificateData, Fails, IInv, Types, IsResources, Building, Applying,
                              Paired, NotNewer
    <2>2. CASE GetSkrCertificateSecretData /\ GetGatewayCertificateSecretData
      <3>1. IsResources(built') /\ built'.label = built.label /\ built'.version = certSecret.version
        BY <1>2, <2>2, Zenon DEF getCertificateData, IInv, Types, IsResources
      <3>. QED
        BY <1>2, <2>2, <3>1 DEF getCertificateData, IInv, Types, IsResources, Building, Applying, Paired,
                                NotNewer, Resources
    <2>. QED  BY <2>1, <2>2
  <1>. QED  BY <1>1, <1>2

\* Each resource is applied for itself; a pod may start at any time.
LEMMA ApplyingKeeps ==
    ASSUME IInv, ApplyResource \/ ApplyFails \/ AssertDeploymentReady \/ PodStarts
    PROVE  IInv'
  <1>0. IsResources(Nothing)
    BY DEF IsResources, Nothing
  <1>1. CASE ApplyResource
    <2>1. PICK res \in todo : skr' = Applied(res) /\ todo' = todo \ {res}
      BY <1>1 DEF ApplyResource
    <2>2. CASE res = "secret"
      <3>1. IsResources(skr') /\ skr'.label = skr.label /\ skr'.version = built.version
        BY <2>1, <2>2, Zenon DEF Applied, BuildSKRSecret, IInv, Types, IsResources
      <3>. QED
        BY <1>1, <2>1, <2>2, <3>1 DEF ApplyResource, IInv, Types, IsResources, Building, Applying, Paired,
                                      NotNewer
    <2>3. CASE res = "deployment"
      <3>1. IsResources(skr') /\ skr'.label = built.label /\ skr'.version = skr.version
        BY <2>1, <2>3 DEF Applied, IInv, Types, IsResources
      <3>. QED
        BY <1>1, <2>1, <2>3, <3>1 DEF ApplyResource, IInv, Types, IsResources, Building, Applying, Paired,
                                      NotNewer
    <2>4. CASE res = "webhook"
      <3>1. IsResources(skr') /\ skr'.label = skr.label /\ skr'.version = skr.version
        BY <2>1, <2>4 DEF Applied, BuildValidatingWebhookConfigFromWatchers, IInv, Types, IsResources
      <3>. QED
        BY <1>1, <2>1, <2>4, <3>1 DEF ApplyResource, IInv, Types, IsResources, Building, Applying, Paired,
                                      NotNewer
    <2>. QED  BY <2>1, <2>2, <2>3, <2>4 DEF IInv, Types, Resources
  <1>2. CASE ApplyFails
    BY <1>0, <1>2 DEF ApplyFails, Fails, IInv, Types, IsResources, Building, Applying, Paired, NotNewer
  <1>3. CASE AssertDeploymentReady
    BY <1>0, <1>3 DEF AssertDeploymentReady, IInv, Types, IsResources, Building, Applying, Paired, NotNewer
  <1>4. CASE PodStarts
    BY <1>4 DEF PodStarts, IInv, Types, IsResources, Building, Applying, Paired, NotNewer
  <1>. QED  BY <1>1, <1>2, <1>3, <1>4

\* A reconciliation that has applied everything leaves no label in the SKR that is ahead
\* of the Secret there (SetSecretResVer before getCertificateData), whatever is rotated and
\* issued in between and however many applies failed before; and without failed applies
\* that is so until the next reconciliation applies.
THEOREM HonestLabel == Spec => []LabelIsHonest
  <1>1. IInv /\ [Next]_vars => IInv'
    <2>1. ASSUME IInv, UNCHANGED vars
          PROVE  IInv'
      BY <2>1 DEF vars, skrVars, IInv, Types, IsResources, Building, Applying, Paired, NotNewer
    <2>. QED
      BY <2>1, OthersKeep, PreparationKeeps, BuildingKeeps, ApplyingKeeps DEF Next, KymaReconciles
  <1>2. IInv => LabelIsHonest
    BY DEF IInv, Types, IsResources, Applying, Paired, NotNewer, LabelIsHonest
  <1>. QED  BY <1>1, <1>2, InitHolds, PTL DEF Spec

(***************************************************************************)
(* The rotation of the root CA.  How long the intervals must be:           *)
(***************************************************************************)
\* A CA is renewed before it expires, and long enough before that for every client
\* certificate it signed to be reissued and to get to the SKR.
ClientsRenewed == RotateBefore <= CALifetime /\ CertDuration + SyncInterval <= RotateBefore

\* Every SKR gets the new CA within the grace period, which ends before the old CA
\* expires.
ServerSwitches == SyncInterval <= GracePeriod /\ GracePeriod < RotateBefore /\ RotateBefore <= CALifetime

\* The root is not rotated again before the gateway has switched to it.
OneAtATime == root' # root => gateway.tls = root

GatewayTypes ==
    /\ clock \in Nat /\ root \in Nat \ {0}
    /\ notAfter \in [1..root -> Nat]
    /\ gateway = [exists |-> gateway.exists, tls |-> gateway.tls, ca |-> gateway.ca,
                  bundledAt |-> gateway.bundledAt]
    /\ gateway.ca \subseteq 1..root /\ {gateway.tls, gateway.bundledAt} \subseteq Nat
    /\ ~gateway.exists => gateway.ca = {}

SkrTypes ==
    /\ cert = [exists |-> cert.exists, notBefore |-> cert.notBefore, issuing |-> cert.issuing]
    /\ cert.notBefore \in Nat
    /\ certSecret.version \in Nat /\ secretResVer \in Nat
    /\ {certSecret.signer, skr.signer, built.signer} \subseteq 0..root
    /\ IsResources(skr) /\ IsResources(built)
    /\ {startedAt, syncedAt} \subseteq Nat
    /\ todo \subseteq Resources

\* What Tick waits for: the rotation, the certificate and the reconciliation that are due.
InTime ==
    /\ clock + RotateBefore <= notAfter[root]
    /\ syncedAt <= startedAt /\ startedAt <= clock /\ clock <= syncedAt + SyncInterval
    /\ certSecret.version # 0 =>
          /\ cert.exists /\ certSecret.signer # 0
          /\ clock <= cert.notBefore + CertDuration
          /\ cert.notBefore + RotateBefore <= notAfter[certSecret.signer]

\* A CA is in the bundle from the controller's first look at it until it expires.
Bundled ==
    /\ \A ca \in 1..root : ca # root /\ notAfter[ca] >= clock => ca \in gateway.ca
    /\ managed => root \in gateway.ca

\* What is in the SKR, or on its way there, was signed by a CA that is valid for long
\* enough after the reconciliation started.
SignedInTime ==
    /\ skr.signer # 0 => syncedAt + RotateBefore <= notAfter[skr.signer] + CertDuration
    /\ pc = "apply" =>
          /\ built.signer # 0 /\ startedAt + RotateBefore <= notAfter[built.signer] + CertDuration
          /\ "secret" \notin todo => skr.signer = built.signer

TimeInv == GatewayTypes /\ SkrTypes /\ InTime

ServerInv == TimeInv /\ Bundled /\ SignedInTime

\* The certificate presented is the root or the one before; the switch happens in the
\* tick after the grace period, long before the one before expires.
Presented ==
    gateway.exists =>
        /\ gateway.tls \in gateway.ca
        /\ gateway.bundledAt <= clock
        /\ root \in gateway.ca /\ gateway.tls # root =>
              /\ gateway.bundledAt + RotateBefore <= notAfter[gateway.tls]
              /\ clock <= gateway.bundledAt + GracePeriod + 1
              /\ managed => clock <= gateway.bundledAt + GracePeriod
        /\ root \notin gateway.ca => ~managed /\ clock + RotateBefore <= notAfter[gateway.tls]

\* A bundle read by a reconciliation trusts the certificate presented, and the root,
\* too, when the root was bundled before the reconciliation started.
Trusts(bundle, since) ==
    /\ gateway.tls \in bundle
    /\ root \in gateway.ca /\ since > gateway.bundledAt => root \in bundle

Received ==
    /\ skr.signer # 0 \/ pc = "apply" => gateway.exists
    /\ skr.signer # 0 => Trusts(skr.ca, syncedAt)
    /\ pc = "apply" => Trusts(built.ca, startedAt)
    /\ pc = "apply" /\ "secret" \notin todo => skr.signer = built.signer /\ skr.ca = built.ca

ClientInv == TimeInv /\ Presented /\ Received

\* The constants are numbers.
LEMMA Numbers ==
    /\ MaxTime \in Nat /\ MaxRotations \in Nat /\ GracePeriod \in Nat /\ CALifetime \in Nat
    /\ RotateBefore \in Nat /\ CertDuration \in Nat /\ SyncInterval \in Nat /\ MaxFaults \in Nat
  BY GatewayAssumption, WebhookAssumption

\* Nobody is late in the beginning.
LEMMA TimeInit == Init => TimeInv
  BY Numbers DEF Init, GatewayInit, WebhookInit, TimeInv, GatewayTypes, SkrTypes, InTime, IsResources,
                 Nothing, Resources

\* cert-manager rotates the root: the new CA is valid for longer than the rotation is early.
LEMMA RotateKeepsTime ==
    ASSUME TimeInv, RotateBefore <= CALifetime, RotateRoot, UNCHANGED skrVars
    PROVE  TimeInv' /\ \A n \in 1..root : notAfter'[n] = notAfter[n]
  <1>1. root' = root + 1 /\ root' \in Nat \ {0} /\ 1..root \subseteq 1..root' /\ root' \in 1..root'
        /\ 0..root \subseteq 0..root'
    BY DEF RotateRoot, TimeInv, GatewayTypes
  <1>2. notAfter' = [n \in 1..root' |-> IF n = root' THEN clock + CALifetime ELSE notAfter[n]]
    BY DEF RotateRoot
  <1>3. \A n \in 1..root : n # root' /\ notAfter[n] \in Nat
    BY <1>1 DEF TimeInv, GatewayTypes
  <1>4. \A n \in 1..root : notAfter'[n] = notAfter[n]
    BY <1>1, <1>2, <1>3
  <1>5. clock \in Nat /\ clock + CALifetime \in Nat /\ notAfter'[root'] = clock + CALifetime
    BY <1>1, <1>2, Numbers DEF TimeInv, GatewayTypes
  <1>6. \A n \in 1..root' : n # root' => n \in 1..root
    BY <1>1 DEF TimeInv, GatewayTypes
  <1>7. notAfter' \in [1..root' -> Nat]
    BY <1>2, <1>3, <1>5, <1>6
  <1>8. GatewayTypes'
    BY <1>1, <1>7 DEF RotateRoot, TimeInv, GatewayTypes
  <1>9. SkrTypes'
    BY <1>1 DEF skrVars, TimeInv, SkrTypes
  <1>10. certSecret.version # 0 => certSecret.signer \in 1..root
    BY DEF TimeInv, GatewayTypes, SkrTypes, InTime
  <1>11. clock' + RotateBefore <= notAfter'[root']
    BY <1>5, Numbers DEF RotateRoot
  <1>12. InTime'
    BY <1>4, <1>10, <1>11 DEF RotateRoot, skrVars, TimeInv, InTime
  <1>. QED  BY <1>4, <1>8, <1>9, <1>12 DEF TimeInv

\* The bundle is a set of CAs.
LEMMA ManageKeepsTime ==
    ASSUME TimeInv, ManageGatewaySecret, UNCHANGED skrVars
    PROVE  TimeInv'
  <1>1. GatewayTypes'
    BY DEF ManageGatewaySecret, GetGatewaySecret, UpdateGatewaySecret, CreateGatewaySecret, ManagedSecret,
           createGatewaySecretFromRootSecret, bundleCACerts, DropExpiredCerts, Bundle, prependCert,
           containsCert, caBundledAt, TimeInv, GatewayTypes
  <1>2. SkrTypes' /\ InTime'
    BY DEF ManageGatewaySecret, skrVars, TimeInv, SkrTypes, InTime
  <1>. QED  BY <1>1, <1>2 DEF TimeInv

\* Time passes when nothing is due.
LEMMA TickKeepsTime ==
    ASSUME TimeInv, Tick
    PROVE  TimeInv'
  <1>1. clock' = clock + 1 /\ UNCHANGED <<root, notAfter, gateway>> /\ UNCHANGED skrVars
    BY DEF Tick
  <1>2. GatewayTypes' /\ SkrTypes'
    <2>1. GatewayTypes'
      BY <1>1 DEF TimeInv, GatewayTypes
    <2>2. SkrTypes'
      BY <1>1 DEF skrVars, TimeInv, SkrTypes
    <2>. QED  BY <2>1, <2>2
  <1>3. root \in 1..root /\ notAfter[root] \in Nat /\ clock \in Nat /\ syncedAt \in Nat /\ startedAt \in Nat
        /\ cert.notBefore \in Nat
    BY DEF TimeInv, GatewayTypes, SkrTypes
  <1>4. clock' + RotateBefore <= notAfter'[root']
    BY <1>1, <1>3, Numbers DEF Tick, RotationDue
  <1>5. syncedAt' <= startedAt' /\ startedAt' <= clock' /\ clock' <= syncedAt' + SyncInterval
    BY <1>1, <1>3, Numbers DEF Tick, skrVars, TimeInv, InTime
  <1>6. ASSUME certSecret.version # 0
        PROVE  clock' <= cert.notBefore + CertDuration
    <2>1. cert.exists
      BY <1>6 DEF TimeInv, InTime
    <2>2. ~(clock >= cert.notBefore + CertDuration)
      BY <2>1 DEF Tick, IssueDue
    <2>. QED  BY <1>1, <1>3, <2>2, Numbers
  <1>7. InTime'
    BY <1>1, <1>4, <1>5, <1>6 DEF skrVars, TimeInv, InTime
  <1>. QED  BY <1>2, <1>7 DEF TimeInv

\* A certificate is signed by the root, which is not due for rotation.
LEMMA IssueKeepsTime ==
    ASSUME TimeInv, IssueCertificate
    PROVE  TimeInv'
  <1>1. GatewayTypes'
    BY DEF IssueCertificate, gatewayVars, TimeInv, GatewayTypes
  <1>2. cert' = [exists |-> cert.exists, notBefore |-> clock, issuing |-> FALSE]
    BY Zenon DEF IssueCertificate, TimeInv, SkrTypes
  <1>3. certSecret' = [version |-> certSecret.version + 1, signer |-> root]
    BY DEF IssueCertificate
  <1>4. SkrTypes'
    <2>1. cert' = [exists |-> cert'.exists, notBefore |-> cert'.notBefore, issuing |-> cert'.issuing]
          /\ cert'.notBefore \in Nat
      BY <1>2 DEF TimeInv, GatewayTypes
    <2>2. certSecret'.version \in Nat /\ certSecret'.signer \in 0..root
      <3>1. root \in Nat /\ certSecret.version \in Nat
        BY Zenon DEF TimeInv, GatewayTypes, SkrTypes
      <3>2. certSecret'.version = certSecret.version + 1 /\ certSecret'.signer = root
        BY Zenon, <1>3
      <3>. QED  BY <3>1, <3>2
    <2>. QED
      BY <2>1, <2>2 DEF IssueCertificate, gatewayVars, TimeInv, SkrTypes
  <1>5. InTime'
    <2>1. clock' = clock /\ root' = root /\ notAfter' = notAfter /\ syncedAt' = syncedAt /\ startedAt' = startedAt
      BY DEF IssueCertificate, gatewayVars
    <2>2. /\ clock \in Nat /\ root \in Nat \ {0} /\ cert.exists
          /\ clock + RotateBefore <= notAfter[root]
          /\ syncedAt <= startedAt /\ startedAt <= clock /\ clock <= syncedAt + SyncInterval
      BY Zenon DEF IssueCertificate, IssueDue, TimeInv, GatewayTypes, InTime
    <2>3. cert'.exists = cert.exists /\ cert'.notBefore = clock /\ certSecret'.signer = root
      BY Zenon, <1>2, <1>3
    <2>4. clock <= clock + CertDuration /\ root # 0
      BY <2>2, Numbers
    <2>. QED  BY Zenon, <2>1, <2>2, <2>3, <2>4 DEF InTime
  <1>. QED  BY <1>1, <1>4, <1>5 DEF TimeInv

\* What a step of the reconciliation may change.
LEMMA SkrStepKeepsTime ==
    ASSUME TimeInv, UNCHANGED <<clock, gatewayVars, certSecret>>,
           cert' = [exists |-> cert'.exists, notBefore |-> cert.notBefore, issuing |-> cert'.issuing],
           cert.exists => cert'.exists,
           IsResources(skr'), IsResources(built'), todo' \subseteq Resources,
           skr'.signer \in 0..root, built'.signer \in 0..root, secretResVer' \in Nat,
           \/ startedAt' = clock /\ syncedAt' = syncedAt
           \/ startedAt' = startedAt /\ syncedAt' \in {syncedAt, startedAt}
    PROVE  TimeInv'
  <1>1. GatewayTypes'
    BY DEF gatewayVars, TimeInv, GatewayTypes
  <1>2. cert'.notBefore = cert.notBefore
    OBVIOUS
  <1>3. SkrTypes'
    BY <1>2 DEF gatewayVars, TimeInv, GatewayTypes, SkrTypes
  <1>4. syncedAt' <= startedAt' /\ startedAt' <= clock /\ clock <= syncedAt' + SyncInterval
    <2>1. clock \in Nat /\ startedAt \in Nat /\ syncedAt \in Nat
          /\ syncedAt <= startedAt /\ startedAt <= clock /\ clock <= syncedAt + SyncInterval
      BY DEF TimeInv, GatewayTypes, SkrTypes, InTime
    <2>. QED  BY <2>1, Numbers
  <1>5. InTime'
    BY <1>2, <1>4 DEF gatewayVars, TimeInv, InTime
  <1>. QED  BY <1>1, <1>3, <1>5 DEF TimeInv

\* The Secret is signed by a CA issued before, and the bundle is read as it is.
LEMMA ReconcileKeepsTime ==
    ASSUME TimeInv,
           KymaReconciles \/ SetDomain \/ OtherKymaReconciles \/ ApplyFails \/ PodStarts \/ UNCHANGED vars
    PROVE  TimeInv'
  <1>0. IsResources(Nothing) /\ Nothing.signer \in 0..root /\ {} \subseteq Resources
    BY DEF IsResources, Nothing, TimeInv, GatewayTypes
  <1>1. /\ cert = [exists |-> cert.exists, notBefore |-> cert.notBefore, issuing |-> cert.issuing]
        /\ IsResources(skr) /\ IsResources(built) /\ todo \subseteq Resources
        /\ skr.signer \in 0..root /\ built.signer \in 0..root /\ certSecret.signer \in 0..root
        /\ certSecret.version \in Nat /\ secretResVer \in Nat
    BY DEF TimeInv, SkrTypes
  <1>2. CASE CreateSkrCertificate
    BY <1>0, <1>1, <1>2, SkrStepKeepsTime DEF CreateSkrCertificate, Create, Fails
  <1>3. CASE RenewSkrCertificate
    BY <1>0, <1>1, <1>3, SkrStepKeepsTime DEF RenewSkrCertificate, Renew, Fails
  <1>4. CASE SetSecretResVer
    BY <1>0, <1>1, <1>4, SkrStepKeepsTime DEF SetSecretResVer, Fails
  <1>5. CASE ConfigureDeployment
    <2>1. built' = [label |-> secretResVer, signer |-> built.signer, version |-> built.version,
                    ca |-> built.ca, hookCA |-> built.hookCA]
      BY <1>1, <1>5 DEF ConfigureDeployment, IsResources
    <2>2. IsResources(built') /\ built'.signer = built.signer
      BY <1>1, <2>1 DEF TimeInv, SkrTypes, IsResources
    <2>. QED
      BY <1>1, <1>5, <2>2, SkrStepKeepsTime DEF ConfigureDeployment
  <1>6. CASE getCertificateData
    BY <1>0, <1>1, <1>6, SkrStepKeepsTime, Zenon DEF getCertificateData, Fails, IsResources
  <1>7. CASE ApplyResource
    BY <1>0, <1>1, <1>7, SkrStepKeepsTime, Zenon
    DEF ApplyResource, Applied, BuildSKRSecret, BuildValidatingWebhookConfigFromWatchers, IsResources, Resources
  <1>8. CASE ApplyFails \/ AssertDeploymentReady
    BY <1>0, <1>1, <1>8, SkrStepKeepsTime DEF ApplyFails, AssertDeploymentReady, Fails
  <1>9. CASE SetDomain \/ OtherKymaReconciles \/ PodStarts \/ UNCHANGED vars
    BY <1>0, <1>1, <1>9, SkrStepKeepsTime DEF SetDomain, OtherKymaReconciles, OtherKyma, PodStarts, vars, skrVars
  <1>. QED
    BY <1>2, <1>3, <1>4, <1>5, <1>6, <1>7, <1>8, <1>9 DEF KymaReconciles

\* Nobody is late at any time.
LEMMA TimeStep ==
    ASSUME TimeInv, [Next]_vars, RotateBefore <= CALifetime
    PROVE  TimeInv'
  BY RotateKeepsTime, ManageKeepsTime, TickKeepsTime, IssueKeepsTime, ReconcileKeepsTime DEF Next, Gateway

\* The facts about numbers that the next proofs need.
LEMMA TimeFacts ==
    ASSUME TimeInv
    PROVE  /\ clock \in Nat /\ root \in Nat \ {0} /\ root \in 1..root
           /\ \A ca \in 1..root : notAfter[ca] \in Nat
           /\ startedAt \in Nat /\ syncedAt \in Nat /\ gateway.bundledAt \in Nat
           /\ skr.signer # 0 => skr.signer \in 1..root
           /\ built.signer # 0 => built.signer \in 1..root
           /\ certSecret.signer # 0 => certSecret.signer \in 1..root
           /\ gateway.ca \subseteq 1..root
  <1>1. clock \in Nat /\ root \in Nat \ {0} /\ notAfter \in [1..root -> Nat] /\ gateway.bundledAt \in Nat
        /\ gateway.ca \subseteq 1..root
    BY DEF TimeInv, GatewayTypes
  <1>2. startedAt \in Nat /\ syncedAt \in Nat /\ {certSecret.signer, skr.signer, built.signer} \subseteq 0..root
    <2>1. {startedAt, syncedAt} \subseteq Nat /\ {certSecret.signer, skr.signer, built.signer} \subseteq 0..root
      BY Zenon DEF TimeInv, SkrTypes
    <2>. QED  BY <2>1
  <1>. QED  BY <1>1, <1>2

\* What a step does to the gateway's part of the state.
LEMMA ManageGives ==
    ASSUME TimeInv, ManageGatewaySecret
    PROVE  /\ gateway'.exists /\ managed' /\ root' = root /\ notAfter' = notAfter /\ clock' = clock
           /\ root \in gateway'.ca
           /\ gateway.exists =>
                 /\ gateway'.ca = {ca \in gateway.ca \cup {root} : ~(notAfter[ca] < clock)}
                 /\ gateway'.bundledAt = IF root \in gateway.ca THEN gateway.bundledAt ELSE clock
                 /\ gateway'.tls = IF clock > gateway'.bundledAt + GracePeriod THEN root ELSE gateway.tls
           /\ ~gateway.exists => gateway'.ca = {root} /\ gateway'.bundledAt = clock /\ gateway'.tls = root
  <1>1. ~(notAfter[root] < clock)
    BY TimeFacts, Numbers DEF TimeInv, InTime
  <1>2. CASE gateway.exists
    <2>1. gateway' = ManagedSecret
      BY <1>2 DEF ManageGatewaySecret, GetGatewaySecret, UpdateGatewaySecret
    <2>2. bundleCACerts = {ca \in gateway.ca \cup {root} : ~(notAfter[ca] < clock)}
      BY DEF bundleCACerts, DropExpiredCerts, Bundle, prependCert, containsCert, expired
    <2>. QED
      BY <1>1, <1>2, <2>1, <2>2
      DEF ManageGatewaySecret, ManagedSecret, caBundledAt, containsCert, requiresCertSwitching
  <1>3. CASE ~gateway.exists
    BY <1>3 DEF ManageGatewaySecret, GetGatewaySecret, CreateGatewaySecret, createGatewaySecretFromRootSecret
  <1>. QED  BY <1>2, <1>3

\* Who changes the gateway's part of the state.
LEMMA GatewaySteps ==
    ASSUME [Next]_vars
    PROVE  \/ RotateRoot /\ UNCHANGED skrVars
           \/ ManageGatewaySecret /\ UNCHANGED skrVars
           \/ Tick
           \/ UNCHANGED <<clock, gatewayVars>>
  BY DEF Next, Gateway, KymaReconciles, IssueCertificate, CreateSkrCertificate, RenewSkrCertificate,
         SetSecretResVer, ConfigureDeployment, getCertificateData, ApplyResource, AssertDeploymentReady,
         SetDomain, OtherKymaReconciles, ApplyFails, PodStarts, vars

\* An old CA leaves the bundle when it has expired, and a new one gets there before time
\* passes.
LEMMA BundledStep ==
    ASSUME TimeInv, TimeInv', Bundled, [Next]_vars, RotateBefore <= CALifetime
    PROVE  Bundled'
  <1>1. CASE RotateRoot /\ UNCHANGED skrVars
    <2>1. root' = root + 1 /\ root \in gateway.ca /\ managed' = FALSE /\ UNCHANGED <<clock, gateway>>
      BY <1>1 DEF RotateRoot, containsCert
    <2>2. \A ca \in 1..root' : ca # root' => ca \in 1..root
      BY <2>1, TimeFacts
    <2>3. \A ca \in 1..root : notAfter'[ca] = notAfter[ca]
      BY <1>1, RotateKeepsTime
    <2>. QED  BY <2>1, <2>2, <2>3 DEF Bundled
  <1>2. CASE ManageGatewaySecret /\ UNCHANGED skrVars
    <2>1. \A ca \in 1..root : notAfter[ca] >= clock => ~(notAfter[ca] < clock)
      BY TimeFacts
    <2>2. CASE gateway.exists
      BY <1>2, <2>1, <2>2, ManageGives DEF Bundled
    <2>3. CASE ~gateway.exists
      BY <1>2, <2>3, ManageGives DEF Bundled, TimeInv, GatewayTypes
    <2>. QED  BY <2>2, <2>3
  <1>3. CASE Tick
    <2>1. clock' = clock + 1 /\ ~managed' /\ UNCHANGED <<root, notAfter, gateway>>
      BY <1>3 DEF Tick
    <2>2. \A ca \in 1..root : notAfter[ca] >= clock + 1 => notAfter[ca] >= clock
      BY TimeFacts
    <2>. QED  BY <2>1, <2>2 DEF Bundled
  <1>4. CASE UNCHANGED <<clock, gatewayVars>>
    BY <1>4 DEF gatewayVars, Bundled
  <1>. QED  BY <1>1, <1>2, <1>3, <1>4, GatewaySteps

\* What is signed now is valid for long enough.
LEMMA SignedStep ==
    ASSUME TimeInv, TimeInv', SignedInTime, [Next]_vars, RotateBefore <= CALifetime
    PROVE  SignedInTime'
  <1>1. CASE RotateRoot /\ UNCHANGED skrVars
    BY <1>1, RotateKeepsTime, TimeFacts DEF skrVars, SignedInTime
  <1>2. CASE ManageGatewaySecret /\ UNCHANGED skrVars
    BY <1>2 DEF ManageGatewaySecret, skrVars, SignedInTime
  <1>3. CASE Tick
    BY <1>3 DEF Tick, skrVars, SignedInTime
  <1>4. CASE getCertificateData
    <2>1. CASE ~GetSkrCertificateSecretData \/ ~GetGatewayCertificateSecretData
      BY <1>4, <2>1 DEF getCertificateData, Fails, gatewayVars, SignedInTime
    <2>2. CASE GetSkrCertificateSecretData /\ GetGatewayCertificateSecretData
      <3>1. certSecret.version # 0 /\ certSecret.signer # 0
        BY <2>2 DEF GetSkrCertificateSecretData, GetSkrCertificateSecret, NewCertificateSecretData
      <3>2. built'.signer = certSecret.signer
        BY <1>4, <2>2, Zenon DEF getCertificateData, TimeInv, SkrTypes, IsResources
      <3>3. cert.notBefore \in Nat /\ notAfter[certSecret.signer] \in Nat /\ startedAt <= clock
            /\ clock <= cert.notBefore + CertDuration
            /\ cert.notBefore + RotateBefore <= notAfter[certSecret.signer]
        BY <3>1, TimeFacts DEF TimeInv, SkrTypes, InTime
      <3>4. startedAt + RotateBefore <= notAfter[certSecret.signer] + CertDuration
        BY <3>3, TimeFacts, Numbers
      <3>. QED
        BY <1>4, <2>2, <3>1, <3>2, <3>4 DEF getCertificateData, gatewayVars, SignedInTime, Resources
    <2>. QED  BY <2>1, <2>2
  <1>5. CASE ApplyResource
    <2>1. PICK res \in todo : skr' = Applied(res) /\ todo' = todo \ {res}
      BY <1>5 DEF ApplyResource
    <2>2. UNCHANGED <<notAfter, built, pc, startedAt, syncedAt>> /\ pc = "apply"
      BY <1>5 DEF ApplyResource, gatewayVars
    <2>3. CASE res = "secret"
      <3>1. skr'.signer = built.signer
        BY <2>1, <2>3, Zenon DEF Applied, BuildSKRSecret, TimeInv, SkrTypes, IsResources
      <3>2. notAfter[built.signer] \in Nat /\ syncedAt <= startedAt
        BY <2>2, TimeFacts DEF SignedInTime, TimeInv, InTime
      <3>3. syncedAt + RotateBefore <= notAfter[built.signer] + CertDuration
        BY <2>2, <3>2, TimeFacts, Numbers DEF SignedInTime
      <3>. QED  BY <2>1, <2>2, <3>1, <3>3 DEF SignedInTime
    <2>4. CASE res # "secret"
      <3>1. skr'.signer = skr.signer
        BY <2>1, <2>4 DEF Applied, BuildValidatingWebhookConfigFromWatchers, TimeInv, SkrTypes, IsResources,
                          Resources
      <3>. QED  BY <2>1, <2>2, <2>4, <3>1 DEF SignedInTime
    <2>. QED  BY <2>3, <2>4
  <1>6. CASE AssertDeploymentReady
    BY <1>6 DEF AssertDeploymentReady, gatewayVars, SignedInTime
  <1>7. CASE CreateSkrCertificate \/ RenewSkrCertificate \/ SetSecretResVer \/ ConfigureDeployment \/ ApplyFails
    BY <1>7 DEF CreateSkrCertificate, RenewSkrCertificate, SetSecretResVer, ConfigureDeployment, ApplyFails,
                Fails, gatewayVars, SignedInTime
  <1>8. CASE IssueCertificate \/ SetDomain \/ OtherKymaReconciles \/ PodStarts \/ UNCHANGED vars
    BY <1>8 DEF IssueCertificate, SetDomain, OtherKymaReconciles, PodStarts, vars, gatewayVars, skrVars,
                SignedInTime
  <1>. QED
    BY <1>1, <1>2, <1>3, <1>4, <1>5, <1>6, <1>7, <1>8 DEF Next, Gateway, KymaReconciles

\* The gateway accepts the client certificate of the SKR through every rotation of the
\* root, on schedule or by hand, when the rotation is early enough for the certificates
\* that the old CA signed to be reissued and to get to the SKR: at the latest they are
\* reissued after their own duration, since skrCertificateNeedsRenewal overlooks one
\* that was issued in the very moment of the rotation.
THEOREM ServerTrusts ==
    ASSUME ClientsRenewed
    PROVE  Spec => []ServerTrustsClient
  <1>1. Init => ServerInv
    BY TimeInit DEF Init, GatewayInit, WebhookInit, ServerInv, Bundled, SignedInTime, Nothing
  <1>2. ServerInv /\ [Next]_vars => ServerInv'
    BY TimeStep, BundledStep, SignedStep DEF ServerInv, ClientsRenewed
  <1>3. ServerInv => ServerTrustsClient
    <2>1. SUFFICES ASSUME ServerInv, skr.signer # 0, managed
                   PROVE  skr.signer \in gateway.ca
      BY DEF ServerTrustsClient, containsCert
    <2>2. skr.signer \in 1..root /\ notAfter[skr.signer] \in Nat
      BY <2>1, TimeFacts DEF ServerInv
    <2>3. clock <= syncedAt + SyncInterval /\ syncedAt + RotateBefore <= notAfter[skr.signer] + CertDuration
      BY <2>1 DEF ServerInv, TimeInv, InTime, SignedInTime
    <2>4. notAfter[skr.signer] >= clock
      BY <2>1, <2>2, <2>3, TimeFacts, Numbers DEF ServerInv, ClientsRenewed
    <2>. QED  BY <2>1, <2>2, <2>4 DEF ServerInv, Bundled
  <1>. QED  BY <1>1, <1>2, <1>3, PTL DEF Spec

\* The switch comes after the grace period and before the old CA expires.
LEMMA PresentedStep ==
    ASSUME TimeInv, TimeInv', Presented, [Next]_vars, OneAtATime, ServerSwitches
    PROVE  Presented'
  <1>1. CASE RotateRoot /\ UNCHANGED skrVars
    <2>1. root' = root + 1 /\ root \in gateway.ca /\ managed' = FALSE /\ UNCHANGED <<clock, gateway>>
      BY <1>1 DEF RotateRoot, containsCert
    <2>2. root' # root /\ root' \notin gateway.ca
      BY <2>1, TimeFacts
    <2>3. notAfter'[root] = notAfter[root]
      BY <1>1, RotateKeepsTime, TimeFacts DEF ServerSwitches
    <2>4. gateway.tls = root
      BY <2>2 DEF OneAtATime
    <2>5. clock + RotateBefore <= notAfter[root]
      BY DEF TimeInv, InTime
    <2>. QED  BY <2>1, <2>2, <2>3, <2>4, <2>5 DEF Presented
  <1>2. CASE ManageGatewaySecret /\ UNCHANGED skrVars
    <2>1. clock + RotateBefore <= notAfter[root] /\ gateway'.bundledAt \in Nat
      BY TimeFacts, <1>2, ManageGives DEF TimeInv, GatewayTypes, InTime
    <2>2. CASE ~gateway.exists
      BY <1>2, <2>2, ManageGives, TimeFacts DEF Presented
    <2>3. CASE gateway.exists /\ root \notin gateway.ca
      <3>1. gateway'.bundledAt = clock /\ gateway'.tls = gateway.tls
        BY <1>2, <2>3, ManageGives, TimeFacts, Numbers
      <3>2. gateway.tls \in gateway.ca /\ clock + RotateBefore <= notAfter[gateway.tls]
        BY <2>3 DEF Presented
      <3>3. gateway.tls \in gateway'.ca
        BY <1>2, <2>3, <3>2, ManageGives, TimeFacts, Numbers
      <3>4. clock <= clock + GracePeriod /\ clock <= clock + GracePeriod + 1 /\ clock <= clock
        BY TimeFacts, Numbers
      <3>. QED  BY <1>2, <3>1, <3>2, <3>3, <3>4, ManageGives DEF Presented
    <2>4. CASE gateway.exists /\ root \in gateway.ca
      <3>1. gateway'.bundledAt = gateway.bundledAt
        BY <1>2, <2>4, ManageGives
      <3>2. CASE clock > gateway.bundledAt + GracePeriod
        <4>1. gateway'.tls = root
          BY <1>2, <2>4, <3>1, <3>2, ManageGives
        <4>. QED  BY <1>2, <2>4, <3>1, <4>1, ManageGives DEF Presented
      <3>3. CASE ~(clock > gateway.bundledAt + GracePeriod)
        <4>1. gateway'.tls = gateway.tls /\ gateway.tls \in gateway.ca
          BY <1>2, <2>4, <3>1, <3>3, ManageGives DEF Presented
        <4>2. clock <= gateway.bundledAt + GracePeriod /\ clock <= gateway.bundledAt + GracePeriod + 1
          BY <3>3, TimeFacts, Numbers
        <4>3. ~(notAfter[gateway.tls] < clock)
          BY <2>1, <2>4, <4>1, <4>2, TimeFacts, Numbers DEF Presented, ServerSwitches
        <4>4. gateway.tls \in gateway'.ca
          BY <1>2, <2>4, <4>1, <4>3, ManageGives
        <4>. QED  BY <1>2, <2>4, <3>1, <4>1, <4>2, <4>4, ManageGives DEF Presented
      <3>. QED  BY <3>2, <3>3
    <2>. QED  BY <2>2, <2>3, <2>4
  <1>3. CASE Tick
    <2>1. clock' = clock + 1 /\ managed /\ ~managed' /\ UNCHANGED <<root, notAfter, gateway>>
      BY <1>3 DEF Tick
    <2>2. gateway.bundledAt <= clock => gateway.bundledAt <= clock + 1
      BY TimeFacts
    <2>3. clock <= gateway.bundledAt + GracePeriod => clock + 1 <= gateway.bundledAt + GracePeriod + 1
      BY TimeFacts, Numbers
    <2>. QED  BY <2>1, <2>2, <2>3 DEF Presented
  <1>4. CASE UNCHANGED <<clock, gatewayVars>>
    BY <1>4 DEF gatewayVars, Presented
  <1>. QED  BY <1>1, <1>2, <1>3, <1>4, GatewaySteps

\* When the server certificate is switched, every bundle in the SKR or on its way there
\* was read after the root was bundled.
LEMMA ManageKeepsReceived ==
    ASSUME ClientInv, ManageGatewaySecret, UNCHANGED skrVars, ServerSwitches
    PROVE  Received'
  <1>1. gateway'.exists /\ root' = root /\ UNCHANGED <<skr, built, pc, todo, startedAt, syncedAt>>
    BY ManageGives DEF skrVars, ClientInv
  <1>2. clock <= syncedAt + SyncInterval /\ syncedAt <= startedAt /\ startedAt <= clock
    BY DEF ClientInv, TimeInv, InTime
  <1>3. ASSUME NEW bundle, NEW since \in Nat, syncedAt <= since, since <= clock, gateway.exists,
               Trusts(bundle, since)
        PROVE  /\ gateway'.tls \in bundle
               /\ since > gateway'.bundledAt => root \in bundle
    <2>1. CASE root \notin gateway.ca
      <3>1. gateway'.bundledAt = clock /\ gateway'.tls = gateway.tls
        BY <1>3, <2>1, ManageGives, TimeFacts, Numbers DEF ClientInv
      <3>. QED  BY <1>3, <3>1, TimeFacts DEF Trusts, ClientInv
    <2>2. CASE root \in gateway.ca
      <3>1. gateway'.bundledAt = gateway.bundledAt
        BY <1>3, <2>2, ManageGives DEF ClientInv
      <3>2. clock > gateway.bundledAt + GracePeriod => since > gateway.bundledAt
        BY <1>2, <1>3, TimeFacts, Numbers DEF ServerSwitches, ClientInv
      <3>. QED  BY <1>3, <2>2, <3>1, <3>2, ManageGives DEF Trusts, ClientInv
    <2>. QED  BY <2>1, <2>2
  <1>4. skr.signer # 0 => Trusts(skr.ca, syncedAt)'
    BY <1>1, <1>2, <1>3, TimeFacts DEF ClientInv, Received, Trusts
  <1>5. pc = "apply" => Trusts(built.ca, startedAt)'
    BY <1>1, <1>2, <1>3, TimeFacts DEF ClientInv, Received, Trusts
  <1>. QED  BY <1>1, <1>4, <1>5 DEF ClientInv, Received

\* A reconciliation hands on the bundle it has read.
LEMMA ReceivedStep ==
    ASSUME ClientInv, [Next]_vars, OneAtATime, ServerSwitches
    PROVE  Received'
  <1>0. TimeInv /\ Received /\ Presented
    BY DEF ClientInv
  <1>1. CASE RotateRoot /\ UNCHANGED skrVars
    <2>1. root' = root + 1 /\ UNCHANGED gateway
      BY <1>1 DEF RotateRoot
    <2>2. root' \notin gateway.ca
      BY <1>0, <2>1, TimeFacts
    <2>. QED  BY <1>0, <1>1, <2>1, <2>2 DEF skrVars, Received, Trusts
  <1>2. CASE ManageGatewaySecret /\ UNCHANGED skrVars
    BY <1>2, ManageKeepsReceived
  <1>3. CASE Tick
    BY <1>0, <1>3 DEF Tick, skrVars, Received, Trusts
  <1>4. CASE getCertificateData
    <2>1. CASE ~GetSkrCertificateSecretData \/ ~GetGatewayCertificateSecretData
      BY <1>0, <1>4, <2>1 DEF getCertificateData, Fails, gatewayVars, Received, Trusts
    <2>2. CASE GetSkrCertificateSecretData /\ GetGatewayCertificateSecretData
      <3>1. built'.ca = gateway.ca /\ gateway.exists
        BY <1>0, <1>4, <2>2, Zenon
        DEF getCertificateData, GetGatewayCertificateSecretData, GetGatewaySecret, TimeInv, SkrTypes, IsResources
      <3>. QED
        BY <1>0, <1>4, <2>2, <3>1
        DEF getCertificateData, gatewayVars, Received, Presented, Trusts, Resources
    <2>. QED  BY <2>1, <2>2
  <1>5. CASE ApplyResource
    <2>1. PICK res \in todo : skr' = Applied(res) /\ todo' = todo \ {res}
      BY <1>5 DEF ApplyResource
    <2>2. UNCHANGED <<root, gateway, built, pc, startedAt, syncedAt>> /\ pc = "apply"
      BY <1>5 DEF ApplyResource, gatewayVars
    <2>3. CASE res = "secret"
      <3>1. skr'.signer = built.signer /\ skr'.ca = built.ca
        BY <1>0, <2>1, <2>3, Zenon DEF Applied, BuildSKRSecret, TimeInv, SkrTypes, IsResources
      <3>2. syncedAt > gateway.bundledAt => startedAt > gateway.bundledAt
        BY <1>0, TimeFacts DEF TimeInv, InTime
      <3>. QED  BY <1>0, <2>1, <2>2, <3>1, <3>2 DEF Received, Trusts
    <2>4. CASE res # "secret"
      <3>1. skr'.signer = skr.signer /\ skr'.ca = skr.ca
        BY <1>0, <2>1, <2>4 DEF Applied, BuildValidatingWebhookConfigFromWatchers, TimeInv, SkrTypes,
                                IsResources, Resources
      <3>. QED  BY <1>0, <2>1, <2>2, <2>4, <3>1 DEF Received, Trusts
    <2>. QED  BY <2>3, <2>4
  <1>6. CASE AssertDeploymentReady
    BY <1>0, <1>6 DEF AssertDeploymentReady, gatewayVars, Received, Trusts
  <1>7. CASE CreateSkrCertificate \/ RenewSkrCertificate \/ SetSecretResVer \/ ConfigureDeployment \/ ApplyFails
    BY <1>0, <1>7 DEF CreateSkrCertificate, RenewSkrCertificate, SetSecretResVer, ConfigureDeployment, ApplyFails,
                      Fails, gatewayVars, Received, Trusts
  <1>8. CASE IssueCertificate \/ SetDomain \/ OtherKymaReconciles \/ PodStarts \/ UNCHANGED vars
    BY <1>0, <1>8 DEF IssueCertificate, SetDomain, OtherKymaReconciles, PodStarts, vars, gatewayVars, skrVars,
                      Received, Trusts
  <1>. QED
    BY <1>1, <1>2, <1>3, <1>4, <1>5, <1>6, <1>7, <1>8 DEF Next, Gateway, KymaReconciles

\* The CA bundle of the SKR holds the certificate that the gateway presents, through
\* every rotation, when every SKR is reconciled within the grace period, the grace
\* period ends before the old CA expires (requiresCertSwitching), and no rotation by hand
\* comes before the switch of the last one.  A rotation in between sets the annotation
\* anew and postpones the switch; without the hypothesis the certificate presented may
\* expire and leave the bundle.
THEOREM ClientTrusts ==
    ASSUME ServerSwitches
    PROVE  Spec /\ [][OneAtATime]_vars => []ClientTrustsServer
  <1>1. Init => ClientInv
    <2>1. SUFFICES ASSUME Init
                   PROVE  ClientInv
      OBVIOUS
    <2>2. ~gateway.exists
      BY <2>1 DEF Init, GatewayInit
    <2>3. skr.signer = 0 /\ pc # "apply"
      BY <2>1 DEF Init, WebhookInit, Nothing
    <2>. QED  BY <2>1, <2>2, <2>3, TimeInit, Zenon DEF ClientInv, Presented, Received
  <1>2. ClientInv /\ [Next]_vars /\ [OneAtATime]_vars => ClientInv'
    <2>1. SUFFICES ASSUME ClientInv, [Next]_vars, [OneAtATime]_vars
                   PROVE  ClientInv'
      OBVIOUS
    <2>2. OneAtATime
      BY <2>1 DEF OneAtATime, vars, gatewayVars
    <2>3. TimeInv'
      BY <2>1, TimeStep DEF ClientInv, ServerSwitches
    <2>4. Presented'
      BY <2>1, <2>2, <2>3, PresentedStep DEF ClientInv
    <2>5. Received'
      BY <2>1, <2>2, ReceivedStep
    <2>. QED  BY <2>3, <2>4, <2>5 DEF ClientInv
  <1>3. ClientInv => ClientTrustsServer
    BY DEF ClientInv, Received, Trusts, ClientTrustsServer, containsCert
  <1>. QED  BY <1>1, <1>2, <1>3, PTL DEF Spec
=============================================================================
