---------------------------- MODULE GatewaySecret ----------------------------
(***************************************************************************)
(* The Istio gateway secret (internal/gatewaysecret, the bundler of        *)
(* internal/service/watcher/certificate): the certificate the control      *)
(* plane's gateway presents to the watchers, and the CA certificates it    *)
(* accepts from them.  cert-manager rotates the root secret; the controller*)
(* adds the new CA to the bundle at once and switches the server           *)
(* certificate only after a grace period.                                  *)
(*                                                                         *)
(* The CAs are numbered in the order of their rotation.  tls.crt and       *)
(* ca.crt of the root secret are the same certificate, named by its number.*)
(* A bundle is the set of its certificates; their order makes no difference*)
(* to a TLS handshake.                                                     *)
(* Time is counted in ticks; the RFC 3339 annotation has whole ticks, too. *)
(***************************************************************************)
EXTENDS Naturals

CONSTANTS
    MaxTime,        \* bound on the clock
    MaxRotations,   \* bound on the rotations of the root certificate
    GracePeriod,    \* --istio-gateway-server-cert-switch-grace-period
    CALifetime,     \* lifetime of a CA certificate
    RotateBefore    \* cert-manager rotates that long before the CA expires

ASSUME GatewayAssumption ==
    {MaxTime, MaxRotations, GracePeriod, CALifetime, RotateBefore} \subseteq Nat

VARIABLES
    clock,
    root,       \* number of the CA in the root secret klm-watcher
    notAfter,   \* the expiry of each CA issued so far, a sequence
    gateway,    \* the gateway secret: [exists, tls, ca, bundledAt], ca is a set
    managed     \* the controller has seen the root secret in this tick

gatewayVars == <<root, notAfter, gateway, managed>>

GatewayInit ==
    /\ clock = 1
    /\ root = 1
    /\ notAfter = <<2 + RotateBefore>>   \* the first rotation is due soon
    /\ gateway = [exists |-> FALSE, tls |-> 0, ca |-> {}, bundledAt |-> 0]
    /\ managed = FALSE

\* The certificates of a bundle are compared by their bytes.
containsCert(bundle, ca) == ca \in bundle

(***************************************************************************)
(* cert-manager.                                                           *)
(***************************************************************************)
\* Time does not pass a rotation that is due, nor the one after the last.
RotationDue == clock >= notAfter[root] - RotateBefore

\* On schedule or by hand; a CA lives long enough for the controller to see it.
RotateRoot ==
    /\ root <= MaxRotations /\ containsCert(gateway.ca, root)
    /\ root' = root + 1
    /\ notAfter' = [n \in 1..root' |-> IF n = root' THEN clock + CALifetime ELSE notAfter[n]]
    /\ managed' = FALSE
    /\ UNCHANGED <<clock, gateway>>

(***************************************************************************)
(* ManageGatewaySecret.  The update carries the resourceVersion of the     *)
(* read, so the read and the write of the gateway secret are one step.     *)
(***************************************************************************)
expired(ca) == notAfter[ca] < clock

\* Mutant: a bundle that has a certificate stays as it is.
BundleFirst(bundle, ca) == IF bundle = {} THEN {ca} ELSE bundle

prependCert(bundle, ca) == {ca} \cup bundle

\* Bundle adds a certificate that is not there yet.
Bundle(bundle, ca) == IF containsCert(bundle, ca) THEN bundle ELSE prependCert(bundle, ca)

DropExpiredCerts(bundle) == {ca \in bundle : ~expired(ca)}

\* Mutant: the grace period is not waited for.
switchAtOnce(bundledAt) == clock >= bundledAt

requiresCertSwitching(bundledAt) == clock > bundledAt + GracePeriod

createGatewaySecretFromRootSecret ==
    [exists |-> TRUE, tls |-> root, ca |-> {root}, bundledAt |-> clock]

\* The annotation: set anew when the bundle grows.
caBundledAt == IF containsCert(gateway.ca, root) THEN gateway.bundledAt ELSE clock

bundleCACerts == DropExpiredCerts(Bundle(gateway.ca, root))

ManagedSecret ==
    [exists |-> TRUE,
     ca |-> bundleCACerts,
     bundledAt |-> caBundledAt,
     tls |-> IF requiresCertSwitching(caBundledAt) THEN root ELSE gateway.tls]

\* The calls to the API server.
GetGatewaySecret == gateway.exists
CreateGatewaySecret(secret) == gateway' = secret
UpdateGatewaySecret(secret) == gateway' = secret

ManageGatewaySecret ==
    /\ IF GetGatewaySecret
       THEN UpdateGatewaySecret(ManagedSecret)
       ELSE CreateGatewaySecret(createGatewaySecretFromRootSecret)
    /\ managed' = TRUE
    /\ UNCHANGED <<clock, root, notAfter>>
=============================================================================
