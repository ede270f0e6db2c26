------------------------ MODULE KymaDeletion_proofs ------------------------
(***************************************************************************)
(* Proofs about the deletion of a Kyma, for any Manifests, webhook         *)
(* resources and bounds, with every failure except a List of Secrets that  *)
(* fails, a list of Manifests that is late and a client that expires in    *)
(* the middle of a reconciliation, and with nobody removing finalizers by  *)
(* hand.                                                                   *)
(*                                                                         *)
(* The inductive invariant ties the position in the list of use cases to   *)
(* the state of both clusters: what lies before the position is gone and   *)
(* stays so until the reconciliation ends.                                 *)
(***************************************************************************)
EXTENDS KymaDeletion, TLAPS

\* Without an access Secret there is no SKR, and the deletion service runs
\* without a client only then.
ClientKnown ==
    /\ ~access => ~up
    /\ pc > 0 /\ ~client => ~up

\* A reconciliation works on a Kyma under deletion, and the cache does not
\* fall back behind that.
SeenDeleting ==
    /\ doing => pc \in 1..Len(UseCases)
    /\ pc > 0 => cache.phase # "live"
    /\ pc > 1 => read.state = "Deleting"
    /\ cache.phase # "live" => kyma.phase # "live"
    /\ cache.phase = "live" => "Kyma" \in kyma.fins

\* A Manifest of a module is never further along in the cache than in the KCP.
ListedBehind ==
    pc > 0 => \A m \in Regular :
        /\ listed[m] # "live" => manifests[m] # "live"
        /\ listed[m] = "none" => manifests[m] = "none"

\* What the use cases passed so far look for is gone.
Passed ==
    /\ pc > 2 /\ up => skr.kyma # "Other"
    /\ pc > 3 => \A m \in Regular : manifests[m] # "live"
    /\ pc > 4 => cert = {}
    /\ pc > 5 /\ up => skr.webhook = {}
    /\ pc > 6 /\ up => skr.crd["moduletemplate"] = "none"
    /\ pc > 7 /\ up => skr.crd["modulereleasemeta"] = "none"
    /\ pc > 8 /\ up => skr.kyma = "none"
    /\ pc > 9 /\ up => skr.crd["kyma"] = "none"
    /\ pc > 11 => \A m \in Regular : manifests[m] = "none"

IInv == TypeOK /\ ClientKnown /\ SeenDeleting /\ ListedBehind /\ Passed /\ NothingLeftBehind

\* The kinds of failure and change the theorems exclude.
Undisturbed ==
    /\ Faults \cap {"secretList", "lateList", "expiry"} = {}
    /\ "force" \notin Changes

----------------------------------------------------------------------------

\* The twelve positions of the use cases.
LEMMA Positions ==
    /\ Len(UseCases) = 12
    /\ UseCases[1] = "SetKcpKymaStateDeleting" /\ UseCases[2] = "SetSkrKymaStateDeleting"
    /\ UseCases[3] = "DeleteManifests" /\ UseCases[4] = "DeleteWatcherCertificateSetup"
    /\ UseCases[5] = "DeleteSkrWebhookResources" /\ UseCases[6] = "DeleteSkrModuleTemplateCrd"
    /\ UseCases[7] = "DeleteSkrModuleReleaseMetaCrd" /\ UseCases[8] = "DeleteSkrKyma"
    /\ UseCases[9] = "DeleteSkrKymaCrd" /\ UseCases[10] = "DeleteMetrics"
    /\ UseCases[11] = "EnsureManifestDeletion" /\ UseCases[12] = "DropKymaFinalizer"
  BY DEF UseCases

\* There are twelve of them.
LEMMA UseCaseCount == Len(UseCases) = 12
  BY Positions

\* A use case that is executed stands at its position.
LEMMA ExecutedAt ==
    ASSUME doing => pc \in 1..Len(UseCases)
    PROVE  /\ Executes("SetKcpKymaStateDeleting") => pc = 1
           /\ Executes("SetSkrKymaStateDeleting") => pc = 2
           /\ Executes("DeleteManifests") => pc = 3
           /\ Executes("DeleteWatcherCertificateSetup") => pc = 4
           /\ Executes("DeleteSkrWebhookResources") => pc = 5
           /\ Executes("DeleteSkrModuleTemplateCrd") => pc = 6
           /\ Executes("DeleteSkrModuleReleaseMetaCrd") => pc = 7
           /\ Executes("DeleteSkrKyma") => pc = 8
           /\ Executes("DeleteSkrKymaCrd") => pc = 9
           /\ Executes("DropKymaFinalizer") => pc = 12
  BY Positions DEF Executes, UseCaseOf

----------------------------------------------------------------------------

\* A new Kyma is live and holds its finalizer, and no reconciliation has begun.
LEMMA InitGives ==
    ASSUME Init
    PROVE  /\ kyma.phase = "live" /\ kyma.state = "Other" /\ "Kyma" \in kyma.fins /\ kyma \in Kymas
           /\ cache = kyma /\ read = Unread /\ listed = Unlisted
           /\ access /\ ~doing /\ pc = 0 /\ \A n \in {0, 1, 2, 3, 4, 5, 6, 7, 8, 9, 11} : ~(pc > n)
  <1>1. PICK other \in SUBSET {"RuntimeMonitoring"} :
          kyma = [phase |-> "live", state |-> "Other", fins |-> {"Kyma"} \cup other]
    BY Zenon DEF Init
  <1>2. kyma.phase = "live" /\ kyma.state = "Other" /\ "Kyma" \in kyma.fins /\ kyma \in Kymas
    BY <1>1 DEF Kymas, Finalizers
  <1>3. pc = 0 /\ cache = kyma /\ read = Unread /\ listed = Unlisted /\ access /\ ~doing
    BY Zenon DEF Init
  <1>4. \A n \in {0, 1, 2, 3, 4, 5, 6, 7, 8, 9, 11} : ~(pc > n)
    BY <1>3
  <1> QED
    BY Zenon, <1>2, <1>3, <1>4

\* What a returning reconciliation forgets.
LEMMA Forgotten == Unread \in Kymas /\ Unlisted \in Presence
  BY SMTT(30) DEF Unread, Unlisted, Kymas, Presence

\* Every action keeps the values within their types.
LEMMA ValuesStep ==
    ASSUME Values, [Next]_vars
    PROVE  Values'
  <1> USE ConstantsAssumption DEF Values, kcpVars, skrVars
  <1>1. CASE StartDeletion
    <2>1. listed' \in Presence
      BY <1>1 DEF StartDeletion, LateList, Presence
    <2> QED
      BY <1>1, <2>1, UseCaseCount DEF StartDeletion, ClientAfterInit, Fault
  <1>2. CASE Look
    BY <1>2, UseCaseCount DEF Look
  <1>3. CASE SetKcpKymaStateDeleting
    <2>1. kyma' \in Kymas
      BY <1>3 DEF SetKcpKymaStateDeleting, Kymas
    <2> QED
      BY <1>3, Forgotten, UseCaseCount, <2>1 DEF SetKcpKymaStateDeleting, Return
  <1>4. CASE SetSkrKymaStateDeleting
    <2>1. skr' \in Skrs
      BY <1>4 DEF SetSkrKymaStateDeleting, Skrs
    <2> QED
      BY <1>4, Forgotten, UseCaseCount, <2>1 DEF SetSkrKymaStateDeleting, SkrUnchanged, Return
  <1>5. CASE DeleteManifests
    <2>1. manifests' \in Presence
      BY <1>5 DEF DeleteManifests, DeletedFrom, Presence
    <2> QED
      BY <1>5, Forgotten, UseCaseCount, <2>1 DEF DeleteManifests, Fault, Return
  <1>6. CASE DeleteWatcherCertificateSetup
    <2>1. cert' \in SUBSET {"certificate", "secret"}
      BY Zenon, <1>6 DEF DeleteWatcherCertificateSetup
    <2> QED
      BY <1>6, Forgotten, UseCaseCount, <2>1 DEF DeleteWatcherCertificateSetup, Fault, Return
  <1>7. CASE DeleteSkrWebhookResources
    <2>1. skr' \in Skrs
      BY <1>7 DEF DeleteSkrWebhookResources, Skrs
    <2> QED
      BY <1>7, Forgotten, UseCaseCount, <2>1 DEF DeleteSkrWebhookResources, Fault, Return
  <1>8. CASE DeleteSkrCrd("DeleteSkrModuleTemplateCrd")
    <2>1. skr' \in Skrs
      BY <1>8 DEF DeleteSkrCrd, CrdOf, Skrs, Crds
    <2> QED
      BY <1>8, Forgotten, UseCaseCount, <2>1 DEF DeleteSkrCrd, SkrUnchanged, Return
  <1>9. CASE DeleteSkrCrd("DeleteSkrModuleReleaseMetaCrd")
    <2>1. skr' \in Skrs
      BY <1>9 DEF DeleteSkrCrd, CrdOf, Skrs, Crds
    <2> QED
      BY <1>9, Forgotten, UseCaseCount, <2>1 DEF DeleteSkrCrd, SkrUnchanged, Return
  <1>10. CASE DeleteSkrKyma
    <2>1. skr' \in Skrs
      BY <1>10 DEF DeleteSkrKyma, Skrs
    <2> QED
      BY <1>10, Forgotten, UseCaseCount, <2>1 DEF DeleteSkrKyma, SkrUnchanged, Return
  <1>11. CASE DeleteSkrCrd("DeleteSkrKymaCrd")
    <2>1. skr' \in Skrs
      BY <1>11 DEF DeleteSkrCrd, CrdOf, Skrs, Crds
    <2> QED
      BY <1>11, Forgotten, UseCaseCount, <2>1 DEF DeleteSkrCrd, SkrUnchanged, Return
  <1>12. CASE DeleteMetrics
    BY <1>12, Forgotten, UseCaseCount DEF DeleteMetrics, Return
  <1>13. CASE EnsureManifestDeletion
    BY <1>13, Forgotten, UseCaseCount DEF EnsureManifestDeletion, Return
  <1>14. CASE DropKymaFinalizer
    <2>1. kyma' \in Kymas
      BY Zenon, <1>14 DEF DropKymaFinalizer, WithFinalizers, Kymas, Finalizers
    <2> QED
      BY SMTT(30), <1>14, Forgotten, UseCaseCount, <2>1 DEF DropKymaFinalizer, Return
  <1>15. CASE NoUseCaseApplicable
    BY <1>15, Forgotten, UseCaseCount DEF NoUseCaseApplicable, Return
  <1>16. CASE SkrCallFails
    BY <1>16, Forgotten, UseCaseCount DEF SkrCallFails, Fault, Return
  <1>17. CASE ReconcileGone
    BY <1>17 DEF ReconcileGone
  <1>18. CASE CacheCatchesUp
    BY <1>18 DEF CacheCatchesUp
  <1>19. CASE ListCatchesUp
    BY <1>19 DEF ListCatchesUp
  <1>20. CASE ApplyMandatory
    <2>1. manifests' \in Presence
      BY <1>20 DEF ApplyMandatory, Presence
    <2> QED
      BY <1>20, <2>1 DEF ApplyMandatory
  <1>21. CASE \E m \in Manifests : ManifestGone(m) \/ GarbageCollect(m)
    <2>1. manifests' \in Presence
      BY <1>21 DEF ManifestGone, GarbageCollect, Presence
    <2> QED
      BY Zenon, <1>21, <2>1 DEF ManifestGone, GarbageCollect
  <1>22. CASE CertManagerIssues
    BY <1>22 DEF CertManagerIssues
  <1>23. CASE MonitoringReleases
    <2>1. kyma' \in Kymas
      BY Zenon, <1>23 DEF MonitoringReleases, WithFinalizers, Kymas, Finalizers
    <2> QED
      BY <1>23, <2>1 DEF MonitoringReleases
  <1>24. CASE \E c \in Crds : CrdGone(c)
    <2>1. PICK c \in Crds : CrdGone(c)
      BY <1>24
    <2>2. skr' = [kyma |-> IF c = "kyma" THEN "none" ELSE skr.kyma, webhook |-> skr.webhook,
                  crd |-> [skr.crd EXCEPT ![c] = "none"]]
      BY Zenon, <2>1 DEF CrdGone, Skrs
    <2>3. skr' \in Skrs
      BY <2>2 DEF Skrs
    <2> QED
      BY <2>1, <2>3 DEF CrdGone
  <1>25. CASE RemoveAccess
    BY <1>25 DEF RemoveAccess
  <1>26. CASE ClientExpires
    BY <1>26 DEF ClientExpires, Fault
  <1>27. CASE InitFails
    <2>1. kyma' \in Kymas
      BY <1>27 DEF InitFails, WriteStatus, Kymas
    <2> QED
      BY <1>27, <2>1 DEF InitFails, Fault
  <1>28. CASE ReconcileLive
    <2>1. kyma' \in Kymas
      BY <1>28 DEF ReconcileLive, WriteStatus, Kymas
    <2>2. PICK far \in 1..3, ms \in {{}, Regular}, ws \in {{}, Webhook}, cs \in {{}, {"certificate"}} :
             Installed(far, ms, ws, cs)
      BY Zenon, <1>28 DEF ReconcileLive
    <2>3. manifests' \in Presence
      BY <2>2 DEF Installed, Presence
    <2>4. cert' \in SUBSET {"certificate", "secret"}
      BY Zenon, <2>2 DEF Installed
    <2>5. skr' \in Skrs
      BY <2>2 DEF Installed, Skrs
    <2> QED
      BY <1>28, <2>1, <2>3, <2>4, <2>5 DEF ReconcileLive, Change
  <1>29. CASE Abort
    BY <1>29, Forgotten, UseCaseCount DEF Abort, Fault, Return
  <1>30. CASE RequestDeletion
    <2>1. kyma' \in Kymas
      BY <1>30 DEF RequestDeletion, Kymas
    <2> QED
      BY <1>30, <2>1 DEF RequestDeletion
  <1>31. CASE StartInstallation
    BY <1>31 DEF StartInstallation, Change
  <1>32. CASE UserDeletesSkrKyma
    <2>1. skr' \in Skrs
      BY <1>32 DEF UserDeletesSkrKyma, Skrs
    <2> QED
      BY <1>32, <2>1 DEF UserDeletesSkrKyma, Change
  <1>33. CASE TearDownSkr
    BY <1>33 DEF TearDownSkr, Change
  <1>34. CASE ForceRelease
    <2>1. kyma' \in Kymas
      BY Zenon, <1>34 DEF ForceRelease, WithFinalizers, Kymas, Finalizers
    <2> QED
      BY <1>34, <2>1 DEF ForceRelease, Change
  <1>35. CASE UNCHANGED vars
    BY <1>35 DEF vars
  <1> QED
    BY ZenonT(30), <1>1, <1>2, <1>3, <1>4, <1>5, <1>6, <1>7, <1>8, <1>9, <1>10, <1>11, <1>12, <1>13,
       <1>14, <1>15, <1>16, <1>17, <1>18, <1>19, <1>20, <1>21, <1>22, <1>23, <1>24,
       <1>25, <1>26, <1>27, <1>28, <1>29, <1>30, <1>31, <1>32, <1>33, <1>34, <1>35
       DEF Next, Reconcile, Execute, Delivery, Surroundings, Disturbances

\* Every action keeps the flags Boolean.
LEMMA FlagsStep ==
    ASSUME Flags, [Next]_vars
    PROVE  Flags'
  <1> USE DEF Flags, kcpVars, skrVars
  <1>1. CASE StartDeletion
    BY <1>1 DEF StartDeletion, ClientAfterInit
  <1>2. CASE Look
    BY Zenon, <1>2 DEF Look
  <1>3. CASE SetKcpKymaStateDeleting
    BY Zenon, <1>3 DEF SetKcpKymaStateDeleting, Return
  <1>4. CASE SetSkrKymaStateDeleting
    BY Zenon, <1>4 DEF SetSkrKymaStateDeleting, SkrUnchanged, Return
  <1>5. CASE DeleteManifests
    BY Zenon, <1>5 DEF DeleteManifests, Return
  <1>6. CASE DeleteWatcherCertificateSetup
    BY Zenon, <1>6 DEF DeleteWatcherCertificateSetup, Return
  <1>7. CASE DeleteSkrWebhookResources
    BY Zenon, <1>7 DEF DeleteSkrWebhookResources, Return
  <1>8. CASE DeleteSkrCrd("DeleteSkrModuleTemplateCrd")
    BY Zenon, <1>8 DEF DeleteSkrCrd, SkrUnchanged, Return
  <1>9. CASE DeleteSkrCrd("DeleteSkrModuleReleaseMetaCrd")
    BY Zenon, <1>9 DEF DeleteSkrCrd, SkrUnchanged, Return
  <1>10. CASE DeleteSkrKyma
    BY Zenon, <1>10 DEF DeleteSkrKyma, SkrUnchanged, Return
  <1>11. CASE DeleteSkrCrd("DeleteSkrKymaCrd")
    BY Zenon, <1>11 DEF DeleteSkrCrd, SkrUnchanged, Return
  <1>12. CASE DeleteMetrics
    BY Zenon, <1>12 DEF DeleteMetrics, Return
  <1>13. CASE EnsureManifestDeletion
    BY Zenon, <1>13 DEF EnsureManifestDeletion, Return
  <1>14. CASE DropKymaFinalizer
    BY Zenon, <1>14 DEF DropKymaFinalizer, Return
  <1>15. CASE NoUseCaseApplicable
    BY Zenon, <1>15 DEF NoUseCaseApplicable, Return
  <1>16. CASE SkrCallFails
    BY Zenon, <1>16 DEF SkrCallFails, Return
  <1>17. CASE ReconcileGone
    BY <1>17 DEF ReconcileGone
  <1>18. CASE CacheCatchesUp
    BY <1>18 DEF CacheCatchesUp
  <1>19. CASE ListCatchesUp
    BY <1>19 DEF ListCatchesUp
  <1>20. CASE ApplyMandatory
    BY Zenon, <1>20 DEF ApplyMandatory
  <1>21. CASE \E m \in Manifests : ManifestGone(m) \/ GarbageCollect(m)
    BY <1>21 DEF ManifestGone, GarbageCollect
  <1>22. CASE CertManagerIssues
    BY <1>22 DEF CertManagerIssues
  <1>23. CASE MonitoringReleases
    BY <1>23 DEF MonitoringReleases
  <1>24. CASE \E c \in Crds : CrdGone(c)
    BY <1>24 DEF CrdGone
  <1>25. CASE RemoveAccess
    BY Zenon, <1>25 DEF RemoveAccess
  <1>26. CASE ClientExpires
    BY Zenon, <1>26 DEF ClientExpires
  <1>27. CASE InitFails
    BY Zenon, <1>27 DEF InitFails, WriteStatus
  <1>28. CASE ReconcileLive
    BY Zenon, <1>28 DEF ReconcileLive, WriteStatus
  <1>29. CASE Abort
    BY Zenon, <1>29 DEF Abort, Return
  <1>30. CASE RequestDeletion
    BY <1>30 DEF RequestDeletion
  <1>31. CASE StartInstallation
    BY <1>31 DEF StartInstallation
  <1>32. CASE UserDeletesSkrKyma
    BY <1>32 DEF UserDeletesSkrKyma
  <1>33. CASE TearDownSkr
    BY Zenon, <1>33 DEF TearDownSkr
  <1>34. CASE ForceRelease
    BY <1>34 DEF ForceRelease
  <1>35. CASE UNCHANGED vars
    BY <1>35 DEF vars
  <1> QED
    BY <1>1, <1>2, <1>3, <1>4, <1>5, <1>6, <1>7, <1>8, <1>9, <1>10, <1>11, <1>12, <1>13,
       <1>14, <1>15, <1>16, <1>17, <1>18, <1>19, <1>20, <1>21, <1>22, <1>23, <1>24,
       <1>25, <1>26, <1>27, <1>28, <1>29, <1>30, <1>31, <1>32, <1>33, <1>34, <1>35
       DEF Next, Reconcile, Execute, Delivery, Surroundings, Disturbances

----------------------------------------------------------------------------
(* The parts of the invariant, one lemma each.                             *)

\* A reconciliation keeps its client as long as the SKR exists: only a lost
\* connection and a restart drop it, and both end the reconciliation.
LEMMA ClientStep ==
    ASSUME Undisturbed, Values, Flags, ClientKnown, [Next]_vars
    PROVE  ClientKnown'
  <1> USE DEF Values, Flags, ClientKnown, kcpVars, skrVars
  <1>1. CASE StartDeletion
    BY <1>1 DEF StartDeletion, ClientAfterInit, Fault, Undisturbed
  <1>2. CASE Look
    BY <1>2 DEF Look
  <1>3. CASE SetKcpKymaStateDeleting
    BY <1>3 DEF SetKcpKymaStateDeleting, Return
  <1>4. CASE SetSkrKymaStateDeleting
    BY <1>4 DEF SetSkrKymaStateDeleting, SkrUnchanged, Return
  <1>5. CASE DeleteManifests
    BY <1>5 DEF DeleteManifests, Return
  <1>6. CASE DeleteWatcherCertificateSetup
    BY <1>6 DEF DeleteWatcherCertificateSetup, Return
  <1>7. CASE DeleteSkrWebhookResources
    BY <1>7 DEF DeleteSkrWebhookResources, Return
  <1>8. CASE DeleteSkrCrd("DeleteSkrModuleTemplateCrd")
    BY <1>8 DEF DeleteSkrCrd, SkrUnchanged, Return
  <1>9. CASE DeleteSkrCrd("DeleteSkrModuleReleaseMetaCrd")
    BY <1>9 DEF DeleteSkrCrd, SkrUnchanged, Return
  <1>10. CASE DeleteSkrKyma
    BY <1>10 DEF DeleteSkrKyma, SkrUnchanged, Return
  <1>11. CASE DeleteSkrCrd("DeleteSkrKymaCrd")
    BY <1>11 DEF DeleteSkrCrd, SkrUnchanged, Return
  <1>12. CASE DeleteMetrics
    BY <1>12 DEF DeleteMetrics, Return
  <1>13. CASE EnsureManifestDeletion
    BY <1>13 DEF EnsureManifestDeletion, Return
  <1>14. CASE DropKymaFinalizer
    BY <1>14 DEF DropKymaFinalizer, Return
  <1>15. CASE NoUseCaseApplicable
    BY <1>15 DEF NoUseCaseApplicable, Return
  <1>16. CASE SkrCallFails
    BY <1>16 DEF SkrCallFails, Return
  <1>17. CASE ReconcileGone
    BY <1>17 DEF ReconcileGone
  <1>18. CASE CacheCatchesUp
    BY <1>18 DEF CacheCatchesUp
  <1>19. CASE ListCatchesUp
    BY <1>19 DEF ListCatchesUp
  <1>20. CASE ApplyMandatory
    BY <1>20 DEF ApplyMandatory
  <1>21. CASE \E m \in Manifests : ManifestGone(m) \/ GarbageCollect(m)
    BY <1>21 DEF ManifestGone, GarbageCollect
  <1>22. CASE CertManagerIssues
    BY <1>22 DEF CertManagerIssues
  <1>23. CASE MonitoringReleases
    BY <1>23 DEF MonitoringReleases
  <1>24. CASE \E c \in Crds : CrdGone(c)
    BY <1>24 DEF CrdGone
  <1>25. CASE RemoveAccess
    BY <1>25 DEF RemoveAccess
  <1>26. CASE ClientExpires
    BY <1>26 DEF ClientExpires, Fault, Undisturbed
  <1>27. CASE InitFails
    BY <1>27 DEF InitFails
  <1>28. CASE ReconcileLive
    BY <1>28 DEF ReconcileLive
  <1>29. CASE Abort
    BY <1>29 DEF Abort, Return
  <1>30. CASE RequestDeletion
    BY <1>30 DEF RequestDeletion
  <1>31. CASE StartInstallation
    BY <1>31 DEF StartInstallation
  <1>32. CASE UserDeletesSkrKyma
    BY <1>32 DEF UserDeletesSkrKyma
  <1>33. CASE TearDownSkr
    BY <1>33 DEF TearDownSkr
  <1>34. CASE ForceRelease
    BY <1>34 DEF ForceRelease
  <1>35. CASE UNCHANGED vars
    BY SMTT(30), <1>35 DEF vars
  <1> QED
    BY ZenonT(30), <1>1, <1>2, <1>3, <1>4, <1>5, <1>6, <1>7, <1>8, <1>9, <1>10, <1>11, <1>12, <1>13,
       <1>14, <1>15, <1>16, <1>17, <1>18, <1>19, <1>20, <1>21, <1>22, <1>23, <1>24,
       <1>25, <1>26, <1>27, <1>28, <1>29, <1>30, <1>31, <1>32, <1>33, <1>34, <1>35
       DEF Next, Reconcile, Execute, Delivery, Surroundings, Disturbances

\* No step takes a reconciliation back to a Kyma that is not under deletion.
LEMMA SeenStep ==
    ASSUME Undisturbed, Values, SeenDeleting, [Next]_vars
    PROVE  SeenDeleting'
  <1> USE UseCaseCount DEF Values, Kymas, SeenDeleting, kcpVars, skrVars
  <1>1. CASE StartDeletion
    BY <1>1 DEF StartDeletion
  <1>2. CASE Look
    <2>1. IsApplicable("SetKcpKymaStateDeleting") <=> read.state # "Deleting"
      BY DEF IsApplicable, SkrUseCases
    <2>2. UseCaseOf(1) = "SetKcpKymaStateDeleting"
      BY Positions DEF UseCaseOf
    <2>3. (pc > 1)' => read'.state = "Deleting"
      BY <1>2, <2>1, <2>2 DEF Look
    <2>4. doing' => (pc \in 1..Len(UseCases))'
      BY Zenon, <1>2 DEF Look
    <2> QED
      BY <1>2, <2>3, <2>4 DEF Look
  <1>3. CASE SetKcpKymaStateDeleting
    BY <1>3 DEF SetKcpKymaStateDeleting, Return
  <1>4. CASE SetSkrKymaStateDeleting
    BY <1>4 DEF SetSkrKymaStateDeleting, SkrUnchanged, Return
  <1>5. CASE DeleteManifests
    BY <1>5 DEF DeleteManifests, Return
  <1>6. CASE DeleteWatcherCertificateSetup
    BY <1>6 DEF DeleteWatcherCertificateSetup, Return
  <1>7. CASE DeleteSkrWebhookResources
    BY <1>7 DEF DeleteSkrWebhookResources, Return
  <1>8. CASE DeleteSkrCrd("DeleteSkrModuleTemplateCrd")
    BY <1>8 DEF DeleteSkrCrd, SkrUnchanged, Return
  <1>9. CASE DeleteSkrCrd("DeleteSkrModuleReleaseMetaCrd")
    BY <1>9 DEF DeleteSkrCrd, SkrUnchanged, Return
  <1>10. CASE DeleteSkrKyma
    BY <1>10 DEF DeleteSkrKyma, SkrUnchanged, Return
  <1>11. CASE DeleteSkrCrd("DeleteSkrKymaCrd")
    BY <1>11 DEF DeleteSkrCrd, SkrUnchanged, Return
  <1>12. CASE DeleteMetrics
    BY <1>12 DEF DeleteMetrics, Return
  <1>13. CASE EnsureManifestDeletion
    BY <1>13 DEF EnsureManifestDeletion, Return
  <1>14. CASE DropKymaFinalizer
    BY <1>14, ExecutedAt DEF DropKymaFinalizer, WithFinalizers, Return, Executes
  <1>15. CASE NoUseCaseApplicable
    BY <1>15 DEF NoUseCaseApplicable, Return
  <1>16. CASE SkrCallFails
    BY <1>16 DEF SkrCallFails, Return
  <1>17. CASE ReconcileGone
    BY <1>17 DEF ReconcileGone
  <1>18. CASE CacheCatchesUp
    BY <1>18 DEF CacheCatchesUp
  <1>19. CASE ListCatchesUp
    BY <1>19 DEF ListCatchesUp
  <1>20. CASE ApplyMandatory
    BY <1>20 DEF ApplyMandatory
  <1>21. CASE \E m \in Manifests : ManifestGone(m) \/ GarbageCollect(m)
    BY <1>21 DEF ManifestGone, GarbageCollect
  <1>22. CASE CertManagerIssues
    BY <1>22 DEF CertManagerIssues
  <1>23. CASE MonitoringReleases
    BY <1>23 DEF MonitoringReleases, WithFinalizers
  <1>24. CASE \E c \in Crds : CrdGone(c)
    BY <1>24 DEF CrdGone
  <1>25. CASE RemoveAccess
    BY <1>25 DEF RemoveAccess
  <1>26. CASE ClientExpires
    BY <1>26 DEF ClientExpires
  <1>27. CASE InitFails
    BY <1>27 DEF InitFails, WriteStatus
  <1>28. CASE ReconcileLive
    BY <1>28 DEF ReconcileLive, WriteStatus
  <1>29. CASE Abort
    BY <1>29 DEF Abort, Return
  <1>30. CASE RequestDeletion
    BY <1>30 DEF RequestDeletion
  <1>31. CASE StartInstallation
    BY <1>31 DEF StartInstallation
  <1>32. CASE UserDeletesSkrKyma
    BY <1>32 DEF UserDeletesSkrKyma
  <1>33. CASE TearDownSkr
    BY <1>33 DEF TearDownSkr
  <1>34. CASE ForceRelease
    BY <1>34 DEF ForceRelease, Change, Undisturbed
  <1>35. CASE UNCHANGED vars
    BY SMTT(30), <1>35 DEF vars
  <1> QED
    BY ZenonT(30), <1>1, <1>2, <1>3, <1>4, <1>5, <1>6, <1>7, <1>8, <1>9, <1>10, <1>11, <1>12, <1>13,
       <1>14, <1>15, <1>16, <1>17, <1>18, <1>19, <1>20, <1>21, <1>22, <1>23, <1>24,
       <1>25, <1>26, <1>27, <1>28, <1>29, <1>30, <1>31, <1>32, <1>33, <1>34, <1>35
       DEF Next, Reconcile, Execute, Delivery, Surroundings, Disturbances

\* No Manifest of a module is created while the deletion service runs, so a
\* list stays behind the KCP.
LEMMA ListedStep ==
    ASSUME Undisturbed, Values, ListedBehind, [Next]_vars
    PROVE  ListedBehind'
  <1> USE ConstantsAssumption DEF Values, ListedBehind, Presence, Manifests, kcpVars, skrVars
  <1>1. CASE StartDeletion
    BY <1>1 DEF StartDeletion, Fault, Undisturbed
  <1>2. CASE Look
    BY <1>2, UseCaseCount DEF Look
  <1>3. CASE SetKcpKymaStateDeleting
    BY <1>3 DEF SetKcpKymaStateDeleting, Return
  <1>4. CASE SetSkrKymaStateDeleting
    BY <1>4 DEF SetSkrKymaStateDeleting, SkrUnchanged, Return
  <1>5. CASE DeleteManifests
    BY <1>5 DEF DeleteManifests, Return
  <1>6. CASE DeleteWatcherCertificateSetup
    BY <1>6 DEF DeleteWatcherCertificateSetup, Return
  <1>7. CASE DeleteSkrWebhookResources
    BY <1>7 DEF DeleteSkrWebhookResources, Return
  <1>8. CASE DeleteSkrCrd("DeleteSkrModuleTemplateCrd")
    BY <1>8 DEF DeleteSkrCrd, SkrUnchanged, Return
  <1>9. CASE DeleteSkrCrd("DeleteSkrModuleReleaseMetaCrd")
    BY <1>9 DEF DeleteSkrCrd, SkrUnchanged, Return
  <1>10. CASE DeleteSkrKyma
    BY <1>10 DEF DeleteSkrKyma, SkrUnchanged, Return
  <1>11. CASE DeleteSkrCrd("DeleteSkrKymaCrd")
    BY <1>11 DEF DeleteSkrCrd, SkrUnchanged, Return
  <1>12. CASE DeleteMetrics
    BY <1>12 DEF DeleteMetrics, Return
  <1>13. CASE EnsureManifestDeletion
    BY <1>13 DEF EnsureManifestDeletion, Return
  <1>14. CASE DropKymaFinalizer
    BY <1>14 DEF DropKymaFinalizer, Return
  <1>15. CASE NoUseCaseApplicable
    BY <1>15 DEF NoUseCaseApplicable, Return
  <1>16. CASE SkrCallFails
    BY <1>16 DEF SkrCallFails, Return
  <1>17. CASE ReconcileGone
    BY <1>17 DEF ReconcileGone
  <1>18. CASE CacheCatchesUp
    BY <1>18 DEF CacheCatchesUp
  <1>19. CASE ListCatchesUp
    BY <1>19 DEF ListCatchesUp
  <1>20. CASE ApplyMandatory
    BY <1>20 DEF ApplyMandatory
  <1>21. CASE \E m \in Manifests : ManifestGone(m) \/ GarbageCollect(m)
    BY <1>21 DEF ManifestGone, GarbageCollect
  <1>22. CASE CertManagerIssues
    BY <1>22 DEF CertManagerIssues
  <1>23. CASE MonitoringReleases
    BY <1>23 DEF MonitoringReleases
  <1>24. CASE \E c \in Crds : CrdGone(c)
    BY <1>24 DEF CrdGone
  <1>25. CASE RemoveAccess
    BY <1>25 DEF RemoveAccess
  <1>26. CASE ClientExpires
    BY <1>26 DEF ClientExpires
  <1>27. CASE InitFails
    BY <1>27 DEF InitFails
  <1>28. CASE ReconcileLive
    BY <1>28 DEF ReconcileLive
  <1>29. CASE Abort
    BY <1>29 DEF Abort, Return
  <1>30. CASE RequestDeletion
    BY <1>30 DEF RequestDeletion
  <1>31. CASE StartInstallation
    BY <1>31 DEF StartInstallation
  <1>32. CASE UserDeletesSkrKyma
    BY <1>32 DEF UserDeletesSkrKyma
  <1>33. CASE TearDownSkr
    BY <1>33 DEF TearDownSkr
  <1>34. CASE ForceRelease
    BY <1>34 DEF ForceRelease
  <1>35. CASE UNCHANGED vars
    BY <1>35 DEF vars
  <1> QED
    BY ZenonT(30), <1>1, <1>2, <1>3, <1>4, <1>5, <1>6, <1>7, <1>8, <1>9, <1>10, <1>11, <1>12, <1>13,
       <1>14, <1>15, <1>16, <1>17, <1>18, <1>19, <1>20, <1>21, <1>22, <1>23, <1>24,
       <1>25, <1>26, <1>27, <1>28, <1>29, <1>30, <1>31, <1>32, <1>33, <1>34, <1>35
       DEF Next, Reconcile, Execute, Delivery, Surroundings, Disturbances

\* What it means that a use case is not applicable.
LEMMA Inapplicable ==
    /\ ~IsApplicable("SetSkrKymaStateDeleting") /\ client => skr.kyma # "Other"
    /\ ~IsApplicable("DeleteManifests") => \A m \in Manifests : listed[m] # "live"
    /\ ~IsApplicable("DeleteWatcherCertificateSetup") /\ read.state = "Deleting" => cert = {}
    /\ ~IsApplicable("DeleteSkrWebhookResources") /\ client /\ read.state = "Deleting" => skr.webhook = {}
    /\ ~IsApplicable("DeleteSkrModuleTemplateCrd") /\ client => skr.crd["moduletemplate"] = "none"
    /\ ~IsApplicable("DeleteSkrModuleReleaseMetaCrd") /\ client => skr.crd["modulereleasemeta"] = "none"
    /\ ~IsApplicable("DeleteSkrKyma") /\ client => skr.kyma = "none"
    /\ ~IsApplicable("DeleteSkrKymaCrd") /\ client => skr.crd["kyma"] = "none"
    /\ ~IsApplicable("EnsureManifestDeletion") => \A m \in Manifests : listed[m] = "none"
  BY DEF IsApplicable, ApplicableWithClientOnly, SkrApplicable, SkrUseCases, CrdOf

\* A Manifest that the Manifest controller or the garbage collector works on
\* only moves towards its end.
LEMMA ManifestsFade ==
    ASSUME Values, \E m \in Manifests : ManifestGone(m) \/ GarbageCollect(m)
    PROVE  /\ UNCHANGED <<kyma, cache, cert, skr, up, pc>>
           /\ \A n \in Regular : /\ manifests[n] # "live" => manifests'[n] # "live"
                                 /\ manifests[n] = "none" => manifests'[n] = "none"
  <1>1. PICK m \in Manifests : ManifestGone(m) \/ GarbageCollect(m)
    OBVIOUS
  <1>2. UNCHANGED <<kyma, cache, cert, skr, up, pc>>
    BY <1>1 DEF ManifestGone, GarbageCollect, skrVars
  <1> QED
    BY <1>1, <1>2 DEF ManifestGone, GarbageCollect, Values, Presence, Manifests

\* Every action keeps what was passed: Look passes a use case that found nothing,
\* and the other actors only take away.
LEMMA PassedStep ==
    ASSUME Values, ClientKnown, SeenDeleting, ListedBehind, Passed, [Next]_vars
    PROVE  Passed'
  <1> USE ConstantsAssumption
  <1>1. CASE StartDeletion
    BY <1>1 DEF StartDeletion, ClientAfterInit, Values, Passed, Presence, Manifests, Skrs, Crds, kcpVars, skrVars
  <1>2. CASE Look
    <2>1. CASE pc' = pc
      BY <1>2, <2>1 DEF Look, Passed, kcpVars, skrVars
    <2>2. CASE pc' = pc + 1 /\ ~IsApplicable(UseCaseOf(pc))
      <3> DEFINE Unchanged == UNCHANGED <<manifests, cert, skr, up, client, read>>
      <3>1. Unchanged /\ pc \in 1..12
        BY SMTT(30), <1>2, UseCaseCount DEF Look, kcpVars, skrVars
      <3>2. CASE pc = 1
        <4>1. \A n \in {2, 3, 4, 5, 6, 7, 8, 9, 11} : ~(pc' > n)
          BY <2>2, <3>2
        <4> QED
          BY Zenon, <4>1 DEF Passed
      <3>3. CASE pc = 2
        <4>1. ~IsApplicable("SetSkrKymaStateDeleting")
          BY <2>2, <3>3, Positions DEF UseCaseOf
        <4>2. up => skr.kyma # "Other"
          BY <3>3, <4>1, Inapplicable DEF ClientKnown
        <4>3. \A n \in {3, 4, 5, 6, 7, 8, 9, 11} : ~(pc' > n)
          BY <2>2, <3>3
        <4> QED
          BY Zenon, <3>1, <4>2, <4>3 DEF Passed
      <3>4. CASE pc = 3
        <4>1. ~IsApplicable("DeleteManifests")
          BY SMTT(30), <2>2, <3>4, Positions DEF UseCaseOf
        <4>2. \A m \in Regular : manifests[m] # "live"
          BY <3>4, <4>1, Inapplicable DEF ListedBehind, Manifests
        <4>3. (\A n \in {2} : pc > n) /\ \A n \in {4, 5, 6, 7, 8, 9, 11} : ~(pc' > n)
          BY <2>2, <3>4
        <4> QED
          BY Zenon, <3>1, <4>2, <4>3 DEF Passed
      <3>5. CASE pc = 4
        <4>1. ~IsApplicable("DeleteWatcherCertificateSetup")
          BY <2>2, <3>5, Positions DEF UseCaseOf
        <4>2. cert = {}
          BY <3>5, <4>1, Inapplicable DEF SeenDeleting
        <4>3. (pc' > 2 => pc > 2) /\ (pc' > 3 => pc > 3) /\ \A n \in {5, 6, 7, 8, 9, 11} : ~(pc' > n)
          BY <2>2, <3>5
        <4> QED
          BY Zenon, <3>1, <4>2, <4>3 DEF Passed
      <3>6. CASE pc = 5
        <4>1. ~IsApplicable("DeleteSkrWebhookResources")
          BY <2>2, <3>6, Positions DEF UseCaseOf
        <4>2. up => skr.webhook = {}
          BY <3>6, <4>1, Inapplicable DEF ClientKnown, SeenDeleting
        <4>3. (\A n \in {2, 3, 4} : pc > n) /\ \A n \in {6, 7, 8, 9, 11} : ~(pc' > n)
          BY <2>2, <3>6
        <4> QED
          BY Zenon, <3>1, <4>2, <4>3 DEF Passed
      <3>7. CASE pc = 6
        <4>1. ~IsApplicable("DeleteSkrModuleTemplateCrd")
          BY <2>2, <3>7, Positions DEF UseCaseOf
        <4>2. up => skr.crd["moduletemplate"] = "none"
          BY <3>7, <4>1, Inapplicable DEF ClientKnown
        <4>3. (\A n \in {2, 3, 4, 5} : pc > n) /\ \A n \in {7, 8, 9, 11} : ~(pc' > n)
          BY <2>2, <3>7
        <4> QED
          BY Zenon, <3>1, <4>2, <4>3 DEF Passed
      <3>8. CASE pc = 7
        <4>1. ~IsApplicable("DeleteSkrModuleReleaseMetaCrd")
          BY <2>2, <3>8, Positions DEF UseCaseOf
        <4>2. up => skr.crd["modulereleasemeta"] = "none"
          BY <3>8, <4>1, Inapplicable DEF ClientKnown
        <4>3. (\A n \in {2, 3, 4, 5, 6} : pc > n) /\ \A n \in {8, 9, 11} : ~(pc' > n)
          BY <2>2, <3>8
        <4> QED
          BY Zenon, <3>1, <4>2, <4>3 DEF Passed
      <3>9. CASE pc = 8
        <4>1. ~IsApplicable("DeleteSkrKyma")
          BY <2>2, <3>9, Positions DEF UseCaseOf
        <4>2. up => skr.kyma = "none"
          BY <3>9, <4>1, Inapplicable DEF ClientKnown
        <4>3. (\A n \in {2, 3, 4, 5, 6, 7} : pc > n) /\ \A n \in {9, 11} : ~(pc' > n)
          BY <2>2, <3>9
        <4> QED
          BY Zenon, <3>1, <4>2, <4>3 DEF Passed
      <3>10. CASE pc = 9
        <4>1. ~IsApplicable("DeleteSkrKymaCrd")
          BY <2>2, <3>10, Positions DEF UseCaseOf
        <4>2. up => skr.crd["kyma"] = "none"
          BY <3>10, <4>1, Inapplicable DEF ClientKnown
        <4>3. (\A n \in {2, 3, 4, 5, 6, 7, 8} : pc > n) /\ \A n \in {11} : ~(pc' > n)
          BY <2>2, <3>10
        <4> QED
          BY Zenon, <3>1, <4>2, <4>3 DEF Passed
      <3>11. CASE pc = 10
        BY <2>2, <3>1, <3>11 DEF Passed
      <3>12. CASE pc = 11
        <4>1. ~IsApplicable("EnsureManifestDeletion")
          BY SMTT(30), <2>2, <3>12, Positions DEF UseCaseOf
        <4>2. \A m \in Regular : manifests[m] = "none"
          BY <3>12, <4>1, Inapplicable DEF ListedBehind, Manifests
        <4>3. \A n \in {2, 3, 4, 5, 6, 7, 8, 9} : pc > n
          BY <2>2, <3>12
        <4> QED
          BY Zenon, <3>1, <4>2, <4>3 DEF Passed
      <3>13. CASE pc = 12
        <4>1. \A n \in {2, 3, 4, 5, 6, 7, 8, 9, 11} : pc > n
          BY <3>13
        <4> QED
          BY Zenon, <3>1, <4>1 DEF Passed
      <3> QED
        BY <3>1, <3>2, <3>3, <3>4, <3>5, <3>6, <3>7, <3>8, <3>9, <3>10, <3>11, <3>12, <3>13
    <2> QED
      BY <1>2, <2>1, <2>2 DEF Look
  <1>3. CASE SetKcpKymaStateDeleting
    BY <1>3 DEF SetKcpKymaStateDeleting, Return, Values, Passed, Presence, Manifests, Skrs, Crds, kcpVars, skrVars
  <1>4. CASE SetSkrKymaStateDeleting
    BY <1>4 DEF SetSkrKymaStateDeleting, SkrUnchanged, Return, Values, Passed, Presence, Manifests, Skrs, Crds, kcpVars, skrVars
  <1>5. CASE DeleteManifests
    BY <1>5 DEF DeleteManifests, Return, Values, Passed, Presence, Manifests, Skrs, Crds, kcpVars, skrVars
  <1>6. CASE DeleteWatcherCertificateSetup
    BY <1>6 DEF DeleteWatcherCertificateSetup, Return, Values, Passed, Presence, Manifests, Skrs, Crds, kcpVars, skrVars
  <1>7. CASE DeleteSkrWebhookResources
    BY <1>7 DEF DeleteSkrWebhookResources, Return, Values, Passed, Presence, Manifests, Skrs, Crds, kcpVars, skrVars
  <1>8. CASE DeleteSkrCrd("DeleteSkrModuleTemplateCrd")
    BY <1>8 DEF DeleteSkrCrd, SkrUnchanged, Return, Values, Passed, Presence, Manifests, Skrs, Crds, kcpVars, skrVars
  <1>9. CASE DeleteSkrCrd("DeleteSkrModuleReleaseMetaCrd")
    BY <1>9 DEF DeleteSkrCrd, SkrUnchanged, Return, Values, Passed, Presence, Manifests, Skrs, Crds, kcpVars, skrVars
  <1>10. CASE DeleteSkrKyma
    BY <1>10 DEF DeleteSkrKyma, SkrUnchanged, Return, Values, Passed, Presence, Manifests, Skrs, Crds, kcpVars, skrVars
  <1>11. CASE DeleteSkrCrd("DeleteSkrKymaCrd")
    BY <1>11 DEF DeleteSkrCrd, SkrUnchanged, Return, Values, Passed, Presence, Manifests, Skrs, Crds, kcpVars, skrVars
  <1>12. CASE DeleteMetrics
    BY <1>12 DEF DeleteMetrics, Return, Values, Passed, Presence, Manifests, Skrs, Crds, kcpVars, skrVars
  <1>13. CASE EnsureManifestDeletion
    BY <1>13 DEF EnsureManifestDeletion, Return, Values, Passed, Presence, Manifests, Skrs, Crds, kcpVars, skrVars
  <1>14. CASE DropKymaFinalizer
    BY <1>14 DEF DropKymaFinalizer, Return, Values, Passed, Presence, Manifests, Skrs, Crds, kcpVars, skrVars
  <1>15. CASE NoUseCaseApplicable
    BY <1>15 DEF NoUseCaseApplicable, Return, Values, Passed, Presence, Manifests, Skrs, Crds, kcpVars, skrVars
  <1>16. CASE SkrCallFails
    BY <1>16 DEF SkrCallFails, Return, Values, Passed, Presence, Manifests, Skrs, Crds, kcpVars, skrVars
  <1>17. CASE ReconcileGone
    BY <1>17 DEF ReconcileGone, Values, Passed, Presence, Manifests, Skrs, Crds, kcpVars, skrVars
  <1>18. CASE CacheCatchesUp
    BY <1>18 DEF CacheCatchesUp, Values, Passed, Presence, Manifests, Skrs, Crds, kcpVars, skrVars
  <1>19. CASE ListCatchesUp
    BY <1>19 DEF ListCatchesUp, Values, Passed, Presence, Manifests, Skrs, Crds, kcpVars, skrVars
  <1>20. CASE ApplyMandatory
    BY SMTT(30), <1>20 DEF ApplyMandatory, Values, Passed, Presence, Manifests, Skrs, Crds, kcpVars, skrVars
  <1>21. CASE \E m \in Manifests : ManifestGone(m) \/ GarbageCollect(m)
    <2>1. pc' = pc /\ up' = up /\ cert' = cert /\ skr' = skr
      BY <1>21, ManifestsFade
    <2>2. \A n \in Regular : /\ manifests[n] # "live" => manifests'[n] # "live"
                             /\ manifests[n] = "none" => manifests'[n] = "none"
      BY Zenon, <1>21, ManifestsFade
    <2> QED
      BY <2>1, <2>2 DEF Passed
  <1>22. CASE CertManagerIssues
    BY <1>22 DEF CertManagerIssues, Values, Passed, Presence, Manifests, Skrs, Crds, kcpVars, skrVars
  <1>23. CASE MonitoringReleases
    BY <1>23 DEF MonitoringReleases, Values, Passed, Presence, Manifests, Skrs, Crds, kcpVars, skrVars
  <1>24. CASE \E c \in Crds : CrdGone(c)
    BY SMTT(30), <1>24 DEF CrdGone, Values, Passed, Presence, Manifests, Skrs, Crds, kcpVars, skrVars
  <1>25. CASE RemoveAccess
    BY <1>25 DEF RemoveAccess, Values, Passed, Presence, Manifests, Skrs, Crds, kcpVars, skrVars
  <1>26. CASE ClientExpires
    BY <1>26 DEF ClientExpires, Values, Passed, Presence, Manifests, Skrs, Crds, kcpVars, skrVars
  <1>27. CASE InitFails
    BY <1>27 DEF InitFails, Values, Passed, Presence, Manifests, Skrs, Crds, kcpVars, skrVars
  <1>28. CASE ReconcileLive
    BY <1>28 DEF ReconcileLive, Values, Passed, Presence, Manifests, Skrs, Crds, kcpVars, skrVars
  <1>29. CASE Abort
    BY <1>29 DEF Abort, Return, Values, Passed, Presence, Manifests, Skrs, Crds, kcpVars, skrVars
  <1>30. CASE RequestDeletion
    BY <1>30 DEF RequestDeletion, Values, Passed, Presence, Manifests, Skrs, Crds, kcpVars, skrVars
  <1>31. CASE StartInstallation
    BY <1>31 DEF StartInstallation, Values, Passed, Presence, Manifests, Skrs, Crds, kcpVars, skrVars
  <1>32. CASE UserDeletesSkrKyma
    BY <1>32 DEF UserDeletesSkrKyma, Values, Passed, Presence, Manifests, Skrs, Crds, kcpVars, skrVars
  <1>33. CASE TearDownSkr
    BY <1>33 DEF TearDownSkr, Values, Passed, Presence, Manifests, Skrs, Crds, kcpVars, skrVars
  <1>34. CASE ForceRelease
    BY <1>34 DEF ForceRelease, Values, Passed, Presence, Manifests, Skrs, Crds, kcpVars, skrVars
  <1>35. CASE UNCHANGED vars
    BY SMTT(30), <1>35 DEF vars, Values, Passed, Presence, Manifests, Skrs, Crds, kcpVars, skrVars
  <1> QED
    BY SMTT(30), <1>1, <1>2, <1>3, <1>4, <1>5, <1>6, <1>7, <1>8, <1>9, <1>10, <1>11, <1>12, <1>13,
       <1>14, <1>15, <1>16, <1>17, <1>18, <1>19, <1>20, <1>21, <1>22, <1>23, <1>24,
       <1>25, <1>26, <1>27, <1>28, <1>29, <1>30, <1>31, <1>32, <1>33, <1>34, <1>35
       DEF Next, Reconcile, Execute, Delivery, Surroundings, Disturbances

\* Only DropKymaFinalizer releases the Kyma, at the end of the use cases.
LEMMA ReleasedStep ==
    ASSUME Undisturbed, Values, SeenDeleting, Passed, NothingLeftBehind, [Next]_vars
    PROVE  NothingLeftBehind'
  <1> USE ConstantsAssumption
  <1>1. CASE StartDeletion
    BY <1>1 DEF StartDeletion, ClientAfterInit, Values, NothingLeftBehind, Released, SkrClean, Kymas, Presence, Manifests, Skrs, Crds, kcpVars, skrVars
  <1>2. CASE Look
    BY <1>2 DEF Look, Values, NothingLeftBehind, Released, SkrClean, Kymas, Presence, Manifests, Skrs, Crds, kcpVars, skrVars
  <1>3. CASE SetKcpKymaStateDeleting
    BY <1>3 DEF SetKcpKymaStateDeleting, Return, Values, NothingLeftBehind, Released, SkrClean, Kymas, Presence, Manifests, Skrs, Crds, kcpVars, skrVars
  <1>4. CASE SetSkrKymaStateDeleting
    BY <1>4 DEF SetSkrKymaStateDeleting, SkrUnchanged, Return, Values, NothingLeftBehind, Released, SkrClean, Kymas, Presence, Manifests, Skrs, Crds, kcpVars, skrVars
  <1>5. CASE DeleteManifests
    BY <1>5 DEF DeleteManifests, DeletedFrom, Return, Values, NothingLeftBehind, Released, SkrClean, Kymas, Presence, Manifests, Skrs, Crds, kcpVars, skrVars
  <1>6. CASE DeleteWatcherCertificateSetup
    BY ZenonT(30), <1>6 DEF DeleteWatcherCertificateSetup, Return, Values, NothingLeftBehind, Released, SkrClean, Kymas, Presence, Manifests, Skrs, Crds, kcpVars, skrVars
  <1>7. CASE DeleteSkrWebhookResources
    BY <1>7 DEF DeleteSkrWebhookResources, Return, Values, NothingLeftBehind, Released, SkrClean, Kymas, Presence, Manifests, Skrs, Crds, kcpVars, skrVars
  <1>8. CASE DeleteSkrCrd("DeleteSkrModuleTemplateCrd")
    BY <1>8 DEF DeleteSkrCrd, CrdOf, SkrUnchanged, Return, Values, NothingLeftBehind, Released, SkrClean, Kymas, Presence, Manifests, Skrs, Crds, kcpVars, skrVars
  <1>9. CASE DeleteSkrCrd("DeleteSkrModuleReleaseMetaCrd")
    BY <1>9 DEF DeleteSkrCrd, CrdOf, SkrUnchanged, Return, Values, NothingLeftBehind, Released, SkrClean, Kymas, Presence, Manifests, Skrs, Crds, kcpVars, skrVars
  <1>10. CASE DeleteSkrKyma
    BY <1>10 DEF DeleteSkrKyma, SkrUnchanged, Return, Values, NothingLeftBehind, Released, SkrClean, Kymas, Presence, Manifests, Skrs, Crds, kcpVars, skrVars
  <1>11. CASE DeleteSkrCrd("DeleteSkrKymaCrd")
    BY <1>11 DEF DeleteSkrCrd, CrdOf, SkrUnchanged, Return, Values, NothingLeftBehind, Released, SkrClean, Kymas, Presence, Manifests, Skrs, Crds, kcpVars, skrVars
  <1>12. CASE DeleteMetrics
    BY <1>12 DEF DeleteMetrics, Return, Values, NothingLeftBehind, Released, SkrClean, Kymas, Presence, Manifests, Skrs, Crds, kcpVars, skrVars
  <1>13. CASE EnsureManifestDeletion
    BY <1>13 DEF EnsureManifestDeletion, Return, Values, NothingLeftBehind, Released, SkrClean, Kymas, Presence, Manifests, Skrs, Crds, kcpVars, skrVars
  <1>14. CASE DropKymaFinalizer
    <2>1. pc = 12
      BY Zenon, <1>14, ExecutedAt DEF DropKymaFinalizer, SeenDeleting
    <2>2. UNCHANGED <<manifests, cert, skr, up>>
      BY <1>14 DEF DropKymaFinalizer, skrVars
    <2> QED
      BY <2>1, <2>2 DEF Passed, NothingLeftBehind, SkrClean, Crds
  <1>15. CASE NoUseCaseApplicable
    BY <1>15 DEF NoUseCaseApplicable, Return, Values, NothingLeftBehind, Released, SkrClean, Kymas, Presence, Manifests, Skrs, Crds, kcpVars, skrVars
  <1>16. CASE SkrCallFails
    BY <1>16 DEF SkrCallFails, Return, Values, NothingLeftBehind, Released, SkrClean, Kymas, Presence, Manifests, Skrs, Crds, kcpVars, skrVars
  <1>17. CASE ReconcileGone
    BY <1>17 DEF ReconcileGone, Values, NothingLeftBehind, Released, SkrClean, Kymas, Presence, Manifests, Skrs, Crds, kcpVars, skrVars
  <1>18. CASE CacheCatchesUp
    BY <1>18 DEF CacheCatchesUp, Values, NothingLeftBehind, Released, SkrClean, Kymas, Presence, Manifests, Skrs, Crds, kcpVars, skrVars
  <1>19. CASE ListCatchesUp
    BY <1>19 DEF ListCatchesUp, Values, NothingLeftBehind, Released, SkrClean, Kymas, Presence, Manifests, Skrs, Crds, kcpVars, skrVars
  <1>20. CASE ApplyMandatory
    BY SMTT(30), <1>20 DEF ApplyMandatory, Values, NothingLeftBehind, Released, SkrClean, Kymas, Presence, Manifests, Skrs, Crds, kcpVars, skrVars
  <1>21. CASE \E m \in Manifests : ManifestGone(m) \/ GarbageCollect(m)
    BY <1>21, ManifestsFade DEF NothingLeftBehind, Released, SkrClean
  <1>22. CASE CertManagerIssues
    BY <1>22 DEF CertManagerIssues, Values, NothingLeftBehind, Released, SkrClean, Kymas, Presence, Manifests, Skrs, Crds, kcpVars, skrVars
  <1>23. CASE MonitoringReleases
    BY <1>23 DEF MonitoringReleases, WithFinalizers, Values, NothingLeftBehind, Released, SkrClean, Kymas, Presence, Manifests, Skrs, Crds, kcpVars, skrVars
  <1>24. CASE \E c \in Crds : CrdGone(c)
    BY <1>24 DEF CrdGone, Values, NothingLeftBehind, Released, SkrClean, Kymas, Presence, Manifests, Skrs, Crds, kcpVars, skrVars
  <1>25. CASE RemoveAccess
    BY <1>25 DEF RemoveAccess, Values, NothingLeftBehind, Released, SkrClean, Kymas, Presence, Manifests, Skrs, Crds, kcpVars, skrVars
  <1>26. CASE ClientExpires
    BY <1>26 DEF ClientExpires, Values, NothingLeftBehind, Released, SkrClean, Kymas, Presence, Manifests, Skrs, Crds, kcpVars, skrVars
  <1>27. CASE InitFails
    BY <1>27 DEF InitFails, WriteStatus, Values, NothingLeftBehind, Released, SkrClean, Kymas, Presence, Manifests, Skrs, Crds, kcpVars, skrVars
  <1>28. CASE ReconcileLive
    <2>1. "Kyma" \in kyma.fins
      BY <1>28 DEF ReconcileLive, SeenDeleting
    <2>2. kyma'.fins = kyma.fins
      BY <1>28 DEF ReconcileLive, WriteStatus, Values, Kymas
    <2> QED
      BY <2>1, <2>2 DEF NothingLeftBehind, Released
  <1>29. CASE Abort
    BY <1>29 DEF Abort, Return, Values, NothingLeftBehind, Released, SkrClean, Kymas, Presence, Manifests, Skrs, Crds, kcpVars, skrVars
  <1>30. CASE RequestDeletion
    BY <1>30 DEF RequestDeletion, Values, NothingLeftBehind, Released, SkrClean, Kymas, Presence, Manifests, Skrs, Crds, kcpVars, skrVars
  <1>31. CASE StartInstallation
    BY <1>31 DEF StartInstallation, Values, NothingLeftBehind, Released, SkrClean, Kymas, Presence, Manifests, Skrs, Crds, kcpVars, skrVars
  <1>32. CASE UserDeletesSkrKyma
    BY <1>32 DEF UserDeletesSkrKyma, Values, NothingLeftBehind, Released, SkrClean, Kymas, Presence, Manifests, Skrs, Crds, kcpVars, skrVars
  <1>33. CASE TearDownSkr
    BY <1>33 DEF TearDownSkr, Values, NothingLeftBehind, Released, SkrClean, Kymas, Presence, Manifests, Skrs, Crds, kcpVars, skrVars
  <1>34. CASE ForceRelease
    BY <1>34 DEF ForceRelease, Change, Undisturbed
  <1>35. CASE UNCHANGED vars
    BY <1>35 DEF vars, Values, NothingLeftBehind, Released, SkrClean, Kymas, Presence, Manifests, Skrs, Crds, kcpVars, skrVars
  <1> QED
    BY SMTT(30), <1>1, <1>2, <1>3, <1>4, <1>5, <1>6, <1>7, <1>8, <1>9, <1>10, <1>11, <1>12, <1>13,
       <1>14, <1>15, <1>16, <1>17, <1>18, <1>19, <1>20, <1>21, <1>22, <1>23, <1>24,
       <1>25, <1>26, <1>27, <1>28, <1>29, <1>30, <1>31, <1>32, <1>33, <1>34, <1>35
       DEF Next, Reconcile, Execute, Delivery, Surroundings, Disturbances

----------------------------------------------------------------------------

\* The initial states are within the types.
LEMMA InitTyped == Init => Values /\ Flags
<1> SUFFICES ASSUME Init PROVE Values /\ Flags
  BY SMTT(30)
<1>1. kyma \in Kymas /\ cache \in Kymas /\ read \in Kymas /\ listed \in Presence
  BY Zenon, InitGives, Forgotten
<1>2. manifests \in Presence /\ cert \in SUBSET {"certificate", "secret"}
  BY DEF Init, Presence
<1>3. skr \in Skrs
  BY DEF Init, Skrs
<1>4. pc \in 0..(Len(UseCases) + 1) /\ faults \in 0..MaxFaults /\ changes \in 0..MaxChanges
  BY ConstantsAssumption, UseCaseCount DEF Init
<1>5. Flags
  BY Zenon DEF Init, Flags
<1> QED
  BY <1>1, <1>2, <1>3, <1>4, <1>5 DEF Values

\* Every value of the status, the finalizers, the Manifests and the SKR is one
\* the model knows, for the whole of a deletion.
THEOREM TypeCorrect == Spec => []TypeOK
<1>1. Init => TypeOK
  BY InitTyped DEF TypeOK
<1>2. TypeOK /\ [Next]_vars => TypeOK'
  BY ValuesStep, FlagsStep DEF TypeOK
<1> QED
  BY <1>1, <1>2, PTL DEF Spec

\* The inductive invariant.
LEMMA Inductive ==
    ASSUME Undisturbed
    PROVE  Spec => []IInv
<1>1. Init => IInv
  <2> SUFFICES ASSUME Init PROVE IInv
    BY SMTT(30)
  <2>1. ClientKnown /\ SeenDeleting /\ ListedBehind /\ Passed
    BY Zenon, InitGives DEF ClientKnown, SeenDeleting, ListedBehind, Passed
  <2>2. NothingLeftBehind
    BY Zenon, InitGives DEF NothingLeftBehind, Released
  <2> QED
    BY <2>1, <2>2, InitTyped DEF IInv, TypeOK
<1>2. IInv /\ [Next]_vars => IInv'
  BY ValuesStep, FlagsStep, ClientStep, SeenStep, ListedStep, PassedStep, ReleasedStep DEF IInv, TypeOK
<1> QED
  BY <1>1, <1>2, PTL DEF Spec

\* The finalizer of the Kyma is dropped only when the Manifests of its modules,
\* the certificate with its Secret and everything in an SKR that still exists
\* are gone, whichever calls fail, whenever the process restarts and whatever
\* the client cache holds (DropKymaFinalizer after the other use cases).
THEOREM CleanRelease ==
    ASSUME Undisturbed
    PROVE  Spec => []NothingLeftBehind
<1>1. IInv => NothingLeftBehind
  BY DEF IInv
<1> QED
  BY <1>1, Inductive, PTL

----------------------------------------------------------------------------

\* The steps that write a Manifest.
LEMMA ManifestWriters ==
    ASSUME [Next]_vars
    PROVE  \/ UNCHANGED manifests
           \/ DeleteManifests \/ ReconcileLive \/ ApplyMandatory
           \/ (\E m \in Manifests : ManifestGone(m) \/ GarbageCollect(m))
  <1>1. CASE StartDeletion \/ Look \/ SetKcpKymaStateDeleting \/ SetSkrKymaStateDeleting
           \/ DeleteWatcherCertificateSetup \/ DeleteSkrWebhookResources
           \/ DeleteSkrCrd("DeleteSkrModuleTemplateCrd")
           \/ DeleteSkrCrd("DeleteSkrModuleReleaseMetaCrd") \/ DeleteSkrKyma
           \/ DeleteSkrCrd("DeleteSkrKymaCrd") \/ DeleteMetrics \/ EnsureManifestDeletion
           \/ DropKymaFinalizer \/ NoUseCaseApplicable \/ SkrCallFails \/ ReconcileGone
           \/ CacheCatchesUp \/ ListCatchesUp \/ CertManagerIssues \/ MonitoringReleases
           \/ (\E c \in Crds : CrdGone(c)) \/ RemoveAccess \/ ClientExpires \/ InitFails
           \/ Abort \/ RequestDeletion \/ StartInstallation \/ UserDeletesSkrKyma
           \/ TearDownSkr \/ ForceRelease
    BY Zenon, <1>1
    DEF kcpVars, SkrUnchanged, StartDeletion, Look, SetKcpKymaStateDeleting, SetSkrKymaStateDeleting,
             DeleteWatcherCertificateSetup, DeleteSkrWebhookResources, DeleteSkrCrd,
             DeleteSkrKyma, DeleteMetrics, EnsureManifestDeletion, DropKymaFinalizer,
             NoUseCaseApplicable, SkrCallFails, ReconcileGone, CacheCatchesUp, ListCatchesUp,
             CertManagerIssues, MonitoringReleases, CrdGone, RemoveAccess, ClientExpires,
             InitFails, Abort, RequestDeletion, StartInstallation, UserDeletesSkrKyma,
             TearDownSkr, ForceRelease
  <1> QED
    BY SMTT(30), <1>1 DEF vars, Next, Reconcile, Execute, Delivery, Surroundings, Disturbances

\* The steps that write what is in the SKR.
LEMMA SkrWriters ==
    ASSUME [Next]_vars
    PROVE  \/ UNCHANGED skr
           \/ SetSkrKymaStateDeleting \/ DeleteSkrWebhookResources
           \/ DeleteSkrCrd("DeleteSkrModuleTemplateCrd")
           \/ DeleteSkrCrd("DeleteSkrModuleReleaseMetaCrd")
           \/ DeleteSkrCrd("DeleteSkrKymaCrd") \/ DeleteSkrKyma \/ ReconcileLive
           \/ UserDeletesSkrKyma \/ (\E c \in Crds : CrdGone(c))
  <1>1. CASE StartDeletion \/ Look \/ SetKcpKymaStateDeleting \/ DeleteManifests
           \/ DeleteWatcherCertificateSetup \/ DeleteMetrics \/ EnsureManifestDeletion
           \/ DropKymaFinalizer \/ NoUseCaseApplicable \/ SkrCallFails \/ ReconcileGone
           \/ CacheCatchesUp \/ ListCatchesUp \/ ApplyMandatory
           \/ (\E m \in Manifests : ManifestGone(m) \/ GarbageCollect(m)) \/ CertManagerIssues
           \/ MonitoringReleases \/ RemoveAccess \/ ClientExpires \/ InitFails \/ Abort
           \/ RequestDeletion \/ StartInstallation \/ TearDownSkr \/ ForceRelease
    BY Zenon, <1>1
    DEF skrVars, SkrUnchanged, StartDeletion, Look, SetKcpKymaStateDeleting, DeleteManifests,
             DeleteWatcherCertificateSetup, DeleteMetrics, EnsureManifestDeletion,
             DropKymaFinalizer, NoUseCaseApplicable, SkrCallFails, ReconcileGone, CacheCatchesUp,
             ListCatchesUp, ApplyMandatory, ManifestGone, GarbageCollect, CertManagerIssues,
             MonitoringReleases, RemoveAccess, ClientExpires, InitFails, Abort, RequestDeletion,
             StartInstallation, TearDownSkr, ForceRelease
  <1> QED
    BY SMTT(30), <1>1 DEF vars, Next, Reconcile, Execute, Delivery, Surroundings, Disturbances

\* The user sees Deleting in the SKR, or the SKR has no Kyma, or there is no SKR,
\* before the first Manifest is deleted (DeleteManifests after
\* SetSkrKymaStateDeleting), whatever fails or happens in between.
THEOREM UserIsTold ==
    ASSUME Undisturbed
    PROVE  Spec => ShownBeforeDeleted
<1>1. IInv /\ [Next]_vars =>
         [\A m \in Manifests :
             manifests[m] = "live" /\ manifests'[m] = "deleting" /\ kyma.phase # "gone"
                => ~up \/ skr.kyma # "Other"]_vars
  <2> SUFFICES ASSUME IInv, [Next]_vars, NEW m \in Manifests,
                      manifests[m] = "live", manifests'[m] = "deleting", kyma.phase # "gone"
               PROVE  ~up \/ skr.kyma # "Other"
    OBVIOUS
  <2>1. CASE DeleteManifests
    <3>1. pc = 3
      BY SMTT(30), <2>1, ExecutedAt DEF DeleteManifests, IInv, SeenDeleting
    <3> QED
      BY <3>1 DEF IInv, Passed
  <2>2. CASE ReconcileLive
    BY <2>2 DEF ReconcileLive, Installed
  <2>3. CASE ApplyMandatory
    BY <2>3 DEF ApplyMandatory
  <2>4. CASE \E n \in Manifests : ManifestGone(n) \/ GarbageCollect(n)
    BY <2>4 DEF ManifestGone, GarbageCollect, IInv, TypeOK, Values, Presence
  <2> QED
    BY <2>1, <2>2, <2>3, <2>4, ManifestWriters
<1> QED
  BY <1>1, Inductive, PTL DEF Spec, ShownBeforeDeleted

\* One step of the SKR in the order of DismantledInOrder.
InOrder ==
    /\ ~(skr.webhook \subseteq skr'.webhook) =>
          cert = {} /\ \A m \in Regular : manifests[m] # "live"
    /\ \A c \in Crds : skr.crd[c] = "present" /\ skr'.crd[c] = "terminating" =>
          /\ skr.webhook = {}
          /\ c = "kyma" => skr.kyma = "none" /\ \A d \in Crds \ {c} : skr.crd[d] = "none"

\* The webhook goes after the modules and the certificate, the catalog after the
\* webhook and the CRD of the Kyma last, as enforceUseCaseOrder wants it,
\* although each use case runs in a reconciliation of its own and may fail.
THEOREM Order ==
    ASSUME Undisturbed
    PROVE  Spec => DismantledInOrder
<1>1. IInv /\ [Next]_vars => [InOrder]_vars
  <2> SUFFICES ASSUME IInv, [Next]_vars PROVE InOrder
    BY SMTT(30)
  <2> USE DEF InOrder
  <2>0. skr \in Skrs /\ (doing => pc \in 1..Len(UseCases))
    BY DEF IInv, TypeOK, Values, SeenDeleting
  <2>1. CASE UNCHANGED skr
    BY <2>0, <2>1 DEF Skrs
  <2>2. CASE SetSkrKymaStateDeleting
    BY <2>0, <2>2 DEF SetSkrKymaStateDeleting, Skrs
  <2>3. CASE DeleteSkrWebhookResources
    <3>1. pc = 5
      BY <2>0, <2>3, ExecutedAt DEF DeleteSkrWebhookResources
    <3>2. skr'.crd = skr.crd
      BY <2>0, <2>3 DEF DeleteSkrWebhookResources, Skrs
    <3> QED
      BY <2>0, <3>1, <3>2 DEF IInv, Passed, Skrs
  <2>4. CASE DeleteSkrCrd("DeleteSkrModuleTemplateCrd")
    <3>1. pc = 6 /\ up
      BY <2>0, <2>4, ExecutedAt DEF DeleteSkrCrd
    <3>2. skr'.webhook = skr.webhook /\ skr'.crd["kyma"] = skr.crd["kyma"]
      BY <2>0, <2>4 DEF DeleteSkrCrd, CrdOf, Skrs, Crds
    <3> QED
      BY <2>0, <3>1, <3>2 DEF IInv, Passed, Skrs, Crds
  <2>5. CASE DeleteSkrCrd("DeleteSkrModuleReleaseMetaCrd")
    <3>1. pc = 7 /\ up
      BY <2>0, <2>5, ExecutedAt DEF DeleteSkrCrd
    <3>2. skr'.webhook = skr.webhook /\ skr'.crd["kyma"] = skr.crd["kyma"]
      BY <2>0, <2>5 DEF DeleteSkrCrd, CrdOf, Skrs, Crds
    <3> QED
      BY <2>0, <3>1, <3>2 DEF IInv, Passed, Skrs, Crds
  <2>6. CASE DeleteSkrCrd("DeleteSkrKymaCrd")
    <3>1. pc = 9 /\ up
      BY <2>0, <2>6, ExecutedAt DEF DeleteSkrCrd
    <3>2. skr'.webhook = skr.webhook
      BY <2>0, <2>6 DEF DeleteSkrCrd, CrdOf, Skrs, Crds
    <3> QED
      BY <2>0, <3>1, <3>2 DEF IInv, Passed, Skrs, Crds
  <2>7. CASE DeleteSkrKyma \/ UserDeletesSkrKyma
    BY SMTT(30), <2>0, <2>7 DEF DeleteSkrKyma, UserDeletesSkrKyma, Skrs
  <2>8. CASE ReconcileLive
    BY <2>0, <2>8 DEF ReconcileLive, Installed, Skrs
  <2>9. CASE \E c \in Crds : CrdGone(c)
    <3>1. PICK c \in Crds : CrdGone(c)
      BY SMTT(30), <2>9
    <3> QED
      BY <2>0, <3>1 DEF CrdGone, Skrs
  <2> QED
    BY Zenon, <2>1, <2>2, <2>3, <2>4, <2>5, <2>6, <2>7, <2>8, <2>9, SkrWriters
<1> QED
  BY <1>1, Inductive, PTL DEF Spec, DismantledInOrder, InOrder

\* Apart from a reconciliation of the live Kyma nothing brings the certificate or
\* the SKR back, and only DropKymaFinalizer releases the Kyma.
LEMMA OthersKeep ==
    ASSUME Undisturbed, Values, [Next]_vars, ~ReconcileLive
    PROVE  /\ cert = {} => cert' = {}
           /\ up' => up
           /\ DropKymaFinalizer \/ Released' = Released
           /\ CacheCatchesUp \/ UNCHANGED cache
  <1> USE DEF kcpVars, skrVars
  <1>1. CASE StartDeletion
    BY <1>1 DEF StartDeletion, Released
  <1>2. CASE Look
    BY <1>2 DEF Look, Released
  <1>3. CASE SetKcpKymaStateDeleting
    BY <1>3 DEF SetKcpKymaStateDeleting, Released, Values, Kymas
  <1>4. CASE SetSkrKymaStateDeleting
    BY <1>4 DEF SetSkrKymaStateDeleting, SkrUnchanged, Released
  <1>5. CASE DeleteManifests
    BY <1>5 DEF DeleteManifests, Released
  <1>6. CASE DeleteWatcherCertificateSetup
    BY <1>6 DEF DeleteWatcherCertificateSetup, Released
  <1>7. CASE DeleteSkrWebhookResources
    BY <1>7 DEF DeleteSkrWebhookResources, Released
  <1>8. CASE DeleteSkrCrd("DeleteSkrModuleTemplateCrd")
    BY <1>8 DEF DeleteSkrCrd, SkrUnchanged, Released
  <1>9. CASE DeleteSkrCrd("DeleteSkrModuleReleaseMetaCrd")
    BY <1>9 DEF DeleteSkrCrd, SkrUnchanged, Released
  <1>10. CASE DeleteSkrKyma
    BY <1>10 DEF DeleteSkrKyma, SkrUnchanged, Released
  <1>11. CASE DeleteSkrCrd("DeleteSkrKymaCrd")
    BY <1>11 DEF DeleteSkrCrd, SkrUnchanged, Released
  <1>12. CASE DeleteMetrics
    BY <1>12 DEF DeleteMetrics, Released
  <1>13. CASE EnsureManifestDeletion
    BY <1>13 DEF EnsureManifestDeletion, Released
  <1>14. CASE DropKymaFinalizer
    BY <1>14 DEF DropKymaFinalizer
  <1>15. CASE NoUseCaseApplicable
    BY <1>15 DEF NoUseCaseApplicable, Released
  <1>16. CASE SkrCallFails
    BY SMTT(30), <1>16 DEF SkrCallFails, Released
  <1>17. CASE ReconcileGone
    BY SMTT(30), <1>17 DEF ReconcileGone, Released
  <1>18. CASE CacheCatchesUp
    BY <1>18 DEF CacheCatchesUp, Released
  <1>19. CASE ListCatchesUp
    BY <1>19 DEF ListCatchesUp, Released
  <1>20. CASE ApplyMandatory
    BY <1>20 DEF ApplyMandatory, Released
  <1>21. CASE \E m \in Manifests : ManifestGone(m) \/ GarbageCollect(m)
    <2>1. kyma' = kyma /\ cert' = cert /\ up' = up /\ cache' = cache
      BY <1>21, ManifestsFade
    <2> QED
      BY <2>1 DEF Released
  <1>22. CASE CertManagerIssues
    BY <1>22 DEF CertManagerIssues, Released
  <1>23. CASE MonitoringReleases
    BY <1>23 DEF MonitoringReleases, WithFinalizers, Released, Values, Kymas
  <1>24. CASE \E c \in Crds : CrdGone(c)
    BY <1>24 DEF CrdGone, Released
  <1>25. CASE RemoveAccess
    BY <1>25 DEF RemoveAccess, Released
  <1>26. CASE ClientExpires
    BY <1>26 DEF ClientExpires, Released
  <1>27. CASE InitFails
    BY <1>27 DEF InitFails, WriteStatus, Released, Values, Kymas
  <1>28. CASE ReconcileLive
    BY <1>28
  <1>29. CASE Abort
    BY <1>29 DEF Abort, Released
  <1>30. CASE RequestDeletion
    BY <1>30 DEF RequestDeletion, Released
  <1>31. CASE StartInstallation
    BY <1>31 DEF StartInstallation, Released
  <1>32. CASE UserDeletesSkrKyma
    BY <1>32 DEF UserDeletesSkrKyma, Released
  <1>33. CASE TearDownSkr
    BY <1>33 DEF TearDownSkr, Released
  <1>34. CASE ForceRelease
    BY <1>34 DEF ForceRelease, Change, Undisturbed
  <1>35. CASE UNCHANGED vars
    BY SMTT(30), <1>35 DEF vars, Released
  <1> QED
    BY ZenonT(30), <1>1, <1>2, <1>3, <1>4, <1>5, <1>6, <1>7, <1>8, <1>9, <1>10, <1>11, <1>12, <1>13,
       <1>14, <1>15, <1>16, <1>17, <1>18, <1>19, <1>20, <1>21, <1>22, <1>23, <1>24,
       <1>25, <1>26, <1>27, <1>28, <1>29, <1>30, <1>31, <1>32, <1>33, <1>34, <1>35
       DEF Next, Reconcile, Execute, Delivery, Surroundings, Disturbances

\* What a step leaves of the parts of the SKR.
LEMMA SkrShrinks ==
    ASSUME Values, [Next]_vars, ~ReconcileLive
    PROVE  /\ skr'.webhook \subseteq skr.webhook
           /\ skr.kyma = "none" => skr'.kyma = "none"
           /\ \A c \in Crds : skr.crd[c] = "none" => skr'.crd[c] = "none"
  <1>0. skr \in Skrs
    BY DEF Values
  <1>1. CASE UNCHANGED skr
    BY <1>1
  <1>2. CASE SetSkrKymaStateDeleting
    BY <1>0, <1>2 DEF SetSkrKymaStateDeleting, Skrs
  <1>3. CASE DeleteSkrWebhookResources
    BY <1>0, <1>3 DEF DeleteSkrWebhookResources, Skrs
  <1>4. CASE DeleteSkrCrd("DeleteSkrModuleTemplateCrd")
    BY <1>0, <1>4 DEF DeleteSkrCrd, CrdOf, Skrs, Crds
  <1>5. CASE DeleteSkrCrd("DeleteSkrModuleReleaseMetaCrd")
    BY <1>0, <1>5 DEF DeleteSkrCrd, CrdOf, Skrs, Crds
  <1>6. CASE DeleteSkrCrd("DeleteSkrKymaCrd")
    BY <1>0, <1>6 DEF DeleteSkrCrd, CrdOf, Skrs, Crds
  <1>7. CASE DeleteSkrKyma \/ UserDeletesSkrKyma
    BY <1>0, <1>7 DEF DeleteSkrKyma, UserDeletesSkrKyma, Skrs
  <1>8. CASE \E c \in Crds : CrdGone(c)
    <2>1. PICK c \in Crds : CrdGone(c)
      BY <1>8
    <2> QED
      BY <1>0, <2>1 DEF CrdGone, Skrs
  <1> QED
    BY <1>1, <1>2, <1>3, <1>4, <1>5, <1>6, <1>7, <1>8, SkrWriters

\* What a step leaves of the Manifests of modules.
LEMMA ManifestsShrink ==
    ASSUME Values, [Next]_vars, ~ReconcileLive
    PROVE  \A m \in Regular : manifests[m] = "none" => manifests'[m] = "none"
  <1> USE ConstantsAssumption DEF Manifests
  <1>1. CASE DeleteManifests
    BY <1>1 DEF DeleteManifests, DeletedFrom
  <1>2. CASE ApplyMandatory
    BY <1>2 DEF ApplyMandatory
  <1>3. CASE \E m \in Manifests : ManifestGone(m) \/ GarbageCollect(m)
    BY <1>3, ManifestsFade
  <1> QED
    BY <1>1, <1>2, <1>3, ManifestWriters

\* Nothing is added to what is left, except by a reconciliation of the live Kyma.
LEMMA LeftShrinks ==
    ASSUME Undisturbed, Values, [Next]_vars, ~ReconcileLive
    PROVE  Left' \subseteq Left
  <1>1. {m \in Regular : manifests'[m] # "none"} \subseteq {m \in Regular : manifests[m] # "none"}
    BY ManifestsShrink
  <1>2. cert = {} => cert' = {}
    BY OthersKeep
  <1>3. up' => up
    BY OthersKeep
  <1>4. {c \in Crds : skr'.crd[c] # "none"} \subseteq {c \in Crds : skr.crd[c] # "none"}
    BY SkrShrinks
  <1>5. skr'.webhook \subseteq skr.webhook /\ (skr.kyma = "none" => skr'.kyma = "none")
    BY SkrShrinks
  <1> QED
    BY <1>1, <1>2, <1>3, <1>4, <1>5 DEF Left

\* The deletion of a Kyma implements Teardown: a step of the controller, of the
\* clusters or of a failure is a step of the promise or changes nothing of it.
\* Once the request was seen nothing comes back, and the release finds nothing
\* left (the use cases of deletion_service.go and the actors around it).
THEOREM Refinement ==
    ASSUME Undisturbed
    PROVE  Spec => ImplementsTeardown
<1>1. Values => Left \in SUBSET Parts
  BY DEF Values, Skrs, Left, Parts
<1>2. Init => Promise!Init
  <2> SUFFICES ASSUME Init PROVE Promise!Init
    OBVIOUS
  <2>1. Stage = "kept"
    BY Zenon, InitGives DEF Stage, Released
  <2> QED
    BY Zenon, <1>1, <2>1, InitTyped DEF Promise!Init
<1>3. IInv /\ IInv' /\ [Next]_vars => [Promise!Next]_<<Stage, Left>>
  <2> SUFFICES ASSUME IInv, IInv', [Next]_vars
               PROVE  Promise!Next \/ UNCHANGED <<Stage, Left>>
    OBVIOUS
  <2>0. Values /\ Values'
    BY DEF IInv, TypeOK
  <2>1. CASE ReconcileLive
    <3>1. "Kyma" \in kyma.fins /\ kyma'.fins = kyma.fins /\ cache.phase = "live" /\ UNCHANGED cache
      BY <2>0, <2>1 DEF ReconcileLive, WriteStatus, IInv, SeenDeleting, Values, Kymas
    <3>2. Stage = "kept" /\ Stage' = "kept"
      BY <3>1 DEF Stage, Released
    <3>3. Left' \in SUBSET Parts
      BY <2>0 DEF Values, Skrs, Left, Parts
    <3> QED
      BY <3>2, <3>3 DEF Promise!Next, Promise!Install
  <2>2. CASE CacheCatchesUp
    <3>1. UNCHANGED Left
      BY SMTT(30), <2>2 DEF CacheCatchesUp, kcpVars, skrVars, Left
    <3>2. \/ Stage' = Stage
          \/ Stage = "kept" /\ Stage' = "dismantling"
      BY <2>2 DEF CacheCatchesUp, kcpVars, Stage, Released, IInv, SeenDeleting
    <3> QED
      BY SMTT(30), <3>1, <3>2 DEF Promise!Next, Promise!Dismantle
  <2>3. CASE DropKymaFinalizer
    <3>1. UNCHANGED <<manifests, cert, skr, up, cache>> /\ cache.phase # "live"
      BY Zenon, <2>3 DEF DropKymaFinalizer, Executes, skrVars, IInv, SeenDeleting
    <3>2. UNCHANGED Left
      BY Zenon, <3>1 DEF Left
    <3>3. Released' => Left = {}
      BY Zenon, <3>1, <3>2 DEF IInv, NothingLeftBehind, SkrClean, Left
    <3>4. Released => Released'
      BY Zenon, <2>0, <2>3 DEF DropKymaFinalizer, WithFinalizers, Released, Values, Kymas
    <3>5. \/ Stage' = Stage
          \/ Stage = "dismantling" /\ Stage' = "released" /\ Released'
      BY <3>1, <3>4 DEF Stage
    <3> QED
      BY SMTT(30), <3>2, <3>3, <3>5 DEF Promise!Next, Promise!Release
  <2>4. CASE ~ReconcileLive /\ ~CacheCatchesUp /\ ~DropKymaFinalizer
    <3>1. Left' \subseteq Left
      BY <2>0, <2>4, LeftShrinks
    <3>2. Stage' = Stage
      BY <2>0, <2>4, OthersKeep DEF Stage
    <3> QED
      BY <3>1, <3>2 DEF Promise!Next, Promise!Remove
  <2> QED
    BY <2>1, <2>2, <2>3, <2>4
<1> QED
  BY <1>2, <1>3, Inductive, PTL DEF Spec, ImplementsTeardown, Promise!Spec

=============================================================================
