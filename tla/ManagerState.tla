---------------------------- MODULE ManagerState ----------------------------
(***************************************************************************)
(* How the Manifest controller sees whether a module works: after every    *)
(* synchronisation it looks for the manager among the applied resources    *)
(* and takes the state of the Manifest from its status                     *)
(* (internal/manifest/statecheck).  ManifestReconciler models what it does *)
(* with the result.                                                        *)
(*                                                                         *)
(* A Deployment is [kind, progressing, reason, available], its conditions; *)
(* a StatefulSet is [kind, pods], each pod being the status of its first   *)
(* container, in the order of their names.                                 *)
(***************************************************************************)
EXTENDS Naturals, Sequences, SequencesExt, FiniteSets

CONSTANTS
    Targets,    \* the sequences of resources that a module may consist of
    Positions,  \* in those sequences
    MaxEvents   \* bound on upgrades and troubles of workloads

VARIABLES
    target,     \* the resources of the module, in the order of its manifest
    manifest,   \* state in the status of the Manifest
    troubled,   \* the manager is new or was stuck, and was not seen ready since
    pastEvents

vars == <<target, manifest, troubled, pastEvents>>

\* Nothing is known of a pod that is not scheduled; Started may be missing.
PodStates == {"pending", "unknown", "starting", "started", "ready"}
Reasons == {"NewReplicaSetCreated", "FoundNewReplicaSet", "ReplicaSetUpdated", "NewReplicaSetAvailable"}

NewDeployment == [kind |-> "Deployment", progressing |-> "none", reason |-> "", available |-> FALSE]
NewStatefulSet(n) == [kind |-> "StatefulSet", pods |-> [i \in 1..n |-> "pending"]]

Init ==
    /\ target \in Targets
    /\ manifest = "Processing"
    /\ troubled = TRUE
    /\ pastEvents = 0

(***************************************************************************)
(* The state check.                                                        *)
(***************************************************************************)

\* Mutant: the way back to a previous ReplicaSet is not known.
determineStateForward(deploy) ==
    CASE deploy.progressing # "True" \/ deploy.reason \notin Reasons \ {"FoundNewReplicaSet"} -> "Error"
      [] deploy.available /\ deploy.reason = "NewReplicaSetAvailable" -> "Ready"
      [] OTHER -> "Processing"

determineDeploymentState(deploy) ==
    CASE deploy.progressing # "True" \/ deploy.reason \notin Reasons -> "Error"
      [] deploy.available /\ deploy.reason = "NewReplicaSetAvailable" -> "Ready"
      [] OTHER -> "Processing"

ReadyReplicas(statefulSet) == Cardinality({i \in DOMAIN statefulSet.pods : statefulSet.pods[i] = "ready"})

IsStatefulSetReady(statefulSet) == ReadyReplicas(statefulSet) = Len(statefulSet.pods)

\* The first container with a status decides for all.
GetPodsState(pods) ==
    LET known == SelectSeq(pods, LAMBDA p : p # "pending")
    IN  CASE known = <<>> -> "Error"
          [] known # <<>> /\ Head(known) = "ready" -> "Ready"
          [] known # <<>> /\ Head(known) = "started" -> "Processing"
          [] known # <<>> /\ Head(known) \in {"unknown", "starting"} -> "Error"

GetStatefulSetState(statefulSet) ==
    IF IsStatefulSetReady(statefulSet) THEN "Ready" ELSE GetPodsState(statefulSet.pods)

\* The first Deployment or StatefulSet; 0 if there is none.
findManager(resources) ==
    SelectInSeq(resources, LAMBDA r : r.kind \in {"Deployment", "StatefulSet"})

GetState(resources) ==
    LET manager == findManager(resources)
    IN  IF manager = 0 THEN "Ready"
        ELSE IF resources[manager].kind = "StatefulSet" THEN GetStatefulSetState(resources[manager])
        ELSE determineDeploymentState(resources[manager])

Event == pastEvents < MaxEvents /\ pastEvents' = pastEvents + 1

\* Pods are listed only for a StatefulSet that is not ready.
ListPodsFails ==
    LET manager == findManager(target)
    IN  /\ manager # 0 /\ target[manager].kind = "StatefulSet" /\ ~IsStatefulSetReady(target[manager])
        /\ Event

\* The applied resources come back with their status.  An Error is an error that
\* repeats the reconciliation at once, anything else is repeated after an interval.
checkManagerState ==
    /\ \/ manifest' = GetState(target) /\ UNCHANGED pastEvents
       \/ manifest' = "Error" /\ ListPodsFails
    /\ troubled' = (troubled /\ manifest' # "Ready")
    /\ UNCHANGED target

(***************************************************************************)
(* The workload controllers of the SKR.                                    *)
(***************************************************************************)
Becomes(i, workload) == target' = [target EXCEPT ![i] = workload] /\ UNCHANGED manifest

\* The rollout of a Deployment that is not stuck, step by step.
RolloutSteps(deploy) ==
    CASE deploy.progressing = "none" ->
             {[deploy EXCEPT !.progressing = "True", !.reason = "NewReplicaSetCreated"]}
      [] deploy.progressing = "True" /\ deploy.reason \in {"NewReplicaSetCreated", "FoundNewReplicaSet"} ->
             {[deploy EXCEPT !.reason = "ReplicaSetUpdated"]}
      [] deploy.progressing = "True" /\ deploy.reason = "ReplicaSetUpdated" ->
             {[deploy EXCEPT !.reason = "NewReplicaSetAvailable", !.available = TRUE],
              [deploy EXCEPT !.available = TRUE]} \ {deploy}
      [] deploy.progressing = "True" /\ deploy.reason = "NewReplicaSetAvailable" ->
             IF deploy.available THEN {} ELSE {[deploy EXCEPT !.available = TRUE]}
      [] deploy.progressing = "False" ->
             {[deploy EXCEPT !.progressing = "True", !.reason = "ReplicaSetUpdated"]}

\* The pods of a StatefulSet start one after the other.
Starting(pod) ==
    CASE pod = "pending" -> {"unknown", "starting"}
      [] pod = "unknown" -> {"starting"}
      [] pod = "starting" -> {"started"}
      [] pod = "started" -> {"ready"}
      [] pod = "ready" -> {}

Proceeds(i) ==
    /\ i \in DOMAIN target
    /\ \/ /\ target[i].kind = "Deployment"
          /\ \E deploy \in RolloutSteps(target[i]) : Becomes(i, deploy)
       \/ /\ target[i].kind = "StatefulSet"
          /\ \E p \in DOMAIN target[i].pods :
                /\ \A q \in 1..(p - 1) : target[i].pods[q] = "ready"
                /\ \E s \in Starting(target[i].pods[p]) : Becomes(i, [target[i] EXCEPT !.pods[p] = s])
    /\ UNCHANGED <<troubled, pastEvents>>

\* A new version of the module, or back to the previous one.
Upgraded(i) ==
    /\ Event
    /\ \/ /\ target[i].kind = "Deployment" /\ target[i].progressing = "True"
          /\ \E reason \in {"NewReplicaSetCreated", "FoundNewReplicaSet"} :
                Becomes(i, [target[i] EXCEPT !.reason = reason])
       \/ /\ target[i].kind = "StatefulSet"
          /\ IsStatefulSetReady(target[i])
          /\ \E p \in DOMAIN target[i].pods : Becomes(i, [target[i] EXCEPT !.pods[p] = "pending"])
    /\ UNCHANGED troubled

\* The progress deadline is exceeded, or pods fail.
Troubled(i) ==
    /\ Event
    /\ \/ /\ target[i].kind = "Deployment" /\ target[i].progressing = "True"
          /\ \/ /\ target[i].reason # "NewReplicaSetAvailable"
                /\ Becomes(i, [target[i] EXCEPT !.progressing = "False", !.reason = "ProgressDeadlineExceeded"])
                /\ troubled' = (troubled \/ i = findManager(target))
             \/ Becomes(i, [target[i] EXCEPT !.available = FALSE]) /\ UNCHANGED troubled
       \/ /\ target[i].kind = "StatefulSet"
          /\ \E p \in DOMAIN target[i].pods : Becomes(i, [target[i] EXCEPT !.pods[p] = "starting"])
          /\ UNCHANGED troubled

Next == checkManagerState \/ \E i \in DOMAIN target : Proceeds(i) \/ Upgraded(i) \/ Troubled(i)

Spec == Init /\ [][Next]_vars

\* A Manifest is reconciled again and again, and workloads get on with their rollout.
Fairness ==
    /\ WF_vars(checkManagerState)
    /\ \A i \in Positions : WF_vars(Proceeds(i))

FairSpec == Spec /\ Fairness

(***************************************************************************)
(* Properties.                                                             *)
(***************************************************************************)
TypeOK ==
    /\ DOMAIN target \subseteq Positions
    /\ \A i \in DOMAIN target :
        /\ target[i].kind = "Deployment" => target[i].progressing \in {"none", "True", "False"}
        /\ target[i].kind = "StatefulSet" => Range(target[i].pods) \subseteq PodStates
    /\ manifest \in {"Processing", "Ready", "Error"}
    /\ troubled \in BOOLEAN /\ pastEvents \in 0..MaxEvents

DeploymentManages == \E i \in DOMAIN target : i = findManager(target) /\ target[i].kind = "Deployment"

\* The state of a Manifest follows its manager.  One with a Deployment that worked shows
\* an error only after a rollout that got stuck, never because of an upgrade, of the way
\* back or of a pod that failed (determineDeploymentState); and each Manifest becomes
\* Ready once the rollouts have come to their end, whichever workloads it has (GetState).
ManagerStateFollows ==
    /\ [](DeploymentManages /\ manifest = "Error" => troubled)
    /\ <>[](manifest = "Ready")
=============================================================================
