-------------------------- MODULE WatcherController --------------------------
(***************************************************************************)
(* The Watcher controller (internal/controller/watcher, internal/istio):   *)
(* it keeps one Istio VirtualService per Watcher, which routes the events  *)
(* of the SKRs to the service named in the Watcher's spec.                 *)
(*                                                                         *)
(* A reconciliation reads the Watcher from the cache, may be overtaken by  *)
(* an edit or a deletion, writes the VirtualService and ends with a status *)
(* patch.  Every write of the Watcher carries the resourceVersion read.    *)
(***************************************************************************)
EXTENDS Naturals

CONSTANTS
    Specs,         \* what a Watcher may say: [service, manager, label], where a
                   \* service is [name, namespace, port]
    GatewayLists,  \* the gateways there may be: sets of [name, hosts]
    MaxEdits,      \* bound on the edits of Watcher and gateways
    MaxFaults      \* bound on failing calls

VARIABLES
    watcher,        \* [exists, generation, spec, finalizer, deleting, state, condition]
    gateways,       \* the gateways with the label
    virtualService, \* [gateways, hosts, prefix, host, port], or NoService
    step,           \* of the reconciliation
    read,           \* the Watcher as it was read
    edits, failures

vars == <<watcher, gateways, virtualService, step, read, edits, failures>>

NoService == [gateways |-> {}, hosts |-> {}, prefix |-> "", host |-> <<>>, port |-> 0]

NoSpec == [service |-> [name |-> "", namespace |-> "", port |-> 0], manager |-> "", label |-> ""]

Absent == [exists |-> FALSE, generation |-> 0, spec |-> NoSpec, finalizer |-> FALSE,
           deleting |-> FALSE, state |-> "", condition |-> ""]

Init ==
    /\ watcher \in {[Absent EXCEPT !.exists = TRUE, !.spec = s] : s \in Specs}
    /\ gateways \in GatewayLists
    /\ virtualService = NoService
    /\ step = "idle" /\ read = Absent
    /\ edits = 0 /\ failures = 0

(***************************************************************************)
(* The API server: an object without finalizers goes when it is deleted.   *)
(***************************************************************************)
Stored(w) == IF w.deleting /\ ~w.finalizer THEN Absent ELSE w

Return == step' = "idle" /\ read' = Absent

Fault == failures < MaxFaults /\ failures' = failures + 1

\* A reconciliation that gets beyond the finalizer starts from an unknown condition.
InitializeConditions == "Unknown"

UpdateWatcherConditionStatus(condition, state) ==
    CASE state = "Ready" -> "True"
      [] state = "Error" -> "False"
      [] OTHER           -> condition

\* The API server refuses a write of a Watcher that was changed since it was
\* read, or is gone.
Conflict == watcher # read

updateWatcherStatusUsingSSA(state, condition) ==
    IF Conflict THEN watcher
    ELSE [watcher EXCEPT !.state = state, !.condition = UpdateWatcherConditionStatus(condition, state)]

updateWatcherState(state, condition) ==
    /\ Return
    /\ \/ /\ watcher' = updateWatcherStatusUsingSSA(state, condition)
          /\ UNCHANGED failures
       \/ Fault /\ UNCHANGED watcher

(***************************************************************************)
(* Reconcile.                                                              *)
(***************************************************************************)
Read ==
    /\ step = "idle" /\ watcher.exists
    /\ step' = "handle" /\ read' = watcher
    /\ UNCHANGED <<watcher, gateways, virtualService, edits, failures>>

MarkDeleting ==
    /\ step = "handle"
    /\ read.deleting /\ read.state # "Deleting"
    /\ updateWatcherState("Deleting", read.condition)
    /\ UNCHANGED <<gateways, virtualService, edits>>

Handled == step = "handle" /\ ~(read.deleting /\ read.state # "Deleting")

\* An API server refuses a finalizer on an object that is being deleted.
updateFinalizer(present) ==
    /\ Return
    /\ \/ /\ ~Conflict /\ (present => ~watcher.deleting)
          /\ watcher' = Stored([watcher EXCEPT !.finalizer = present])
          /\ UNCHANGED failures
       \/ Conflict /\ UNCHANGED <<watcher, failures>>
       \/ Fault /\ UNCHANGED watcher

AddFinalizer ==
    /\ Handled /\ ~read.finalizer
    /\ updateFinalizer(TRUE)
    /\ UNCHANGED <<gateways, virtualService, edits>>

StartProcessing ==
    /\ Handled /\ read.finalizer /\ read.state = ""
    /\ updateWatcherState("Processing", InitializeConditions)
    /\ UNCHANGED <<gateways, virtualService, edits>>

\* One that is not there is fine.
DeleteVirtualService == virtualService' = NoService

\* The VirtualService, then the finalizer.  A failed deletion sets the state
\* to Error, from where the deletion starts over.
handleDeletingState ==
    /\ Handled /\ read.finalizer /\ read.state = "Deleting"
    /\ \/ DeleteVirtualService /\ step' = "release" /\ UNCHANGED <<watcher, read, failures>>
       \/ /\ Fault /\ Return
          /\ watcher' = updateWatcherStatusUsingSSA("Error", InitializeConditions)
          /\ UNCHANGED virtualService
    /\ UNCHANGED <<gateways, edits>>

RemoveFinalizer ==
    /\ step = "release"
    /\ updateFinalizer(FALSE)
    /\ UNCHANGED <<gateways, virtualService, edits>>

Processing == Handled /\ read.finalizer /\ read.state \in {"Processing", "Error", "Ready", "Warning"}

\* The spec names the manager, else the label does.
GetManagerName(spec) == IF spec.manager # "" THEN spec.manager ELSE spec.label

minPort == 1
maxPort == 65535

validateArgumentsForNewHTTPRoute(spec) ==
    /\ GetManagerName(spec) # ""
    /\ spec.service.name # "" /\ spec.service.namespace # ""
    /\ spec.service.port \in minPort..maxPort

\* The events of the SKR come in under the manager's prefix and go to the service.
NewHTTPRoute(spec) ==
    [prefix |-> GetManagerName(spec),
     host |-> <<spec.service.name, spec.service.namespace>>,
     port |-> spec.service.port]

\* Every gateway must have a host, so that none of the events gets lost.
getHosts(list) == UNION {g.hosts : g \in list}
validateArgumentsForNewVirtualService(list) == list # {} /\ \A g \in list : g.hosts # {}

Valid(spec, list) == validateArgumentsForNewVirtualService(list) /\ validateArgumentsForNewHTTPRoute(spec)

NewVirtualService(spec, list) ==
    LET route == NewHTTPRoute(spec)
    IN  [gateways |-> {g.name : g \in list}, hosts |-> getHosts(list),
         prefix |-> route.prefix, host |-> route.host, port |-> route.port]

ProcessingFails ==
    /\ Processing
    /\ \/ ~Valid(read.spec, gateways) /\ updateWatcherState("Error", InitializeConditions)
       \/ /\ Fault /\ Return
          /\ watcher' = updateWatcherStatusUsingSSA("Error", InitializeConditions)
    /\ UNCHANGED <<gateways, virtualService, edits>>

GetVirtualService == virtualService # NoService

CreateVirtualService ==
    ~GetVirtualService /\ virtualService' = NewVirtualService(read.spec, gateways)

\* Mutant: the gateways and hosts of an existing VirtualService stay as they are.
UpdateRoute ==
    /\ GetVirtualService
    /\ virtualService' = [NewVirtualService(read.spec, gateways) EXCEPT
                              !.gateways = virtualService.gateways, !.hosts = virtualService.hosts]

UpdateVirtualService ==
    GetVirtualService /\ virtualService' = NewVirtualService(read.spec, gateways)

handleProcessingState ==
    /\ Processing /\ Valid(read.spec, gateways)
    /\ CreateVirtualService \/ UpdateVirtualService
    /\ step' = "ready"
    /\ UNCHANGED <<watcher, gateways, read, edits, failures>>

MarkReady ==
    /\ step = "ready"
    /\ updateWatcherState("Ready", InitializeConditions)
    /\ UNCHANGED <<gateways, virtualService, edits>>

(***************************************************************************)
(* The operator edits and deletes the Watcher and the gateways.            *)
(***************************************************************************)
Edit ==
    /\ edits < MaxEdits /\ edits' = edits + 1
    /\ \/ /\ watcher.exists
          /\ \E s \in Specs \ {watcher.spec} :
                watcher' = [watcher EXCEPT !.spec = s, !.generation = @ + 1]
          /\ UNCHANGED gateways
       \/ /\ watcher.exists /\ ~watcher.deleting
          /\ watcher' = Stored([watcher EXCEPT !.deleting = TRUE, !.generation = @ + 1])
          /\ UNCHANGED gateways
       \/ /\ gateways' \in GatewayLists
          /\ UNCHANGED watcher
    /\ UNCHANGED <<virtualService, step, read, failures>>

Reconcile ==
    \/ Read \/ MarkDeleting \/ AddFinalizer \/ StartProcessing \/ handleDeletingState
    \/ RemoveFinalizer \/ ProcessingFails \/ handleProcessingState \/ MarkReady

Next == Reconcile \/ Edit

Spec == Init /\ [][Next]_vars
FairSpec == Spec /\ WF_vars(Reconcile)

(***************************************************************************)
(* Properties.                                                             *)
(***************************************************************************)
TypeOK ==
    /\ watcher.state \in {"", "Processing", "Ready", "Error", "Warning", "Deleting"}
    /\ watcher.condition \in {"", "Unknown", "True", "False"}
    /\ virtualService \in {NoService} \cup {NewVirtualService(s, l) : s \in Specs, l \in GatewayLists}
    /\ step \in {"idle", "handle", "release", "ready"}

\* A Watcher that went through its deletion leaves no VirtualService that
\* still routes events: the finalizer goes after the route, and no
\* reconciliation that read the Watcher earlier writes the route again.
NoRouteLeft == ~watcher.exists => virtualService = NoService

\* Once nobody edits any more, a Watcher that is valid is routed, from the hosts of
\* the gateways there are to the destination its spec names last, and shown as
\* ready; one that is not is shown as failed; a deleted one is gone.
WatcherSettles ==
    /\ []NoRouteLeft
    /\ <>[](watcher.exists =>
            /\ ~watcher.deleting
            /\ IF Valid(watcher.spec, gateways)
               THEN /\ virtualService = NewVirtualService(watcher.spec, gateways)
                    /\ watcher.state = "Ready" /\ watcher.condition = "True"
               ELSE watcher.state = "Error" /\ watcher.condition = "False")
=============================================================================
