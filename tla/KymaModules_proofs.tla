------------------------- MODULE KymaModules_proofs -------------------------
(***************************************************************************)
(* The status of a Kyma and its Manifests: proofs for every set of modules *)
(* and versions, and for every number of changes and failures of the kinds *)
(* that do not make the status lose track of a Manifest (Lossless).  IInv  *)
(* is about the versions and the Manifests, EInv about the events that     *)
(* bring a Kyma into the work queue.                                       *)
(***************************************************************************)
EXTENDS KymaModules, TLAPS

\* No status is patched late or not at all, no template of an installed module goes,
\* and every template is one that a Kyma may have.
Lossless ==
    /\ Faults \cap {"stale", "unread", "descriptor", "apply", "patch", "restart"} = {}
    /\ Changes \cap {"none", "beta", "skip", "skipWindows", "withdraw", "mandatory", "selector",
                     "deleteTemplate"} = {}
    /\ \A t \in Modules \X Versions : ~NewTemplate[t].internal /\ ~NewTemplate[t].mandatory

(***************************************************************************)
(* Shapes.                                                                 *)
(***************************************************************************)
IsManifest(x) ==
    /\ x = [version |-> x.version, channel |-> x.channel, unmanaged |-> x.unmanaged,
            deleting |-> x.deleting, state |-> x.state, seen |-> x.seen]
    /\ x.version \in Versions

IsEntry(e) ==
    /\ e = [state |-> e.state, channel |-> e.channel, version |-> e.version, manifest |-> e.manifest,
            template |-> e.template, maintenance |-> e.maintenance]
    /\ e.template # 0 => e.channel \in Channels

IsTemplate(t, x) ==
    /\ x = [beta |-> x.beta, internal |-> NewTemplate[t].internal, mandatory |-> NewTemplate[t].mandatory,
            requiresDowntime |-> NewTemplate[t].requiresDowntime, generation |-> x.generation]
    /\ x.generation \in Nat \ {0}

IsMeta(m, x) ==
    /\ x = [channels |-> x.channels, mandatory |-> 0, selector |-> NewSelector(m)]
    /\ x.channels \in [Channels -> Versions]

ChannelsOK(modules) == \A m \in DOMAIN modules : modules[m].channel \in Channels \cup {"unset"}

IsWork(w) ==
    /\ w = [spec |-> w.spec, status |-> w.status, state |-> w.state, modules |-> w.modules, todo |-> w.todo,
            states |-> w.states, failed |-> w.failed, window |-> w.window, stale |-> w.stale]

CatalogOK ==
    /\ catalog = [metas |-> catalog.metas, templates |-> catalog.templates]
    /\ DOMAIN catalog.metas \subseteq Modules
    /\ \A m \in DOMAIN catalog.metas : IsMeta(m, catalog.metas[m])
    /\ DOMAIN catalog.templates = Modules \X Versions
    /\ \A t \in Modules \X Versions : IsTemplate(t, catalog.templates[t])

SpecOK ==
    /\ remote = [exists |-> remote.exists, channel |-> remote.channel, modules |-> remote.modules,
                 state |-> remote.state]
    /\ remote.channel \in Channels \cup {"none"}
    /\ ChannelsOK(remote.modules)
    /\ kcp.channel \in Channels
    /\ labels.beta = TRUE /\ labels.skip = FALSE
    /\ window \in {"active", "inactive", "unknown"}
    /\ pc \in {"lookup", "sync", "status"} => work.spec.channel \in Channels /\ ChannelsOK(work.spec.modules)

ManifestsOK == \A m \in DOMAIN manifests : IsManifest(manifests[m])

StatusOK ==
    /\ \A m \in DOMAIN status.modules : IsEntry(status.modules[m])
    /\ \A m \in DOMAIN work.status : IsEntry(work.status[m])
    /\ IsWork(work)
    /\ pc # "idle" => ~work.stale
    /\ pc \in {"prepare", "remote"} => work.status = status.modules
    /\ pc \in {"prepare", "lookup", "sync", "status"} => ~work.failed

(***************************************************************************)
(* The invariant.                                                          *)
(***************************************************************************)
Installed(m, entries) == m \in DOMAIN entries /\ entries[m].template # 0

\* The entry of a managed Manifest has its version.
Agree(m, entries) ==
    ~manifests[m].unmanaged =>
        Installed(m, entries) /\ entries[m].manifest /\ entries[m].version = manifests[m].version

\* What the lookup promises of a module.
LookedUp(m, module, spec, entries, active) ==
    /\ module.err # "notAllowed"
    /\ Installed(m, entries) => module.err \in KeepsEntry \cup {"nil"}
    /\ module.err = "nil" =>
          /\ module.version \in Versions /\ module.channel \in Channels /\ module.generation \in Nat \ {0}
          /\ module.unmanaged => module.enabled
          /\ Installed(m, entries) => Core[module.version] >= Core[entries[m].version]
          /\ m \in DOMAIN entries /\ entries[m].version # module.version =>
                active = "active" \/ spec.skipWindows \/ ~NewTemplate[<<m, module.version>>].requiresDowntime

Synced ==
    pc \in {"sync", "status"} =>
        /\ DOMAIN work.status \subseteq DOMAIN work.modules
        /\ work.todo \subseteq DOMAIN work.modules
        /\ pc = "status" => work.todo = {}
        /\ \A m \in DOMAIN work.modules :
              LookedUp(m, work.modules[m], work.spec, work.status, work.window)
        /\ \A m \in DOMAIN manifests :
              IF m \in work.todo \/ m \notin DOMAIN work.modules \/ work.modules[m].err # "nil"
              THEN Agree(m, work.status)
              ELSE ~manifests[m].unmanaged =>
                       ~work.modules[m].unmanaged /\ manifests[m].version = work.modules[m].version

Kept ==
    /\ pc = "idle" => \A m \in DOMAIN manifests : Agree(m, status.modules)
    /\ pc \in {"prepare", "lookup", "delete", "finish", "remote"} =>
          \A m \in DOMAIN manifests : Agree(m, work.status)

Control ==
    /\ pc \in {"idle", "prepare", "lookup", "sync", "status", "delete", "finish", "remote"}

IInv == CatalogOK /\ SpecOK /\ ManifestsOK /\ StatusOK /\ Control /\ Synced /\ Kept

(***************************************************************************)
(* The lookup.                                                             *)
(***************************************************************************)
\* The template of a version that the catalog has.
LEMMA TemplateFound ==
    ASSUME CatalogOK, NEW m \in DOMAIN catalog.metas, NEW channel \in Channels
    PROVE  LET found == Lookup(m, channel, catalog.metas[m], catalog.templates)
           IN  /\ found.err = "nil" /\ found.version \in Versions /\ found.version # 0
               /\ <<m, found.version>> \in Modules \X Versions
  <1>1. IsMeta(m, catalog.metas[m]) /\ m \in Modules
    BY DEF CatalogOK
  <1>2. catalog.metas[m].mandatory = 0 /\ catalog.metas[m].channels \in [Channels -> Versions]
    BY <1>1 DEF IsMeta
  <1>3. catalog.metas[m].channels[channel] \in Versions /\ catalog.metas[m].channels[channel] # 0
    BY <1>2, LookupAssumption
  <1>4. GetChannelVersionForModule(catalog.metas[m], channel) = catalog.metas[m].channels[channel]
    BY <1>2 DEF GetChannelVersionForModule
  <1>. QED
    BY <1>1, <1>2, <1>3, <1>4 DEF Lookup, getTemplateByVersion, CatalogOK

\* No template is forbidden.
LEMMA ModeAllowed ==
    ASSUME CatalogOK, Lossless, labels.beta = TRUE, NEW m \in DOMAIN catalog.metas, NEW v \in Versions
    PROVE  ValidateTemplateMode(m, catalog.templates[<<m, v>>], labels, catalog.metas[m]) = "nil"
  <1>1. IsMeta(m, catalog.metas[m]) /\ m \in Modules /\ IsTemplate(<<m, v>>, catalog.templates[<<m, v>>])
    BY DEF CatalogOK
  <1>2. catalog.metas[m].selector = NewSelector(m)
    BY <1>1 DEF IsMeta
  <1>3. ~catalog.templates[<<m, v>>].internal /\ ~catalog.templates[<<m, v>>].mandatory
    BY <1>1 DEF IsTemplate, Lossless
  <1>. QED
    BY <1>2, <1>3 DEF ValidateTemplateMode, RestrictedModuleMatch, NewSelector

\* The checks of a template that is there: it waits, it is refused, or it fits.
LEMMA TemplateChecked ==
    ASSUME CatalogOK, Lossless, labels.beta = TRUE, window \in {"active", "inactive", "unknown"},
           NEW spec, NEW entries, NEW m \in DOMAIN catalog.metas, NEW v \in Versions
    PROVE  LET kyma == [spec |-> spec, status |-> entries, labels |-> labels]
               err == CheckTemplate(m, v, kyma, catalog.metas[m], catalog.templates[<<m, v>>], window,
                                    Modules \X Versions)
           IN  /\ err \in {"nil", "waiting", "windowUnknown", "updateNotAllowed"}
               /\ err = "nil" =>
                    /\ Installed(m, entries) => Core[v] >= Core[entries[m].version]
                    /\ m \in DOMAIN entries /\ entries[m].version # v =>
                          \/ window = "active" \/ spec.skipWindows
                          \/ ~NewTemplate[<<m, v>>].requiresDowntime
  <1>. DEFINE kyma == [spec |-> spec, status |-> entries, labels |-> labels]
              template == catalog.templates[<<m, v>>]
              late == WithMaintenanceWindow(m, v, template, kyma, window)
  <1>1. <<m, v>> \in Modules \X Versions /\ IsTemplate(<<m, v>>, template)
    BY DEF CatalogOK
  <1>2. template.requiresDowntime = NewTemplate[<<m, v>>].requiresDowntime
    BY <1>1 DEF IsTemplate
  <1>3. late \in {"nil", "waiting", "windowUnknown"}
    BY DEF WithMaintenanceWindow
  <1>4. late = "nil" /\ m \in DOMAIN entries /\ entries[m].version # v =>
            window = "active" \/ spec.skipWindows \/ ~NewTemplate[<<m, v>>].requiresDowntime
    BY <1>2 DEF WithMaintenanceWindow, IsRequired
  <1>5. ValidateTemplateMode(m, template, kyma.labels, catalog.metas[m]) = "nil"
    BY ModeAllowed, Zenon
  <1>6. CheckTemplate(m, v, kyma, catalog.metas[m], template, window, Modules \X Versions) =
            IF late # "nil" THEN late
            ELSE IF m \in DOMAIN entries THEN markInvalidSkewUpdate(v, entries[m]) ELSE "nil"
    BY <1>1, <1>5 DEF CheckTemplate
  <1>7. \A e : markInvalidSkewUpdate(v, e) \in {"nil", "updateNotAllowed"}
               /\ (markInvalidSkewUpdate(v, e) = "nil" /\ e.template # 0 => Core[v] >= Core[e.version])
    BY DEF markInvalidSkewUpdate, isValidVersionChange
  <1>. HIDE DEF late
  <1>. QED
    BY <1>3, <1>4, <1>6, <1>7 DEF Installed

\* The fields of what the lookup builds.
LEMMA InfoFields ==
    /\ \A x : InfoFromSpec(x).enabled = TRUE /\ InfoFromSpec(x).valid = (x.channel # "none")
             /\ InfoFromSpec(x).channel = x.channel
    /\ \A err : TemplateError(err).err = err
  BY DEF InfoFromSpec, TemplateError

LEMMA FoundFields ==
    ASSUME NEW found, NEW channel, NEW version, NEW err,
           found = [channel |-> channel, version |-> version, err |-> err]
    PROVE  found.err = err /\ found.version = version /\ found.channel = channel
  OBVIOUS

\* A ModuleReleaseMeta with channels has no mandatory version.
LEMMA NotMandatory ==
    ASSUME CatalogOK, NEW m \in DOMAIN catalog.metas
    PROVE  catalog.metas[m].mandatory = 0
  <1>1. IsMeta(m, catalog.metas[m])
    BY DEF CatalogOK
  <1>. QED  BY <1>1 DEF IsMeta

\* What FetchModuleInfo knows of a module of the spec or of the status.
LEMMA InfoGives ==
    ASSUME NEW spec, ChannelsOK(spec.modules),
           NEW entries, \A n \in DOMAIN entries : IsEntry(entries[n]),
           NEW m \in DOMAIN spec.modules \cup DOMAIN entries,
           NEW info, info = FetchModuleInfo(spec, entries)[m]
    PROVE  /\ info.unmanaged => info.enabled
           /\ Installed(m, entries) => info.valid
           /\ info.valid => info.channel \in Channels \cup {"unset"}
  <1>1. CASE m \in DOMAIN spec.modules
    <2>1. spec.modules[m].channel \in Channels \cup {"unset"}
      BY <1>1 DEF ChannelsOK
    <2>2. spec.modules[m].channel # "none"
      BY <2>1, LookupAssumption
    <2>3. info = InfoFromSpec(spec.modules[m])
      BY <1>1 DEF FetchModuleInfo
    <2>4. info.enabled = TRUE /\ info.valid = TRUE /\ info.channel = spec.modules[m].channel
      BY <2>2, <2>3, InfoFields, Zenon
    <2>. QED  BY <2>1, <2>4
  <1>2. CASE m \notin DOMAIN spec.modules
    <2>1. info = InfoFromStatus(entries[m]) /\ IsEntry(entries[m])
      BY <1>2 DEF FetchModuleInfo
    <2>2. info.unmanaged = FALSE /\ info.valid = (entries[m].template # 0) /\ info.channel = entries[m].channel
      BY <2>1 DEF InfoFromStatus, determineModuleValidity
    <2>. QED  BY <2>1, <2>2, Zenon DEF Installed, IsEntry
  <1>. QED  BY <1>1, <1>2

\* What the fields of a module are.
LEMMA ModuleFields ==
    ASSUME NEW m, NEW info, NEW found, NEW known, NEW module,
           module = appendModuleWithInformation(m, info, found, catalog.templates, known),
           found.err # "notAllowed"
    PROVE  /\ module.err = found.err /\ module.version = found.version /\ module.channel = found.channel
           /\ module.unmanaged = info.unmanaged /\ module.enabled = info.enabled
           /\ found.err = "nil" => module.generation = catalog.templates[<<m, found.version>>].generation
  BY DEF appendModuleWithInformation

\* What GetRegularTemplates gives for a module whose channel is known.
LEMMA RegularGives ==
    ASSUME CatalogOK, Lossless, labels.beta = TRUE, window \in {"active", "inactive", "unknown"},
           NEW spec, spec.channel \in Channels, NEW entries, NEW m, NEW info,
           info.valid => info.channel \in Channels \cup {"unset"}, Installed(m, entries) => info.valid,
           info.unmanaged => info.enabled,
           NEW found, found = GetRegularTemplate(m, info, [spec |-> spec, status |-> entries, labels |-> labels],
                                                 catalog, window, {}, Modules \X Versions),
           NEW module, module = appendModuleWithInformation(m, info, found, catalog.templates, Modules \X Versions)
    PROVE  LookedUp(m, module, spec, entries, window)
  <1>1. CASE ~info.valid
    <2>1. found = TemplateError("invalid")
      BY <1>1 DEF GetRegularTemplate
    <2>2. found.err = "invalid" /\ found.err # "notAllowed"
      BY <2>1, InfoFields
    <2>3. module.err = "invalid"
      BY <2>2 DEF appendModuleWithInformation
    <2>. QED  BY <1>1, <2>3 DEF LookedUp
  <1>2. CASE info.valid /\ m \notin DOMAIN catalog.metas
    <2>1. found = TemplateError("noReleaseMeta")
      BY <1>2 DEF GetRegularTemplate
    <2>2. found.err = "noReleaseMeta" /\ found.err # "notAllowed"
      BY <2>1, InfoFields
    <2>3. module.err = "noReleaseMeta"
      BY <2>2 DEF appendModuleWithInformation
    <2>. QED  BY <2>3 DEF LookedUp, KeepsEntry
  <1>3. CASE info.valid /\ m \in DOMAIN catalog.metas
    <2>. DEFINE channel == getDesiredChannel(info.channel, spec.channel)
                version == Lookup(m, channel, catalog.metas[m], catalog.templates).version
                err == CheckTemplate(m, version, [spec |-> spec, status |-> entries, labels |-> labels],
                                     catalog.metas[m], catalog.templates[<<m, version>>], window,
                                     Modules \X Versions)
    <2>1. channel \in Channels
      <3>1. info.channel \in Channels \cup {"unset"}
        BY <1>3
      <3>. QED  BY <3>1, LookupAssumption DEF getDesiredChannel
    <2>2. version \in Versions /\ Lookup(m, channel, catalog.metas[m], catalog.templates).err = "nil"
          /\ <<m, version>> \in Modules \X Versions
      BY <1>3, <2>1, TemplateFound
    <2>3. catalog.metas[m].mandatory = 0
      BY <1>3, NotMandatory, ZenonT(60)
    <2>4. found = [channel |-> channel, version |-> version, err |-> err]
      BY <1>3, <2>2, <2>3, Zenon DEF GetRegularTemplate
    <2>5. /\ err \in {"nil", "waiting", "windowUnknown", "updateNotAllowed"}
          /\ err = "nil" =>
                /\ Installed(m, entries) => Core[version] >= Core[entries[m].version]
                /\ m \in DOMAIN entries /\ entries[m].version # version =>
                      \/ window = "active" \/ spec.skipWindows
                      \/ ~NewTemplate[<<m, version>>].requiresDowntime
      BY <1>3, <2>2, TemplateChecked, ZenonT(60)
    <2>6. IsTemplate(<<m, version>>, catalog.templates[<<m, version>>])
      BY <2>2, Zenon DEF CatalogOK
    <2>7. catalog.templates[<<m, version>>].generation \in Nat \ {0}
      BY <2>6, Zenon DEF IsTemplate
    <2>. HIDE DEF channel, version, err
    <2>8. found.err = err /\ found.version = version /\ found.channel = channel
      BY <2>4, FoundFields
    <2>10. found.err # "notAllowed"
      BY <2>5, <2>8
    <2>9. /\ module.err = err /\ module.version = version /\ module.channel = channel
          /\ module.unmanaged = info.unmanaged /\ module.enabled = info.enabled
          /\ err = "nil" => module.generation = catalog.templates[<<m, version>>].generation
      BY <2>8, <2>10, ModuleFields
    <2>. QED
      BY <2>1, <2>2, <2>5, <2>7, <2>9, Zenon DEF LookedUp, KeepsEntry
  <1>. QED  BY <1>1, <1>2, <1>3

\* What GenerateModulesFromTemplates gives for a module of the spec or of the status.
LEMMA LookupGives ==
    ASSUME CatalogOK, Lossless, labels.beta = TRUE, window \in {"active", "inactive", "unknown"},
           NEW spec, spec.channel \in Channels, ChannelsOK(spec.modules),
           NEW entries, \A n \in DOMAIN entries : IsEntry(entries[n]),
           NEW m \in DOMAIN spec.modules \cup DOMAIN entries
    PROVE  LookedUp(m, GenerateModulesFromTemplates([spec |-> spec, status |-> entries, labels |-> labels],
                                                    catalog, window, {}, Modules \X Versions)[m],
                    spec, entries, window)
  <1>. DEFINE kyma == [spec |-> spec, status |-> entries, labels |-> labels]
  <1>1. PICK info : info = FetchModuleInfo(spec, entries)[m]
    OBVIOUS
  <1>2. PICK found : found = GetRegularTemplate(m, info, kyma, catalog, window, {}, Modules \X Versions)
    BY Zenon
  <1>3. PICK module : module = appendModuleWithInformation(m, info, found, catalog.templates, Modules \X Versions)
    OBVIOUS
  <1>4. GenerateModulesFromTemplates(kyma, catalog, window, {}, Modules \X Versions)[m] = module
    BY <1>1, <1>2, <1>3 DEF GenerateModulesFromTemplates, FetchModuleInfo
  <1>5. LookedUp(m, module, spec, entries, window)
    BY <1>1, <1>2, <1>3, InfoGives, RegularGives, Zenon
  <1>. QED  BY <1>4, <1>5

(***************************************************************************)
(* Every step keeps the invariant.                                         *)
(***************************************************************************)
LEMMA Initially == Init => IInv
  <1>. SUFFICES ASSUME Init PROVE IInv
    OBVIOUS
  <1>1. NewTemplate \in [Modules \X Versions -> ModuleTemplate]
    BY KymaModulesAssumption
  <1>2. \A t \in Modules \X Versions : IsTemplate(t, NewTemplate[t])
    BY <1>1 DEF IsTemplate, ModuleTemplate
  <1>3. (CHOOSE v \in Versions : \A w \in Versions : v <= w) \in Versions
    BY KymaModulesAssumption
  <1>4. \A m \in Modules : IsMeta(m, NewMeta(m))
    BY <1>3, Zenon DEF IsMeta, NewMeta
  <1>5. CatalogOK
    BY <1>1, <1>2, <1>4 DEF Init, CatalogOK
  <1>6. SpecOK
    BY LookupAssumption DEF Init, SpecOK, ChannelsOK
  <1>7. ManifestsOK /\ Control /\ Synced /\ Kept
    BY DEF Init, ManifestsOK, Control, Synced, Kept
  <1>8. StatusOK
    BY DEF Init, StatusOK, Idle, IsWork
  <1>. QED  BY <1>5, <1>6, <1>7, <1>8 DEF IInv

\* Some parts of the invariant depend on few variables.
LEMMA CatalogFrame == CatalogOK /\ catalog' = catalog => CatalogOK'
  BY DEF CatalogOK

LEMMA ManifestsFrame == ManifestsOK /\ manifests' = manifests => ManifestsOK'
  BY DEF ManifestsOK

\* A reconciliation begins.
LEMMA StartGives ==
    ASSUME IInv, Start
    PROVE  /\ pc = "idle" /\ pc' = "prepare"
           /\ UNCHANGED <<catalog, remote, kcp, labels, window, manifests, status>>
           /\ work'.status = status.modules /\ work'.spec = Idle.spec /\ ~work'.stale
           /\ ~work'.failed /\ IsWork(work')
  <1>1. ~labels.skip
    BY DEF IInv, SpecOK
  <1>2. /\ pc = "idle" /\ pc' = "prepare" /\ UNCHANGED <<catalog, remote, kcp, labels, window, manifests, status>>
        /\ work' = [Idle EXCEPT !.status = status.modules, !.state = status.state, !.stale = FALSE]
    BY <1>1, Zenon DEF Start, Begin, clusterVars
  <1>3. work'.status = status.modules /\ work'.spec = Idle.spec /\ ~work'.stale /\ ~work'.failed /\ IsWork(work')
    BY <1>2, Zenon DEF Idle, IsWork
  <1>. QED  BY <1>2, <1>3

LEMMA StartKeeps == ASSUME IInv, Start PROVE IInv'
  <1>2. /\ pc = "idle" /\ pc' = "prepare"
        /\ UNCHANGED <<catalog, remote, kcp, labels, window, manifests, status>>
        /\ work'.status = status.modules /\ work'.spec = Idle.spec /\ ~work'.stale
        /\ ~work'.failed /\ IsWork(work')
    BY StartGives
  <1>4. CatalogOK' /\ ManifestsOK'
    BY <1>2, CatalogFrame, ManifestsFrame DEF IInv
  <1>5. SpecOK'
    BY <1>2 DEF IInv, SpecOK
  <1>6. StatusOK'
    BY <1>2 DEF IInv, StatusOK
  <1>7. Control' /\ Synced'
    BY <1>2 DEF Control, Synced
  <1>8. Kept'
    BY <1>2 DEF IInv, Kept, Agree
  <1>. QED  BY <1>4, <1>5, <1>6, <1>7, <1>8 DEF IInv

\* Entries that differ in the state only.
SameButState(entries, others) ==
    /\ DOMAIN entries = DOMAIN others
    /\ \A m \in DOMAIN entries :
          /\ IsEntry(entries[m])
          /\ entries[m].template = others[m].template
          /\ entries[m].version = others[m].version
          /\ entries[m].channel = others[m].channel
          /\ entries[m].manifest = others[m].manifest

\* A reconciliation ends, with the status as it was or with the entries it worked on.
LEMMA ReturnKeeps ==
    ASSUME IInv, pc \in {"prepare", "finish", "remote"}, pc' = "idle", work' = Idle,
           UNCHANGED <<catalog, kcp, labels, window, manifests>>,
           SpecOK',
           \/ SameButState(status'.modules, work.status)
           \/ status' = status /\ pc \in {"prepare", "remote"}
    PROVE  IInv'
  <1>1. CatalogOK' /\ ManifestsOK'
    BY CatalogFrame, ManifestsFrame DEF IInv
  <1>2. \A m \in DOMAIN status'.modules : IsEntry(status'.modules[m])
    BY DEF IInv, StatusOK, SameButState
  <1>3. StatusOK'
    BY <1>2 DEF StatusOK, Idle, IsWork
  <1>4. Control' /\ Synced'
    BY DEF Control, Synced
  <1>5. \A m \in DOMAIN manifests : Agree(m, work.status)
    BY DEF IInv, Kept
  <1>6. status' = status /\ pc \in {"prepare", "remote"} => status'.modules = work.status
    BY DEF IInv, StatusOK
  <1>7. \A m \in DOMAIN manifests : Agree(m, status.modules)'
    BY <1>5, <1>6 DEF SameButState, Agree, Installed
  <1>8. Kept'
    BY <1>7 DEF Kept
  <1>. QED  BY <1>1, <1>3, <1>4, <1>8 DEF IInv

\* The entries a reconciliation worked on, with or without their states.
LEMMA Unaltered == ASSUME IInv PROVE SameButState(work.status, work.status)
  BY DEF IInv, StatusOK, SameButState

LEMMA Errors == ASSUME IInv PROVE SameButState(setModuleStatusesToError(work.status), work.status)
  <1>1. \A m \in DOMAIN work.status : IsEntry(work.status[m])
    BY DEF IInv, StatusOK
  <1>2. \A e : IsEntry(e) => /\ IsEntry([e EXCEPT !.state = "Error"])
                             /\ [e EXCEPT !.state = "Error"].template = e.template
                             /\ [e EXCEPT !.state = "Error"].version = e.version
                             /\ [e EXCEPT !.state = "Error"].channel = e.channel
                             /\ [e EXCEPT !.state = "Error"].manifest = e.manifest
    BY DEF IsEntry
  <1>. QED  BY <1>1, <1>2 DEF SameButState, setModuleStatusesToError

\* UpdateStatusForExistingModules is not refused.
LEMMA Patched ==
    ASSUME IInv, pc # "idle", NEW state, NEW entries, UpdateStatusForExistingModules(state, entries)
    PROVE  status' = [state |-> state, modules |-> entries] /\ status'.modules = entries
  BY DEF IInv, StatusOK, UpdateStatusForExistingModules

\* The spec of the Kyma, when a step leaves the inputs alone.
LEMMA SpecFrame ==
    ASSUME SpecOK, UNCHANGED <<remote, kcp, labels, window>>,
           pc' \in {"idle", "prepare", "delete", "finish", "remote"}
    PROVE  SpecOK'
  BY DEF SpecOK

LEMMA ErrorsKeep ==
    ASSUME IInv, Lossless, ConnectFails \/ SyncFails \/ syncStatusFails
    PROVE  IInv'
  <1>1. PICK entries \in {setModuleStatusesToError(work.status), work.status} :
            UpdateStatusForExistingModules("Error", entries)
    BY DEF ConnectFails, SyncFails, syncStatusFails, failWithError
  <1>2. /\ pc \in {"prepare", "remote"} /\ UNCHANGED <<catalog, kcp, labels, window, manifests, remote>>
        /\ pc' = "idle" /\ work' = Idle
    BY DEF ConnectFails, SyncFails, syncStatusFails, clusterVars, failWithError, Return
  <1>3. status'.modules = entries
    BY <1>1, <1>2, Patched
  <1>4. SameButState(status'.modules, work.status)
    BY <1>1, <1>3, Unaltered, Errors
  <1>5. SpecOK'
    BY <1>2, SpecFrame DEF IInv
  <1>. QED  BY <1>2, <1>4, <1>5, ReturnKeeps

LEMMA EnsureKeeps == ASSUME IInv, EnsureLabelsAndFinalizers PROVE IInv'
  <1>1. /\ pc = "prepare" /\ UNCHANGED <<catalog, kcp, labels, window, manifests, remote, status>>
        /\ pc' = "idle" /\ work' = Idle
    BY DEF EnsureLabelsAndFinalizers, Return
  <1>2. SpecOK'
    BY <1>1, SpecFrame DEF IInv
  <1>. QED  BY <1>1, <1>2, ReturnKeeps

\* The remote Kyma that is found or made.
LEMMA RemoteFetched ==
    ASSUME SpecOK, NEW r, r = CreateOrFetchKyma(remote)
    PROVE  /\ r = [exists |-> r.exists, channel |-> r.channel, modules |-> r.modules, state |-> r.state]
           /\ r.channel \in Channels \cup {"none"} /\ ChannelsOK(r.modules)
  <1>1. CASE remote.exists
    BY <1>1 DEF CreateOrFetchKyma, SpecOK
  <1>2. CASE ~remote.exists
    <2>. DEFINE modules == [m \in kcp.modules |-> [channel |-> "unset", managed |-> TRUE]]
    <2>1. ChannelsOK(modules)
      BY DEF ChannelsOK
    <2>. HIDE DEF modules
    <2>2. r = [remote EXCEPT !.exists = TRUE, !.channel = kcp.channel, !.modules = modules]
      BY <1>2 DEF CreateOrFetchKyma, modules
    <2>. QED  BY <2>1, <2>2, Zenon DEF SpecOK
  <1>. QED  BY <1>1, <1>2

LEMMA StatusToRemoteKeeps == ASSUME IInv, syncStatusToRemote PROVE IInv'
  <1>1. /\ pc = "remote" /\ UNCHANGED <<catalog, kcp, labels, window, manifests, status>>
        /\ pc' = "idle" /\ work' = Idle
        /\ remote' = [CreateOrFetchKyma(remote) EXCEPT !.state = work.state]
    BY DEF syncStatusToRemote, Return, clusterVars
  <1>2. PICK r : r = CreateOrFetchKyma(remote)
    OBVIOUS
  <1>3. remote' = [exists |-> r.exists, channel |-> r.channel, modules |-> r.modules, state |-> work.state]
        /\ r.channel \in Channels \cup {"none"} /\ ChannelsOK(r.modules)
    BY <1>1, <1>2, RemoteFetched DEF IInv
  <1>4. /\ remote' = [exists |-> remote'.exists, channel |-> remote'.channel, modules |-> remote'.modules,
                      state |-> remote'.state]
        /\ remote'.channel \in Channels \cup {"none"} /\ ChannelsOK(remote'.modules)
    BY <1>3
  <1>5. SpecOK'
    BY <1>1, <1>4 DEF IInv, SpecOK
  <1>. QED  BY <1>1, <1>5, ReturnKeeps

LEMMA ReplaceKeeps == ASSUME IInv, Lossless, replaceSpecFromRemote PROVE IInv'
  <1>1. /\ pc = "prepare" /\ UNCHANGED <<catalog, kcp, labels, window, manifests>>
        /\ remote' = CreateOrFetchKyma(remote)
    BY DEF replaceSpecFromRemote, clusterVars
  <1>2. /\ remote' = [exists |-> remote'.exists, channel |-> remote'.channel, modules |-> remote'.modules,
                      state |-> remote'.state]
        /\ remote'.channel \in Channels \cup {"none"} /\ ChannelsOK(remote'.modules)
    BY <1>1, RemoteFetched DEF IInv
  <1>3. CASE ValidateDefaultChannel(ReplaceSpec(remote'))
    <2>1. /\ pc' \in {"finish", "lookup"} /\ work' = [work EXCEPT !.spec = ReplaceSpec(remote')]
          /\ status' = status
      BY <1>3 DEF replaceSpecFromRemote
    <2>2. work'.spec.channel \in Channels /\ ChannelsOK(work'.spec.modules)
      BY <1>2, <1>3, <2>1 DEF ValidateDefaultChannel, ReplaceSpec, IInv, StatusOK, IsWork
    <2>3. work'.status = work.status /\ ~work'.stale /\ ~work'.failed /\ IsWork(work')
      BY <1>1, <2>1 DEF IInv, StatusOK, IsWork
    <2>4. CatalogOK' /\ ManifestsOK'
      BY <1>1, CatalogFrame, ManifestsFrame DEF IInv
    <2>5. SpecOK'
      BY <1>1, <1>2, <2>1, <2>2 DEF IInv, SpecOK
    <2>6. StatusOK'
      BY <1>1, <2>1, <2>3 DEF IInv, StatusOK
    <2>7. Control' /\ Synced'
      BY <2>1 DEF Control, Synced
    <2>8. Kept'
      BY <1>1, <2>1, <2>3 DEF IInv, Kept, Agree
    <2>. QED  BY <2>4, <2>5, <2>6, <2>7, <2>8 DEF IInv
  <1>4. CASE ~ValidateDefaultChannel(ReplaceSpec(remote'))
    <2>1. updateStatusWithError(work.status)
      BY <1>4 DEF replaceSpecFromRemote
    <2>2. pc' = "idle" /\ work' = Idle /\ UpdateStatusForExistingModules("Error", work.status)
      BY <2>1 DEF updateStatusWithError, Return, Fail, Lossless
    <2>3. SameButState(status'.modules, work.status)
      BY <1>1, <2>2, Patched, Unaltered
    <2>4. SpecOK'
      BY <1>1, <1>2, <2>2 DEF IInv, SpecOK
    <2>. QED  BY <1>1, <2>2, <2>3, <2>4, ReturnKeeps
  <1>. QED  BY <1>3, <1>4

\* The status is patched, and the reconciliation goes on to the SKR.
LEMMA PatchKeeps ==
    ASSUME IInv, pc = "finish", pc' = "remote", NEW state, work' = [work EXCEPT !.state = state],
           status'.modules = work.status, UNCHANGED <<catalog, kcp, labels, window, manifests, remote>>
    PROVE  IInv'
  <1>1. work'.status = work.status /\ ~work'.stale /\ IsWork(work')
    BY DEF IInv, StatusOK, IsWork
  <1>2. CatalogOK' /\ ManifestsOK' /\ SpecOK'
    BY CatalogFrame, ManifestsFrame, SpecFrame DEF IInv
  <1>3. StatusOK'
    BY <1>1 DEF IInv, StatusOK
  <1>4. Control' /\ Synced'
    BY DEF Control, Synced
  <1>5. Kept'
    BY <1>1 DEF IInv, Kept, Agree
  <1>. QED  BY <1>2, <1>3, <1>4, <1>5 DEF IInv

LEMMA InitialStateKeeps == ASSUME IInv, Lossless, handleInitialState PROVE IInv'
  <1>1. /\ pc = "finish" /\ UNCHANGED <<catalog, kcp, labels, window, manifests, remote>>
        /\ UpdateStatusForExistingModules("Processing", work.status)
        /\ ~work.stale => work' = [work EXCEPT !.state = "Processing"] /\ pc' = "remote"
    BY DEF handleInitialState, clusterVars, Fail, Lossless
  <1>2. ~work.stale
    BY <1>1 DEF IInv, StatusOK
  <1>3. status'.modules = work.status
    BY <1>1, Patched
  <1>. QED  BY <1>1, <1>2, <1>3, PatchKeeps

LEMMA ProcessingStateKeeps == ASSUME IInv, Lossless, handleProcessingState PROVE IInv'
  <1>1. pc = "finish" /\ UNCHANGED <<catalog, kcp, labels, window, manifests, remote>>
    BY DEF handleProcessingState, clusterVars
  <1>2. \/ pc' = "idle" /\ work' = Idle /\ UpdateStatusForExistingModules("Error", work.status)
        \/ /\ pc' = "remote"
           /\ \E state : /\ UpdateStatusForExistingModules(state, work.status)
                         /\ work' = [work EXCEPT !.state = state]
    BY Zenon DEF handleProcessingState, updateStatusWithError, failWithError, Return, Fail, Lossless
  <1>3. CASE pc' = "idle" /\ work' = Idle /\ UpdateStatusForExistingModules("Error", work.status)
    <2>1. SameButState(status'.modules, work.status)
      BY <1>1, <1>3, Patched, Unaltered
    <2>2. SpecOK'
      BY <1>1, <1>3, SpecFrame DEF IInv
    <2>. QED  BY <1>1, <1>3, <2>1, <2>2, ReturnKeeps
  <1>4. CASE /\ pc' = "remote"
             /\ \E state : /\ UpdateStatusForExistingModules(state, work.status)
                           /\ work' = [work EXCEPT !.state = state]
    <2>1. PICK state : /\ UpdateStatusForExistingModules(state, work.status)
                       /\ work' = [work EXCEPT !.state = state]
      BY <1>4
    <2>2. status'.modules = work.status
      BY <1>1, <2>1, Patched
    <2>. QED  BY <1>1, <1>4, <2>1, <2>2, PatchKeeps
  <1>. QED  BY <1>2, <1>3, <1>4

LEMMA LookupKeeps == ASSUME IInv, Lossless, LookupTemplates PROVE IInv'
  <1>. DEFINE kyma == [spec |-> work.spec, status |-> work.status, labels |-> labels]
              modules == GenerateModulesFromTemplates(kyma, catalog, window, {}, Modules \X Versions)
  <1>1. /\ pc = "lookup" /\ pc' = "sync"
        /\ UNCHANGED <<catalog, kcp, labels, window, manifests, remote, status>>
        /\ work' = [work EXCEPT !.modules = modules, !.todo = DOMAIN modules,
                                !.states = [m \in DOMAIN modules |-> "unset"], !.window = window]
    <2>1. (Modules \X Versions) \ ({} \ descriptors) = Modules \X Versions
      BY ZenonT(60)
    <2>. QED  BY <2>1 DEF LookupTemplates, LookupWith
  <1>2. DOMAIN modules = DOMAIN work.spec.modules \cup DOMAIN work.status
    BY Zenon DEF GenerateModulesFromTemplates, FetchModuleInfo
  <1>3. \A m \in DOMAIN modules : LookedUp(m, modules[m], work.spec, work.status, window)
    BY <1>1, <1>2, LookupGives, Zenon DEF IInv, SpecOK, StatusOK
  <1>. HIDE DEF modules
  <1>4. /\ work'.status = work.status /\ work'.spec = work.spec /\ ~work'.stale /\ ~work'.failed
        /\ work'.modules = modules /\ work'.todo = DOMAIN modules /\ work'.window = window /\ IsWork(work')
    BY <1>1, Zenon DEF IInv, StatusOK, IsWork
  <1>5. CatalogOK' /\ ManifestsOK'
    BY <1>1, CatalogFrame, ManifestsFrame DEF IInv
  <1>6. SpecOK'
    BY <1>1, <1>4 DEF IInv, SpecOK
  <1>7. StatusOK'
    BY <1>1, <1>4 DEF IInv, StatusOK
  <1>8. Control' /\ Kept'
    BY <1>1 DEF Control, Kept
  <1>9. \A m \in DOMAIN manifests : Agree(m, work.status)'
    BY <1>1, <1>4 DEF IInv, Kept, Agree
  <1>10. \A m \in DOMAIN modules : LookedUp(m, work'.modules[m], work'.spec, work'.status, work'.window)
    BY <1>3, <1>4
  <1>11. \A m \in DOMAIN manifests : m \in work'.todo \/ m \notin DOMAIN work'.modules
    BY <1>4
  <1>12. Synced'
    BY <1>1, <1>2, <1>4, <1>9, <1>10, <1>11, Zenon DEF Synced
  <1>. QED  BY <1>5, <1>6, <1>7, <1>8, <1>12 DEF IInv

\* What the force apply makes of one Manifest.
LEMMA ManifestPatched ==
    ASSUME ManifestsOK, NEW m, NEW module, module.version \in Versions
    PROVE  /\ IsManifest(patchManifest(m, module)) /\ patchManifest(m, module).version = module.version
           /\ patchManifest(m, module).channel = module.channel
           /\ patchManifest(m, module).unmanaged = module.unmanaged
  <1>1. CASE m \in DOMAIN manifests
    <2>1. IsManifest(manifests[m])
      BY <1>1 DEF ManifestsOK
    <2>2. patchManifest(m, module) = [[manifests[m] EXCEPT !.version = module.version]
                                         EXCEPT !.channel = module.channel, !.unmanaged = module.unmanaged]
      BY <1>1 DEF patchManifest, ApplyDefaultMetaToManifest
    <2>. QED  BY <2>1, <2>2, Zenon DEF IsManifest
  <1>2. CASE m \notin DOMAIN manifests
    <2>. DEFINE new == [version |-> module.version, channel |-> "unset", unmanaged |-> FALSE,
                        deleting |-> FALSE, state |-> "unset", seen |-> 0]
    <2>1. patchManifest(m, module) = ApplyDefaultMetaToManifest(new, module)
      BY <1>2 DEF patchManifest
    <2>2. /\ new = [version |-> new.version, channel |-> new.channel, unmanaged |-> new.unmanaged,
                    deleting |-> new.deleting, state |-> new.state, seen |-> new.seen]
          /\ new.version = module.version
      OBVIOUS
    <2>. HIDE DEF new
    <2>3. patchManifest(m, module) = [new EXCEPT !.channel = module.channel, !.unmanaged = module.unmanaged]
      BY <2>1 DEF ApplyDefaultMetaToManifest
    <2>. QED  BY <2>2, <2>3, Zenon DEF IsManifest
  <1>. QED  BY <1>1, <1>2

\* What updateManifest makes of the Manifests.
Rewrites(m, module, new) ==
    /\ \A n \in DOMAIN manifests \ {m} : n \in DOMAIN new /\ new[n] = manifests[n]
    /\ DOMAIN new \subseteq DOMAIN manifests \cup {m}
    /\ m \in DOMAIN new =>
          /\ IsManifest(new[m])
          /\ ~new[m].unmanaged => ~module.unmanaged /\ new[m].version = module.version
          /\ m \in DOMAIN manifests => new[m].version \in {module.version, manifests[m].version}

LEMMA ManifestUpdated ==
    ASSUME ManifestsOK, NEW m, NEW module, module.version \in Versions, module.unmanaged => module.enabled
    PROVE  Rewrites(m, module, updateManifest(m, module))
  <1>1. CASE ~NeedToUpdate(m, module)
    <2>1. updateManifest(m, module) = manifests
      BY <1>1 DEF updateManifest
    <2>2. m \in DOMAIN manifests /\ ~manifests[m].unmanaged =>
              ~module.unmanaged /\ manifests[m].version = module.version
      BY <1>1 DEF NeedToUpdate
    <2>3. m \in DOMAIN manifests => IsManifest(manifests[m])
      BY DEF ManifestsOK
    <2>. QED  BY <2>1, <2>2, <2>3 DEF Rewrites
  <1>2. CASE NeedToUpdate(m, module) /\ module.enabled
    <2>1. updateManifest(m, module) = With(manifests, m, patchManifest(m, module))
      BY <1>2 DEF updateManifest
    <2>2. /\ IsManifest(patchManifest(m, module)) /\ patchManifest(m, module).version = module.version
          /\ patchManifest(m, module).unmanaged = module.unmanaged
      BY ManifestPatched
    <2>. QED  BY <2>1, <2>2 DEF With, Rewrites
  <1>3. CASE NeedToUpdate(m, module) /\ ~module.enabled /\ m \in DOMAIN manifests
    <2>1. updateManifest(m, module) = With(manifests, m, [manifests[m] EXCEPT !.version = module.version])
      BY <1>3 DEF updateManifest, updateAvailableManifestSpec
    <2>2. /\ IsManifest([manifests[m] EXCEPT !.version = module.version])
          /\ [manifests[m] EXCEPT !.version = module.version].version = module.version
      BY <1>3 DEF ManifestsOK, IsManifest
    <2>. QED  BY <1>3, <2>1, <2>2, Zenon DEF With, Rewrites
  <1>4. CASE NeedToUpdate(m, module) /\ ~module.enabled /\ m \notin DOMAIN manifests
    <2>1. updateManifest(m, module) = manifests
      BY <1>4 DEF updateManifest
    <2>. QED  BY <1>4, <2>1 DEF Rewrites
  <1>. QED  BY <1>1, <1>2, <1>3, <1>4, Zenon

\* What the goroutine of a module does to the Manifests and to the work that is left.
LEMMA SyncGives ==
    ASSUME IInv, NEW m, SyncModule(m)
    PROVE  /\ pc = "sync" /\ pc' = "sync" /\ m \in work.todo
           /\ UNCHANGED <<catalog, kcp, labels, window, remote, status>>
           /\ work'.status = work.status /\ work'.spec = work.spec /\ ~work'.stale /\ ~work'.failed
           /\ work'.modules = work.modules /\ work'.todo = work.todo \ {m} /\ work'.window = work.window
           /\ IsWork(work')
           /\ IF work.modules[m].err = "nil" THEN manifests' = updateManifest(m, work.modules[m])
              ELSE manifests' = manifests
  <1>1. pc = "sync" /\ pc' = "sync" /\ m \in work.todo /\ UNCHANGED <<catalog, kcp, labels, window, remote, status>>
    BY DEF SyncModule, clusterVars
  <1>2. m \in DOMAIN work.modules
    BY <1>1 DEF IInv, Synced
  <1>3. LookedUp(m, work.modules[m], work.spec, work.status, work.window)
    BY <1>1, <1>2 DEF IInv, Synced
  <1>4. work.modules[m].err # "notAllowed"
    BY <1>3, Zenon DEF LookedUp
  <1>5. IsWork(work) /\ ~work.stale /\ ~work.failed
    BY <1>1 DEF IInv, StatusOK
  <1>6. CASE work.modules[m].err = "nil"
    <2>1. PICK x : work' = [work EXCEPT !.todo = @ \ {m}, !.states[m] = x]
      BY <1>6, Zenon DEF SyncModule
    <2>2. manifests' = updateManifest(m, work.modules[m])
      BY <1>6 DEF SyncModule
    <2>. QED  BY <1>1, <1>5, <1>6, <2>1, <2>2, Zenon DEF IsWork
  <1>7. CASE work.modules[m].err # "nil"
    <2>1. work' = [work EXCEPT !.todo = @ \ {m}] /\ manifests' = manifests
      BY <1>4, <1>7 DEF SyncModule
    <2>. QED  BY <1>1, <1>5, <1>7, <2>1 DEF IsWork
  <1>. QED  BY <1>6, <1>7

LEMMA SyncOthers ==
    ASSUME IInv, NEW m, SyncModule(m)
    PROVE  /\ m \in DOMAIN work.modules /\ LookedUp(m, work.modules[m], work.spec, work.status, work.window)
           /\ work.modules[m].err = "nil" =>
                 work.modules[m].version \in Versions /\ (work.modules[m].unmanaged => work.modules[m].enabled)
           /\ work.modules[m].err = "nil" => Rewrites(m, work.modules[m], manifests')
           /\ \A n \in DOMAIN manifests' \ {m} : n \in DOMAIN manifests /\ manifests'[n] = manifests[n]
  <1>. DEFINE module == work.modules[m]
  <1>1. m \in DOMAIN work.modules
    BY SyncGives, Zenon DEF IInv, Synced
  <1>2. LookedUp(m, module, work.spec, work.status, work.window)
    BY <1>1, SyncGives, Zenon DEF IInv, Synced
  <1>3. module.err = "nil" => module.version \in Versions /\ (module.unmanaged => module.enabled)
    BY <1>2, Zenon DEF LookedUp
  <1>4. module.err = "nil" => Rewrites(m, module, manifests')
    <2>. SUFFICES ASSUME module.err = "nil"
                  PROVE  Rewrites(m, module, manifests')
      OBVIOUS
    <2>1. manifests' = updateManifest(m, module)
      BY SyncGives, Zenon
    <2>2. ManifestsOK
      BY Zenon DEF IInv
    <2>3. Rewrites(m, module, updateManifest(m, module))
      BY <1>3, <2>2, ManifestUpdated, ZenonT(60)
    <2>. QED  BY <2>1, <2>3, Zenon
  <1>5. \A n \in DOMAIN manifests' \ {m} : n \in DOMAIN manifests /\ manifests'[n] = manifests[n]
    BY <1>4, SyncGives, Zenon DEF Rewrites
  <1>. QED  BY <1>1, <1>2, <1>3, <1>4, <1>5, Zenon

LEMMA SyncKeeps == ASSUME IInv, NEW m, SyncModule(m) PROVE IInv'
  <1>. DEFINE module == work.modules[m]
  <1>1. m \in DOMAIN work.modules
    BY SyncOthers, Zenon
  <1>3. module.err = "nil" => module.version \in Versions /\ (module.unmanaged => module.enabled)
    BY SyncOthers, Zenon
  <1>4. \A n \in DOMAIN manifests' \ {m} : n \in DOMAIN manifests /\ manifests'[n] = manifests[n]
    BY SyncOthers, Zenon
  <1>5. m \in DOMAIN manifests' => IsManifest(manifests'[m])
    BY SyncOthers, SyncGives, ZenonT(60) DEF Rewrites, IInv, ManifestsOK
  <1>6. m \in DOMAIN manifests' /\ module.err = "nil" /\ ~manifests'[m].unmanaged =>
            ~module.unmanaged /\ manifests'[m].version = module.version
    BY SyncOthers, Zenon DEF Rewrites
  <1>7. m \in DOMAIN manifests' /\ module.err # "nil" =>
            m \in DOMAIN manifests /\ manifests'[m] = manifests[m] /\ Agree(m, work.status)
    BY SyncGives, Zenon DEF IInv, Synced
  <1>8. ManifestsOK'
    BY <1>4, <1>5, ZenonT(60) DEF IInv, ManifestsOK
  <1>9. CatalogOK'
    BY SyncGives, CatalogFrame, Zenon DEF IInv
  <1>10. SpecOK'
    BY SyncGives, Zenon DEF IInv, SpecOK
  <1>11. StatusOK'
    BY SyncGives DEF IInv, StatusOK
  <1>12. Control' /\ Kept'
    BY SyncGives, ZenonT(60) DEF Control, Kept
  <1>13. Synced'
    <2>1. /\ DOMAIN work'.status \subseteq DOMAIN work'.modules /\ work'.todo \subseteq DOMAIN work'.modules
          /\ \A n \in DOMAIN work'.modules :
                LookedUp(n, work'.modules[n], work'.spec, work'.status, work'.window)
      BY SyncGives, Zenon DEF IInv, Synced
    <2>2. ASSUME NEW n \in DOMAIN manifests'
          PROVE  IF n \in work'.todo \/ n \notin DOMAIN work'.modules \/ work'.modules[n].err # "nil"
                 THEN Agree(n, work.status)'
                 ELSE ~manifests'[n].unmanaged =>
                          ~work'.modules[n].unmanaged /\ manifests'[n].version = work'.modules[n].version
      <3>1. CASE n = m
        BY <1>1, <1>6, <1>7, <3>1, SyncGives, Zenon DEF Agree
      <3>2. CASE n # m
        <4>1. n \in DOMAIN manifests /\ manifests'[n] = manifests[n]
          BY <1>4, <3>2
        <4>2. Agree(n, work.status)' <=> Agree(n, work.status)
          BY <4>1, SyncGives, Zenon DEF Agree
        <4>3. IF n \in work.todo \/ n \notin DOMAIN work.modules \/ work.modules[n].err # "nil"
              THEN Agree(n, work.status)
              ELSE ~manifests[n].unmanaged =>
                       ~work.modules[n].unmanaged /\ manifests[n].version = work.modules[n].version
          BY <4>1, SyncGives, Zenon DEF IInv, Synced
        <4>4. work'.modules = work.modules /\ work'.todo = work.todo \ {m}
          BY SyncGives, Zenon
        <4>. QED  BY <3>2, <4>1, <4>2, <4>3, <4>4, Zenon
      <3>. QED  BY <3>1, <3>2, Zenon
    <2>. QED  BY <2>1, <2>2, SyncGives, Zenon DEF Synced
  <1>. QED  BY <1>8, <1>9, <1>10, <1>11, <1>12, <1>13 DEF IInv

LEMMA SyncEndsKeeps == ASSUME IInv, SyncEnds PROVE IInv'
  <1>1. /\ pc = "sync" /\ pc' = "status" /\ work.todo = {}
        /\ UNCHANGED <<catalog, kcp, labels, window, manifests, remote, status, work>>
    BY DEF SyncEnds, clusterVars, IInv, StatusOK
  <1>2. CatalogOK' /\ ManifestsOK'
    BY <1>1, CatalogFrame, ManifestsFrame DEF IInv
  <1>3. SpecOK'
    BY <1>1 DEF IInv, SpecOK
  <1>4. StatusOK'
    BY <1>1 DEF IInv, StatusOK
  <1>5. Control' /\ Kept'
    BY <1>1, Zenon DEF Control, Kept
  <1>6. Synced'
    BY <1>1, Zenon DEF IInv, Synced, Agree
  <1>. QED  BY <1>2, <1>3, <1>4, <1>5, <1>6 DEF IInv

\* The entry that the lookup and the Manifest give.
LEMMA EntryGiven ==
    ASSUME NEW m, NEW module, NEW manifestState, NEW spec, NEW entries, NEW active,
           LookedUp(m, module, spec, entries, active), m \in DOMAIN entries => IsEntry(entries[m]),
           NEW e, e = GenerateModuleStatus(m, module, manifestState, entries)
    PROVE  /\ IsEntry(e)
           /\ module.err = "nil" /\ ~module.unmanaged =>
                 e.template = module.generation /\ e.version = module.version
           /\ module.err # "nil" /\ Installed(m, entries) =>
                 e.template = entries[m].template /\ e.version = entries[m].version
  <1>1. CASE module.err = "nil"
    <2>1. module.channel \in Channels /\ module.generation # 0
      BY <1>1 DEF LookedUp
    <2>2. e = [state |-> IF module.unmanaged THEN "Unmanaged" ELSE manifestState,
               channel |-> module.channel, version |-> module.version, manifest |-> ~module.unmanaged,
               template |-> IF module.unmanaged THEN 0 ELSE module.generation, maintenance |-> FALSE]
      BY <1>1, Zenon DEF GenerateModuleStatus
    <2>3. /\ e.channel = module.channel /\ e.version = module.version
          /\ ~module.unmanaged => e.template = module.generation
      BY <2>2
    <2>4. e = [state |-> e.state, channel |-> e.channel, version |-> e.version, manifest |-> e.manifest,
               template |-> e.template, maintenance |-> e.maintenance]
      BY <2>2
    <2>. QED  BY <1>1, <2>1, <2>3, <2>4, Zenon DEF IsEntry
  <1>2. CASE module.err # "nil" /\ m \in DOMAIN entries /\ module.err \in KeepsEntry
    <2>1. e \in {[entries[m] EXCEPT !.maintenance = TRUE], [entries[m] EXCEPT !.state = "Error"],
                 [entries[m] EXCEPT !.state = "Warning"]}
      BY <1>2 DEF GenerateModuleStatus, GenerateModuleStatusFromError, KeepsEntry
    <2>2. IsEntry(entries[m])
      BY <1>2, Zenon
    <2>. QED  BY <1>2, <2>1, <2>2 DEF IsEntry
  <1>3. CASE module.err # "nil" /\ ~(m \in DOMAIN entries /\ module.err \in KeepsEntry)
    <2>1. PICK x : e = [newDefaultErrorStatus(module.channel) EXCEPT !.state = x]
      BY <1>3, Zenon DEF GenerateModuleStatus, GenerateModuleStatusFromError
    <2>2. IsEntry(e)
      BY <2>1, Zenon DEF newDefaultErrorStatus, IsEntry
    <2>3. ~Installed(m, entries)
      BY <1>3 DEF LookedUp, Installed
    <2>. QED  BY <1>3, <2>2, <2>3
  <1>. QED  BY <1>1, <1>2, <1>3, Zenon

\* Its reference to the Manifest.
LEMMA ReferenceGiven ==
    ASSUME NEW m, NEW module, NEW manifestState, NEW spec, NEW entries, NEW active,
           LookedUp(m, module, spec, entries, active), m \in DOMAIN entries => IsEntry(entries[m]),
           NEW e, e = GenerateModuleStatus(m, module, manifestState, entries)
    PROVE  /\ module.err = "nil" /\ ~module.unmanaged => e.manifest
           /\ module.err # "nil" /\ Installed(m, entries) /\ entries[m].manifest => e.manifest
  <1>1. CASE module.err = "nil" /\ ~module.unmanaged
    <2>. DEFINE managed == ~module.unmanaged
    <2>1. e = [state |-> IF module.unmanaged THEN "Unmanaged" ELSE manifestState,
               channel |-> module.channel, version |-> module.version, manifest |-> managed,
               template |-> IF module.unmanaged THEN 0 ELSE module.generation, maintenance |-> FALSE]
      BY <1>1, Zenon DEF GenerateModuleStatus
    <2>2. managed = TRUE
      BY <1>1, Zenon
    <2>. HIDE DEF managed
    <2>3. e.manifest = managed
      BY <2>1
    <2>. QED  BY <1>1, <2>2, <2>3, Zenon
  <1>2. CASE module.err # "nil" /\ Installed(m, entries) /\ entries[m].manifest
    <2>1. m \in DOMAIN entries /\ module.err \in KeepsEntry /\ IsEntry(entries[m])
      BY <1>2 DEF LookedUp, Installed
    <2>2. e \in {[entries[m] EXCEPT !.maintenance = TRUE], [entries[m] EXCEPT !.state = "Error"],
                 [entries[m] EXCEPT !.state = "Warning"]}
      BY <1>2, <2>1 DEF GenerateModuleStatus, GenerateModuleStatusFromError, KeepsEntry
    <2>3. e.manifest = entries[m].manifest
      BY <2>1, <2>2, Zenon DEF IsEntry
    <2>. QED  BY <1>2, <2>3, Zenon
  <1>. QED  BY <1>1, <1>2

\* The entries that stay.
Stay(generated, kept) ==
    /\ DOMAIN kept \subseteq DOMAIN generated
    /\ \A m \in DOMAIN kept :
          /\ IsEntry(kept[m]) /\ kept[m].manifest = generated[m].manifest
          /\ kept[m].template = generated[m].template /\ kept[m].version = generated[m].version
    /\ \A m \in DOMAIN manifests \cap DOMAIN generated : generated[m].manifest => m \in DOMAIN kept

LEMMA EntriesKept ==
    ASSUME NEW generated, NEW spec, NEW unread, NEW kept,
           \A m \in DOMAIN generated : IsEntry(generated[m]),
           kept = DeleteNoLongerExistingModuleStatus(generated, spec, unread)
    PROVE  Stay(generated, kept)
  <1>. DEFINE gone == {m \in GetNoLongerExistingModuleStatus(spec, generated) :
                         ~generated[m].manifest \/ (m \notin DOMAIN manifests /\ m \notin unread)}
  <1>1. DOMAIN kept = DOMAIN generated \ gone
    BY DEF DeleteNoLongerExistingModuleStatus
  <1>2. \A m \in DOMAIN kept : \E x : kept[m] \in {generated[m], [generated[m] EXCEPT !.state = x]}
    BY Zenon DEF DeleteNoLongerExistingModuleStatus
  <1>3. \A e, x : IsEntry(e) => /\ IsEntry([e EXCEPT !.state = x])
                                /\ [e EXCEPT !.state = x].template = e.template
                                /\ [e EXCEPT !.state = x].version = e.version
                                /\ [e EXCEPT !.state = x].manifest = e.manifest
    BY DEF IsEntry
  <1>4. \A m \in DOMAIN manifests \cap DOMAIN generated : generated[m].manifest => m \notin gone
    OBVIOUS
  <1>. HIDE DEF gone
  <1>5. ASSUME NEW m \in DOMAIN kept
        PROVE  /\ IsEntry(kept[m]) /\ kept[m].manifest = generated[m].manifest
               /\ kept[m].template = generated[m].template /\ kept[m].version = generated[m].version
    <2>1. IsEntry(generated[m])
      BY <1>1
    <2>2. PICK x : kept[m] \in {generated[m], [generated[m] EXCEPT !.state = x]}
      BY <1>2
    <2>3. CASE kept[m] = generated[m]
      BY <2>1, <2>3
    <2>4. CASE kept[m] = [generated[m] EXCEPT !.state = x]
      BY <1>3, <2>1, <2>4
    <2>. QED  BY <2>2, <2>3, <2>4
  <1>. QED  BY <1>1, <1>4, <1>5, Zenon DEF Stay

\* What UpdateModuleStatuses generates for a module that was looked up.
LEMMA EntryGenerated ==
    ASSUME IInv, pc = "status", NEW m \in DOMAIN work.modules, NEW e,
           e = GenerateModuleStatus(m, work.modules[m], work.states[m], work.status)
    PROVE  /\ IsEntry(e)
           /\ work.modules[m].err = "nil" /\ ~work.modules[m].unmanaged =>
                /\ e.manifest
                /\ e.template = work.modules[m].generation
                /\ e.version = work.modules[m].version
           /\ work.modules[m].err # "nil" /\ Installed(m, work.status) =>
                /\ work.status[m].manifest => e.manifest
                /\ e.template = work.status[m].template
                /\ e.version = work.status[m].version
  <1>1. PICK module, spec, entries, active, x :
            /\ module = work.modules[m] /\ spec = work.spec /\ entries = work.status
            /\ active = work.window /\ x = work.states[m]
    BY Zenon
  <1>2. m \in DOMAIN entries => IsEntry(entries[m])
    BY <1>1, Zenon DEF IInv, StatusOK
  <1>3. LookedUp(m, module, spec, entries, active)
    BY <1>1, Zenon DEF IInv, Synced
  <1>4. e = GenerateModuleStatus(m, module, x, entries)
    BY <1>1, ZenonT(60)
  <1>5. /\ IsEntry(e)
        /\ module.err = "nil" /\ ~module.unmanaged =>
              e.template = module.generation /\ e.version = module.version
        /\ module.err # "nil" /\ Installed(m, entries) =>
              e.template = entries[m].template /\ e.version = entries[m].version
    BY <1>2, <1>3, <1>4, EntryGiven
  <1>6. /\ module.err = "nil" /\ ~module.unmanaged => e.manifest
        /\ module.err # "nil" /\ Installed(m, entries) /\ entries[m].manifest => e.manifest
    BY <1>2, <1>3, <1>4, ReferenceGiven, Zenon
  <1>. QED  BY <1>1, <1>5, <1>6, Zenon

LEMMA UpdateKeeps == ASSUME IInv, NEW unread, UpdateModuleStatuses(unread) PROVE IInv'
  <1>0. PICK generated, kept :
            /\ generated = [m \in DOMAIN work.modules |->
                              GenerateModuleStatus(m, work.modules[m], work.states[m], work.status)]
            /\ kept = DeleteNoLongerExistingModuleStatus(generated, work.spec, unread)
    BY Zenon
  <1>1. /\ pc = "status" /\ pc' = "delete"
        /\ UNCHANGED <<catalog, kcp, labels, window, manifests, remote, status>>
        /\ \E todo : work' = [work EXCEPT !.status = kept, !.todo = todo]
    BY <1>0, Zenon DEF UpdateModuleStatuses, clusterVars
  <1>2. \A m \in DOMAIN work.modules :
            LookedUp(m, work.modules[m], work.spec, work.status, work.window)
    BY <1>1 DEF IInv, Synced
  <1>3. ASSUME NEW m \in DOMAIN work.modules
        PROVE  /\ IsEntry(generated[m])
               /\ work.modules[m].err = "nil" /\ ~work.modules[m].unmanaged =>
                    /\ generated[m].manifest
                    /\ generated[m].template = work.modules[m].generation
                    /\ generated[m].version = work.modules[m].version
               /\ work.modules[m].err # "nil" /\ Installed(m, work.status) =>
                    /\ work.status[m].manifest => generated[m].manifest
                    /\ generated[m].template = work.status[m].template
                    /\ generated[m].version = work.status[m].version
    <2>1. generated[m] = GenerateModuleStatus(m, work.modules[m], work.states[m], work.status)
      BY <1>0, Zenon
    <2>. QED  BY <1>1, <2>1, EntryGenerated, Zenon
  <1>4. DOMAIN generated = DOMAIN work.modules
    BY <1>0, Zenon
  <1>5. /\ DOMAIN kept \subseteq DOMAIN generated
        /\ \A m \in DOMAIN kept :
              /\ IsEntry(kept[m]) /\ kept[m].manifest = generated[m].manifest
              /\ kept[m].template = generated[m].template /\ kept[m].version = generated[m].version
        /\ \A m \in DOMAIN manifests \cap DOMAIN generated : generated[m].manifest => m \in DOMAIN kept
    <2>1. \A m \in DOMAIN generated : IsEntry(generated[m])
      BY <1>3, <1>4, Zenon
    <2>2. kept = DeleteNoLongerExistingModuleStatus(generated, work.spec, unread)
      BY <1>0, Zenon
    <2>3. Stay(generated, kept)
      BY <2>1, <2>2, EntriesKept, Zenon
    <2>. QED  BY <2>3, Zenon DEF Stay
  <1>6. \A m \in DOMAIN manifests : Agree(m, kept)
    <2>. SUFFICES ASSUME NEW m \in DOMAIN manifests, ~manifests[m].unmanaged
                  PROVE  Installed(m, kept) /\ kept[m].manifest /\ kept[m].version = manifests[m].version
      BY DEF Agree
    <2>0. work.todo = {} /\ DOMAIN work.status \subseteq DOMAIN work.modules
      BY <1>1 DEF IInv, Synced
    <2>1. CASE m \in DOMAIN work.modules /\ work.modules[m].err = "nil"
      <3>1. ~work.modules[m].unmanaged /\ manifests[m].version = work.modules[m].version
        BY <1>1, <2>0, <2>1 DEF IInv, Synced
      <3>2. work.modules[m].generation # 0
        BY <1>2, <2>1, Zenon DEF LookedUp
      <3>3. /\ generated[m].manifest /\ generated[m].template # 0
            /\ generated[m].version = manifests[m].version
        BY <1>3, <2>1, <3>1, <3>2
      <3>. QED  BY <1>4, <1>5, <2>1, <3>3 DEF Installed
    <2>2. CASE m \notin DOMAIN work.modules \/ work.modules[m].err # "nil"
      <3>1. Agree(m, work.status)
        BY <1>1, <2>2 DEF IInv, Synced
      <3>2. Installed(m, work.status) /\ work.status[m].manifest /\ work.status[m].version = manifests[m].version
        BY <3>1 DEF Agree
      <3>3. m \in DOMAIN work.modules
        BY <2>0, <3>2 DEF Installed
      <3>4. /\ generated[m].manifest /\ generated[m].template # 0
            /\ generated[m].version = manifests[m].version
        BY <1>3, <2>2, <3>2, <3>3 DEF Installed
      <3>. QED  BY <1>4, <1>5, <3>2, <3>3, <3>4 DEF Installed
    <2>. QED  BY <2>1, <2>2
  <1>7. work'.status = kept /\ ~work'.stale /\ IsWork(work')
    BY <1>1, Zenon DEF IInv, StatusOK, IsWork
  <1>8. CatalogOK' /\ ManifestsOK' /\ SpecOK'
    BY <1>1, CatalogFrame, ManifestsFrame, SpecFrame DEF IInv
  <1>9. StatusOK'
    BY <1>1, <1>5, <1>7 DEF IInv, StatusOK
  <1>10. Control' /\ Synced'
    BY <1>1 DEF Control, Synced
  <1>11. Kept'
    BY <1>1, <1>6, <1>7 DEF Kept, Agree
  <1>. QED  BY <1>8, <1>9, <1>10, <1>11 DEF IInv

\* Manifests that go, or change in what the status does not tell.
Moves ==
    \A n \in DOMAIN manifests' :
        /\ n \in DOMAIN manifests /\ IsManifest(manifests'[n])
        /\ manifests'[n].version = manifests[n].version /\ manifests'[n].channel = manifests[n].channel
        /\ manifests'[n].unmanaged = manifests[n].unmanaged

LEMMA MoveKeeps ==
    ASSUME IInv, Moves, UNCHANGED <<catalog, kcp, labels, window, remote, status, pc>>,
           \/ work' = work
           \/ /\ pc = "delete" /\ work'.status = work.status /\ ~work'.stale /\ IsWork(work')
    PROVE  IInv'
  <1>1. CatalogOK' /\ ManifestsOK'
    BY CatalogFrame DEF IInv, Moves, ManifestsOK
  <1>2. SpecOK'
    BY Zenon DEF IInv, SpecOK
  <1>3. StatusOK'
    BY DEF IInv, StatusOK
  <1>4. Control'
    BY ZenonT(60) DEF IInv, Control
  <1>5. \A n \in DOMAIN manifests' :
            /\ Agree(n, status.modules) => Agree(n, status.modules)'
            /\ Agree(n, work.status) => Agree(n, work.status)'
    BY Zenon DEF Moves, Agree
  <1>6. Kept'
    BY <1>5, Zenon DEF IInv, Kept, Moves
  <1>7. Synced'
    <2>1. CASE work' = work
      BY <1>5, <2>1, Zenon DEF IInv, Synced, Moves
    <2>2. CASE pc = "delete"
      BY <2>2, Zenon DEF Synced
    <2>. QED  BY <2>1, <2>2
  <1>. QED  BY <1>1, <1>2, <1>3, <1>4, <1>6, <1>7 DEF IInv

LEMMA MarkMoves ==
    ASSUME ManifestsOK, NEW m, manifests' \in {manifests, MarkDeleted(m)}
    PROVE  Moves
  <1>1. \A x, y : IsManifest(x) => /\ IsManifest([x EXCEPT !.deleting = y])
                                   /\ [x EXCEPT !.deleting = y].version = x.version
                                   /\ [x EXCEPT !.deleting = y].channel = x.channel
                                   /\ [x EXCEPT !.deleting = y].unmanaged = x.unmanaged
    BY DEF IsManifest
  <1>2. CASE manifests' = manifests
    BY <1>2 DEF Moves, ManifestsOK
  <1>3. CASE m \in DOMAIN manifests /\ manifests' = With(manifests, m, [manifests[m] EXCEPT !.deleting = TRUE])
    BY <1>1, <1>3 DEF Moves, ManifestsOK, With
  <1>. QED  BY <1>2, <1>3, Zenon DEF MarkDeleted

LEMMA DeleteKeeps == ASSUME IInv, NEW m, DeleteNoLongerExistingModules(m) PROVE IInv'
  <1>1. /\ pc = "delete" /\ UNCHANGED <<catalog, kcp, labels, window, remote, status, pc>>
        /\ manifests' \in {manifests, MarkDeleted(m)}
    BY DEF DeleteNoLongerExistingModules, clusterVars
  <1>2. \E failed : work' = [work EXCEPT !.todo = @ \ {m}, !.failed = failed]
    BY Zenon DEF DeleteNoLongerExistingModules
  <1>3. work'.status = work.status /\ ~work'.stale /\ IsWork(work')
    BY <1>1, <1>2, Zenon DEF IInv, StatusOK, IsWork
  <1>4. Moves
    BY <1>1, MarkMoves DEF IInv
  <1>. QED  BY <1>1, <1>3, <1>4, MoveKeeps

LEMMA SettlesMoves == ASSUME IInv, NEW m, ManifestSettles(m) PROVE Moves
  <1>0. m \in DOMAIN manifests
    BY DEF ManifestSettles
  <1>1. CASE manifests' = Without(manifests, m)
    BY <1>1 DEF Moves, Without, IInv, ManifestsOK
  <1>2. CASE manifests' = [manifests EXCEPT ![m].state = "Ready", ![m].seen = manifests[m].version]
    <2>1. IsManifest(manifests[m])
      BY <1>0 DEF IInv, ManifestsOK
    <2>2. \A n \in DOMAIN manifests' \ {m} : n \in DOMAIN manifests /\ manifests'[n] = manifests[n]
      BY <1>2
    <2>3. m \in DOMAIN manifests' =>
              manifests'[m] = [[manifests[m] EXCEPT !.state = "Ready"] EXCEPT !.seen = manifests[m].version]
      BY <1>0, <1>2
    <2>4. m \in DOMAIN manifests' =>
              /\ IsManifest(manifests'[m]) /\ manifests'[m].version = manifests[m].version
              /\ manifests'[m].channel = manifests[m].channel
              /\ manifests'[m].unmanaged = manifests[m].unmanaged
      BY <2>1, <2>3, Zenon DEF IsManifest
    <2>. QED  BY <1>0, <2>2, <2>4 DEF Moves, IInv, ManifestsOK
  <1>. QED  BY <1>1, <1>2 DEF ManifestSettles

LEMMA SettlesKeeps == ASSUME IInv, NEW m, ManifestSettles(m) PROVE IInv'
  <1>1. /\ m \in DOMAIN manifests
        /\ UNCHANGED <<catalog, kcp, labels, window, remote, status, pc, work>>
    BY DEF ManifestSettles, clusterVars
  <1>2. Moves
    BY SettlesMoves
  <1>. QED  BY <1>1, <1>2, MoveKeeps

LEMMA DeleteEndsKeeps == ASSUME IInv, DeleteEnds PROVE IInv'
  <1>1. /\ pc = "delete" /\ pc' = "finish"
        /\ UNCHANGED <<catalog, kcp, labels, window, manifests, remote, status, work>>
    BY DEF DeleteEnds, clusterVars
  <1>2. CatalogOK' /\ ManifestsOK' /\ SpecOK'
    BY <1>1, CatalogFrame, ManifestsFrame, SpecFrame DEF IInv
  <1>3. StatusOK'
    BY <1>1 DEF IInv, StatusOK
  <1>4. Control' /\ Synced'
    BY <1>1, ZenonT(60) DEF Control, Synced
  <1>5. Kept'
    BY <1>1 DEF IInv, Kept, Agree
  <1>. QED  BY <1>2, <1>3, <1>4, <1>5 DEF IInv

\* A step of somebody else that changes the spec, the window or the catalog.
LEMMA InputKeeps ==
    ASSUME IInv, CatalogOK', SpecOK', UNCHANGED <<manifests, status, pc, work>>
    PROVE  IInv'
  <1>1. ManifestsOK' /\ StatusOK'
    BY ManifestsFrame DEF IInv, StatusOK
  <1>2. Control' /\ Kept'
    BY ZenonT(60) DEF IInv, Control, Kept, Agree
  <1>3. Synced'
    BY Zenon DEF IInv, Synced, Agree
  <1>. QED  BY <1>1, <1>2, <1>3 DEF IInv

LEMMA UserKeeps == ASSUME IInv, Lossless, UserChanges PROVE IInv'
  <1>1. PICK modules, channel : EditsKyma(modules, channel) /\ ChannelsOK(modules)
                                /\ channel \in Channels \cup {"none"}
    <2>1. PICK m \in Modules :
            \/ /\ m \notin DOMAIN remote.modules
               /\ EditsKyma(With(remote.modules, m, [channel |-> "unset", managed |-> TRUE]), remote.channel)
            \/ /\ m \in DOMAIN remote.modules
               /\ EditsKyma(Without(remote.modules, m), remote.channel)
            \/ /\ m \in DOMAIN remote.modules
               /\ EditsKyma([remote.modules EXCEPT ![m].managed = ~@], remote.channel)
            \/ /\ m \in DOMAIN remote.modules
               /\ \E c \in Channels : EditsKyma([remote.modules EXCEPT ![m].channel = c], remote.channel)
            \/ EditsKyma(remote.modules, "none")
      BY Zenon DEF UserChanges, Change, Lossless
    <2>2. ChannelsOK(remote.modules) /\ remote.channel \in Channels \cup {"none"}
      BY DEF IInv, SpecOK
    <2>3. ChannelsOK(With(remote.modules, m, [channel |-> "unset", managed |-> TRUE]))
      BY <2>2 DEF ChannelsOK, With
    <2>4. ChannelsOK(Without(remote.modules, m))
      BY <2>2 DEF ChannelsOK, Without
    <2>5. ChannelsOK([remote.modules EXCEPT ![m].managed = ~@])
      BY <2>2 DEF ChannelsOK
    <2>6. \A c \in Channels : ChannelsOK([remote.modules EXCEPT ![m].channel = c])
      BY <2>2 DEF ChannelsOK
    <2>. QED  BY <2>1, <2>2, <2>3, <2>4, <2>5, <2>6, Zenon
  <1>2. /\ remote' = [remote EXCEPT !.modules = modules, !.channel = channel]
        /\ UNCHANGED <<catalog, kcp, labels, window, manifests, status, pc, work>>
    BY <1>1 DEF EditsKyma, clusterVars
  <1>3. /\ remote' = [exists |-> remote'.exists, channel |-> remote'.channel, modules |-> remote'.modules,
                      state |-> remote'.state]
        /\ remote'.channel = channel /\ remote'.modules = modules
    BY <1>2, Zenon DEF IInv, SpecOK
  <1>4. SpecOK'
    BY <1>1, <1>2, <1>3 DEF IInv, SpecOK
  <1>5. CatalogOK'
    BY <1>2, CatalogFrame DEF IInv
  <1>. QED  BY <1>2, <1>4, <1>5, InputKeeps

LEMMA WindowKeeps == ASSUME IInv, WindowChanges PROVE IInv'
  <1>1. window' \in {"active", "inactive", "unknown"}
        /\ UNCHANGED <<catalog, kcp, labels, remote, manifests, status, pc, work>>
    BY Zenon DEF WindowChanges
  <1>2. SpecOK'
    BY <1>1 DEF IInv, SpecOK
  <1>3. CatalogOK'
    BY <1>1, CatalogFrame DEF IInv
  <1>. QED  BY <1>1, <1>2, <1>3, InputKeeps

LEMMA CatalogKeeps == ASSUME IInv, Lossless, CatalogChanges PROVE IInv'
  <1>1. UNCHANGED <<kcp, labels, remote, window, manifests, status, pc, work>>
    BY Zenon DEF CatalogChanges
  <1>2. SpecOK'
    BY <1>1 DEF IInv, SpecOK
  <1>3. PICK m \in Modules :
          \/ m \in DOMAIN catalog.metas /\
             \E c \in Channels, v \in Versions :
                catalog' = [catalog EXCEPT !.metas =
                               With(@, m, [catalog.metas[m] EXCEPT !.channels = With(@, c, v)])]
          \/ catalog' = [catalog EXCEPT !.metas = Without(@, m)]
          \/ catalog' = [catalog EXCEPT !.metas = With(@, m, NewMeta(m))]
          \/ \E v \in Versions : catalog' = [catalog EXCEPT !.templates[<<m, v>>].generation = @ + 1]
    BY Zenon DEF CatalogChanges, ReleasesModule, Change, Lossless
  <1>. DEFINE metas == catalog.metas
  <1>4. /\ catalog = [metas |-> metas, templates |-> catalog.templates]
        /\ DOMAIN metas \subseteq Modules
        /\ \A n \in DOMAIN metas : IsMeta(n, metas[n])
        /\ DOMAIN catalog.templates = Modules \X Versions
        /\ \A t \in Modules \X Versions : IsTemplate(t, catalog.templates[t])
    BY DEF IInv, CatalogOK
  <1>. HIDE DEF metas
  <1>5. ASSUME NEW x, IsMeta(m, x), catalog' = [metas |-> With(metas, m, x), templates |-> catalog.templates]
        PROVE  CatalogOK'
    BY <1>4, <1>5 DEF CatalogOK, With
  <1>6. ASSUME catalog' = [metas |-> Without(metas, m), templates |-> catalog.templates]
        PROVE  CatalogOK'
    BY <1>4, <1>6 DEF CatalogOK, Without
  <1>7. ASSUME \E v \in Versions : catalog' = [catalog EXCEPT !.templates[<<m, v>>].generation = @ + 1]
        PROVE  CatalogOK'
    <2>1. PICK v \in Versions : catalog' = [catalog EXCEPT !.templates[<<m, v>>].generation = @ + 1]
      BY <1>7, Zenon
    <2>. DEFINE t == <<m, v>>
                x == [catalog.templates[t] EXCEPT !.generation = @ + 1]
    <2>2. t \in Modules \X Versions
      OBVIOUS
    <2>3. IsTemplate(t, catalog.templates[t])
      BY <1>4, <2>2
    <2>4. IsTemplate(t, x)
      BY <2>3 DEF IsTemplate
    <2>0. catalog' = [catalog EXCEPT !.templates = [catalog.templates EXCEPT ![t] = x]]
      BY <2>1
    <2>. HIDE DEF t, x
    <2>5. catalog' = [metas |-> metas, templates |-> [catalog.templates EXCEPT ![t] = x]]
      BY <1>4, <2>0
    <2>6. catalog'.metas = metas /\ catalog'.templates = [catalog.templates EXCEPT ![t] = x]
      BY <2>5, Zenon
    <2>7. /\ DOMAIN catalog'.templates = Modules \X Versions
          /\ \A s \in Modules \X Versions : IsTemplate(s, catalog'.templates[s])
      BY <1>4, <2>2, <2>4, <2>6
    <2>. QED  BY <1>4, <2>5, <2>6, <2>7, Zenon DEF CatalogOK
  <1>8. \A c \in Channels, v \in Versions : m \in DOMAIN metas =>
            IsMeta(m, [metas[m] EXCEPT !.channels = With(@, c, v)])
    <2>. SUFFICES ASSUME NEW c \in Channels, NEW v \in Versions, m \in DOMAIN metas
                  PROVE  IsMeta(m, [metas[m] EXCEPT !.channels = With(@, c, v)])
      OBVIOUS
    <2>1. IsMeta(m, metas[m])
      BY <1>4
    <2>2. With(metas[m].channels, c, v) \in [Channels -> Versions]
      BY <2>1 DEF IsMeta, With
    <2>. QED  BY <2>1, <2>2 DEF IsMeta
  <1>9. IsMeta(m, NewMeta(m))
    <2>1. (CHOOSE v \in Versions : \A w \in Versions : v <= w) \in Versions
      BY KymaModulesAssumption
    <2>. QED  BY <2>1, Zenon DEF IsMeta, NewMeta
  <1>10. CatalogOK'
    <2>1. CASE m \in DOMAIN catalog.metas /\
               \E c \in Channels, v \in Versions :
                  catalog' = [catalog EXCEPT !.metas =
                                 With(@, m, [catalog.metas[m] EXCEPT !.channels = With(@, c, v)])]
      <3>1. PICK c \in Channels, v \in Versions :
                catalog' = [catalog EXCEPT !.metas =
                               With(@, m, [catalog.metas[m] EXCEPT !.channels = With(@, c, v)])]
        BY <2>1
      <3>. DEFINE x == [metas[m] EXCEPT !.channels = With(@, c, v)]
      <3>2. IsMeta(m, x)
        BY <1>8, <2>1 DEF metas
      <3>3. catalog' = [catalog EXCEPT !.metas = With(@, m, x)]
        BY <3>1 DEF metas
      <3>. HIDE DEF x
      <3>4. catalog' = [metas |-> With(metas, m, x), templates |-> catalog.templates]
        BY <1>4, <3>3
      <3>. QED  BY <1>5, <3>2, <3>4
    <2>2. CASE catalog' = [catalog EXCEPT !.metas = Without(@, m)]
      BY <1>4, <1>6, <2>2 DEF metas
    <2>3. CASE catalog' = [catalog EXCEPT !.metas = With(@, m, NewMeta(m))]
      BY <1>4, <1>5, <1>9, <2>3 DEF metas
    <2>. QED  BY <1>3, <1>7, <2>1, <2>2, <2>3, Zenon
  <1>. QED  BY <1>1, <1>2, <1>10, InputKeeps

\* The failures and changes that are left out.
LEMMA Excluded ==
    ASSUME Lossless
    PROVE  /\ ~StartStale /\ ~LookupFails /\ ~Restart /\ ~OperatorChanges
           /\ \A m \in Modules : ~SyncModuleFails(m)
  BY Zenon DEF Lossless, StartStale, LookupFails, Restart, OperatorChanges, SyncModuleFails, Fail, Change

LEMMA StepKeeps == ASSUME Lossless, IInv, Next PROVE IInv'
  <1>1. CASE Start  BY <1>1, StartKeeps
  <1>2. CASE EnsureLabelsAndFinalizers  BY <1>2, EnsureKeeps
  <1>3. CASE replaceSpecFromRemote  BY <1>3, ReplaceKeeps
  <1>4. CASE handleInitialState  BY <1>4, InitialStateKeeps
  <1>5. CASE LookupTemplates  BY <1>5, LookupKeeps
  <1>6. CASE SyncEnds  BY <1>6, SyncEndsKeeps
  <1>7. CASE UpdateStatuses \/ UpdateStatusesUnread
    BY <1>7, UpdateKeeps, Zenon DEF UpdateStatuses, UpdateStatusesUnread
  <1>8. CASE DeleteEnds  BY <1>8, DeleteEndsKeeps
  <1>9. CASE handleProcessingState  BY <1>9, ProcessingStateKeeps
  <1>10. CASE syncStatusToRemote  BY <1>10, StatusToRemoteKeeps
  <1>11. CASE \E m \in Modules : SyncModule(m) \/ DeleteNoLongerExistingModules(m) \/ ManifestSettles(m)
    BY <1>11, SyncKeeps, DeleteKeeps, SettlesKeeps
  <1>12. CASE ConnectFails \/ SyncFails \/ syncStatusFails  BY <1>12, ErrorsKeep
  <1>13. CASE UserChanges  BY <1>13, UserKeeps
  <1>14. CASE WindowChanges  BY <1>14, WindowKeeps
  <1>15. CASE CatalogChanges  BY <1>15, CatalogKeeps
  <1>. QED
    BY <1>1, <1>2, <1>3, <1>4, <1>5, <1>6, <1>7, <1>8, <1>9, <1>10, <1>11, <1>12, <1>13, <1>14, <1>15,
       Excluded DEF Next, Controller

LEMMA StutterKeeps == ASSUME IInv, UNCHANGED vars PROVE IInv'
  <1>1. CatalogOK' /\ SpecOK'
    BY CatalogFrame DEF vars, IInv, SpecOK
  <1>. QED  BY <1>1, InputKeeps DEF vars

LEMMA Invariance == ASSUME Lossless PROVE Spec => []IInv
  <1>1. IInv /\ [Next]_vars => IInv'
    BY StepKeeps, StutterKeeps
  <1>. QED  BY <1>1, Initially, PTL DEF Spec

(***************************************************************************)
(* The properties.                                                         *)
(***************************************************************************)

\* Only the goroutine of a module gives its Manifest another version, and then the entry
\* that the lookup compared with is the one of the Manifest.
LEMMA VersionStep ==
    ASSUME Lossless, IInv, [Next]_vars, NEW m \in DOMAIN manifests \cap DOMAIN manifests',
           ~manifests[m].unmanaged, manifests'[m].version # manifests[m].version
    PROVE  /\ manifests'[m].version \in Versions
           /\ Core[manifests'[m].version] >= Core[manifests[m].version]
           /\ \/ ~NewTemplate[<<m, manifests'[m].version>>].requiresDowntime
              \/ work.window = "active" \/ work.spec.skipWindows
  <1>1. ~Moves
    BY Zenon DEF Moves
  <1>2. PICK n \in Modules : SyncModule(n)
    <2>1. \A n \in Modules : ManifestSettles(n) => Moves
      BY SettlesMoves
    <2>2. \A n \in Modules : DeleteNoLongerExistingModules(n) => Moves
      BY MarkMoves DEF DeleteNoLongerExistingModules, IInv
    <2>3. manifests' # manifests
      OBVIOUS
    <2>4. ~UNCHANGED vars
      BY <2>3 DEF vars
    <2>5. ~Start /\ ~EnsureLabelsAndFinalizers /\ ~replaceSpecFromRemote /\ ~handleInitialState
      BY <2>3 DEF Start, Begin, EnsureLabelsAndFinalizers, replaceSpecFromRemote, handleInitialState
    <2>6. ~LookupTemplates /\ ~SyncEnds /\ ~UpdateStatuses /\ ~UpdateStatusesUnread /\ ~DeleteEnds
      BY <2>3, Zenon DEF LookupTemplates, LookupWith, SyncEnds, UpdateStatuses, UpdateStatusesUnread,
                  UpdateModuleStatuses, DeleteEnds
    <2>7. ~handleProcessingState /\ ~syncStatusToRemote /\ ~ConnectFails /\ ~SyncFails /\ ~syncStatusFails
      BY <2>3, Zenon DEF handleProcessingState, syncStatusToRemote, ConnectFails, SyncFails, syncStatusFails
    <2>8. ~UserChanges /\ ~WindowChanges /\ ~CatalogChanges
      BY <2>3, Zenon DEF UserChanges, EditsKyma, WindowChanges, CatalogChanges
    <2>. QED
      BY <1>1, <2>1, <2>2, <2>4, <2>5, <2>6, <2>7, <2>8, Excluded DEF Next, Controller
  <1>. DEFINE module == work.modules[n]
  <1>3. n \in work.todo /\ n \in DOMAIN work.modules /\ pc = "sync"
    BY <1>2, SyncGives, Zenon DEF IInv, Synced
  <1>4. LookedUp(n, module, work.spec, work.status, work.window)
    BY <1>3, Zenon DEF IInv, Synced
  <1>5. module.err = "nil" /\ manifests' = updateManifest(n, module)
    BY <1>2, SyncGives
  <1>6. module.version \in Versions /\ (module.unmanaged => module.enabled)
    BY <1>4, <1>5, Zenon DEF LookedUp
  <1>7. n = m /\ manifests'[m].version = module.version
    <2>1. Rewrites(n, module, manifests')
      BY <1>5, <1>6, ManifestUpdated, ZenonT(60) DEF IInv
    <2>. QED  BY <2>1 DEF Rewrites
  <1>8. Agree(m, work.status)
    BY <1>3, <1>7, Zenon DEF IInv, Synced
  <1>9. Installed(m, work.status) /\ work.status[m].version = manifests[m].version
    BY <1>8 DEF Agree
  <1>10. /\ Core[module.version] >= Core[work.status[m].version]
         /\ work.window = "active" \/ work.spec.skipWindows \/ ~NewTemplate[<<m, module.version>>].requiresDowntime
    BY <1>4, <1>5, <1>7, <1>9, Zenon DEF LookedUp, Installed
  <1>. QED  BY <1>6, <1>7, <1>9, <1>10, Zenon

\* Without lost updates, no sequence of user edits, releases, failures and
\* reconciliations leaves a Manifest that the status does not refer to: deleting by
\* status (DeleteNoLongerExistingModules) finds every one.
THEOREM ManifestsTracked == ASSUME Lossless PROVE Spec => []Tracked
  <1>1. IInv => Tracked
    BY DEF IInv, Kept, Agree, Installed, Tracked
  <1>. QED  BY <1>1, Invariance, PTL

\* Then the version that markInvalidSkewUpdate compares with is that of the Manifest, and
\* no managed Manifest goes back to a lower version.
THEOREM VersionsRise == ASSUME Lossless PROVE Spec => NoDowngrade
  <1>1. IInv /\ [Next]_vars =>
            [\A m \in DOMAIN manifests \cap DOMAIN manifests' :
                manifests[m].unmanaged \/ Core[manifests'[m].version] >= Core[manifests[m].version]]_vars
    <2>. SUFFICES ASSUME IInv, [Next]_vars, NEW m \in DOMAIN manifests \cap DOMAIN manifests',
                         ~manifests[m].unmanaged
                  PROVE  Core[manifests'[m].version] >= Core[manifests[m].version]
      BY Zenon
    <2>1. manifests[m].version \in Versions
      BY DEF IInv, ManifestsOK, IsManifest
    <2>2. Core[manifests[m].version] \in Nat
      BY <2>1, LookupAssumption, Zenon
    <2>3. CASE manifests'[m].version = manifests[m].version
      BY <2>2, <2>3
    <2>4. CASE manifests'[m].version # manifests[m].version
      BY <2>4, VersionStep, Zenon
    <2>. QED  BY <2>3, <2>4
  <1>. QED  BY <1>1, Invariance, PTL DEF Spec, NoDowngrade

\* And an installed module gets a version that needs downtime only within a maintenance
\* window, as it was at the lookup: no entry is missing or old when IsRequired asks.
THEOREM WindowsKept == ASSUME Lossless PROVE Spec => WindowRespected
  <1>1. IInv /\ [Next]_vars =>
            [\A m \in DOMAIN manifests \cap DOMAIN manifests' :
                manifests'[m].version # manifests[m].version =>
                    \/ ~NewTemplate[<<m, manifests'[m].version>>].requiresDowntime
                    \/ manifests[m].unmanaged
                    \/ work.window = "active"
                    \/ work.spec.skipWindows]_vars
    BY VersionStep, Zenon
  <1>. QED  BY <1>1, Invariance, PTL DEF Spec, WindowRespected

(***************************************************************************)
(* The events of the catalog.                                              *)
(***************************************************************************)

\* Besides, no event is lost, and no ModuleReleaseMeta goes to come back unnoticed.
Informed == Lossless /\ "event" \notin Faults /\ "deleteMeta" \notin Changes

Released(m, channel) == catalog.metas[m].channels[channel]
Generation(m, version) == catalog.templates[<<m, version>>].generation

\* The entry of an installed module has what its channel offers, or must not have it.
UpToDate(m, e) ==
    \/ ~isValidVersionChange(Released(m, e.channel), e.version)
    \/ e.version = Released(m, e.channel) /\ e.template = Generation(m, e.version)

Wanted(m, spec) == getDesiredChannel(spec.modules[m].channel, spec.channel)

CatalogFull ==
    /\ DOMAIN catalog.metas = Modules
    /\ kcp.modules \subseteq Modules
    /\ DOMAIN remote.modules \subseteq Modules
    /\ DOMAIN work.spec.modules \subseteq Modules

\* What the reconciliation works with is what the cluster has, or another one follows.
Seen ==
    /\ pc \in {"prepare", "lookup", "sync", "status"} => work.status = status.modules
    /\ pc \in {"lookup", "sync", "status", "delete", "finish", "remote"} =>
          due \/ (remote.exists /\ work.spec.channel = remote.channel /\ work.spec.modules = remote.modules)
    /\ \A m \in DOMAIN status.modules : Installed(m, status.modules) => status.modules[m].version \in Versions
    /\ \A m \in DOMAIN work.status : Installed(m, work.status) => work.status[m].version \in Versions

\* The entry of a managed Manifest has its channel, and that of an unmanaged one no template.
SameChannel(m, entries) ==
    IF manifests[m].unmanaged THEN ~Installed(m, entries) ELSE entries[m].channel = manifests[m].channel

ChannelsKept ==
    /\ pc = "idle" => \A m \in DOMAIN manifests : SameChannel(m, status.modules)
    /\ pc \in {"prepare", "lookup", "delete", "finish", "remote"} =>
          \A m \in DOMAIN manifests : SameChannel(m, work.status)
    /\ pc \in {"sync", "status"} =>
          \A m \in DOMAIN manifests :
              IF m \in work.todo \/ m \notin DOMAIN work.modules \/ work.modules[m].err # "nil"
              THEN SameChannel(m, work.status)
              ELSE IF manifests[m].unmanaged THEN work.modules[m].unmanaged
              ELSE manifests[m].channel = work.modules[m].channel

\* What the lookup gave for a module of the spec, or of the status, that is installed.
Offered(m, module, e) ==
    /\ module.err \in {"nil", "waiting", "windowUnknown", "updateNotAllowed"}
    /\ module.channel = Wanted(m, work.spec)
    /\ module.err = "nil" /\ ~module.unmanaged =>
          /\ module.channel = e.channel => module.version = Released(m, e.channel)
          /\ module.version = e.version => module.generation = Generation(m, e.version)
          /\ m \notin work.todo => module.channel = e.channel /\ module.version = e.version
    /\ module.err = "updateNotAllowed" /\ module.channel = e.channel =>
          ~isValidVersionChange(Released(m, e.channel), e.version)

Fresh ==
    pc \in {"sync", "status"} =>
        /\ DOMAIN work.spec.modules \subseteq DOMAIN work.modules
        /\ \A m \in DOMAIN work.modules :
              /\ m \in DOMAIN work.spec.modules => work.modules[m].enabled
              /\ work.modules[m].err = "nil" /\ ~work.modules[m].enabled =>
                    Installed(m, work.status) /\ work.modules[m].channel = work.status[m].channel
        /\ due \/ \A m \in DOMAIN work.spec.modules :
              Installed(m, work.status) => Offered(m, work.modules[m], work.status[m])

\* The new entries are up to date, or another reconciliation follows, or they tell why not.
Ripe ==
    pc = "delete" \/ (pc = "finish" /\ work.state # "unset") =>
        \A m \in DOMAIN work.status \cap DOMAIN work.spec.modules :
            \/ due
            \/ ~Installed(m, work.status) \/ ~Installed(m, status.modules)
            \/ work.status[m].maintenance
            \/ work.status[m].state = "Error"
            \/ work.status[m].channel # Wanted(m, work.spec)
            \/ /\ work.status[m].channel = status.modules[m].channel
               /\ work.status[m].version = status.modules[m].version
               /\ UpToDate(m, work.status[m])

Noticed ==
    pc \in {"remote", "idle"} =>
        \A m \in DOMAIN status.modules \cap DOMAIN remote.modules :
            \/ due
            \/ pc = "remote" /\ work.state = "Error"
            \/ ~Installed(m, status.modules) \/ ~Installed(m, lastStatus.modules)
            \/ status.modules[m].maintenance
            \/ status.modules[m].channel # Wanted(m, remote)
            \/ UpToDate(m, status.modules[m])

EInv == CatalogFull /\ Seen /\ ChannelsKept /\ Fresh /\ Ripe /\ Noticed

Takes(m, module, found, templates) ==
    /\ module.channel = found.channel /\ module.version = found.version
    /\ module.err = "nil" => found.err = "nil"
    /\ found.err # "notAllowed" => module.err = found.err
    /\ found.err = "nil" => module.generation = templates[<<m, found.version>>].generation

LEMMA Appended ==
    ASSUME NEW m, NEW info, NEW found, NEW templates, NEW known
    PROVE  Takes(m, appendModuleWithInformation(m, info, found, templates, known), found, templates)
  BY Zenon DEF appendModuleWithInformation, Takes

TakesFlag(module, info) == module.enabled = info.enabled

LEMMA AppendedFlags ==
    ASSUME NEW m, NEW info, NEW found, NEW templates, NEW known
    PROVE  TakesFlag(appendModuleWithInformation(m, info, found, templates, known), info)
  BY DEF appendModuleWithInformation, TakesFlag

\* The module that GenerateModulesFromTemplates gives, for a module of the spec.
Named(m, info, spec) == info.valid /\ info.enabled /\ info.channel = spec.modules[m].channel

LEMMA Enabled ==
    ASSUME NEW spec, NEW entries, ChannelsOK(spec.modules), NEW m \in DOMAIN spec.modules
    PROVE  Named(m, FetchModuleInfo(spec, entries)[m], spec)
  <1>0. PICK info : info = FetchModuleInfo(spec, entries)[m]
    BY Zenon
  <1>1. spec.modules[m].channel # "none"
    BY LookupAssumption DEF ChannelsOK
  <1>2. info = InfoFromSpec(spec.modules[m])
    BY <1>0 DEF FetchModuleInfo
  <1>3. PICK x : x = spec.modules[m]
    BY Zenon
  <1>4. info.enabled = TRUE /\ info.valid = (x.channel # "none") /\ info.channel = x.channel
    BY <1>2, <1>3, InfoFields
  <1>5. x.channel # "none"
    BY <1>1, <1>3
  <1>. QED  BY <1>0, <1>3, <1>4, <1>5, Zenon DEF Named

\* The version and the error that the lookup gives for such a module.
Exact(m, module, spec, entries) ==
    /\ module.channel = Wanted(m, spec)
    /\ module.version = Released(m, module.channel) /\ module.version \in Versions
    /\ module.err \in {"nil", "waiting", "windowUnknown", "updateNotAllowed"}
    /\ module.err = "nil" => module.generation = Generation(m, module.version)
    /\ module.err = "nil" /\ Installed(m, entries) => isValidVersionChange(module.version, entries[m].version)
    /\ module.err = "updateNotAllowed" /\ Installed(m, entries) /\ entries[m].version # 0 =>
          ~isValidVersionChange(module.version, entries[m].version)

LEMMA LookupExact ==
    ASSUME CatalogOK, Lossless, labels.beta = TRUE, window \in {"active", "inactive", "unknown"},
           NEW spec, ChannelsOK(spec.modules), NEW entries,
           NEW m \in DOMAIN spec.modules \cap DOMAIN catalog.metas, Wanted(m, spec) \in Channels,
           NEW module,
           module = GenerateModulesFromTemplates([spec |-> spec, status |-> entries, labels |-> labels],
                                                 catalog, window, {}, Modules \X Versions)[m]
    PROVE  Exact(m, module, spec, entries)
  <1>. DEFINE kyma == [spec |-> spec, status |-> entries, labels |-> labels]
  <1>1. PICK info : info = FetchModuleInfo(spec, entries)[m]
    BY Zenon
  <1>2. PICK found : found = GetRegularTemplate(m, info, kyma, catalog, window, {}, Modules \X Versions)
    BY Zenon
  <1>3. module = appendModuleWithInformation(m, info, found, catalog.templates, Modules \X Versions)
    BY <1>1, <1>2, Zenon DEF GenerateModulesFromTemplates, FetchModuleInfo
  <1>4. info.valid /\ info.enabled /\ info.channel = spec.modules[m].channel
    <2>1. m \in DOMAIN spec.modules
      BY Zenon
    <2>2. Named(m, FetchModuleInfo(spec, entries)[m], spec)
      BY <2>1, Enabled, Zenon
    <2>. QED  BY <1>1, <2>2, Zenon DEF Named
  <1>5. /\ found.channel = Wanted(m, spec)
        /\ found.version = Released(m, found.channel) /\ found.version \in Versions
        /\ found.err \in {"nil", "waiting", "windowUnknown", "updateNotAllowed"}
        /\ found.err = "nil" /\ Installed(m, entries) => isValidVersionChange(found.version, entries[m].version)
        /\ found.err = "updateNotAllowed" /\ Installed(m, entries) /\ entries[m].version # 0 =>
              ~isValidVersionChange(found.version, entries[m].version)
    <2>. DEFINE channel == Wanted(m, spec)
                version == Lookup(m, channel, catalog.metas[m], catalog.templates).version
                template == catalog.templates[<<m, version>>]
                late == WithMaintenanceWindow(m, version, template, kyma, window)
                err == CheckTemplate(m, version, kyma, catalog.metas[m], template, window, Modules \X Versions)
    <2>1. version \in Versions /\ Lookup(m, channel, catalog.metas[m], catalog.templates).err = "nil"
          /\ <<m, version>> \in Modules \X Versions
      BY TemplateFound, Zenon
    <2>2. catalog.metas[m].mandatory = 0
      BY NotMandatory, Zenon
    <2>3. version = Released(m, channel)
      <3>1. IsMeta(m, catalog.metas[m])
        BY DEF CatalogOK
      <3>2. catalog.metas[m].channels \in [Channels -> Versions]
        BY <3>1, Zenon DEF IsMeta
      <3>. QED  BY <2>2, <3>2, Zenon DEF Lookup, GetChannelVersionForModule, Released
    <2>4. found = [channel |-> channel, version |-> version, err |-> err]
      BY <1>2, <1>4, <2>1, <2>2, Zenon DEF GetRegularTemplate, Wanted
    <2>5. late \in {"nil", "waiting", "windowUnknown"}
      BY DEF WithMaintenanceWindow
    <2>6. ValidateTemplateMode(m, template, kyma.labels, catalog.metas[m]) = "nil"
      <3>1. \A v \in Versions : ValidateTemplateMode(m, catalog.templates[<<m, v>>], labels, catalog.metas[m]) = "nil"
        <4>1. m \in DOMAIN catalog.metas
          BY Zenon
        <4>. QED  BY <4>1, ModeAllowed, Zenon
      <3>. QED  BY <2>1, <3>1, Zenon
    <2>7. err = IF late # "nil" THEN late
                ELSE IF m \in DOMAIN entries THEN markInvalidSkewUpdate(version, entries[m]) ELSE "nil"
      BY <2>1, <2>6, Zenon DEF CheckTemplate
    <2>8. \A e : /\ markInvalidSkewUpdate(version, e) \in {"nil", "updateNotAllowed"}
                 /\ markInvalidSkewUpdate(version, e) = "nil" /\ e.template # 0 =>
                       isValidVersionChange(version, e.version)
                 /\ markInvalidSkewUpdate(version, e) = "updateNotAllowed" /\ e.version # 0 =>
                       ~isValidVersionChange(version, e.version)
      BY Zenon DEF markInvalidSkewUpdate
    <2>. HIDE DEF late, err, version, channel
    <2>9. found.err = err /\ found.version = version /\ found.channel = channel
      BY <2>4, FoundFields, Zenon
    <2>10. /\ err \in {"nil", "waiting", "windowUnknown", "updateNotAllowed"}
           /\ err = "nil" /\ Installed(m, entries) => isValidVersionChange(version, entries[m].version)
           /\ err = "updateNotAllowed" /\ Installed(m, entries) /\ entries[m].version # 0 =>
                 ~isValidVersionChange(version, entries[m].version)
      BY <2>5, <2>7, <2>8, Zenon DEF Installed
    <2>. QED  BY <2>1, <2>3, <2>9, <2>10, Zenon DEF channel
  <1>6. found.err # "notAllowed"
    BY <1>5, Zenon
  <1>7. /\ module.err = found.err /\ module.version = found.version /\ module.channel = found.channel
        /\ found.err = "nil" => module.generation = catalog.templates[<<m, found.version>>].generation
    <2>1. Takes(m, appendModuleWithInformation(m, info, found, catalog.templates, Modules \X Versions), found,
                catalog.templates)
      BY Appended, Zenon
    <2>2. Takes(m, module, found, catalog.templates)
      BY <1>3, <2>1, Zenon
    <2>. QED  BY <1>6, <2>2, Zenon DEF Takes
  <1>8. module.err = "nil" => module.generation = Generation(m, module.version)
    BY <1>7, Zenon DEF Generation
  <1>. QED  BY <1>5, <1>7, <1>8, Zenon DEF Exact

\* What it gives for a module that is only left in the status.
Lasts(m, module, entries) == Installed(m, entries) /\ module.channel = entries[m].channel

LEMMA LookupLeft ==
    ASSUME CatalogOK, NEW spec, NEW entries, \A n \in DOMAIN entries : IsEntry(entries[n]),
           NEW m \in DOMAIN entries \ DOMAIN spec.modules, NEW module,
           module = GenerateModulesFromTemplates([spec |-> spec, status |-> entries, labels |-> labels],
                                                 catalog, window, {}, Modules \X Versions)[m],
           module.err = "nil"
    PROVE  Lasts(m, module, entries)
  <1>. DEFINE kyma == [spec |-> spec, status |-> entries, labels |-> labels]
  <1>1. PICK info : info = InfoFromStatus(entries[m])
    BY Zenon
  <1>2. PICK found : found = GetRegularTemplate(m, info, kyma, catalog, window, {}, Modules \X Versions)
    BY Zenon
  <1>3. module = appendModuleWithInformation(m, info, found, catalog.templates, Modules \X Versions)
    BY <1>1, <1>2, Zenon DEF GenerateModulesFromTemplates, FetchModuleInfo
  <1>4. found.err = "nil" /\ module.channel = found.channel
    <2>1. Takes(m, appendModuleWithInformation(m, info, found, catalog.templates, Modules \X Versions), found,
                catalog.templates)
      BY Appended, Zenon
    <2>2. Takes(m, module, found, catalog.templates)
      BY <1>3, <2>1, Zenon
    <2>. QED  BY <2>2, Zenon DEF Takes
  <1>5. info.valid = (entries[m].template # 0) /\ info.channel = entries[m].channel
    BY <1>1, Zenon DEF InfoFromStatus, determineModuleValidity
  <1>6. info.valid
    <2>1. ~info.valid => found = TemplateError("invalid")
      BY <1>2, Zenon DEF GetRegularTemplate
    <2>. QED  BY <1>4, <2>1, InfoFields, Zenon
  <1>7. entries[m].template # 0
    BY <1>5, <1>6, Zenon
  <1>8. entries[m].channel \in Channels
    BY <1>7, Zenon DEF IsEntry
  <1>9. getDesiredChannel(info.channel, spec.channel) = entries[m].channel
    <2>1. entries[m].channel # "unset"
      BY <1>8, LookupAssumption, Zenon
    <2>. QED  BY <1>5, <2>1, Zenon DEF getDesiredChannel
  <1>10. m \in DOMAIN catalog.metas
    <2>1. m \notin DOMAIN catalog.metas => found = TemplateError("noReleaseMeta")
      BY <1>2, <1>6, Zenon DEF GetRegularTemplate
    <2>2. TemplateError("noReleaseMeta").err = "noReleaseMeta"
      BY InfoFields, Zenon
    <2>. QED  BY <1>4, <2>1, <2>2, Zenon
  <1>11. catalog.metas[m].mandatory = 0
    BY <1>10, NotMandatory, Zenon
  <1>. DEFINE channel == getDesiredChannel(info.channel, spec.channel)
              result == Lookup(m, channel, catalog.metas[m], catalog.templates)
              err == IF result.err # "nil" THEN result.err
                     ELSE CheckTemplate(m, result.version, kyma, catalog.metas[m],
                                        catalog.templates[<<m, result.version>>], window, Modules \X Versions)
  <1>12. found = [channel |-> channel, version |-> result.version, err |-> err]
    BY <1>2, <1>6, <1>10, <1>11, Zenon DEF GetRegularTemplate
  <1>. HIDE DEF result, err
  <1>13. found.channel = getDesiredChannel(info.channel, spec.channel)
    BY <1>12, Zenon
  <1>. QED  BY <1>4, <1>7, <1>9, <1>13, Zenon DEF Installed, Lasts

\* A channel without a version gives an error.
Unoffered(meta, channel) == meta.mandatory = 0 /\ GetChannelVersionForModule(meta, channel) = 0

FindsNone(m, channel, meta, offered) == Lookup(m, channel, meta, offered).err = "noVersion"

LEMMA NotOffered ==
    ASSUME NEW m, NEW channel, NEW meta, NEW offered, Unoffered(meta, channel)
    PROVE  FindsNone(m, channel, meta, offered)
  <1>1. Lookup(m, channel, meta, offered) = [version |-> 0, err |-> "noVersion"]
    BY Zenon DEF Lookup, Unoffered
  <1>. QED  BY <1>1 DEF FindsNone

\* It gives nothing when the channel of the Kyma is "none" and the module has none.
LEMMA LookupNone ==
    ASSUME CatalogOK, NEW spec, ChannelsOK(spec.modules), NEW entries,
           NEW m \in DOMAIN spec.modules \cap DOMAIN catalog.metas, Wanted(m, spec) = "none",
           NEW module,
           module = GenerateModulesFromTemplates([spec |-> spec, status |-> entries, labels |-> labels],
                                                 catalog, window, {}, Modules \X Versions)[m]
    PROVE  module.err # "nil"
  <1>. DEFINE kyma == [spec |-> spec, status |-> entries, labels |-> labels]
  <1>1. PICK info : info = FetchModuleInfo(spec, entries)[m]
    BY Zenon
  <1>2. PICK found : found = GetRegularTemplate(m, info, kyma, catalog, window, {}, Modules \X Versions)
    BY Zenon
  <1>3. module = appendModuleWithInformation(m, info, found, catalog.templates, Modules \X Versions)
    BY <1>1, <1>2, Zenon DEF GenerateModulesFromTemplates, FetchModuleInfo
  <1>4. info.valid /\ info.enabled /\ info.channel = spec.modules[m].channel
    <2>1. m \in DOMAIN spec.modules
      BY Zenon
    <2>2. Named(m, FetchModuleInfo(spec, entries)[m], spec)
      BY <2>1, Enabled, Zenon
    <2>. QED  BY <1>1, <2>2, Zenon DEF Named
  <1>5. catalog.metas[m].mandatory = 0
    BY NotMandatory, ZenonT(60)
  <1>6. GetChannelVersionForModule(catalog.metas[m], "none") = 0
    <2>1. IsMeta(m, catalog.metas[m])
      BY DEF CatalogOK
    <2>2. DOMAIN catalog.metas[m].channels = Channels
      BY <2>1, Zenon DEF IsMeta
    <2>. QED  BY <2>2, LookupAssumption, Zenon DEF GetChannelVersionForModule
  <1>7. Lookup(m, "none", catalog.metas[m], catalog.templates).err = "noVersion"
    <2>1. Unoffered(catalog.metas[m], "none")
      BY <1>5, <1>6, Zenon DEF Unoffered
    <2>2. FindsNone(m, "none", catalog.metas[m], catalog.templates)
      BY <2>1, NotOffered, Zenon
    <2>. QED  BY <2>2, Zenon DEF FindsNone
  <1>. DEFINE result == Lookup(m, "none", catalog.metas[m], catalog.templates)
              err == IF result.err # "nil" THEN result.err
                     ELSE CheckTemplate(m, result.version, kyma, catalog.metas[m],
                                        catalog.templates[<<m, result.version>>], window, Modules \X Versions)
  <1>8. found = [channel |-> "none", version |-> result.version, err |-> err]
    BY <1>2, <1>4, <1>5, Zenon DEF GetRegularTemplate, Wanted
  <1>9. err = "noVersion"
    <2>1. result.err = "noVersion"
      BY <1>7, Zenon
    <2>. HIDE DEF result
    <2>. QED  BY <2>1, Zenon
  <1>. HIDE DEF result, err
  <1>10. found.err = "noVersion"
    BY <1>8, <1>9, Zenon
  <1>11. found.err # "notAllowed" /\ found.err # "nil"
    BY <1>10, Zenon
  <1>12. module.err = found.err
    <2>1. Takes(m, appendModuleWithInformation(m, info, found, catalog.templates, Modules \X Versions), found,
                catalog.templates)
      BY Appended, Zenon
    <2>2. Takes(m, module, found, catalog.templates)
      BY <1>3, <2>1, Zenon
    <2>. QED  BY <1>11, <2>2, Zenon DEF Takes
  <1>. QED  BY <1>11, <1>12, Zenon

LEMMA IdleEmpty == DOMAIN Idle.spec.modules = {} /\ DOMAIN Idle.status = {}
  <1>1. Idle.spec.modules = <<>> /\ Idle.status = <<>>
    BY Zenon DEF Idle
  <1>2. DOMAIN <<>> = {}
    OBVIOUS
  <1>. QED  BY <1>1, <1>2, Zenon

LEMMA InformedInitially == Init => EInv
  <1>. SUFFICES ASSUME Init PROVE EInv
    OBVIOUS
  <1>1. CatalogFull
    <2>1. DOMAIN catalog.metas = Modules
      BY Zenon DEF Init
    <2>2. remote.modules = <<>>
      BY DEF Init
    <2>3. DOMAIN remote.modules = {}
      BY <2>2
    <2>4. work = Idle
      BY Zenon DEF Init
    <2>5. DOMAIN work.spec.modules = {}
      BY <2>4, IdleEmpty, Zenon
    <2>6. kcp.modules \subseteq Modules
      BY KymaModulesAssumption, Zenon DEF Init
    <2>. QED  BY <2>1, <2>3, <2>5, <2>6, Zenon DEF CatalogFull
  <1>2. Seen
    <2>1. pc = "idle" /\ status.modules = <<>>
      BY DEF Init
    <2>2. DOMAIN status.modules = {}
      BY <2>1
    <2>3. work = Idle
      BY Zenon DEF Init
    <2>4. DOMAIN work.status = {}
      BY <2>3, IdleEmpty, Zenon
    <2>. QED  BY <2>1, <2>2, <2>4, Zenon DEF Seen
  <1>3. ChannelsKept /\ Fresh /\ Ripe /\ Noticed
    <2>1. pc = "idle" /\ manifests = <<>> /\ status.modules = <<>>
      BY DEF Init
    <2>2. DOMAIN manifests = {} /\ DOMAIN status.modules = {}
      BY <2>1
    <2>3. ChannelsKept
      BY <2>1, <2>2, Zenon DEF ChannelsKept
    <2>4. Fresh
      BY <2>1, Zenon DEF Fresh
    <2>5. Ripe
      BY <2>1, Zenon DEF Ripe
    <2>6. Noticed
      BY <2>2, Zenon DEF Noticed
    <2>. QED  BY <2>3, <2>4, <2>5, <2>6, Zenon
  <1>. QED  BY <1>1, <1>2, <1>3 DEF EInv

LEMMA StartInformed == ASSUME IInv, EInv, Start PROVE EInv'
  <1>2. /\ pc = "idle" /\ pc' = "prepare"
        /\ UNCHANGED <<catalog, remote, kcp, labels, window, manifests, status>>
        /\ work'.status = status.modules /\ work'.spec = Idle.spec /\ ~work'.stale
        /\ ~work'.failed /\ IsWork(work')
    BY StartGives, Zenon
  <1>3. DOMAIN work'.spec.modules = {}
    BY <1>2, IdleEmpty, Zenon
  <1>4. CatalogFull'
    BY <1>2, <1>3 DEF EInv, CatalogFull
  <1>5. Seen'
    BY <1>2, <1>3, Zenon DEF EInv, Seen, Installed
  <1>6. ChannelsKept'
    BY <1>2, <1>3, Zenon DEF EInv, ChannelsKept, SameChannel
  <1>7. Fresh' /\ Ripe' /\ Noticed'
    BY <1>2, Zenon DEF Fresh, Ripe, Noticed
  <1>. QED  BY <1>4, <1>5, <1>6, <1>7 DEF EInv

\* A reconciliation ends, and another one follows at once.
LEMMA ReturnInformed ==
    ASSUME IInv, EInv, pc \in {"prepare", "finish", "remote"}, pc' = "idle", work' = Idle, due' = TRUE,
           UNCHANGED <<catalog, kcp, manifests>>, DOMAIN remote'.modules \subseteq Modules,
           \/ SameButState(status'.modules, work.status)
           \/ status' = status /\ pc \in {"prepare", "remote"}
    PROVE  EInv'
  <1>1. CatalogFull'
    BY IdleEmpty, Zenon DEF EInv, CatalogFull
  <1>2. status' = status /\ pc \in {"prepare", "remote"} => status'.modules = work.status
    BY Zenon DEF IInv, StatusOK
  <1>3. \A m \in DOMAIN status'.modules :
            Installed(m, status.modules)' => status'.modules[m].version \in Versions
    BY <1>2, Zenon DEF EInv, Seen, SameButState, Installed
  <1>4. Seen'
    <2>1. DOMAIN work'.status = {}
      BY IdleEmpty, Zenon
    <2>. QED  BY <1>3, <2>1, Zenon DEF Seen
  <1>5. \A m \in DOMAIN manifests : SameChannel(m, work.status)
    BY Zenon DEF EInv, ChannelsKept
  <1>6. \A m \in DOMAIN manifests : Agree(m, work.status)
    BY DEF IInv, Kept
  <1>7. \A m \in DOMAIN manifests : SameChannel(m, status.modules)'
    BY <1>2, <1>5, <1>6, Zenon DEF SameButState, SameChannel, Agree, Installed
  <1>8. ChannelsKept'
    BY <1>7, Zenon DEF ChannelsKept
  <1>9. Fresh' /\ Ripe' /\ Noticed'
    BY Zenon DEF Fresh, Ripe, Noticed
  <1>. QED  BY <1>1, <1>4, <1>8, <1>9, Zenon DEF EInv

LEMMA ErrorsInformed ==
    ASSUME IInv, EInv, ConnectFails \/ SyncFails \/ syncStatusFails
    PROVE  EInv'
  <1>1. PICK entries \in {setModuleStatusesToError(work.status), work.status} :
            UpdateStatusForExistingModules("Error", entries)
    BY DEF ConnectFails, SyncFails, syncStatusFails, failWithError
  <1>2. /\ pc \in {"prepare", "remote"} /\ UNCHANGED <<catalog, kcp, manifests, remote>>
        /\ pc' = "idle" /\ work' = Idle
    BY DEF ConnectFails, SyncFails, syncStatusFails, clusterVars, failWithError, Return
  <1>6. due'
    BY DEF ConnectFails, SyncFails, syncStatusFails, failWithError
  <1>3. status'.modules = entries
    BY <1>1, <1>2, Patched
  <1>4. SameButState(status'.modules, work.status)
    BY <1>1, <1>3, Unaltered, Errors
  <1>5. DOMAIN remote'.modules \subseteq Modules
    BY <1>2 DEF EInv, CatalogFull
  <1>. QED  BY <1>2, <1>4, <1>5, <1>6, ReturnInformed

LEMMA EnsureInformed == ASSUME IInv, EInv, EnsureLabelsAndFinalizers PROVE EInv'
  <1>1. /\ pc = "prepare" /\ UNCHANGED <<catalog, kcp, manifests, remote, status>>
        /\ pc' = "idle" /\ work' = Idle
    BY DEF EnsureLabelsAndFinalizers, Return
  <1>2. DOMAIN remote'.modules \subseteq Modules
    BY <1>1 DEF EInv, CatalogFull
  <1>3. due'
    BY DEF EnsureLabelsAndFinalizers
  <1>. QED  BY <1>1, <1>2, <1>3, ReturnInformed

LEMMA FetchedModules ==
    ASSUME SpecOK, CatalogFull, NEW r, r = CreateOrFetchKyma(remote)
    PROVE  r.exists /\ DOMAIN r.modules \subseteq Modules
  <1>1. CASE remote.exists
    BY <1>1 DEF CreateOrFetchKyma, CatalogFull
  <1>2. CASE ~remote.exists
    <2>. DEFINE modules == [m \in kcp.modules |-> [channel |-> "unset", managed |-> TRUE]]
    <2>1. DOMAIN modules \subseteq Modules
      BY DEF CatalogFull
    <2>. HIDE DEF modules
    <2>2. r = [remote EXCEPT !.exists = TRUE, !.channel = kcp.channel, !.modules = modules]
      BY <1>2 DEF CreateOrFetchKyma, modules
    <2>. QED  BY <2>1, <2>2 DEF SpecOK
  <1>. QED  BY <1>1, <1>2

LEMMA StatusToRemoteInformed == ASSUME IInv, EInv, syncStatusToRemote PROVE EInv'
  <1>1. /\ pc = "remote" /\ UNCHANGED <<catalog, kcp, manifests, status, lastStatus>>
        /\ pc' = "idle" /\ work' = Idle
        /\ remote' = [CreateOrFetchKyma(remote) EXCEPT !.state = work.state]
    BY DEF syncStatusToRemote, Return, clusterVars
  <1>2. PICK r : r = CreateOrFetchKyma(remote)
    OBVIOUS
  <1>3. remote'.modules = r.modules /\ remote'.channel = r.channel
    BY <1>1, <1>2, RemoteFetched DEF IInv
  <1>4. DOMAIN remote'.modules \subseteq Modules
    BY <1>2, <1>3, FetchedModules DEF IInv, EInv
  <1>5. CASE due'
    BY <1>1, <1>4, <1>5, ReturnInformed
  <1>6. CASE ~due'
    <2>1. ~due /\ work.state # "Error"
      BY <1>6, Zenon DEF syncStatusToRemote
    <2>2. remote.exists
      BY <1>1, <2>1 DEF EInv, Seen
    <2>3. remote'.modules = remote.modules /\ remote'.channel = remote.channel
      BY <1>2, <1>3, <2>2 DEF CreateOrFetchKyma
    <2>4. CatalogFull'
      BY <1>1, <1>4 DEF EInv, CatalogFull, Idle
    <2>5. work.status = status.modules
      BY <1>1 DEF IInv, StatusOK
    <2>6. Seen'
      BY <1>1, <2>1 DEF EInv, Seen, Idle, Installed
    <2>7. ChannelsKept'
      BY <1>1, <2>5 DEF EInv, ChannelsKept, SameChannel
    <2>8. Fresh' /\ Ripe'
      BY <1>1 DEF Fresh, Ripe
    <2>9. Noticed'
      BY <1>1, <1>6, <2>1, <2>3, Zenon DEF EInv, Noticed, Wanted, UpToDate, Released, Generation, Installed
    <2>. QED  BY <2>4, <2>6, <2>7, <2>8, <2>9 DEF EInv
  <1>. QED  BY <1>5, <1>6

LEMMA ReplaceInformed == ASSUME IInv, EInv, Informed, replaceSpecFromRemote PROVE EInv'
  <1>1. /\ pc = "prepare" /\ UNCHANGED <<catalog, kcp, manifests>>
        /\ remote' = CreateOrFetchKyma(remote)
    BY DEF replaceSpecFromRemote, clusterVars
  <1>2. remote'.exists /\ DOMAIN remote'.modules \subseteq Modules
    BY <1>1, FetchedModules DEF IInv, EInv
  <1>3. CASE ValidateDefaultChannel(ReplaceSpec(remote'))
    <2>1. /\ pc' \in {"finish", "lookup"} /\ work' = [work EXCEPT !.spec = ReplaceSpec(remote')]
          /\ status' = status
          /\ pc' = "finish" => work.state = "unset"
      BY <1>3 DEF replaceSpecFromRemote
    <2>2. /\ work'.status = work.status /\ work'.state = work.state
          /\ work'.spec.channel = remote'.channel /\ work'.spec.modules = remote'.modules
      BY <2>1, Zenon DEF IInv, StatusOK, IsWork, ReplaceSpec
    <2>3. CatalogFull'
      BY <1>1, <1>2, <2>2 DEF EInv, CatalogFull
    <2>4. Seen'
      BY <1>1, <1>2, <2>1, <2>2 DEF EInv, Seen, Installed
    <2>5. ChannelsKept'
      BY <1>1, <2>1, <2>2 DEF EInv, ChannelsKept, SameChannel, Installed
    <2>6. Fresh' /\ Ripe' /\ Noticed'
      BY <2>1, <2>2 DEF Fresh, Ripe, Noticed
    <2>. QED  BY <2>3, <2>4, <2>5, <2>6 DEF EInv
  <1>4. CASE ~ValidateDefaultChannel(ReplaceSpec(remote'))
    <2>1. updateStatusWithError(work.status)
      BY <1>4 DEF replaceSpecFromRemote
    <2>2. pc' = "idle" /\ work' = Idle /\ UpdateStatusForExistingModules("Error", work.status)
      BY <2>1 DEF updateStatusWithError, Return, Fail, Informed, Lossless
    <2>3. SameButState(status'.modules, work.status)
      BY <1>1, <2>2, Patched, Unaltered
    <2>4. due'
      BY <2>1 DEF updateStatusWithError
    <2>. QED  BY <1>1, <1>2, <2>2, <2>3, <2>4, ReturnInformed
  <1>. QED  BY <1>3, <1>4

\* The status is patched, and the reconciliation goes on to the SKR.
LEMMA PatchInformed ==
    ASSUME IInv, EInv, pc = "finish", pc' = "remote", NEW state, work' = [work EXCEPT !.state = state],
           status'.modules = work.status, UNCHANGED <<catalog, kcp, manifests, remote>>, due => due',
           Noticed'
    PROVE  EInv'
  <1>1. work'.status = work.status /\ work'.spec = work.spec
    BY DEF IInv, StatusOK, IsWork
  <1>2. CatalogFull'
    BY <1>1 DEF EInv, CatalogFull
  <1>3. Seen'
    BY <1>1 DEF EInv, Seen, Installed
  <1>4. ChannelsKept'
    BY <1>1 DEF EInv, ChannelsKept, SameChannel, Installed
  <1>5. Fresh' /\ Ripe'
    BY DEF Fresh, Ripe
  <1>. QED  BY <1>2, <1>3, <1>4, <1>5 DEF EInv

LEMMA InitialStateInformed == ASSUME IInv, EInv, Informed, handleInitialState PROVE EInv'
  <1>1. /\ pc = "finish" /\ UNCHANGED <<catalog, kcp, manifests, remote>>
        /\ UpdateStatusForExistingModules("Processing", work.status)
        /\ ~work.stale => work' = [work EXCEPT !.state = "Processing"] /\ pc' = "remote"
    BY DEF handleInitialState, clusterVars, Fail, Informed, Lossless
  <1>2. ~work.stale
    BY <1>1 DEF IInv, StatusOK
  <1>3. status'.modules = work.status
    BY <1>1, Patched
  <1>4. due'
    BY Zenon DEF handleInitialState
  <1>5. Noticed'
    BY <1>4, Zenon DEF Noticed
  <1>. QED  BY <1>1, <1>2, <1>3, <1>4, <1>5, PatchInformed

\* A module in the state Error makes the Kyma one.
LEMMA ErrorState ==
    ASSUME NEW entries, NEW conditions, NEW m \in DOMAIN entries, entries[m].state = "Error"
    PROVE  DetermineState(entries, conditions) = "Error"
  BY DEF DetermineState

LEMMA ProcessingStateInformed == ASSUME IInv, EInv, Informed, handleProcessingState PROVE EInv'
  <1>1. pc = "finish" /\ work.state # "unset" /\ UNCHANGED <<catalog, kcp, manifests, remote>>
    BY DEF handleProcessingState, clusterVars
  <1>2. CASE pc' = "idle" /\ work' = Idle /\ UpdateStatusForExistingModules("Error", work.status) /\ due'
    <2>1. SameButState(status'.modules, work.status)
      BY <1>1, <1>2, Patched, Unaltered
    <2>2. DOMAIN remote'.modules \subseteq Modules
      BY <1>1 DEF EInv, CatalogFull
    <2>. QED  BY <1>1, <1>2, <2>1, <2>2, ReturnInformed
  <1>3. ASSUME NEW state, NEW conditions, state = DetermineState(work.status, conditions),
               UpdateStatusForExistingModules(state, work.status), pc' = "remote",
               work' = [work EXCEPT !.state = state], due' = due
        PROVE  EInv'
    <2>1. status'.modules = work.status
      BY <1>1, <1>3, Patched
    <2>2. lastStatus' = status
      BY <1>1, <1>3 DEF UpdateStatusForExistingModules, IInv, StatusOK
    <2>3. work'.state = state
      BY <1>3, ZenonT(60) DEF IInv, StatusOK, IsWork
    <2>4. due \/ (work.spec.channel = remote.channel /\ work.spec.modules = remote.modules)
      BY <1>1, Zenon DEF EInv, Seen
    <2>5. Noticed'
      <3>. SUFFICES ASSUME NEW m \in DOMAIN work.status \cap DOMAIN remote.modules, ~due
                    PROVE  \/ work'.state = "Error"
                           \/ ~Installed(m, work.status) \/ ~Installed(m, status.modules)
                           \/ work.status[m].maintenance
                           \/ work.status[m].channel # Wanted(m, remote)
                           \/ UpToDate(m, work.status[m])
        BY <1>1, <1>3, <2>1, <2>2, ZenonT(60) DEF Noticed, Installed, Wanted, UpToDate, Released, Generation
      <3>1. Wanted(m, work.spec) = Wanted(m, remote) /\ m \in DOMAIN work.spec.modules
        BY <2>4 DEF Wanted
      <3>2. work.status[m].state = "Error" => work'.state = "Error"
        BY <1>3, <2>3, ErrorState
      <3>. QED  BY <1>1, <3>1, <3>2, Zenon DEF EInv, Ripe
    <2>. QED  BY <1>1, <1>3, <2>1, <2>5, PatchInformed
  <1>4. \/ pc' = "idle" /\ work' = Idle /\ UpdateStatusForExistingModules("Error", work.status) /\ due'
        \/ \E state, conditions :
              /\ state = DetermineState(work.status, conditions) /\ UpdateStatusForExistingModules(state, work.status)
              /\ pc' = "remote" /\ work' = [work EXCEPT !.state = state] /\ due' = due
    BY Zenon DEF handleProcessingState, updateStatusWithError, failWithError, Return, Fail, Informed, Lossless
  <1>. QED  BY <1>2, <1>3, <1>4

\* A module of the spec is enabled.
LEMMA EnabledGiven ==
    ASSUME CatalogOK, NEW spec, ChannelsOK(spec.modules), NEW entries, NEW m \in DOMAIN spec.modules, NEW module,
           module = GenerateModulesFromTemplates([spec |-> spec, status |-> entries, labels |-> labels],
                                                 catalog, window, {}, Modules \X Versions)[m]
    PROVE  module.enabled
  <1>1. PICK info : info = FetchModuleInfo(spec, entries)[m]
    BY Zenon
  <1>2. info.enabled
    <2>1. Named(m, FetchModuleInfo(spec, entries)[m], spec)
      BY Enabled, Zenon
    <2>. QED  BY <1>1, <2>1, Zenon DEF Named
  <1>3. PICK found : module = appendModuleWithInformation(m, info, found, catalog.templates, Modules \X Versions)
    BY <1>1, Zenon DEF GenerateModulesFromTemplates, FetchModuleInfo
  <1>4. module.enabled = info.enabled
    <2>1. TakesFlag(appendModuleWithInformation(m, info, found, catalog.templates, Modules \X Versions), info)
      BY AppendedFlags, Zenon
    <2>. QED  BY <1>3, <2>1, Zenon DEF TakesFlag
  <1>. QED  BY <1>2, <1>4, Zenon

LEMMA LookupInformed == ASSUME IInv, EInv, Informed, LookupTemplates PROVE EInv'
  <1>. DEFINE kyma == [spec |-> work.spec, status |-> work.status, labels |-> labels]
              modules == GenerateModulesFromTemplates(kyma, catalog, window, {}, Modules \X Versions)
  <1>1. /\ pc = "lookup" /\ pc' = "sync"
        /\ UNCHANGED <<catalog, kcp, manifests, remote, status, due>>
        /\ work' = [work EXCEPT !.modules = modules, !.todo = DOMAIN modules,
                                !.states = [m \in DOMAIN modules |-> "unset"], !.window = window]
    <2>1. (Modules \X Versions) \ ({} \ descriptors) = Modules \X Versions
      OBVIOUS
    <2>. QED  BY <2>1 DEF LookupTemplates, LookupWith
  <1>2. DOMAIN modules = DOMAIN work.spec.modules \cup DOMAIN work.status
    BY Zenon DEF GenerateModulesFromTemplates, FetchModuleInfo
  <1>3. /\ work.spec.channel \in Channels /\ ChannelsOK(work.spec.modules)
        /\ \A m \in DOMAIN work.status : IsEntry(work.status[m])
    BY <1>1 DEF IInv, SpecOK, StatusOK
  <1>4. ASSUME NEW m \in DOMAIN work.spec.modules PROVE modules[m].enabled
    BY <1>3, EnabledGiven, Zenon DEF IInv
  <1>5. ASSUME NEW m \in DOMAIN work.status \ DOMAIN work.spec.modules, modules[m].err = "nil"
        PROVE  Installed(m, work.status) /\ modules[m].channel = work.status[m].channel
    <2>1. PICK module :
            module = GenerateModulesFromTemplates([spec |-> work.spec, status |-> work.status, labels |-> labels],
                                                  catalog, window, {}, Modules \X Versions)[m]
      BY Zenon
    <2>2. module = modules[m]
      BY <2>1, Zenon
    <2>. HIDE DEF modules
    <2>3. CatalogOK /\ module.err = "nil"
      BY <1>5, <2>2, Zenon DEF IInv
    <2>4. PICK spec, entries : spec = work.spec /\ entries = work.status
      BY Zenon
    <2>5. /\ module = GenerateModulesFromTemplates([spec |-> spec, status |-> entries, labels |-> labels],
                                                   catalog, window, {}, Modules \X Versions)[m]
          /\ m \in DOMAIN entries \ DOMAIN spec.modules /\ \A n \in DOMAIN entries : IsEntry(entries[n])
      BY <1>3, <2>1, <2>4, Zenon
    <2>6. Lasts(m, module, entries)
      BY <2>3, <2>5, LookupLeft, Zenon
    <2>. QED  BY <2>2, <2>4, <2>6, ZenonT(60) DEF Lasts
  <1>6. ASSUME NEW m \in DOMAIN work.spec.modules, Installed(m, work.status)
        PROVE  /\ modules[m].err \in {"nil", "waiting", "windowUnknown", "updateNotAllowed"}
               /\ modules[m].channel = Wanted(m, work.spec)
               /\ modules[m].version = Released(m, modules[m].channel)
               /\ modules[m].err = "nil" => modules[m].generation = Generation(m, modules[m].version)
               /\ modules[m].err = "updateNotAllowed" =>
                     ~isValidVersionChange(modules[m].version, work.status[m].version)
    <2>1. m \in DOMAIN work.spec.modules \cap DOMAIN catalog.metas
      BY Zenon DEF EInv, CatalogFull
    <2>2. Wanted(m, work.spec) \in Channels
      BY <1>3, LookupAssumption, Zenon DEF Wanted, getDesiredChannel, ChannelsOK
    <2>3. work.status[m].version # 0
      BY <1>6, LookupAssumption, Zenon DEF EInv, Seen, Installed
    <2>4. PICK module :
            module = GenerateModulesFromTemplates([spec |-> work.spec, status |-> work.status, labels |-> labels],
                                                  catalog, window, {}, Modules \X Versions)[m]
      BY Zenon
    <2>7. module = modules[m]
      BY <2>4, Zenon
    <2>. HIDE DEF modules
    <2>5. Lossless /\ labels.beta = TRUE /\ window \in {"active", "inactive", "unknown"} /\ CatalogOK
      BY DEF Informed, IInv, SpecOK
    <2>6. Exact(m, module, work.spec, work.status)
      BY <1>3, <2>1, <2>2, <2>4, <2>5, LookupExact, Zenon
    <2>. QED  BY <1>6, <2>3, <2>6, <2>7, Zenon DEF Exact
  <1>. HIDE DEF modules
  <1>7. /\ work'.status = work.status /\ work'.spec = work.spec
        /\ work'.modules = modules /\ work'.todo = DOMAIN modules
    BY <1>1 DEF IInv, StatusOK, IsWork
  <1>8. CatalogFull'
    BY <1>1, <1>7 DEF EInv, CatalogFull
  <1>9. Seen'
    BY <1>1, <1>7 DEF EInv, Seen, Installed
  <1>10. ChannelsKept'
    BY <1>1, <1>7 DEF EInv, ChannelsKept, SameChannel, Installed
  <1>11. ASSUME NEW m \in DOMAIN work.spec.modules, Installed(m, work.status)
         PROVE  Offered(m, work.modules[m], work.status[m])'
    <2>1. PICK module, e : module = modules[m] /\ e = work.status[m]
      OBVIOUS
    <2>2. /\ module.err \in {"nil", "waiting", "windowUnknown", "updateNotAllowed"}
          /\ module.channel = Wanted(m, work.spec)
          /\ module.version = Released(m, module.channel)
          /\ module.err = "nil" => module.generation = Generation(m, module.version)
          /\ module.err = "updateNotAllowed" => ~isValidVersionChange(module.version, e.version)
      BY <1>6, <1>11, <2>1, Zenon
    <2>3. m \in work'.todo
      BY <1>2, <1>7
    <2>4. work'.modules[m] = module /\ work'.status[m] = e /\ work'.spec = work.spec /\ catalog' = catalog
      BY <1>1, <1>7, <2>1, ZenonT(60)
    <2>. QED  BY <2>2, <2>3, <2>4, Zenon DEF Offered, Released, Generation, Wanted
  <1>12. \A m \in DOMAIN modules :
            /\ m \in DOMAIN work.spec.modules => modules[m].enabled
            /\ modules[m].err = "nil" /\ ~modules[m].enabled =>
                  Installed(m, work.status) /\ modules[m].channel = work.status[m].channel
    BY <1>2, <1>4, <1>5
  <1>13. Fresh'
    BY <1>1, <1>2, <1>7, <1>11, <1>12 DEF Fresh, Installed
  <1>14. Ripe' /\ Noticed'
    BY <1>1 DEF Ripe, Noticed
  <1>. QED  BY <1>8, <1>9, <1>10, <1>13, <1>14 DEF EInv

LEMMA SyncEndsInformed == ASSUME IInv, EInv, SyncEnds PROVE EInv'
  <1>1. /\ pc = "sync" /\ pc' = "status" /\ work.todo = {}
        /\ UNCHANGED <<catalog, kcp, manifests, remote, status, work, due>>
    BY ZenonT(60) DEF SyncEnds, clusterVars, IInv, StatusOK
  <1>2. CatalogFull' /\ Seen'
    BY <1>1, Zenon DEF EInv, CatalogFull, Seen, Installed
  <1>3. ChannelsKept'
    BY <1>1, Zenon DEF EInv, ChannelsKept, SameChannel, Installed
  <1>4. Fresh'
    BY <1>1, Zenon DEF EInv, Fresh, Installed, Offered, Released, Generation, Wanted
  <1>5. Ripe' /\ Noticed'
    BY <1>1, Zenon DEF Ripe, Noticed
  <1>. QED  BY <1>2, <1>3, <1>4, <1>5, Zenon DEF EInv

LEMMA DeleteEndsInformed == ASSUME IInv, EInv, DeleteEnds PROVE EInv'
  <1>1. /\ pc = "delete" /\ pc' = "finish"
        /\ UNCHANGED <<catalog, kcp, manifests, remote, status, work, due>>
    BY DEF DeleteEnds, clusterVars
  <1>2. CatalogFull' /\ Seen'
    BY <1>1, Zenon DEF EInv, CatalogFull, Seen, Installed
  <1>3. ChannelsKept'
    BY <1>1, Zenon DEF EInv, ChannelsKept, SameChannel, Installed
  <1>4. Ripe'
    BY <1>1, Zenon DEF EInv, Ripe, Installed, UpToDate, Released, Generation, Wanted
  <1>5. Fresh' /\ Noticed'
    BY <1>1, Zenon DEF Fresh, Noticed
  <1>. QED  BY <1>2, <1>3, <1>4, <1>5, Zenon DEF EInv

\* Steps that leave what the controller has read alone, and put the Kyma into the queue at most.
LEMMA ReadFrame ==
    ASSUME EInv, UNCHANGED <<catalog, kcp, remote, status, lastStatus, pc>>, due => due',
           work'.spec = work.spec, work'.status = work.status, work'.state = work.state,
           work'.modules = work.modules, pc \in {"sync", "status"} => work'.todo = work.todo
    PROVE  CatalogFull' /\ Seen' /\ Fresh' /\ Ripe' /\ Noticed'
  <1>1. CatalogFull' /\ Seen'
    BY Zenon DEF EInv, CatalogFull, Seen, Installed
  <1>3. Fresh'
    <2>. SUFFICES ASSUME pc \in {"sync", "status"}
                  PROVE  Fresh'
      BY Zenon DEF Fresh
    <2>1. /\ DOMAIN work.spec.modules \subseteq DOMAIN work.modules
          /\ \A m \in DOMAIN work.modules :
                /\ m \in DOMAIN work.spec.modules => work.modules[m].enabled
                /\ work.modules[m].err = "nil" /\ ~work.modules[m].enabled =>
                      Installed(m, work.status) /\ work.modules[m].channel = work.status[m].channel
      BY Zenon DEF EInv, Fresh
    <2>2. due \/ \A m \in DOMAIN work.spec.modules :
              Installed(m, work.status) => Offered(m, work.modules[m], work.status[m])
      BY Zenon DEF EInv, Fresh
    <2>3. \A m : Installed(m, work.status)' <=> Installed(m, work.status)
      BY Zenon DEF Installed
    <2>4. ASSUME NEW m \in DOMAIN work.spec.modules, ~due', Installed(m, work.status)'
          PROVE  Offered(m, work.modules[m], work.status[m])'
      <3>1. Offered(m, work.modules[m], work.status[m])
        BY <2>2, <2>3, <2>4, ZenonT(60)
      <3>. QED  BY <3>1, Zenon DEF Offered, Released, Generation, Wanted
    <2>. QED  BY <2>1, <2>3, <2>4, Zenon DEF Fresh
  <1>4. ASSUME NEW m, NEW e PROVE UpToDate(m, e)' <=> UpToDate(m, e)
    BY Zenon DEF UpToDate, Released, Generation
  <1>5. Ripe'
    BY <1>4, Zenon DEF EInv, Ripe, Installed, Wanted
  <1>6. Noticed'
    BY <1>4, Zenon DEF EInv, Noticed, Installed, Wanted
  <1>. QED  BY <1>1, <1>3, <1>5, <1>6, ZenonT(60)

LEMMA MoveInformed ==
    ASSUME EInv, Moves, UNCHANGED <<catalog, kcp, remote, status, lastStatus, pc>>, due => due',
           \/ work' = work
           \/ /\ pc = "delete" /\ work'.spec = work.spec /\ work'.status = work.status
              /\ work'.state = work.state /\ work'.modules = work.modules
    PROVE  EInv'
  <1>1. CatalogFull' /\ Seen' /\ Fresh' /\ Ripe' /\ Noticed'
    BY ReadFrame
  <1>2. ChannelsKept'
    <2>1. ChannelsKept
      BY DEF EInv
    <2>3. CASE work' = work
      <3>1. \A n \in DOMAIN manifests' : n \in DOMAIN manifests /\
                manifests'[n].channel = manifests[n].channel /\ manifests'[n].unmanaged = manifests[n].unmanaged
        BY Zenon DEF Moves
      <3>. QED  BY <2>1, <2>3, <3>1, Zenon DEF ChannelsKept, SameChannel, Installed
    <2>4. CASE work' # work
      <3>1. pc = "delete" /\ pc' = "delete" /\ work'.status = work.status
        BY <2>4, Zenon
      <3>2. ASSUME NEW n \in DOMAIN manifests' PROVE SameChannel(n, work.status)'
        <4>1. /\ n \in DOMAIN manifests /\ manifests'[n].channel = manifests[n].channel
              /\ manifests'[n].unmanaged = manifests[n].unmanaged
          BY <3>2, Zenon DEF Moves
        <4>2. SameChannel(n, work.status)
          BY <2>1, <3>1, <4>1, Zenon DEF ChannelsKept
        <4>. QED  BY <3>1, <4>1, <4>2, Zenon DEF SameChannel, Installed
      <3>. QED  BY <3>1, <3>2, Zenon DEF ChannelsKept
    <2>. QED  BY <2>3, <2>4
  <1>. QED  BY <1>1, <1>2, Zenon DEF EInv

LEMMA DeleteInformed == ASSUME IInv, EInv, NEW m, DeleteNoLongerExistingModules(m) PROVE EInv'
  <1>1. /\ pc = "delete" /\ UNCHANGED <<catalog, kcp, remote, status, lastStatus, pc>>
        /\ manifests' \in {manifests, MarkDeleted(m)}
    BY DEF DeleteNoLongerExistingModules, clusterVars
  <1>2. \E failed : work' = [work EXCEPT !.todo = @ \ {m}, !.failed = failed]
    BY Zenon DEF DeleteNoLongerExistingModules
  <1>3. /\ work'.spec = work.spec /\ work'.status = work.status
        /\ work'.state = work.state /\ work'.modules = work.modules
    BY <1>2 DEF IInv, StatusOK, IsWork
  <1>4. Moves
    BY <1>1, MarkMoves DEF IInv
  <1>5. due => due'
    BY Zenon DEF DeleteNoLongerExistingModules, Wakened
  <1>. QED  BY <1>1, <1>3, <1>4, <1>5, MoveInformed

LEMMA SettlesInformed == ASSUME IInv, EInv, NEW m, ManifestSettles(m) PROVE EInv'
  <1>1. UNCHANGED <<catalog, kcp, remote, status, lastStatus, pc, work>>
    BY DEF ManifestSettles, clusterVars
  <1>2. due => due'
    BY Zenon DEF ManifestSettles, Wakened
  <1>. QED  BY <1>1, <1>2, SettlesMoves, MoveInformed

LEMMA WindowInformed == ASSUME IInv, EInv, WindowChanges PROVE EInv'
  <1>1. UNCHANGED <<catalog, kcp, remote, manifests, status, lastStatus, due, pc, work>>
    BY DEF WindowChanges
  <1>2. Moves
    BY <1>1 DEF Moves, IInv, ManifestsOK
  <1>. QED  BY <1>1, <1>2, MoveInformed

LEMMA UserInformed == ASSUME IInv, EInv, Informed, UserChanges PROVE EInv'
  <1>1. PICK modules, channel : EditsKyma(modules, channel) /\ DOMAIN modules \subseteq Modules
    <2>1. PICK m \in Modules :
            \E x, y : \/ EditsKyma(With(remote.modules, m, x), y)
                      \/ EditsKyma(Without(remote.modules, m), y)
                      \/ EditsKyma([remote.modules EXCEPT ![m].managed = ~@], y)
                      \/ EditsKyma([remote.modules EXCEPT ![m].channel = x], y)
                      \/ EditsKyma(remote.modules, y)
      BY Zenon DEF UserChanges
    <2>2. DOMAIN remote.modules \subseteq Modules
      BY DEF EInv, CatalogFull
    <2>3. \A x : DOMAIN With(remote.modules, m, x) \subseteq Modules
      BY <2>2 DEF With
    <2>4. DOMAIN Without(remote.modules, m) \subseteq Modules
      BY <2>2 DEF Without
    <2>. QED  BY <2>1, <2>2, <2>3, <2>4
  <1>2. /\ remote' = [remote EXCEPT !.modules = modules, !.channel = channel]
        /\ UNCHANGED <<catalog, kcp, manifests, status, lastStatus, pc, work>>
    BY <1>1 DEF EditsKyma, clusterVars
  <1>3. due'
    BY <1>1 DEF EditsKyma, SKREvent, ByRuntimeIDFails, Fail, Informed
  <1>4. remote'.modules = modules
    BY <1>2 DEF IInv, SpecOK
  <1>5. CatalogFull'
    BY <1>1, <1>2, <1>4 DEF EInv, CatalogFull
  <1>6. Seen'
    BY <1>2, <1>3 DEF EInv, Seen, Installed
  <1>7. ChannelsKept'
    BY <1>2, Zenon DEF EInv, ChannelsKept, SameChannel, Installed
  <1>8. Fresh' /\ Ripe' /\ Noticed'
    BY <1>2, <1>3 DEF EInv, Fresh, Ripe, Noticed, Installed
  <1>. QED  BY <1>5, <1>6, <1>7, <1>8 DEF EInv

\* The channel of the Manifest after an update, and whether it is unmanaged.
LEMMA UpdatedChannel ==
    ASSUME ManifestsOK, NEW m, NEW module, module.version \in Versions, module.unmanaged => module.enabled,
           m \in DOMAIN updateManifest(m, module)
    PROVE  \/ module.unmanaged /\ updateManifest(m, module)[m].unmanaged
           \/ ~updateManifest(m, module)[m].unmanaged /\ updateManifest(m, module)[m].channel = module.channel
           \/ /\ m \in DOMAIN manifests /\ ~module.enabled
              /\ updateManifest(m, module)[m].unmanaged = manifests[m].unmanaged
              /\ updateManifest(m, module)[m].channel = manifests[m].channel
  <1>1. CASE ~NeedToUpdate(m, module)
    <2>1. updateManifest(m, module) = manifests
      BY <1>1, Zenon DEF updateManifest
    <2>2. CASE manifests[m].unmanaged
      <3>1. module.unmanaged
        BY <1>1, <2>2, Zenon DEF NeedToUpdate
      <3>. QED  BY <2>1, <2>2, <3>1, Zenon
    <2>3. CASE ~manifests[m].unmanaged
      <3>1. manifests[m].channel = module.channel
        BY <1>1, <2>1, <2>3, ZenonT(60) DEF NeedToUpdate, IsSameChannel
      <3>. QED  BY <2>1, <2>3, <3>1, Zenon
    <2>. QED  BY <2>2, <2>3, Zenon
  <1>2. CASE NeedToUpdate(m, module) /\ module.enabled
    <2>1. updateManifest(m, module)[m] = patchManifest(m, module)
      BY <1>2, Zenon DEF updateManifest, With
    <2>2. /\ patchManifest(m, module).channel = module.channel
          /\ patchManifest(m, module).unmanaged = module.unmanaged
      BY ManifestPatched
    <2>. QED  BY <2>1, <2>2
  <1>3. CASE NeedToUpdate(m, module) /\ ~module.enabled
    <2>1. m \in DOMAIN manifests
      BY <1>3 DEF updateManifest
    <2>2. updateManifest(m, module)[m] = [manifests[m] EXCEPT !.version = module.version]
      BY <1>3, <2>1 DEF updateManifest, updateAvailableManifestSpec, With
    <2>3. /\ updateManifest(m, module)[m].channel = manifests[m].channel
          /\ updateManifest(m, module)[m].unmanaged = manifests[m].unmanaged
      BY <2>1, <2>2, ZenonT(60) DEF ManifestsOK, IsManifest
    <2>. QED  BY <1>3, <2>1, <2>3, Zenon
  <1>. QED  BY <1>1, <1>2, <1>3, Zenon

\* An update that changes neither version nor channel of an installed, managed module,
\* and neither makes nor removes a Manifest, wakes nobody; any other one does.
LEMMA UpdateWakes ==
    ASSUME ManifestsOK, NEW m, NEW module, module.version \in Versions, module.enabled, ~module.unmanaged,
           manifests' = updateManifest(m, module), ~PassesEventFilter(manifests, manifests')
    PROVE  /\ m \in DOMAIN manifests
           /\ ~manifests[m].unmanaged =>
                 manifests[m].version = module.version /\ manifests[m].channel = module.channel
  <1>1. CASE NeedToUpdate(m, module)
    <2>1. manifests' = With(manifests, m, patchManifest(m, module))
      BY <1>1 DEF updateManifest
    <2>2. m \in DOMAIN manifests' /\ manifests'[m] = patchManifest(m, module)
      BY <2>1, Zenon DEF With
    <2>3. m \in DOMAIN manifests
      BY <2>2, ZenonT(60) DEF PassesEventFilter
    <2>4. manifests'[m].version = manifests[m].version /\ manifests'[m].channel = manifests[m].channel
      BY <2>2, <2>3, Zenon DEF PassesEventFilter
    <2>5. patchManifest(m, module).version = module.version /\ patchManifest(m, module).channel = module.channel
      BY ManifestPatched, ZenonT(60)
    <2>. QED  BY <2>2, <2>3, <2>4, <2>5, Zenon
  <1>2. CASE ~NeedToUpdate(m, module)
    BY <1>2, Zenon DEF NeedToUpdate, IsSameChannel
  <1>. QED  BY <1>1, <1>2, Zenon

LEMMA SyncInformed == ASSUME IInv, EInv, NEW m, SyncModule(m) PROVE EInv'
  <1>. DEFINE module == work.modules[m]
  <1>1. m \in DOMAIN work.modules
    BY SyncOthers, Zenon
  <1>3. module.err = "nil" => module.version \in Versions /\ (module.unmanaged => module.enabled)
    BY SyncOthers, Zenon
  <1>4. \A n \in DOMAIN manifests' \ {m} : n \in DOMAIN manifests /\ manifests'[n] = manifests[n]
    BY SyncOthers, Zenon
  <1>5. lastStatus' = lastStatus
    BY DEF SyncModule
  <1>6. due' \/ (~due /\ ~PassesEventFilter(manifests, manifests'))
    BY Zenon DEF SyncModule, Wakened
  <1>7. m \in DOMAIN manifests => Agree(m, work.status) /\ SameChannel(m, work.status)
    BY SyncGives, Zenon DEF IInv, Synced, EInv, ChannelsKept
  <1>8. CatalogFull' /\ Seen'
    BY <1>5, <1>6, SyncGives, Zenon DEF EInv, CatalogFull, Seen, Installed
  <1>9. Ripe' /\ Noticed'
    BY SyncGives, Zenon DEF Ripe, Noticed
  <1>10. ChannelsKept'
    <2>1. ASSUME m \in DOMAIN manifests', module.err = "nil"
          PROVE  IF manifests'[m].unmanaged THEN module.unmanaged ELSE manifests'[m].channel = module.channel
      <3>1. manifests' = updateManifest(m, module)
        BY <2>1, SyncGives, ZenonT(60)
      <3>2. CASE /\ m \in DOMAIN manifests /\ ~module.enabled
                 /\ manifests'[m].unmanaged = manifests[m].unmanaged
                 /\ manifests'[m].channel = manifests[m].channel
        <4>1. Installed(m, work.status) /\ module.channel = work.status[m].channel
          BY <1>1, <2>1, <3>2, SyncGives, Zenon DEF EInv, Fresh
        <4>2. ~manifests[m].unmanaged /\ work.status[m].channel = manifests[m].channel
          BY <1>7, <3>2, <4>1, Zenon DEF SameChannel
        <4>. QED  BY <3>2, <4>1, <4>2, Zenon
      <3>3. CASE \/ module.unmanaged /\ manifests'[m].unmanaged
                 \/ ~manifests'[m].unmanaged /\ manifests'[m].channel = module.channel
        BY <3>3
      <3>. QED  BY <1>3, <2>1, <3>1, <3>2, <3>3, UpdatedChannel, Zenon DEF IInv
    <2>2. ASSUME NEW n \in DOMAIN manifests'
          PROVE  IF n \in work'.todo \/ n \notin DOMAIN work'.modules \/ work'.modules[n].err # "nil"
                 THEN SameChannel(n, work.status)'
                 ELSE IF manifests'[n].unmanaged THEN work'.modules[n].unmanaged
                 ELSE manifests'[n].channel = work'.modules[n].channel
      <3>1. CASE n = m /\ module.err = "nil"
        BY <1>1, <2>1, <3>1, SyncGives, Zenon
      <3>2. CASE n = m /\ module.err # "nil"
        <4>1. manifests' = manifests
          BY <3>2, SyncGives, Zenon
        <4>. QED  BY <1>7, <3>2, <4>1, SyncGives, ZenonT(60) DEF SameChannel, Installed
      <3>3. CASE n # m
        <4>1. n \in DOMAIN manifests /\ manifests'[n] = manifests[n]
          BY <1>4, <3>3, ZenonT(60)
        <4>2. SameChannel(n, work.status)' <=> SameChannel(n, work.status)
          BY <4>1, SyncGives, Zenon DEF SameChannel, Installed
        <4>3. IF n \in work.todo \/ n \notin DOMAIN work.modules \/ work.modules[n].err # "nil"
              THEN SameChannel(n, work.status)
              ELSE IF manifests[n].unmanaged THEN work.modules[n].unmanaged
              ELSE manifests[n].channel = work.modules[n].channel
          BY <4>1, SyncGives, Zenon DEF EInv, ChannelsKept
        <4>4. work'.modules = work.modules /\ work'.todo = work.todo \ {m}
          BY SyncGives, Zenon
        <4>. QED  BY <3>3, <4>1, <4>2, <4>3, <4>4, Zenon
      <3>. QED  BY <3>1, <3>2, <3>3, Zenon
    <2>. QED  BY <2>2, SyncGives, Zenon DEF ChannelsKept
  <1>11. Fresh'
    <2>1. ASSUME NEW n \in DOMAIN work.spec.modules, Installed(n, work.status), ~due'
          PROVE  Offered(n, work.modules[n], work.status[n])'
      <3>1. Offered(n, work.modules[n], work.status[n])
        BY <1>6, <2>1, SyncGives, ZenonT(60) DEF EInv, Fresh
      <3>2. ASSUME n = m, module.err = "nil", ~module.unmanaged
            PROVE  module.channel = work.status[m].channel /\ module.version = work.status[m].version
        <4>1. module.enabled
          BY <1>1, <2>1, <3>2, SyncGives, Zenon DEF EInv, Fresh
        <4>2. manifests' = updateManifest(m, module)
          BY <3>2, SyncGives, Zenon
        <4>3. m \in DOMAIN manifests /\ (~manifests[m].unmanaged =>
                  manifests[m].version = module.version /\ manifests[m].channel = module.channel)
          BY <1>3, <1>6, <2>1, <3>2, <4>1, <4>2, UpdateWakes, Zenon DEF IInv
        <4>4. ~manifests[m].unmanaged
          BY <1>7, <2>1, <3>2, <4>3, Zenon DEF SameChannel
        <4>. QED  BY <1>7, <4>3, <4>4, Zenon DEF SameChannel, Agree
      <3>3. PICK x, e : x = work.modules[n] /\ e = work.status[n]
        OBVIOUS
      <3>4. n \notin work'.todo /\ x.err = "nil" /\ ~x.unmanaged => x.channel = e.channel /\ x.version = e.version
        BY <3>1, <3>2, <3>3, SyncGives, Zenon DEF Offered
      <3>5. work'.modules[n] = x /\ work'.status[n] = e /\ work'.spec = work.spec /\ catalog' = catalog
        BY <3>3, SyncGives, Zenon
      <3>. QED  BY <3>1, <3>3, <3>4, <3>5, Zenon DEF Offered, Released, Generation, Wanted
    <2>. QED  BY <2>1, SyncGives, Zenon DEF EInv, Fresh, Installed
  <1>. QED  BY <1>8, <1>9, <1>10, <1>11 DEF EInv

\* The channel of the entry that the lookup and the Manifest give, and whether it has a template.
TakesChannel(m, module, entries, e) ==
    /\ module.err = "nil" => e.channel = module.channel
    /\ module.err = "nil" /\ module.unmanaged => e.template = 0
    /\ module.err # "nil" /\ Installed(m, entries) => e.channel = entries[m].channel
    /\ module.err # "nil" /\ ~Installed(m, entries) => e.template = 0

LEMMA ChannelGiven ==
    ASSUME NEW m, NEW module, NEW manifestState, NEW spec, NEW entries, NEW active,
           LookedUp(m, module, spec, entries, active), m \in DOMAIN entries => IsEntry(entries[m]),
           NEW e, e = GenerateModuleStatus(m, module, manifestState, entries)
    PROVE  TakesChannel(m, module, entries, e)
  <1>1. CASE module.err = "nil"
    <2>1. e = [state |-> IF module.unmanaged THEN "Unmanaged" ELSE manifestState,
               channel |-> module.channel, version |-> module.version, manifest |-> ~module.unmanaged,
               template |-> IF module.unmanaged THEN 0 ELSE module.generation, maintenance |-> FALSE]
      BY <1>1, Zenon DEF GenerateModuleStatus
    <2>2. e.channel = module.channel /\ (module.unmanaged => e.template = 0)
      BY <2>1
    <2>. QED  BY <1>1, <2>2, ZenonT(60) DEF TakesChannel
  <1>2. CASE module.err # "nil" /\ m \in DOMAIN entries /\ module.err \in KeepsEntry
    <2>1. e \in {[entries[m] EXCEPT !.maintenance = TRUE], [entries[m] EXCEPT !.state = "Error"],
                 [entries[m] EXCEPT !.state = "Warning"]}
      BY <1>2 DEF GenerateModuleStatus, GenerateModuleStatusFromError, KeepsEntry
    <2>2. IsEntry(entries[m])
      BY <1>2
    <2>3. e.channel = entries[m].channel /\ e.template = entries[m].template
      BY <2>1, <2>2 DEF IsEntry
    <2>. QED  BY <1>2, <2>3, Zenon DEF Installed, TakesChannel
  <1>3. CASE module.err # "nil" /\ ~(m \in DOMAIN entries /\ module.err \in KeepsEntry)
    <2>1. PICK x : e = [newDefaultErrorStatus(module.channel) EXCEPT !.state = x]
      BY <1>3, Zenon DEF GenerateModuleStatus, GenerateModuleStatusFromError
    <2>2. e.template = 0
      BY <2>1 DEF newDefaultErrorStatus
    <2>3. ~Installed(m, entries)
      BY <1>3 DEF LookedUp, Installed
    <2>. QED  BY <1>3, <2>2, <2>3, Zenon DEF TakesChannel
  <1>. QED  BY <1>1, <1>2, <1>3, Zenon

\* What the entry tells of an update that is held back.
Marked(module, e) ==
    /\ module.err = "waiting" => e.maintenance
    /\ module.err = "windowUnknown" => e.state = "Error"

LEMMA HeldBack ==
    ASSUME NEW m, NEW module, NEW manifestState, NEW entries, m \in DOMAIN entries, IsEntry(entries[m]),
           NEW e, e = GenerateModuleStatus(m, module, manifestState, entries)
    PROVE  Marked(module, e)
  <1>1. CASE module.err = "waiting"
    <2>1. e = [entries[m] EXCEPT !.maintenance = TRUE]
      BY <1>1 DEF GenerateModuleStatus, GenerateModuleStatusFromError, KeepsEntry
    <2>2. \A x, y : IsEntry(x) => [x EXCEPT !.maintenance = y].maintenance = y
      BY DEF IsEntry
    <2>3. e.maintenance
      BY <2>1, <2>2, Zenon
    <2>. QED  BY <1>1, <2>3 DEF Marked
  <1>2. CASE module.err = "windowUnknown"
    <2>1. e = [entries[m] EXCEPT !.state = "Error"]
      BY <1>2 DEF GenerateModuleStatus, GenerateModuleStatusFromError, KeepsEntry
    <2>. QED  BY <1>2, <2>1 DEF IsEntry, Marked
  <1>. QED  BY <1>1, <1>2 DEF Marked

\* The channel of an entry that stays, and all of it when the module is in the spec.
ChannelOf(m, kept, generated, spec) ==
    /\ kept[m].channel = generated[m].channel
    /\ m \in DOMAIN spec.modules => kept[m] = generated[m]

LEMMA ChannelStays ==
    ASSUME NEW generated, NEW spec, NEW unread, NEW kept,
           \A m \in DOMAIN generated : IsEntry(generated[m]),
           kept = DeleteNoLongerExistingModuleStatus(generated, spec, unread), NEW m \in DOMAIN kept
    PROVE  ChannelOf(m, kept, generated, spec)
  <1>1. m \in DOMAIN generated
    BY DEF DeleteNoLongerExistingModuleStatus
  <1>2. PICK x : kept[m] = IF m \in DOMAIN spec.modules THEN generated[m] ELSE [generated[m] EXCEPT !.state = x]
    BY Zenon DEF DeleteNoLongerExistingModuleStatus
  <1>. QED  BY <1>1, <1>2 DEF IsEntry, ChannelOf

LEMMA ChannelGenerated ==
    ASSUME IInv, pc = "status", NEW m \in DOMAIN work.modules, NEW e,
           e = GenerateModuleStatus(m, work.modules[m], work.states[m], work.status)
    PROVE  /\ work.modules[m].err = "nil" => e.channel = work.modules[m].channel
           /\ work.modules[m].err = "nil" /\ work.modules[m].unmanaged => e.template = 0
           /\ work.modules[m].err # "nil" /\ Installed(m, work.status) => e.channel = work.status[m].channel
           /\ work.modules[m].err # "nil" /\ ~Installed(m, work.status) => e.template = 0
  <1>1. PICK module, spec, entries, active, x :
            /\ module = work.modules[m] /\ spec = work.spec /\ entries = work.status
            /\ active = work.window /\ x = work.states[m]
    BY Zenon
  <1>2. m \in DOMAIN entries => IsEntry(entries[m])
    BY <1>1, Zenon DEF IInv, StatusOK
  <1>3. LookedUp(m, module, spec, entries, active)
    BY <1>1, Zenon DEF IInv, Synced
  <1>4. e = GenerateModuleStatus(m, module, x, entries)
    BY <1>1, Zenon
  <1>5. TakesChannel(m, module, entries, e)
    BY <1>2, <1>3, <1>4, ChannelGiven, Zenon
  <1>. QED  BY <1>1, <1>5, Zenon DEF TakesChannel

LEMMA UpdateInformed == ASSUME IInv, EInv, NEW unread, UpdateModuleStatuses(unread) PROVE EInv'
  <1>0. PICK generated, kept :
            /\ generated = [m \in DOMAIN work.modules |->
                              GenerateModuleStatus(m, work.modules[m], work.states[m], work.status)]
            /\ kept = DeleteNoLongerExistingModuleStatus(generated, work.spec, unread)
    BY Zenon
  <1>1. /\ pc = "status" /\ pc' = "delete"
        /\ UNCHANGED <<catalog, kcp, manifests, remote, status, due>>
        /\ \E todo : work' = [work EXCEPT !.status = kept, !.todo = todo]
    BY <1>0, Zenon DEF UpdateModuleStatuses, clusterVars
  <1>2. /\ work.todo = {} /\ DOMAIN work.status \subseteq DOMAIN work.modules
        /\ work.status = status.modules
    BY <1>1, Zenon DEF IInv, Synced, EInv, Seen
  <1>3. ASSUME NEW m \in DOMAIN work.modules
        PROVE  /\ LookedUp(m, work.modules[m], work.spec, work.status, work.window)
               /\ m \in DOMAIN work.status => IsEntry(work.status[m])
               /\ generated[m] = GenerateModuleStatus(m, work.modules[m], work.states[m], work.status)
    BY <1>0, <1>1, Zenon DEF IInv, Synced, StatusOK
  <1>4. DOMAIN generated = DOMAIN work.modules
    BY <1>0, Zenon
  <1>5. ASSUME NEW m \in DOMAIN work.modules
        PROVE  /\ IsEntry(generated[m])
               /\ work.modules[m].err = "nil" /\ ~work.modules[m].unmanaged =>
                    /\ generated[m].template = work.modules[m].generation
                    /\ generated[m].version = work.modules[m].version
               /\ work.modules[m].err # "nil" /\ Installed(m, work.status) =>
                    /\ generated[m].template = work.status[m].template
                    /\ generated[m].version = work.status[m].version
    BY <1>1, <1>3, EntryGenerated, Zenon
  <1>6. ASSUME NEW m \in DOMAIN work.modules
        PROVE  /\ work.modules[m].err = "nil" => generated[m].channel = work.modules[m].channel
               /\ work.modules[m].err = "nil" /\ work.modules[m].unmanaged => generated[m].template = 0
               /\ work.modules[m].err # "nil" /\ Installed(m, work.status) =>
                     generated[m].channel = work.status[m].channel
               /\ work.modules[m].err # "nil" /\ ~Installed(m, work.status) => generated[m].template = 0
    BY <1>1, <1>3, ChannelGenerated, Zenon
  <1>a. \A m \in DOMAIN generated : IsEntry(generated[m])
    BY <1>4, <1>5, Zenon
  <1>b. kept = DeleteNoLongerExistingModuleStatus(generated, work.spec, unread)
    BY <1>0, Zenon
  <1>7. /\ DOMAIN kept \subseteq DOMAIN generated
        /\ \A m \in DOMAIN kept :
              kept[m].template = generated[m].template /\ kept[m].version = generated[m].version
    <2>1. Stay(generated, kept)
      BY <1>a, <1>b, EntriesKept, Zenon
    <2>. QED  BY <2>1, Zenon DEF Stay
  <1>8. ASSUME NEW m \in DOMAIN kept
        PROVE  /\ kept[m].channel = generated[m].channel
               /\ m \in DOMAIN work.spec.modules => kept[m] = generated[m]
    <2>1. ChannelOf(m, kept, generated, work.spec)
      BY <1>a, <1>b, ChannelStays, Zenon
    <2>. QED  BY <2>1, Zenon DEF ChannelOf
  <1>9. work'.status = kept /\ work'.spec = work.spec
    BY <1>1 DEF IInv, StatusOK, IsWork
  <1>10. CatalogFull'
    BY <1>1, <1>9 DEF EInv, CatalogFull
  <1>11. ASSUME NEW m \in DOMAIN kept, Installed(m, kept) PROVE kept[m].version \in Versions
    <2>1. m \in DOMAIN work.modules /\ generated[m].template # 0 /\ kept[m].version = generated[m].version
      BY <1>4, <1>7, <1>11 DEF Installed
    <2>2. CASE work.modules[m].err = "nil"
      <3>1. work.modules[m].version \in Versions
        BY <1>3, <2>1, <2>2, ZenonT(60) DEF LookedUp
      <3>. QED  BY <1>5, <1>6, <2>1, <2>2, <3>1, Zenon
    <2>3. CASE work.modules[m].err # "nil"
      <3>1. Installed(m, work.status)
        BY <1>6, <2>1, <2>3, ZenonT(60)
      <3>2. work.status[m].version \in Versions
        BY <3>1, Zenon DEF EInv, Seen, Installed
      <3>. QED  BY <1>5, <2>1, <2>3, <3>1, <3>2, Zenon
    <2>. QED  BY <2>2, <2>3, Zenon
  <1>12. Seen'
    BY <1>1, <1>9, <1>11 DEF EInv, Seen, Installed
  <1>13. ASSUME NEW m \in DOMAIN manifests PROVE SameChannel(m, kept)
    <2>1. CASE manifests[m].unmanaged
      <3>. SUFFICES ASSUME Installed(m, kept) PROVE FALSE
        BY <2>1, Zenon DEF SameChannel
      <3>1. m \in DOMAIN work.modules /\ generated[m].template # 0
        BY <1>4, <1>7, ZenonT(60) DEF Installed
      <3>2. CASE work.modules[m].err = "nil"
        <4>1. work.modules[m].unmanaged
          BY <1>1, <1>2, <2>1, <3>1, <3>2, ZenonT(60) DEF EInv, ChannelsKept
        <4>. QED  BY <1>6, <3>1, <3>2, <4>1, Zenon
      <3>3. CASE work.modules[m].err # "nil"
        <4>1. SameChannel(m, work.status)
          BY <1>1, <3>3 DEF EInv, ChannelsKept
        <4>. QED  BY <1>6, <2>1, <3>1, <3>3, <4>1, Zenon DEF SameChannel
      <3>. QED  BY <3>2, <3>3, Zenon
    <2>2. CASE ~manifests[m].unmanaged
      <3>1. Agree(m, work.status)'
        <4>1. IInv'
          BY UpdateKeeps
        <4>. QED  BY <1>1, <4>1 DEF IInv, Kept
      <3>2. m \in DOMAIN kept /\ m \in DOMAIN work.modules
        BY <1>1, <1>4, <1>7, <1>9, <2>2, <3>1, ZenonT(60) DEF Agree, Installed
      <3>3. CASE work.modules[m].err = "nil"
        <4>1. manifests[m].channel = work.modules[m].channel
          BY <1>1, <1>2, <2>2, <3>2, <3>3 DEF EInv, ChannelsKept
        <4>. QED  BY <1>6, <1>8, <2>2, <3>2, <3>3, <4>1, Zenon DEF SameChannel
      <3>4. CASE work.modules[m].err # "nil"
        <4>1. SameChannel(m, work.status) /\ Agree(m, work.status)
          BY <1>1, <3>4 DEF EInv, ChannelsKept, IInv, Synced
        <4>. QED  BY <1>6, <1>8, <2>2, <3>2, <3>4, <4>1, Zenon DEF SameChannel, Agree
      <3>. QED  BY <3>3, <3>4
    <2>. QED  BY <2>1, <2>2
  <1>14. ChannelsKept'
    BY <1>1, <1>9, <1>13 DEF ChannelsKept, SameChannel, Installed
  <1>15. ASSUME NEW m \in DOMAIN kept \cap DOMAIN work.spec.modules, ~due,
                Installed(m, kept), Installed(m, work.status)
         PROVE  \/ kept[m].maintenance \/ kept[m].state = "Error" \/ kept[m].channel # Wanted(m, work.spec)
                \/ /\ kept[m].channel = work.status[m].channel /\ kept[m].version = work.status[m].version
                   /\ UpToDate(m, kept[m])
    <2>1. PICK x, e, k : x = work.modules[m] /\ e = work.status[m] /\ k = kept[m]
      OBVIOUS
    <2>2. m \in DOMAIN work.modules /\ k = generated[m] /\ k.template # 0
      BY <1>4, <1>7, <1>8, <1>15, <2>1, Zenon DEF Installed
    <2>3. Offered(m, x, e)
      BY <1>1, <1>15, <2>1, Zenon DEF EInv, Fresh
    <2>4. x.err \in {"nil", "waiting", "windowUnknown", "updateNotAllowed"} /\ x.channel = Wanted(m, work.spec)
      BY <2>3, Zenon DEF Offered
    <2>5. CASE x.err = "nil"
      <3>1. ~x.unmanaged
        BY <1>6, <2>1, <2>2, <2>5, Zenon
      <3>2. x.channel = e.channel /\ x.version = e.version
        BY <1>2, <2>3, <2>5, <3>1, Zenon DEF Offered
      <3>3. x.version = Released(m, e.channel) /\ x.generation = Generation(m, e.version)
        BY <2>3, <2>5, <3>1, <3>2, Zenon DEF Offered
      <3>4. k.channel = x.channel /\ k.version = x.version /\ k.template = x.generation
        BY <1>5, <1>6, <2>1, <2>2, <2>5, <3>1, Zenon
      <3>5. UpToDate(m, k)
        BY <3>2, <3>3, <3>4, Zenon DEF UpToDate
      <3>. QED  BY <2>1, <3>2, <3>4, <3>5, ZenonT(60)
    <2>6. CASE x.err = "updateNotAllowed"
      <3>1. k.channel = e.channel /\ k.version = e.version
        BY <1>5, <1>6, <1>15, <2>1, <2>2, <2>6, Zenon
      <3>2. k.channel = Wanted(m, work.spec) => UpToDate(m, k)
        BY <2>3, <2>4, <2>6, <3>1, Zenon DEF Offered, UpToDate
      <3>. QED  BY <2>1, <3>1, <3>2, ZenonT(60)
    <2>7. CASE x.err \in {"waiting", "windowUnknown"}
      <3>1. (x.err = "waiting" => k.maintenance) /\ (x.err = "windowUnknown" => k.state = "Error")
        <4>1. IsEntry(work.status[m]) /\ m \in DOMAIN work.status
          BY <1>3, <1>15, <2>2, Zenon DEF Installed
        <4>2. k = GenerateModuleStatus(m, x, work.states[m], work.status)
          BY <1>3, <2>1, <2>2, Zenon
        <4>3. Marked(x, k)
          BY <4>1, <4>2, HeldBack, ZenonT(60)
        <4>. QED  BY <4>3, Zenon DEF Marked
      <3>. QED  BY <2>1, <2>7, <3>1, Zenon
    <2>. QED  BY <2>4, <2>5, <2>6, <2>7, Zenon
  <1>16. Ripe'
    BY <1>1, <1>2, <1>9, <1>15 DEF Ripe, Installed, UpToDate, Released, Generation, Wanted
  <1>17. Fresh' /\ Noticed'
    BY <1>1 DEF Fresh, Noticed
  <1>. QED  BY <1>10, <1>12, <1>14, <1>16, <1>17 DEF EInv

\* The changes of the catalog that are left.
LEMMA CatalogSteps ==
    ASSUME CatalogFull, Informed, CatalogChanges
    PROVE  \E n \in Modules :
             \/ \E c \in Channels, v \in Versions :
                   ReleasesModule(n, [catalog.metas[n] EXCEPT !.channels = With(@, c, v)])
             \/ \E v \in Versions : /\ catalog' = [catalog EXCEPT !.templates[<<n, v>>].generation = @ + 1]
                                    /\ Watch(n, v)
  BY Zenon DEF CatalogFull, CatalogChanges, Change, Informed, Lossless

\* The catalog changes, but nothing that the status refers to; or the Kyma is put into the queue.
LEMMA CatalogTells ==
    ASSUME IInv, EInv, Informed, CatalogChanges, ~due', NEW m \in Modules, Installed(m, status.modules)
    PROVE  /\ ~due
           /\ Released(m, status.modules[m].channel)' = Released(m, status.modules[m].channel)
           /\ Generation(m, status.modules[m].version)' = Generation(m, status.modules[m].version)
  <1>. DEFINE e == status.modules[m]
  <1>1. m \in DOMAIN status.modules /\ e.template # 0 /\ e.channel \in Channels /\ e.version \in Versions
    BY Zenon DEF IInv, StatusOK, IsEntry, Installed, EInv, Seen
  <1>2. e.channel # "unset"
    BY <1>1, LookupAssumption, ZenonT(60)
  <1>3. catalog = [metas |-> catalog.metas, templates |-> catalog.templates]
        /\ DOMAIN catalog.metas = Modules /\ DOMAIN catalog.templates = Modules \X Versions
    BY DEF IInv, CatalogOK, EInv, CatalogFull
  <1>4. UNCHANGED status
    BY Zenon DEF CatalogChanges
  <1>5. ASSUME NEW affected, Wakes(affected) PROVE ~due /\ ~affected
    BY <1>5, Zenon DEF Wakes, Fail, Informed
  <1>6. PICK n \in Modules :
          \/ \E c \in Channels, v \in Versions :
                ReleasesModule(n, [catalog.metas[n] EXCEPT !.channels = With(@, c, v)])
          \/ \E v \in Versions : /\ catalog' = [catalog EXCEPT !.templates[<<n, v>>].generation = @ + 1]
                                 /\ Watch(n, v)
    BY CatalogSteps, Zenon DEF EInv
  <1>7. CASE \E c \in Channels, v \in Versions :
                ReleasesModule(n, [catalog.metas[n] EXCEPT !.channels = With(@, c, v)])
    <2>1. PICK c \in Channels, v \in Versions :
            ReleasesModule(n, [catalog.metas[n] EXCEPT !.channels = With(@, c, v)])
      BY <1>7
    <2>. DEFINE meta == [catalog.metas[n] EXCEPT !.channels = With(@, c, v)]
    <2>2. /\ catalog' = [catalog EXCEPT !.metas = With(@, n, meta)]
          /\ ~due /\ ~AffectedKymasOnUpdate(n, catalog.metas[n], meta, status.modules, kcp.channel)
      BY <1>5, <2>1 DEF ReleasesModule, Update
    <2>3. catalog'.templates = catalog.templates
      BY <1>3, <2>2, Zenon
    <2>4. Released(m, e.channel)' = Released(m, e.channel)
      <3>1. CASE n = m
        <4>1. IsMeta(m, catalog.metas[m])
          BY <1>3, <3>1 DEF IInv, CatalogOK
        <4>2. meta.channels = With(catalog.metas[m].channels, c, v)
              /\ catalog.metas[m].channels \in [Channels -> Versions]
          BY <3>1, <4>1 DEF IsMeta
        <4>3. DOMAIN meta.channels = Channels
          BY <4>2 DEF With
        <4>. HIDE DEF meta
        <4>4. getModuleChannel(e.channel, kcp.channel) = e.channel
          BY <1>2 DEF getModuleChannel
        <4>5. e.channel \notin findAddedOrModifiedChannels(meta.channels, catalog.metas[m].channels)
          BY <1>1, <2>2, <3>1, <4>4 DEF AffectedKymasOnUpdate, getAffectedKymas, diffModuleReleaseMetaChannels
        <4>6. meta.channels[e.channel] = catalog.metas[m].channels[e.channel]
          BY <1>1, <4>3, <4>5, Zenon DEF findAddedOrModifiedChannels
        <4>7. catalog'.metas[m] = meta
          BY <1>3, <2>2, <3>1, ZenonT(60) DEF With
        <4>. QED  BY <1>4, <4>6, <4>7, ZenonT(60) DEF Released
      <3>2. CASE n # m
        <4>. HIDE DEF meta
        <4>1. catalog'.metas[m] = catalog.metas[m]
          BY <1>3, <2>2, <3>2, ZenonT(60) DEF With
        <4>. QED  BY <1>4, <4>1 DEF Released
      <3>. QED  BY <3>1, <3>2, Zenon
    <2>. QED  BY <1>4, <2>2, <2>3, <2>4 DEF Generation
  <1>8. CASE \E v \in Versions : /\ catalog' = [catalog EXCEPT !.templates[<<n, v>>].generation = @ + 1]
                                 /\ Watch(n, v)
    <2>1. PICK v \in Versions : /\ catalog' = [catalog EXCEPT !.templates[<<n, v>>].generation = @ + 1]
                                /\ Watch(n, v)
      BY <1>8, Zenon
    <2>2. ~due /\ ~filterKymasWithTemplate(n, v, status.modules)
      BY <1>5, <2>1, ZenonT(60) DEF Watch
    <2>3. <<n, v>> # <<m, e.version>>
      BY <1>1, <1>2, <2>2, Zenon DEF filterKymasWithTemplate
    <2>. DEFINE t == <<n, v>>
                x == [catalog.templates[t] EXCEPT !.generation = @ + 1]
    <2>4. catalog' = [metas |-> catalog.metas, templates |-> [catalog.templates EXCEPT ![t] = x]]
      BY <1>3, <2>1, Zenon
    <2>5. t # <<m, e.version>>
      BY <2>3, Zenon
    <2>. HIDE DEF t, x
    <2>6. catalog'.templates[<<m, e.version>>] = catalog.templates[<<m, e.version>>]
      BY <1>1, <1>3, <2>4, <2>5, Zenon
    <2>. QED  BY <1>4, <2>2, <2>4, <2>6, Zenon DEF Released, Generation
  <1>. QED  BY <1>6, <1>7, <1>8, Zenon

LEMMA CatalogInformed == ASSUME IInv, EInv, Informed, CatalogChanges PROVE EInv'
  <1>1. UNCHANGED <<kcp, remote, manifests, status, lastStatus, pc, work>>
    BY Zenon DEF CatalogChanges
  <1>2. DOMAIN catalog'.metas = Modules
    <2>1. PICK n, x, t : n \in Modules /\ (
            \/ catalog' = [catalog EXCEPT !.metas = With(@, n, x)]
            \/ catalog' = [catalog EXCEPT !.templates[t].generation = @ + 1])
      BY CatalogSteps, Zenon DEF EInv, ReleasesModule
    <2>2. DOMAIN catalog.metas = Modules /\ catalog = [metas |-> catalog.metas, templates |-> catalog.templates]
      BY DEF EInv, CatalogFull, IInv, CatalogOK
    <2>. QED  BY <2>1, <2>2 DEF With
  <1>3. due => due'
    <2>1. \E affected : Wakes(affected)
      BY CatalogSteps, Zenon DEF EInv, ReleasesModule, Update, Watch
    <2>. QED  BY <2>1, Zenon DEF Wakes
  <1>4. ASSUME NEW m \in Modules, NEW e, Installed(m, status.modules), ~due', e.channel = status.modules[m].channel,
               e.version = status.modules[m].version
        PROVE  UpToDate(m, e)' <=> UpToDate(m, e)
    <2>1. Released(m, e.channel)' = Released(m, e.channel) /\ Generation(m, e.version)' = Generation(m, e.version)
      <3>1. /\ Released(m, status.modules[m].channel)' = Released(m, status.modules[m].channel)
            /\ Generation(m, status.modules[m].version)' = Generation(m, status.modules[m].version)
        BY <1>4, CatalogTells, Zenon
      <3>2. status' = status
        BY <1>1, Zenon
      <3>. QED  BY <1>4, <3>1, <3>2, Zenon DEF Released, Generation
    <2>. QED  BY <2>1 DEF UpToDate
  <1>5. CatalogFull'
    BY <1>1, <1>2, ZenonT(60) DEF EInv, CatalogFull
  <1>6. Seen'
    BY <1>1, <1>3, Zenon DEF EInv, Seen, Installed
  <1>7. ChannelsKept'
    BY <1>1, Zenon DEF EInv, ChannelsKept, SameChannel, Installed
  <1>8. Fresh'
    <2>. SUFFICES ASSUME pc \in {"sync", "status"} PROVE Fresh'
      BY <1>1, Zenon DEF Fresh
    <2>1. ASSUME NEW m \in DOMAIN work.spec.modules, Installed(m, work.status), ~due'
          PROVE  Offered(m, work.modules[m], work.status[m])'
      <3>1. PICK x, e : x = work.modules[m] /\ e = work.status[m]
        OBVIOUS
      <3>2. m \in Modules /\ work.status = status.modules
        BY Zenon DEF EInv, CatalogFull, Seen
      <3>3. Released(m, e.channel)' = Released(m, e.channel) /\ Generation(m, e.version)' = Generation(m, e.version)
        BY <1>1, <2>1, <3>1, <3>2, CatalogTells, ZenonT(60) DEF Released, Generation
      <3>4. Offered(m, x, e)
        BY <1>3, <2>1, <3>1, Zenon DEF EInv, Fresh
      <3>5. work'.modules[m] = x /\ work'.status[m] = e /\ work'.spec = work.spec /\ work'.todo = work.todo
        BY <1>1, <3>1
      <3>. QED  BY <3>3, <3>4, <3>5, Zenon DEF Offered, Wanted
    <2>. QED  BY <1>1, <2>1, Zenon DEF EInv, Fresh, Installed
  <1>9. Ripe'
    <2>. SUFFICES ASSUME pc = "delete" \/ (pc = "finish" /\ work.state # "unset"), ~due',
                         NEW m \in DOMAIN work.status \cap DOMAIN work.spec.modules
                  PROVE  \/ ~Installed(m, work.status) \/ ~Installed(m, status.modules)
                         \/ work.status[m].maintenance
                         \/ work.status[m].state = "Error"
                         \/ work.status[m].channel # Wanted(m, work.spec)
                         \/ /\ work.status[m].channel = status.modules[m].channel
                            /\ work.status[m].version = status.modules[m].version
                            /\ UpToDate(m, work.status[m])'
      BY <1>1, Zenon DEF Ripe, Installed, Wanted
    <2>1. m \in Modules
      BY DEF EInv, CatalogFull
    <2>. QED  BY <1>1, <1>3, <1>4, <2>1, Zenon DEF EInv, Ripe
  <1>10. Noticed'
    <2>. SUFFICES ASSUME pc \in {"remote", "idle"}, ~due',
                         NEW m \in DOMAIN status.modules \cap DOMAIN remote.modules
                  PROVE  \/ pc = "remote" /\ work.state = "Error"
                         \/ ~Installed(m, status.modules) \/ ~Installed(m, lastStatus.modules)
                         \/ status.modules[m].maintenance
                         \/ status.modules[m].channel # Wanted(m, remote)
                         \/ UpToDate(m, status.modules[m])'
      BY <1>1, Zenon DEF Noticed, Installed, Wanted
    <2>1. m \in Modules
      BY Zenon DEF EInv, CatalogFull
    <2>. QED  BY <1>1, <1>3, <1>4, <2>1, ZenonT(60) DEF EInv, Noticed
  <1>. QED  BY <1>5, <1>6, <1>7, <1>8, <1>9, <1>10 DEF EInv

LEMMA StepInforms == ASSUME Informed, IInv, EInv, Next PROVE EInv'
  <1>. USE DEF Informed
  <1>1. CASE Start  BY <1>1, StartInformed
  <1>2. CASE EnsureLabelsAndFinalizers  BY <1>2, EnsureInformed
  <1>3. CASE replaceSpecFromRemote  BY <1>3, ReplaceInformed
  <1>4. CASE handleInitialState  BY <1>4, InitialStateInformed
  <1>5. CASE LookupTemplates  BY <1>5, LookupInformed
  <1>6. CASE SyncEnds  BY <1>6, SyncEndsInformed
  <1>7. CASE UpdateStatuses \/ UpdateStatusesUnread
    BY <1>7, UpdateInformed, Zenon DEF UpdateStatuses, UpdateStatusesUnread
  <1>8. CASE DeleteEnds  BY <1>8, DeleteEndsInformed
  <1>9. CASE handleProcessingState  BY <1>9, ProcessingStateInformed
  <1>10. CASE syncStatusToRemote  BY <1>10, StatusToRemoteInformed
  <1>11. CASE \E m \in Modules : SyncModule(m) \/ DeleteNoLongerExistingModules(m) \/ ManifestSettles(m)
    BY <1>11, SyncInformed, DeleteInformed, SettlesInformed
  <1>12. CASE ConnectFails \/ SyncFails \/ syncStatusFails  BY <1>12, ErrorsInformed
  <1>13. CASE UserChanges  BY <1>13, UserInformed
  <1>14. CASE WindowChanges  BY <1>14, WindowInformed
  <1>15. CASE CatalogChanges  BY <1>15, CatalogInformed
  <1>. QED
    BY <1>1, <1>2, <1>3, <1>4, <1>5, <1>6, <1>7, <1>8, <1>9, <1>10, <1>11, <1>12, <1>13, <1>14, <1>15,
       Excluded DEF Next, Controller

LEMMA StutterInforms == ASSUME IInv, EInv, UNCHANGED vars PROVE EInv'
  <1>1. Moves
    BY DEF vars, Moves, IInv, ManifestsOK
  <1>. QED  BY <1>1, MoveInformed DEF vars

LEMMA NoticedNow == ASSUME Informed, IInv, EInv PROVE NoticedAtOnce
  <1>. SUFFICES ASSUME pc = "idle", ~due, NEW m \in DOMAIN status.modules \cap DOMAIN remote.modules,
                       status.modules[m].template # 0, Resolved(m).err = "nil", ~status.modules[m].maintenance,
                       status.modules[m].channel = getDesiredChannel(remote.modules[m].channel, remote.channel),
                       m \in DOMAIN lastStatus.modules, lastStatus.modules[m].template # 0
                PROVE  /\ status.modules[m].version = Resolved(m).version
                       /\ status.modules[m].template = Resolved(m).generation
    BY Zenon DEF NoticedAtOnce
  <1>1. PICK e, spec : e = status.modules[m] /\ spec = ReplaceSpec(remote)
    BY Zenon
  <1>2. spec.modules = remote.modules /\ spec.channel = remote.channel
    BY <1>1, ZenonT(60) DEF ReplaceSpec
  <1>3. PICK module :
          module = GenerateModulesFromTemplates([spec |-> spec, status |-> status.modules, labels |-> labels],
                                                catalog, window, {}, Modules \X Versions)[m]
    BY Zenon
  <1>4. Resolved(m) = module
    BY <1>1, <1>3, Zenon DEF Resolved
  <1>5. /\ Lossless /\ CatalogOK /\ ChannelsOK(spec.modules) /\ labels.beta = TRUE
        /\ window \in {"active", "inactive", "unknown"}
    BY <1>2, Zenon DEF IInv, SpecOK, Informed
  <1>6. m \in DOMAIN spec.modules \cap DOMAIN catalog.metas
    BY <1>2, ZenonT(60) DEF EInv, CatalogFull
  <1>7. Wanted(m, spec) \in Channels \cup {"none"} /\ Wanted(m, spec) = Wanted(m, remote)
    BY <1>2, <1>5, <1>6, LookupAssumption, Zenon DEF IInv, SpecOK, Wanted, getDesiredChannel, ChannelsOK
  <1>8. Wanted(m, spec) # "none"
    BY <1>3, <1>4, <1>5, <1>6, LookupNone, Zenon
  <1>9. Wanted(m, spec) \in Channels
    BY <1>7, <1>8, Zenon
  <1>10. Exact(m, module, spec, status.modules)
    BY <1>3, <1>5, <1>6, <1>9, LookupExact, Zenon
  <1>11. e.channel = Wanted(m, spec)
    BY <1>1, <1>2, Zenon DEF Wanted
  <1>12. UpToDate(m, e)
    BY <1>1, <1>7, <1>11, Zenon DEF EInv, Noticed, Installed
  <1>13. /\ module.version = Released(m, e.channel) /\ module.generation = Generation(m, module.version)
         /\ isValidVersionChange(module.version, e.version)
    BY <1>1, <1>4, <1>10, <1>11, Zenon DEF Exact, Installed
  <1>. QED  BY <1>1, <1>4, <1>12, <1>13, Zenon DEF UpToDate

\* When no event of the catalog or of the SKR is lost either, the event handlers miss
\* nothing: whatever is released, and whenever, an installed module of a Kyma between
\* reconciliations has what its channel resolves to, or waits for a window, or has a switch
\* of its channel refused, or the Kyma is in the work queue (AffectedKymasOnUpdate and
\* filterKymasWithTemplate look at the status, which is up to date or about to be).
THEOREM EventsArrive == ASSUME Informed PROVE Spec => []NoticedAtOnce
  <1>1. Lossless
    BY DEF Informed
  <1>2. Spec => []IInv
    BY <1>1, Invariance
  <1>3. IInv /\ EInv /\ [Next]_vars => EInv'
    BY StepInforms, StutterInforms
  <1>4. IInv /\ EInv => NoticedAtOnce
    BY NoticedNow
  <1>. QED  BY <1>2, <1>3, <1>4, InformedInitially, PTL DEF Spec
=============================================================================
