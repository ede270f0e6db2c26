---------------------------- MODULE ModuleLookup ----------------------------
(***************************************************************************)
(* From the modules a Kyma names to the templates they resolve to, and     *)
(* from those to the status entries: the pure part of the Kyma controller  *)
(* (pkg/templatelookup, internal/service/kyma/status/modules,              *)
(* internal/watch).  Nothing here has state; KymaModules uses it.          *)
(*                                                                         *)
(* Go maps and keyed lists are partial functions: an absent key is outside *)
(* the DOMAIN.  A version is a number, 0 stands for "no version", and      *)
(* Core[v] is its major.minor.patch part.  An error is the string that     *)
(* names its sentinel value, "nil" for nil; "unset" is the empty channel   *)
(* or state.                                                               *)
(***************************************************************************)
EXTENDS Naturals, FiniteSets

CONSTANTS
    Modules,            \* names of the modules
    Channels,           \* release channels other than "none"
    DefaultChannel,     \* v1beta2.DefaultChannel
    Core,               \* [Versions -> Nat], see above
    RestrictedModules   \* --restricted-modules

Versions == DOMAIN Core

ASSUME LookupAssumption ==
    /\ DefaultChannel \in Channels /\ {"unset", "none"} \cap Channels = {}
    /\ Core \in [Versions -> Nat]
    /\ Versions \subseteq Nat \ {0}
    /\ RestrictedModules \subseteq Modules

\* The partial functions from A to B.
Partial(A, B) == UNION {[S -> B] : S \in SUBSET A}

(***************************************************************************)
(* The API types, reduced to the fields the controller decides on.         *)
(***************************************************************************)

Module == [channel : Channels \cup {"unset", "none"}, managed : BOOLEAN]

KymaSpec == [channel : Channels \cup {"none"},
             skipWindows : BOOLEAN,
             modules : Partial(Modules, Module)]

States == {"unset", "Ready", "Processing", "Error", "Warning", "Deleting", "Unmanaged"}

\* manifest tells whether the entry refers to a Manifest; template is the
\* generation of the ModuleTemplate it refers to, 0 without a reference.
ModuleStatus == [state : States,
                 channel : Channels \cup {"unset", "none"},
                 version : Versions \cup {0},
                 manifest : BOOLEAN,
                 template : Nat,
                 maintenance : BOOLEAN]

\* selector: the kymaSelector is absent, matches this Kyma or does not.
ModuleReleaseMeta == [channels : Partial(Channels, Versions),
                      mandatory : Versions \cup {0},
                      selector : {"none", "match", "mismatch"}]

ModuleTemplate == [beta : BOOLEAN,
                   internal : BOOLEAN,
                   mandatory : BOOLEAN,
                   requiresDowntime : BOOLEAN,
                   generation : Nat \ {0}]

(***************************************************************************)
(* FetchModuleInfo: the modules of the spec, then those that are only left *)
(* in the status.  The field version of a spec entry is never filled       *)
(* (json:"-"), so channel and version never exclude each other here.       *)
(***************************************************************************)
determineModuleValidity(entry) == entry.template # 0

InfoFromSpec(module) ==
    [channel |-> module.channel,
     enabled |-> TRUE,
     unmanaged |-> ~module.managed,
     valid |-> module.channel # "none"]

InfoFromStatus(entry) ==
    [channel |-> entry.channel,
     enabled |-> FALSE,
     unmanaged |-> FALSE,
     valid |-> determineModuleValidity(entry)]

FetchModuleInfo(spec, status) ==
    [m \in DOMAIN spec.modules \cup DOMAIN status |->
        IF m \in DOMAIN spec.modules
        THEN InfoFromSpec(spec.modules[m])
        ELSE InfoFromStatus(status[m])]

(***************************************************************************)
(* The lookup of one module: the release meta maps a channel to a version, *)
(* the version names the template.  The checks that follow each give an    *)
(* error or pass.                                                          *)
(***************************************************************************)
getDesiredChannel(moduleChannel, globalChannel) ==
    IF moduleChannel # "unset" THEN moduleChannel
    ELSE IF globalChannel # "unset" THEN globalChannel
    ELSE DefaultChannel

GetMandatoryVersionForModule(meta) == meta.mandatory

GetChannelVersionForModule(meta, channel) ==
    IF channel \in DOMAIN meta.channels THEN meta.channels[channel] ELSE 0

getTemplateByVersion(m, version, templates) == <<m, version>> \in DOMAIN templates

Lookup(m, channel, meta, templates) ==
    LET version == IF meta.mandatory # 0
                   THEN GetMandatoryVersionForModule(meta)
                   ELSE GetChannelVersionForModule(meta, channel)
    IN  [version |-> version,
         err |-> IF version = 0 THEN "noVersion"
                 ELSE IF getTemplateByVersion(m, version, templates) THEN "nil" ELSE "noTemplate"]

\* Mutant: a new generation of the template counts, not a new version.
IsRequiredForGeneration(m, version, template, kyma) ==
    /\ template.requiresDowntime
    /\ ~kyma.spec.skipWindows
    /\ m \in DOMAIN kyma.status
    /\ kyma.status[m].template # template.generation

\* The decorator that holds back an update with downtime outside of the
\* maintenance windows.  window is what IsActive answers.
IsRequired(m, version, template, kyma) ==
    /\ template.requiresDowntime
    /\ ~kyma.spec.skipWindows
    /\ m \in DOMAIN kyma.status
    /\ kyma.status[m].version # version

WithMaintenanceWindow(m, version, template, kyma, window) ==
    IF ~IsRequired(m, version, template, kyma) THEN "nil"
    ELSE CASE window = "unknown" -> "windowUnknown"
           [] window = "inactive" -> "waiting"
           [] window = "active" -> "nil"

\* Which Kymas may have the module at all.
RestrictedModuleMatch(meta) == meta.selector = "match"

ValidateTemplateMode(m, template, labels, meta) ==
    IF \/ template.internal /\ ~labels.internal
       \/ template.beta /\ ~labels.beta
    THEN "notAllowed"
    ELSE IF template.mandatory THEN "mandatory"
    ELSE IF m \in RestrictedModules THEN IF RestrictedModuleMatch(meta) THEN "nil" ELSE "notAllowed"
    ELSE IF meta.selector # "none" THEN "notAllowed" ELSE "nil"

\* Mutant: every change of the version is valid.
anyVersionChange(new, old) == TRUE

\* A module must not go back to a lower version.  An entry without a
\* reference to a template is taken for a module that is not installed.
isValidVersionChange(new, old) == Core[new] >= Core[old]

markInvalidSkewUpdate(version, entry) ==
    IF /\ entry.template # 0
       /\ entry.version = 0 \/ ~isValidVersionChange(version, entry.version)
    THEN "updateNotAllowed" ELSE "nil"

\* The error of the first check that fails.
CheckTemplate(m, version, kyma, meta, template, window, known) ==
    LET late == WithMaintenanceWindow(m, version, template, kyma, window)
        mode == ValidateTemplateMode(m, template, kyma.labels, meta)
    IN  IF late # "nil" THEN late
        ELSE IF mode # "nil" THEN mode
        ELSE IF <<m, version>> \notin known THEN "noDescriptor"
        ELSE IF m \in DOMAIN kyma.status THEN markInvalidSkewUpdate(version, kyma.status[m])
        ELSE "nil"

(***************************************************************************)
(* GetRegularTemplates for one module.  kyma is the Kyma as read, catalog  *)
(* the ModuleReleaseMetas and ModuleTemplates; unread holds the modules    *)
(* whose ModuleReleaseMeta the API server did not give, known the          *)
(* component descriptors that can be had.                                  *)
(***************************************************************************)
TemplateError(err) == [err |-> err, channel |-> "unset", version |-> 0]

GetRegularTemplate(m, info, kyma, catalog, window, unread, known) ==
    IF ~info.valid THEN TemplateError("invalid")
    ELSE IF m \in unread THEN TemplateError("unread")
    ELSE IF m \notin DOMAIN catalog.metas THEN TemplateError("noReleaseMeta")
    ELSE IF info.enabled /\ catalog.metas[m].mandatory # 0 THEN TemplateError("mandatory")
    ELSE LET meta == catalog.metas[m]
             channel == getDesiredChannel(info.channel, kyma.spec.channel)
             found == Lookup(m, channel, meta, catalog.templates)
         IN  [channel |-> channel,
              version |-> found.version,
              err |-> IF found.err # "nil" THEN found.err
                      ELSE CheckTemplate(m, found.version, kyma, meta,
                                         catalog.templates[<<m, found.version>>], window, known)]

\* GenerateModulesFromTemplates: a template that is allowed, or that is only
\* not allowed, needs its descriptor to name the Manifest.
appendModuleWithInformation(m, info, found, templates, known) ==
    [enabled |-> info.enabled,
     unmanaged |-> info.unmanaged,
     channel |-> found.channel,
     version |-> found.version,
     generation |-> IF found.err = "nil" THEN templates[<<m, found.version>>].generation ELSE 0,
     err |-> IF found.err = "notAllowed" /\ <<m, found.version>> \notin known
             THEN "noDescriptor" ELSE found.err]

GenerateModulesFromTemplates(kyma, catalog, window, unread, known) ==
    LET infos == FetchModuleInfo(kyma.spec, kyma.status)
    IN  [m \in DOMAIN infos |->
            appendModuleWithInformation(m, infos[m],
                GetRegularTemplate(m, infos[m], kyma, catalog, window, unread, known),
                catalog.templates, known)]

(***************************************************************************)
(* The status entry of a module: what the lookup error leaves of the old   *)
(* one, or a new one from the Manifest.                                    *)
(***************************************************************************)
newDefaultErrorStatus(channel) ==
    [state |-> "Error", channel |-> channel, version |-> 0,
     manifest |-> FALSE, template |-> 0, maintenance |-> FALSE]

\* The errors that keep the entry, with the reference to the Manifest.
KeepsEntry == {"waiting", "windowUnknown", "updateNotAllowed", "noReleaseMeta"}

\* Mutant: no error keeps the entry.
ForgetfulStatusFromError(m, module, status) ==
    [newDefaultErrorStatus(module.channel) EXCEPT !.state = "Warning"]

GenerateModuleStatusFromError(m, module, status) ==
    IF m \in DOMAIN status /\ module.err \in KeepsEntry
    THEN CASE module.err = "waiting" -> [status[m] EXCEPT !.maintenance = TRUE]
           [] module.err = "windowUnknown" -> [status[m] EXCEPT !.state = "Error"]
           [] OTHER -> [status[m] EXCEPT !.state = "Warning"]
    ELSE [newDefaultErrorStatus(module.channel)
            EXCEPT !.state = IF module.err = "mandatory" THEN "Warning" ELSE "Error"]

GenerateModuleStatus(m, module, manifestState, status) ==
    IF module.err # "nil" THEN GenerateModuleStatusFromError(m, module, status)
    ELSE [state |-> IF module.unmanaged THEN "Unmanaged" ELSE manifestState,
          channel |-> module.channel,
          version |-> module.version,
          manifest |-> ~module.unmanaged,
          template |-> IF module.unmanaged THEN 0 ELSE module.generation,
          maintenance |-> FALSE]

\* The entries of modules that are no longer in the spec.
GetNoLongerExistingModuleStatus(spec, status) == DOMAIN status \ DOMAIN spec.modules

AllModulesReady(status) == \A m \in DOMAIN status : status[m].state \in {"Ready", "Unmanaged"}

\* conditions tells whether every required condition is true.
DetermineState(status, conditions) ==
    LET has(s) == \E m \in DOMAIN status : status[m].state = s
    IN  CASE has("Error") -> "Error"
          [] ~has("Error") /\ has("Warning") -> "Warning"
          [] ~has("Error") /\ ~has("Warning") /\ (has("Processing") \/ ~conditions) -> "Processing"
          [] OTHER -> "Ready"

(***************************************************************************)
(* Which Kymas an event of the catalog wakes up: here, whether it wakes    *)
(* this one.  kcpChannel is spec.channel of the Kyma in the control plane. *)
(***************************************************************************)
getModuleChannel(moduleChannel, kcpChannel) ==
    IF moduleChannel = "unset" THEN kcpChannel ELSE moduleChannel

getAffectedKymas(m, channels, status, kcpChannel) ==
    m \in DOMAIN status /\ getModuleChannel(status[m].channel, kcpChannel) \in channels

\* Mutant: a channel that got another version is no difference.
findAddedChannels(new, old) == {c \in DOMAIN new : c \notin DOMAIN old}

findAddedOrModifiedChannels(new, old) ==
    {c \in DOMAIN new : c \notin DOMAIN old \/ old[c] # new[c]}

findDeletedChannels(old, new) == DOMAIN old \ DOMAIN new

diffModuleReleaseMetaChannels(old, new) ==
    findAddedOrModifiedChannels(new.channels, old.channels)
        \cup findDeletedChannels(old.channels, new.channels)

AffectedKymasOnUpdate(m, old, new, status, kcpChannel) ==
    getAffectedKymas(m, diffModuleReleaseMetaChannels(old, new), status, kcpChannel)

AffectedKymasOnDelete(m, meta, status, kcpChannel) ==
    getAffectedKymas(m, DOMAIN meta.channels, status, kcpChannel)

\* A Kyma refers to a template by its name, which holds the version.
filterKymasWithTemplate(m, version, status) ==
    /\ m \in DOMAIN status
    /\ status[m].template # 0
    /\ status[m].version = version
    /\ status[m].channel # "unset"
=============================================================================
