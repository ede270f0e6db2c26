--------------------------- MODULE MCKymaModules ---------------------------
(***************************************************************************)
(* Instances of KymaModules.  Version 3 is a prerelease of version 2: the  *)
(* same major.minor.patch.  Version 2 of every module needs downtime, and  *)
(* version 3 is a beta.                                                    *)
(***************************************************************************)
EXTENDS KymaModules, TLC

ModuleSymmetry == Permutations(Modules)

MCCore == <<1, 2, 2>>

MCTemplates ==
    [t \in Modules \X DOMAIN Core |->
        [beta |-> t[2] = 3, internal |-> FALSE, mandatory |-> FALSE,
         requiresDowntime |-> t[2] = 2, generation |-> 1]]

AllChanges == {"enable", "disable", "unmanage", "channel", "none", "globalNone",
               "beta", "skip", "skipWindows", "window", "release", "withdraw",
               "mandatory", "selector", "deleteMeta", "template", "deleteTemplate"}

\* The changes that leave a resolvable module resolvable and the control-plane
\* Kyma alone: an edit of that makes the status patch of a running reconciliation
\* a conflict, and the status loses track like after a failed patch.
OrderlyChanges == {"enable", "disable", "unmanage", "channel", "window", "release", "template"}

AllFaults == {"stale", "connect", "skr", "unread", "descriptor", "apply", "get", "delete",
              "catalog", "patch", "notReady", "restart", "event", "noPolicy"}

\* The failures after which the status still knows every Manifest.
OrderlyFaults == {"get", "delete"}
=============================================================================
