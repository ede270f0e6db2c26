------------------------ MODULE MCManifestReconciler ------------------------
(* ManifestReconciler on a module with two versions: "v1" and "v2" share the *)
(* manager Deployment and each has a ConfigMap of its own.                   *)
EXTENDS ManifestReconciler

MCResources == {"kymaNs", "manager", "config1", "config2"}
MCRefs == {"v1", "v2"}
MCResOf == [ref \in MCRefs |->
    IF ref = "v1" THEN {"kymaNs", "manager", "config1"}
    ELSE {"manager", "config2"}]
=============================================================================
