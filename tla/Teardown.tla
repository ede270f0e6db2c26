------------------------------ MODULE Teardown ------------------------------
(***************************************************************************)
(* What the deletion of a Kyma promises.  Parts are installed while the    *)
(* Kyma is kept; once KLM has seen the request to delete it nothing is     *)
(* added any more, and the Kyma is released when no part is left.          *)
(***************************************************************************)
CONSTANT Parts

VARIABLES stage, left

Init == stage = "kept" /\ left \in SUBSET Parts

Install == stage = "kept" /\ left' \in SUBSET Parts /\ UNCHANGED stage

Dismantle == stage = "kept" /\ stage' = "dismantling" /\ UNCHANGED left

Remove == left' \in SUBSET left /\ UNCHANGED stage

Release == stage = "dismantling" /\ left = {} /\ stage' = "released" /\ UNCHANGED left

Next == Install \/ Dismantle \/ Remove \/ Release

Spec == Init /\ [][Next]_<<stage, left>>
=============================================================================
