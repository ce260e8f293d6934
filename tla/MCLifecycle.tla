---------------------------- MODULE MCLifecycle ----------------------------
(* Small instances of Lifecycle: three deployments that share one object   *)
(* and have one of their own each; one of them ships no loader.            *)
EXTENDS Lifecycle, TLC

CONSTANTS a, b, c, shared, ownA, ownB, ownC

MCDeployments == {a, b, c}

MCObjects == {shared, ownA, ownB, ownC}

MCRefs == a :> {shared, ownA} @@ b :> {shared, ownB} @@ c :> {shared, ownC}

MCWithLoader == {a, b}
=============================================================================
