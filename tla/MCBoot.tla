------------------------------ MODULE MCBoot ------------------------------
(* A disk on which two deployments that share an object are installed and *)
(* booted; one of them ships no loader.                                    *)
EXTENDS Boot, TLC

CONSTANTS a, b, shared, ownA, hostname, passwd

MCDeployments == {a, b}

MCObjects == {shared, ownA}

MCRefs == a :> {shared, ownA} @@ b :> {shared}

MCWithLoader == {a}

\* A plain disk install, one with another label, one without a loader and
\* without a channel, and one on partitions that are mounted.
MCCalls ==
    {[disk |-> TRUE, label |-> "zerith", ref |-> TRUE, limine |-> TRUE],
     [disk |-> TRUE, label |-> "other", ref |-> TRUE, limine |-> TRUE],
     [disk |-> TRUE, label |-> "zerith", ref |-> FALSE, limine |-> FALSE],
     [disk |-> FALSE, label |-> "zerith", ref |-> FALSE, limine |-> TRUE]}
=============================================================================
