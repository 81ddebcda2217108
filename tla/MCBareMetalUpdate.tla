------------------------- MODULE MCBareMetalUpdate -------------------------
(* Small instances of BareMetalUpdate for TLC. *)
EXTENDS BareMetalUpdate

\* Up to three changes, one action among them at most, and attachments or
\* interfaces, which exclude each other; or the deletion.
MCPlans ==
    {ch \in SUBSET (Changes \ {"delete"}) :
        /\ ch # {} /\ Cardinality(ch) <= 3
        /\ Cardinality(ch \cap Actions) <= 1
        /\ ch \cap Attachments = {} \/ ch \cap Interfaces = {}}
    \cup {{"delete"}}
=============================================================================
