-------------------------- MODULE MCInstancePower --------------------------
(* Small instances of InstancePower for TLC. *)
EXTENDS InstancePower

\* Creation with and without a dedicated host, updates of all attributes with
\* one action at most, and deletion.
MCPlans ==
    [flow : {"create"}, changes : {{}, {"host"}}]
    \cup [flow : {"delete"}, changes : {{}}]
    \cup [flow : {"update"},
          changes : {other \cup action : other \in SUBSET {"host", "interface", "secureBoot", "profile"},
                                         action \in {{}, {"stop"}, {"start"}, {"reboot"}}} \ {{}}]
=============================================================================
