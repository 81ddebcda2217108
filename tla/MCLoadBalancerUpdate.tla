------------------------ MODULE MCLoadBalancerUpdate ------------------------
EXTENDS LoadBalancerUpdate
CONSTANTS g1, g2

Configured(v, g) ==
    [there |-> TRUE, content |-> [value |-> [a \in Attributes |-> IF a \in v THEN 1 ELSE 0],
                                  groups |-> g]]

\* A load balancer, the same one with everything changed, and none.
MCWanted ==
    {Configured({}, {g1}), Configured(Attributes, {g2}),
     [there |-> FALSE, content |-> Absent.content]}
=============================================================================
