------------------------- MODULE MCVpcWorkerReplace -------------------------
(* Small instances of VpcWorkerReplace for TLC. *)
EXTENDS VpcWorkerReplace_proofs, TLC

CONSTANTS h1, h2, h3, c1, c2, w1, w2, w3, new1, new2, new3, mon, osd, crash

\* Replaced nodes and their successors, in one cluster or two.
MCOneCluster  == [n \in Nodes |-> c1]
MCTwoClusters == [n \in Nodes |-> IF n \in {w2, new2} THEN c2 ELSE c1]

\* Every node has an address of its own; in two clusters w1 and w2 share one.
MCOwnIp == [n \in Nodes |-> n]
MCSameIp == [n \in Nodes |-> IF n = w2 THEN w1 ELSE n]

MCWorkerOf == [h \in Handlers |-> CASE h = h1 -> w1 [] h = h2 -> w2 [] h = h3 -> w3]

\* A monitor and a crash collector on w1, a storage daemon on w2.
MCHome == [d \in Deployments |-> IF d = osd THEN w2 ELSE w1]

\* Every deployment has a name of its own; in two clusters mon and osd share one.
MCOwnNames == [d \in Deployments |-> d]
MCSameNames == [d \in Deployments |-> IF d = osd THEN mon ELSE d]
=============================================================================
