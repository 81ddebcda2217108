--------------------------- MODULE MCLoadBalancer ---------------------------
(* Small instances of LoadBalancer for TLC. *)
EXTENDS LoadBalancer

CONSTANTS p1, m1, m2, l1, y1, y2, r1, t1, t2

MCKind == [o \in Objects |->
    CASE o = p1         -> "pool"   [] o \in {m1, m2} -> "member" [] o = l1         -> "listener"
      [] o \in {y1, y2} -> "policy" [] o = r1         -> "rule"   [] o \in {t1, t2} -> "target"]

MCParent == [o \in Objects |->
    CASE o \in {p1, l1, t1, t2} -> None [] o \in {m1, m2} -> p1
      [] o \in {y1, y2} -> l1           [] o = r1         -> y1]

\* The plans that change nothing outside of S.
Within(S) == {p \in [Objects -> Operations] : \A o \in Objects \ S : p[o] = "none"}

\* A pool, its member and a listener; a listener, its policy and a rule; a
\* target beside another one and beside a handler with another key; and the
\* destruction of a listener with all that it has beside a member.
MCChanges ==
    UNION {Within({p1, m1, l1}), Within({l1, y1, r1}),
           Within({t1, t2}), Within({t1, m1}),
           {p \in Within({m1, l1, y1, r1}) : \A o \in {m1, l1, y1, r1} : p[o] = "delete"}}

\* The listener stays while its policies and rules change.
MCPolicies == Within({y1, y2, r1})
=============================================================================
