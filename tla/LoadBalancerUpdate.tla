------------------------- MODULE LoadBalancerUpdate -------------------------
(***************************************************************************)
(* The resource ibm_is_lb itself: creation, the requests of one update,    *)
(* which read the load balancer only at their end, and deletion, applied   *)
(* again and again while somebody else edits the same load balancer.       *)
(*                                                                         *)
(* An update patches dns, subnets, name and logging and then binds and     *)
(* unbinds security groups.  Only the patch of the subnets carries the     *)
(* Etag of the state, and no update waits before its first request, nor    *)
(* after the patches of the name and of the logging.  None of it takes the *)
(* load balancer's key, so the handlers of pools and listeners count as    *)
(* somebody else here.                                                     *)
(***************************************************************************)
EXTENDS Naturals, FiniteSets

CONSTANTS
    Groups,      \* security groups
    Wanted,      \* the configurations a user may write, a set of Plan
    MaxEdits,    \* bound on changes by somebody else
    MaxFaults    \* bound on failed requests, lost answers and timeouts

Attributes == {"dns", "subnets", "name", "logging"}
Content == [value : [Attributes -> 0..2], groups : SUBSET Groups]
Plan == [there : BOOLEAN, content : Content]

ASSUME WantedAssumption == Wanted \subseteq Plan
ASSUME BoundAssumption == MaxEdits \in Nat /\ MaxFaults \in Nat

VARIABLES
    lb,        \* the load balancer at the service
    state,     \* the state file: whether it holds the id, and the attributes
    etag,      \* whether the version in the state is the load balancer's
    want,      \* the configuration being applied
    pc, then,  \* where the handler is, and where a wait returns to
    left,      \* the security groups a loop still has to go through
    result,    \* how the last apply ended
    cause,     \* what the current apply has met that may refuse a request
    edits, faults

vars == <<lb, state, etag, want, pc, then, left, result, cause, edits, faults>>

Sections == {"dns", "subnets", "name", "logging", "groups"}
Points == Sections \cup {"idle", "plan", "create", "add", "remove", "read",
                         "wait", "delete", "deleteWait"}

TypeOK ==
    /\ lb \in [there : BOOLEAN, status : {"active", "pending", "failed", "deleting"},
               content : Content]
    /\ state \in [id : BOOLEAN, tainted : BOOLEAN, content : Content]
    /\ etag \in BOOLEAN /\ want \in Wanted
    /\ pc \in Points /\ then \in Points /\ left \subseteq Groups
    /\ result \in {"none", "ok", "busy", "stale", "fault"}
    /\ cause \subseteq {"edited", "pending", "deleting", "dns", "unwaited", "lost"}
    /\ edits \in 0..MaxEdits /\ faults \in 0..MaxFaults

Absent == [there |-> FALSE, status |-> "active",
           content |-> [value |-> [a \in Attributes |-> 0], groups |-> {}]]

Init ==
    /\ lb = Absent /\ state = [id |-> FALSE, tainted |-> FALSE, content |-> Absent.content]
    /\ etag = FALSE /\ want \in Wanted
    /\ pc = "idle" /\ then = "idle" /\ left = {} /\ result = "none" /\ cause = {}
    /\ edits = 0 /\ faults = 0

(***************************************************************************)
(* d.HasChange compares the state with the plan; nothing is set before the *)
(* final read, so the state stands for it throughout the update.           *)
(***************************************************************************)
HasChange(a) == state.content.value[a] # want.content.value[a]
Added == want.content.groups \ state.content.groups
Removed == state.content.groups \ want.content.groups

(***************************************************************************)
(* Ends of a handler.  A failed update leaves the planned values in the    *)
(* state, as the SDK does for a handler that returns an error.             *)
(***************************************************************************)
Return(r) ==
    /\ pc' = "idle" /\ result' = r /\ then' = "idle" /\ left' = {}

FailUpdate(r) ==
    /\ Return(r) /\ state' = [state EXCEPT !.content = want.content]
    /\ UNCHANGED <<lb, etag, want, cause, edits>>

Goto(p) == pc' = p /\ UNCHANGED <<then, left, result>>
WaitThen(p) == pc' = "wait" /\ then' = p /\ UNCHANGED result

(***************************************************************************)
(* The service's part of a request: a load balancer that is being changed  *)
(* refuses with a conflict, a stale If-Match with a failed precondition.   *)
(* A change it accepts gives it a new version.                             *)
(***************************************************************************)
Busy == lb.status \in {"pending", "deleting"}

Changed(content, statuses) ==
    /\ \E s \in statuses : lb' = [lb EXCEPT !.content = content, !.status = s]
    /\ etag' = (etag /\ content = lb.content)

With(a) == [lb.content EXCEPT !.value[a] = want.content.value[a]]

Refused(r) == FailUpdate(r) /\ UNCHANGED faults
Fault == faults < MaxFaults /\ faults' = faults + 1

\* The beginning of an apply; the user may have changed the configuration.
Start ==
    /\ pc = "idle" /\ pc' = "plan" /\ result' = "none" /\ want' \in Wanted
    /\ cause' = (cause \cap {"lost"}) \cup (IF Busy THEN {lb.status} ELSE {})
    /\ UNCHANGED <<lb, then, left, edits, faults>>

(***************************************************************************)
(* The read of a refresh and of the end of every handler: an absent load   *)
(* balancer takes the id away, another one gives all the attributes and    *)
(* the Etag.                                                               *)
(***************************************************************************)
Get ==
    /\ state' = IF lb.there THEN [state EXCEPT !.content = lb.content]
                ELSE [state EXCEPT !.id = FALSE, !.tainted = FALSE]
    /\ etag' = lb.there

\* Fault: the refresh does not set the version.
FaultyRefresh ==
    /\ Start /\ state.id
    /\ state' = IF lb.there THEN [state EXCEPT !.content = lb.content]
                ELSE [state EXCEPT !.id = FALSE, !.tainted = FALSE]
    /\ UNCHANGED etag

Refresh == Start /\ state.id /\ Get

\* Without an id there is nothing to refresh.
Begin == Start /\ ~state.id /\ UNCHANGED <<state, etag>>

\* What Terraform makes of the difference between state and configuration: a
\* load balancer whose creation failed is tainted, and replaced.
Diff ==
    /\ pc = "plan"
    /\ IF want.there
       THEN IF ~state.id THEN Goto("create")
            ELSE IF state.tainted THEN Goto("delete")
            ELSE IF state.content = want.content THEN Return("ok") ELSE Goto("dns")
       ELSE IF state.id THEN Goto("delete") ELSE Return("ok")
    /\ UNCHANGED <<lb, state, etag, want, cause, edits, faults>>

(***************************************************************************)
(* Creation: the id is set before the wait; with a lost answer, never.     *)
(***************************************************************************)
Made == [there |-> TRUE, status |-> "pending", content |-> want.content]

\* Fault: the id is set only when the load balancer is there.
FaultyCreate ==
    /\ pc = "create" /\ ~lb.there /\ lb' = Made
    /\ WaitThen("read") /\ etag' = FALSE
    /\ UNCHANGED <<state, want, left, cause, edits, faults>>

Create ==
    /\ pc = "create" /\ ~lb.there /\ lb' = Made
    /\ state' = [id |-> TRUE, tainted |-> TRUE, content |-> want.content] /\ etag' = FALSE
    /\ WaitThen("read") /\ UNCHANGED <<want, left, cause, edits, faults>>

CreateLost ==
    /\ pc = "create" /\ ~lb.there /\ Fault /\ lb' = Made /\ Return("fault")
    /\ cause' = cause \cup {"lost"} /\ UNCHANGED <<state, etag, want, edits>>

\* The name is taken, by a load balancer the state has no id of.
CreateRefused ==
    /\ pc = "create" /\ lb.there /\ Return("fault")
    /\ UNCHANGED <<lb, state, etag, want, cause, edits, faults>>

(***************************************************************************)
(* The patches of an update, in their order.  A request may change the     *)
(* status of the load balancer or leave it as it is.                       *)
(***************************************************************************)
Following == [dns |-> "subnets", subnets |-> "name", name |-> "logging", logging |-> "groups"]

Skip(a) ==
    /\ pc = a /\ ~HasChange(a) /\ Goto(Following[a])
    /\ UNCHANGED <<lb, state, etag, want, cause, edits, faults>>

\* Fault: nothing waits after the patch of dns.
FaultyPatchDns ==
    /\ pc = "dns" /\ HasChange("dns") /\ lb.there /\ ~Busy
    /\ Changed(With("dns"), {"pending", lb.status}) /\ Goto("subnets")
    /\ cause' = cause \cup {"dns"}
    /\ UNCHANGED <<state, want, edits, faults>>

PatchDns ==
    /\ pc = "dns" /\ HasChange("dns") /\ lb.there /\ ~Busy
    /\ Changed(With("dns"), {"pending", lb.status}) /\ WaitThen("subnets")
    /\ cause' = cause \cup {"dns"}
    /\ UNCHANGED <<state, want, left, edits, faults>>

\* Fault: the subnets are patched without If-Match.
FaultyPatchSubnets ==
    /\ pc = "subnets" /\ HasChange("subnets") /\ lb.there /\ ~Busy
    /\ Changed(With("subnets"), {"pending", lb.status}) /\ WaitThen("name")
    /\ UNCHANGED <<state, want, left, cause, edits, faults>>

PatchSubnets ==
    /\ pc = "subnets" /\ HasChange("subnets") /\ lb.there /\ ~Busy /\ etag
    /\ Changed(With("subnets"), {"pending", lb.status}) /\ WaitThen("name")
    /\ UNCHANGED <<state, want, left, cause, edits, faults>>

SubnetsStale ==
    /\ pc = "subnets" /\ HasChange("subnets") /\ lb.there /\ ~etag
    /\ Refused("stale")

\* Name and logging: the handler goes on at once.
PatchUnwaited(a) ==
    /\ pc = a /\ HasChange(a) /\ lb.there /\ ~Busy
    /\ Changed(With(a), {"pending", lb.status}) /\ Goto(Following[a])
    /\ cause' = cause \cup {"unwaited"}
    /\ UNCHANGED <<state, want, edits, faults>>

PatchBusy(a) == pc = a /\ HasChange(a) /\ lb.there /\ Busy /\ Refused("busy")
PatchAbsent(a) == pc = a /\ HasChange(a) /\ ~lb.there /\ Refused("fault")

PatchFails(a) == pc = a /\ HasChange(a) /\ Fault /\ FailUpdate("fault")

(***************************************************************************)
(* Security groups: first every one to add, then every one to remove, each *)
(* followed by a wait.                                                     *)
(***************************************************************************)
BeginGroups ==
    /\ pc = "groups" /\ pc' = "add" /\ left' = Added
    /\ UNCHANGED <<lb, state, etag, want, then, result, cause, edits, faults>>

Add(g) ==
    /\ pc = "add" /\ g \in left /\ lb.there /\ ~Busy
    /\ Changed([lb.content EXCEPT !.groups = @ \cup {g}], {"pending", lb.status})
    /\ WaitThen("add") /\ left' = left \ {g}
    /\ UNCHANGED <<state, want, cause, edits, faults>>

AddsDone ==
    /\ pc = "add" /\ left = {} /\ pc' = "remove" /\ left' = Removed
    /\ UNCHANGED <<lb, state, etag, want, then, result, cause, edits, faults>>

Remove(g) ==
    /\ pc = "remove" /\ g \in left /\ lb.there /\ ~Busy /\ g \in lb.content.groups
    /\ Changed([lb.content EXCEPT !.groups = @ \ {g}], {"pending", lb.status})
    /\ WaitThen("remove") /\ left' = left \ {g}
    /\ UNCHANGED <<state, want, cause, edits, faults>>

\* A group that is not bound any more is left out, without a wait.
RemoveGone(g) ==
    /\ pc = "remove" /\ g \in left /\ ~(lb.there /\ g \in lb.content.groups)
    /\ left' = left \ {g}
    /\ UNCHANGED <<lb, state, etag, want, pc, then, result, cause, edits, faults>>

RemovesDone ==
    /\ pc = "remove" /\ left = {} /\ Goto("read")
    /\ UNCHANGED <<lb, state, etag, want, cause, edits, faults>>

GroupBusy ==
    /\ lb.there /\ Busy
    /\ \/ pc = "add" /\ left # {}
       \/ pc = "remove" /\ left \cap lb.content.groups # {}
    /\ Refused("busy")

GroupFails ==
    /\ pc \in {"add", "remove"} /\ left # {}
    /\ \/ Fault
       \/ pc = "add" /\ ~lb.there /\ UNCHANGED faults
    /\ FailUpdate("fault")

(***************************************************************************)
(* isWaitForLBAvailable takes "failed" for done as well as "active".       *)
(***************************************************************************)
Settled == lb.there /\ lb.status \in {"active", "failed"}

Wait ==
    /\ pc = "wait" /\ Settled /\ Goto(then)
    /\ UNCHANGED <<lb, state, etag, want, cause, edits, faults>>

WaitFails ==
    /\ pc = "wait"
    /\ \/ Fault
       \/ ~lb.there /\ UNCHANGED faults
    /\ FailUpdate("fault")

\* Fault: the final read takes the answer of a failed request for a load balancer.
FaultyRead ==
    /\ pc = "read" /\ Return("ok") /\ etag' = lb.there
    /\ state' = [id |-> TRUE, tainted |-> FALSE,
                 content |-> IF lb.there THEN lb.content ELSE [value |-> <<>>, groups |-> {}]]
    /\ UNCHANGED <<lb, want, cause, edits, faults>>

\* The read that ends a creation or an update.
Read ==
    /\ pc = "read" /\ Return("ok") /\ etag' = lb.there
    /\ state' = [id |-> lb.there, tainted |-> FALSE,
                 content |-> IF lb.there THEN lb.content ELSE state.content]
    /\ UNCHANGED <<lb, want, cause, edits, faults>>

(***************************************************************************)
(* Deletion ends when the load balancer cannot be found.                   *)
(***************************************************************************)
\* Fault: the deletion is reported as soon as it is accepted.
FaultyDelete ==
    /\ pc = "delete" /\ lb.there /\ ~Busy /\ lb' = [lb EXCEPT !.status = "deleting"]
    /\ state' = [state EXCEPT !.id = FALSE, !.tainted = FALSE]
    /\ IF want.there THEN Goto("create") ELSE Return("ok")
    /\ UNCHANGED <<etag, want, cause, edits, faults>>

Delete ==
    /\ pc = "delete" /\ lb.there /\ ~Busy /\ lb' = [lb EXCEPT !.status = "deleting"]
    /\ Goto("deleteWait") /\ UNCHANGED <<state, etag, want, cause, edits, faults>>

Deleted ==
    /\ pc \in {"delete", "deleteWait"} /\ ~lb.there
    /\ state' = [state EXCEPT !.id = FALSE, !.tainted = FALSE]
    /\ IF want.there THEN Goto("create") ELSE Return("ok")
    /\ UNCHANGED <<lb, etag, want, cause, edits, faults>>

DeleteBusy ==
    /\ pc = "delete" /\ lb.there /\ Busy /\ Return("busy")
    /\ UNCHANGED <<lb, state, etag, want, cause, edits, faults>>

DeleteFails ==
    /\ pc \in {"delete", "deleteWait"} /\ Fault /\ Return("fault")
    /\ UNCHANGED <<lb, state, etag, want, cause, edits>>

Patches(a) == Skip(a) \/ PatchBusy(a) \/ PatchAbsent(a) \/ PatchFails(a)

Handler ==
    \/ Refresh \/ Begin \/ Diff
    \/ Create \/ CreateLost \/ CreateRefused
    \/ \E a \in Attributes : Patches(a)
    \/ PatchDns \/ PatchSubnets \/ SubnetsStale
    \/ \E a \in {"name", "logging"} : PatchUnwaited(a)
    \/ BeginGroups \/ AddsDone \/ RemovesDone
    \/ \E g \in Groups : Add(g) \/ Remove(g) \/ RemoveGone(g)
    \/ GroupBusy \/ GroupFails \/ Wait \/ WaitFails \/ Read
    \/ Delete \/ Deleted \/ DeleteBusy \/ DeleteFails

(***************************************************************************)
(* The service settles, and somebody else edits.                           *)
(***************************************************************************)
Settle ==
    /\ lb.there /\ Busy
    /\ IF lb.status = "deleting" THEN lb' = Absent
       ELSE \E s \in {"active", "failed"} : lb' = [lb EXCEPT !.status = s]
    /\ UNCHANGED <<state, etag, want, pc, then, left, result, cause, edits, faults>>

Edit ==
    /\ lb.there /\ ~Busy /\ edits < MaxEdits /\ edits' = edits + 1
    /\ \/ \E a \in Attributes, s \in {"pending", lb.status} :
             lb' = [lb EXCEPT !.content.value[a] = 2, !.status = s]
       \/ \E g \in Groups :
             lb' = [lb EXCEPT !.content.groups = (@ \cup {g}) \ (@ \cap {g}), !.status = "pending"]
       \/ lb' = [lb EXCEPT !.status = "deleting"]
    /\ etag' = FALSE /\ cause' = cause \cup {"edited"}
    /\ UNCHANGED <<state, want, pc, then, left, result, faults>>

Next == Handler \/ Settle \/ Edit
Spec == Init /\ [][Next]_vars
\* The user applies again and again, and the service settles.
FairSpec == Spec /\ WF_vars(Handler) /\ WF_vars(Settle)

(***************************************************************************)
(* Properties                                                              *)
(***************************************************************************)
\* A request is refused as busy only when the load balancer was busy as the
\* apply began, somebody else edits it, or the handler has not waited for its
\* own patch; as stale only when somebody else edits it or the same update has
\* changed dns (resource_ibm_is_lb.go:1014).
FailuresHaveACause ==
    /\ result = "busy" => cause \cap {"pending", "deleting", "edited", "unwaited"} # {}
    /\ result = "stale" => cause \cap {"edited", "dns"} # {}

\* A successful apply means the service has what is configured and the state
\* says so, unless somebody else has edited it meanwhile or it was being
\* deleted already.
SuccessIsTrue ==
    result = "ok" /\ pc = "idle" /\ cause \cap {"edited", "deleting"} = {} =>
        /\ lb.there = want.there \/ "lost" \in cause
        /\ want.there => lb.content = want.content /\ state.content = want.content

\* A load balancer the state does not know of comes from a lost answer only.
Recorded == lb.there /\ pc = "idle" /\ lb.status # "deleting" => state.id \/ "lost" \in cause

\* Subnets that somebody else changed since the state was read are never
\* overwritten.
NoBlindOverwrite ==
    [][Handler /\ lb.there /\ lb'.content.value["subnets"] # lb.content.value["subnets"]
          => lb.content.value["subnets"] = state.content.value["subnets"]]_vars

\* Once a configuration stays, applying it again and again gets there: what a
\* partial failure left behind, a stale version included, is picked up by the
\* next refresh.
InPlace == lb.there = want.there /\ (want.there => lb.content = want.content)
Converges ==
    (\E w \in Wanted : <>[](want = w)) => <>[]InPlace \/ <>("lost" \in cause)
=============================================================================
