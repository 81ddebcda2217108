---------------------------- MODULE LoadBalancer ----------------------------
(***************************************************************************)
(* ibm_is_lb_pool, ibm_is_lb_pool_member, ibm_is_lb_listener,              *)
(* ibm_is_lb_listener_policy, ibm_is_lb_listener_policy_rule and           *)
(* ibm_is_security_group_target: the handlers that change the parts of one *)
(* load balancer and the security groups it is bound to.                   *)
(*                                                                         *)
(* A load balancer takes one change at a time: it is busy until the change *)
(* is provisioned and refuses other requests meanwhile.  Terraform calls   *)
(* the handlers of all parts concurrently, so they lock the load           *)
(* balancer's key in IbmMutexKV and wait for it to be available.  Security *)
(* group targets lock a key of their own and repeat a request that meets a *)
(* busy load balancer.  Each handler is a program over a small set of      *)
(* steps; the programs differ in what they wait for, and that is where     *)
(* they can go wrong.                                                      *)
(***************************************************************************)
EXTENDS Naturals, Sequences, FiniteSets

CONSTANTS
    Objects,   \* the parts of the load balancer that have a block
    Kind,      \* Objects -> Kinds
    Parent,    \* a member's pool, a policy's listener, a rule's policy, or None
    Plans,     \* what an apply may do with them: functions Objects -> Operations
    Errors,    \* may calls of the service fail, or their answers be lost?
    Timeouts,  \* may a wait time out?
    Failures,  \* may the provisioning of an object fail?
    Missing,   \* may an object be gone since the last refresh?
    Slow,      \* may a rule's deletion take more than 20 polls?
    None

Kinds == {"pool", "member", "listener", "policy", "rule", "target"}
Operations == {"create", "update", "delete", "none"}

ASSUME ObjectsAssumption ==
    /\ Kind \in [Objects -> Kinds]
    /\ Parent \in [Objects -> Objects \cup {None}]
    /\ None \notin Objects
    /\ \A o \in Objects :
        IF Kind[o] \in {"pool", "listener", "target"}
        THEN Parent[o] = None
        ELSE /\ Parent[o] \in Objects
             /\ <<Kind[o], Kind[Parent[o]]>> \in
                    {<<"member", "pool">>, <<"policy", "listener">>, <<"rule", "policy">>}
ASSUME FlagsAssumption == {Errors, Timeouts, Failures, Missing, Slow} \subseteq BOOLEAN
ASSUME PlansAssumption == Plans \subseteq [Objects -> Operations]

VARIABLES
    plan,     \* what this apply does with each object
    pc,       \* the step its handler is at, 0 before it is called
    outcome,  \* how the handler ended, or "none"
    id,       \* is the object in the Terraform state?
    lock,     \* the holder of each key, or None
    status,   \* provisioning_status of the object, "absent" when there is none
    lb        \* provisioning_status of the load balancer

handlerVars == <<pc, outcome, id, lock>>
serviceVars == <<status, lb>>
vars == <<plan, handlerVars, serviceVars>>
-----------------------------------------------------------------------------
(* The handlers' programs *)

\* Fault: the load balancer is not waited for before the request.
FaultyMemberCreate == <<"lock", "waitPool", "send", "waitSelf", "waitPool", "waitLB", "read">>
MemberCreate == <<"lock", "waitPool", "waitLB", "send", "waitSelf", "waitPool", "waitLB", "read">>
MemberUpdate == <<"lock", "waitPool", "waitSelf", "waitLB", "send",
                  "waitSelf", "waitPool", "waitLB", "unlock", "read">>
MemberDelete == <<"lock", "get", "waitSelf", "waitPool", "waitLB", "send",
                  "waitGone", "waitPool", "waitLB">>

\* The only handler that does not take the lock.
PoolCreate == <<"waitLB", "send", "waitSelf", "waitLB", "read">>
PoolUpdate == <<"lock", "waitLB", "waitSelf", "send", "waitSelf", "waitLB", "unlock", "read">>
PoolDelete == <<"lock", "get", "waitLB", "waitSelf", "send", "waitGone", "waitLB">>

\* Fault: a request is sent and the lock given up before it is provisioned.
FaultyListenerCreate == <<"lock", "getLB", "waitLB", "send", "read">>
ListenerCreate == <<"lock", "getLB", "waitLB", "send", "waitSelf", "waitLB", "read">>
ListenerUpdate == <<"lock", "waitLB", "send", "waitSelf", "waitLB", "unlock", "read">>
ListenerDelete == <<"lock", "get", "waitLB", "send", "waitGone", "waitLB">>

\* No wait for the load balancer after the request.
PolicyCreate == <<"lock", "needLB", "send", "waitSelf", "unlock", "read">>
PolicyUpdate == <<"lock", "needLB", "send", "waitSelf", "unlock", "read">>
PolicyDelete == <<"lock", "look", "needLB", "send", "waitGone">>

RuleCreate == <<"lock", "needLB", "send", "waitSelf", "unlock", "read">>
RuleUpdate == <<"lock", "needLB", "send", "waitSelf", "unlock", "read">>
RuleDelete == <<"lock", "get", "send", "waitGone">>

\* "try" goes on after the second request when the first is taken.
TargetCreate == <<"lock", "try", "waitLB", "send", "waitLB", "read">>
TargetDelete == <<"get", "lock", "try", "waitLB", "send", "waitGone", "waitLB">>

Programs ==
    [member   |-> [create |-> MemberCreate,   update |-> MemberUpdate,   delete |-> MemberDelete],
     pool     |-> [create |-> PoolCreate,     update |-> PoolUpdate,     delete |-> PoolDelete],
     listener |-> [create |-> ListenerCreate, update |-> ListenerUpdate, delete |-> ListenerDelete],
     policy   |-> [create |-> PolicyCreate,   update |-> PolicyUpdate,   delete |-> PolicyDelete],
     rule     |-> [create |-> RuleCreate,     update |-> RuleUpdate,     delete |-> RuleDelete],
     target   |-> [create |-> TargetCreate,   delete |-> TargetDelete]]

Program(o) == Programs[Kind[o]][plan[o]]
Running(o) == pc[o] # 0 /\ outcome[o] = "none"
At(o, step) == Running(o) /\ Program(o)[pc[o]] = step

\* "load_balancer_key_" and "security_group_key_", each with the same id.
Keys == {"balancer", "group"}
Key(o) == IF Kind[o] = "target" THEN "group" ELSE "balancer"
-----------------------------------------------------------------------------
(* The plan *)

\* Parts are destroyed with what they belong to, and created with it.  Every
\* attribute of a target forces a new one.
ConsistentPlan(p) ==
    \A o \in Objects :
        /\ Kind[o] = "target" => p[o] # "update"
        /\ Parent[o] # None =>
            /\ p[Parent[o]] = "create" => p[o] = "create"
            /\ p[Parent[o]] = "delete" => p[o] = "delete"

Settled(s) == s \in {"active", "failed"}
Pending == {"create_pending", "update_pending", "delete_pending"}
Statuses == {"absent", "active", "failed"} \cup Pending
Failed == {"busy", "rejected", "notFound", "unexpected", "timedOut", "gaveUp", "error", "lost"}
Outcomes == {"none", "ok"} \cup Failed

\* What the service may hold when the apply starts.  Of an object that is not
\* changed the handlers only ask whether it has settled.
StartingStatuses(operation) ==
    CASE operation = "create" -> {"absent"}
      [] operation = "none"   -> {"active"}
      [] OTHER -> {"active"} \cup (IF Failures THEN {"failed"} ELSE {})
                             \cup (IF Missing THEN {"absent"} ELSE {})

Init ==
    /\ plan \in {p \in Plans : ConsistentPlan(p)}
    /\ pc = [o \in Objects |-> 0]
    /\ outcome = [o \in Objects |-> "none"]
    /\ id = [o \in Objects |-> plan[o] # "create"]
    /\ lock = [k \in Keys |-> None]
    /\ status \in [Objects -> Statuses]
    /\ \A o \in Objects :
        /\ status[o] \in StartingStatuses(plan[o])
        /\ Parent[o] # None /\ status[Parent[o]] = "absent" => status[o] = "absent"
    /\ lb = "active"

\* Terraform calls a handler when those it depends on have succeeded.
Ready(o) ==
    IF plan[o] = "delete"
    THEN \A c \in Objects : Parent[c] = o => outcome[c] = "ok"
    ELSE Parent[o] # None => plan[Parent[o]] = "none" \/ outcome[Parent[o]] = "ok"

Call(o) ==
    /\ pc[o] = 0 /\ plan[o] # "none" /\ Ready(o)
    /\ pc' = [pc EXCEPT ![o] = 1]
    /\ UNCHANGED <<plan, outcome, id, lock, serviceVars>>
-----------------------------------------------------------------------------
(* How a handler goes on *)

\* Fault: the key is not unlocked.
FaultyRelease(o) == lock
Release(o) == [k \in Keys |-> IF lock[k] = o THEN None ELSE lock[k]]

\* Unlock is deferred: it runs at every return.  A deleted object leaves the
\* state when its handler succeeds.
End(o, result) ==
    /\ outcome' = [outcome EXCEPT ![o] = result]
    /\ lock' = Release(o)
    /\ id' = [id EXCEPT ![o] = @ /\ ~(result = "ok" /\ plan[o] = "delete")]
    /\ UNCHANGED pc

NextStep(o) ==
    /\ pc' = [pc EXCEPT ![o] = @ + 1]
    /\ UNCHANGED <<outcome, id, lock>>

Advance(o) == IF pc[o] < Len(Program(o)) THEN NextStep(o) ELSE End(o, "ok")

Lock(o) ==
    /\ At(o, "lock") /\ lock[Key(o)] = None
    /\ lock' = [lock EXCEPT ![Key(o)] = o]
    /\ pc' = [pc EXCEPT ![o] = @ + 1]
    /\ UNCHANGED <<plan, outcome, id, serviceVars>>

\* Where the lock is taken in an inner function, it is given up before the read.
Unlock(o) ==
    /\ At(o, "unlock")
    /\ lock' = Release(o)
    /\ pc' = [pc EXCEPT ![o] = @ + 1]
    /\ UNCHANGED <<plan, outcome, id, serviceVars>>

\* Delete handlers look the object up first and are content when it is gone.
Get(o) ==
    /\ At(o, "get") \/ At(o, "look")
    /\ IF status[o] = "absent" THEN End(o, "ok") ELSE NextStep(o)
    /\ UNCHANGED <<plan, serviceVars>>

GetBalancer(o) ==
    /\ At(o, "getLB")
    /\ NextStep(o)
    /\ UNCHANGED <<plan, serviceVars>>

\* A policy's Delete does not look at other errors of that call.
LookFails(o) ==
    /\ Errors /\ At(o, "look")
    /\ NextStep(o)
    /\ UNCHANGED <<plan, serviceVars>>

\* Fault: the handler's result is the status of the object.
FaultyRead(o) ==
    /\ At(o, "read")
    /\ outcome' = [outcome EXCEPT ![o] = status[o]]
    /\ lock' = Release(o)
    /\ UNCHANGED <<plan, pc, id, serviceVars>>
\* Create and Update end with a read, which forgets an object that is gone.
Read(o) ==
    /\ At(o, "read")
    /\ outcome' = [outcome EXCEPT ![o] = "ok"]
    /\ lock' = Release(o)
    /\ id' = [id EXCEPT ![o] = @ /\ status[o] # "absent"]
    /\ UNCHANGED <<plan, pc, serviceVars>>
-----------------------------------------------------------------------------
(* Waiting: what the refresh function of each wait makes of what it reads. *)
(* A state that is neither pending nor the target ends the wait at once.   *)

WaitForLB == IF lb = "active" THEN "done" ELSE "pending"

\* Policies and rules: the refresh function says "provisioning" of a busy load
\* balancer, which is not among the pending states of their waits.
NeedLB == IF lb = "active" THEN "done" ELSE "unexpected"

\* Fault: an update of the pool is not among the pending states.
FaultyWaitForPool(p) ==
    IF Settled(status[p]) THEN "done"
    ELSE IF status[p] = "create_pending" THEN "pending"
    ELSE "unexpected"
WaitForPool(p) ==
    IF Settled(status[p]) THEN "done"
    ELSE IF status[p] \in {"create_pending", "update_pending"} THEN "pending"
    ELSE "unexpected"

\* Only a member's wait takes a failed object for an error.
WaitForMember(o) ==
    IF status[o] = "active" THEN "done"
    ELSE IF status[o] \in {"create_pending", "update_pending"} THEN "pending"
    ELSE "unexpected"

\* Fault: an object that is being created counts as there.
FaultyWaitForSelf(o) == IF status[o] = "absent" THEN "unexpected" ELSE "done"
WaitForSelf(o) == IF Kind[o] = "member" THEN WaitForMember(o) ELSE WaitForPool(o)

WaitForDeletion(o) == IF status[o] = "absent" THEN "done" ELSE "pending"

Sees(o, result) ==
    \/ At(o, "waitLB")   /\ WaitForLB = result
    \/ At(o, "needLB")   /\ NeedLB = result
    \/ At(o, "waitPool") /\ WaitForPool(Parent[o]) = result
    \/ At(o, "waitSelf") /\ WaitForSelf(o) = result
    \/ At(o, "waitGone") /\ WaitForDeletion(o) = result

WaitEnds(o) ==
    /\ Sees(o, "done")
    /\ Advance(o)
    /\ UNCHANGED <<plan, serviceVars>>

WaitFails(o) ==
    /\ Sees(o, "unexpected")
    /\ End(o, IF At(o, "needLB") THEN "busy" ELSE "unexpected")
    /\ UNCHANGED <<plan, serviceVars>>

TimeOut(o) ==
    /\ Timeouts /\ Sees(o, "pending")
    /\ End(o, "timedOut")
    /\ UNCHANGED <<plan, serviceVars>>

\* The refresh function for a rule's deletion returns no result while the rule
\* is there; after 20 polls without one the wait ends, long before its timeout.
GiveUp(o) ==
    /\ Slow /\ Kind[o] = "rule" /\ At(o, "waitGone") /\ status[o] # "absent"
    /\ End(o, "gaveUp")
    /\ UNCHANGED <<plan, serviceVars>>
-----------------------------------------------------------------------------
(* Requests and the service *)

PendingStatus(operation) ==
    CASE operation = "create" -> "create_pending"
      [] operation = "update" -> "update_pending"
      [] operation = "delete" -> "delete_pending"

\* The service takes a change of a settled object on an idle load balancer.
Accepts(o) ==
    /\ lb = "active"
    /\ IF plan[o] = "create" THEN status[o] = "absent" ELSE Settled(status[o])
    /\ Kind[o] = "member" => Settled(status[Parent[o]])

\* A change of a member is a change of its pool.  A target has no status of its
\* own: it is there at once and provisioned with the load balancer.
Take(o) ==
    /\ lb' = "update_pending"
    /\ status' = [x \in Objects |->
        IF x = o THEN (IF Kind[o] = "target" /\ plan[o] = "create" THEN "active" ELSE PendingStatus(plan[o]))
        ELSE IF Kind[o] = "member" /\ x = Parent[o] THEN "update_pending"
        ELSE status[x]]

Requests(o) == At(o, "send") \/ At(o, "try")

\* A first request that is taken makes the wait and the second one superfluous.
AfterRequest(o) == pc[o] + (IF At(o, "try") THEN 3 ELSE 1)

\* Fault: the id of a new object is not set.
FaultySend(o) ==
    /\ Requests(o) /\ Accepts(o)
    /\ Take(o)
    /\ pc' = [pc EXCEPT ![o] = AfterRequest(o)]
    /\ UNCHANGED <<plan, outcome, id, lock>>
\* Create handlers set the id as soon as the request has been taken.
Send(o) ==
    /\ Requests(o) /\ Accepts(o)
    /\ Take(o)
    /\ pc' = [pc EXCEPT ![o] = AfterRequest(o)]
    /\ id' = [id EXCEPT ![o] = @ \/ plan[o] = "create"]
    /\ UNCHANGED <<plan, outcome, lock>>

\* The error of a request for an object that is there says that the load
\* balancer is busy, when it is: the handler of a target waits for it, once.
Repeats(o) == At(o, "try") /\ lb # "active" /\ (plan[o] = "create" \/ status[o] # "absent")

TryAgain(o) ==
    /\ Repeats(o)
    /\ NextStep(o)
    /\ UNCHANGED <<plan, serviceVars>>

Rejected(o) ==
    /\ Requests(o) /\ ~Accepts(o) /\ ~Repeats(o)
    /\ End(o, IF plan[o] # "create" /\ status[o] = "absent" THEN "notFound" ELSE "rejected")
    /\ UNCHANGED <<plan, serviceVars>>

\* The request is taken but its answer does not arrive.
AnswerLost(o) ==
    /\ Errors /\ Requests(o) /\ Accepts(o)
    /\ Take(o)
    /\ End(o, "lost")
    /\ UNCHANGED plan

ServiceCalls == {"get", "getLB", "waitLB", "needLB", "waitPool", "waitSelf", "waitGone", "send", "try", "read"}

CallFails(o) ==
    /\ Errors /\ \E step \in ServiceCalls : At(o, step)
    /\ End(o, "error")
    /\ UNCHANGED <<plan, serviceVars>>

\* Object and load balancer settle in any order.
Provisioned(o) ==
    /\ status[o] \in Pending
    /\ \/ status' = [status EXCEPT ![o] = IF @ = "delete_pending" THEN "absent" ELSE "active"]
       \/ /\ Failures /\ status[o] # "delete_pending"
          /\ status' = [status EXCEPT ![o] = "failed"]
    /\ UNCHANGED <<plan, handlerVars, lb>>

BalancerProvisioned ==
    /\ lb = "update_pending"
    /\ lb' = "active"
    /\ UNCHANGED <<plan, handlerVars, status>>

Handler(o) ==
    \/ Call(o) \/ Lock(o) \/ Unlock(o) \/ Get(o) \/ GetBalancer(o) \/ LookFails(o) \/ Read(o)
    \/ WaitEnds(o) \/ WaitFails(o) \/ TimeOut(o) \/ GiveUp(o)
    \/ Send(o) \/ TryAgain(o) \/ Rejected(o) \/ AnswerLost(o) \/ CallFails(o)

Next == (\E o \in Objects : Handler(o) \/ Provisioned(o)) \/ BalancerProvisioned

Spec == Init /\ [][Next]_vars

\* Something that can happen does: handlers go on, the service provisions.  No
\* step can be repeated for ever, so nothing stronger is needed.
FairSpec == Spec /\ WF_vars(Next)
-----------------------------------------------------------------------------
(* Properties *)

TypeOK ==
    /\ plan \in [Objects -> Operations]
    /\ pc \in [Objects -> 0..10]
    /\ outcome \in [Objects -> Outcomes]
    /\ id \in [Objects -> BOOLEAN]
    /\ lock \in [Keys -> Objects \cup {None}]
    /\ status \in [Objects -> Statuses]
    /\ lb \in {"active", "update_pending"}

\* All but policies and rules: the handlers that make sure of the load balancer.
Waits(o) == Kind[o] \notin {"policy", "rule"}

\* The creation of a pool takes no lock, a target the lock of another key.
TakesKey(o, k) == Key(o) = k /\ ~(Kind[o] = "pool" /\ plan[o] = "create")

\* Another handler, not kept apart from o's by a key, has been called as well.
NotKeptApart(o) ==
    \E q \in Objects \ {o} :
        /\ pc[o] # 0 /\ pc[q] # 0
        /\ \A k \in Keys : ~(TakesKey(o, k) /\ TakesKey(q, k))

\* A handler of a pool, member, listener or target fails only for a reason of
\* its own: whatever failed or timed out before, no request of it meets a load
\* balancer or an object that the change of another handler with its key keeps
\* busy, a target's not even after a request that was refused; and a wait finds
\* an unexpected state only in an object that failed or is gone.
FailuresHaveACause ==
    \A o \in Objects : Waits(o) =>
        /\ outcome[o] = "rejected" => NotKeptApart(o)
        /\ outcome[o] = "unexpected" =>
            \/ status[o] \in {"failed", "absent"}
            \/ Parent[o] # None /\ status[Parent[o]] = "absent"

\* A handler reports success only when its change has been provisioned: the
\* object settled or, after Delete, is gone.  (A pool is pending again when a
\* member changes; an object that vanished is forgotten by the final read.)
SuccessIsTrue ==
    \A o \in Objects : outcome[o] = "ok" =>
        CASE plan[o] = "delete" -> status[o] = "absent" /\ ~id[o]
          [] plan[o] = "create" -> id[o] /\ (Kind[o] = "pool" \/ Settled(status[o]))
          [] OTHER -> id[o] => Kind[o] = "pool" \/ Settled(status[o])

\* Nobody leaves the load balancer busy behind its back: while it is busy, the
\* holder of a key or the creator of a pool is at work, a handler failed, or one
\* of a policy or a rule, which does not wait for it, has been called.
BusyHasAnOwner ==
    lb # "active" =>
        \/ \E k \in Keys : lock[k] # None
        \/ \E o \in Objects :
            \/ outcome[o] \in Failed
            \/ ~Waits(o) /\ pc[o] # 0
            \/ Running(o) /\ Kind[o] = "pool" /\ plan[o] = "create"

\* No orphans: when a handler has ended, an object the service has is in the
\* Terraform state, unless the answer to the request that made it was lost.
Recorded ==
    \A o \in Objects :
        outcome[o] \notin {"none", "lost"} /\ status[o] # "absent" => id[o]

\* Every apply ends: each handler that is called returns, with or without the
\* change made, and nobody waits for a key that is not given up.
HandlersReturn == <>[](\A o \in Objects : ~Running(o))

\* What an apply cannot be blamed for: a call that fails, a wait that times out,
\* an object that failed or vanished.
Disturbed ==
    \E o \in Objects :
        \/ outcome[o] \in {"error", "lost", "timedOut"}
        \/ status[o] = "failed"
        \/ status[o] = "absent" /\ plan[o] = "update"

\* The handlers that no key keeps apart, and those that do not wait.
KeptApart ==
    /\ \A o \in Objects : Waits(o) \/ plan[o] = "none"
    /\ \A o, q \in Objects :
        o # q /\ plan[o] # "none" /\ plan[q] # "none" =>
            \E k \in Keys : TakesKey(o, k) /\ TakesKey(q, k)

\* Unless it is disturbed, an apply whose handlers a key keeps apart succeeds:
\* each planned operation ends well, in every order.
Converges ==
    \/ <>[](\A o \in Objects : plan[o] # "none" => outcome[o] = "ok")
    \/ <>(~KeptApart \/ Disturbed)

\* A handler of a policy or a rule fails only when no response arrives for ten
\* minutes: not because the load balancer is busy when it is first looked at or
\* with another change, nor because the change is slow.
FailsOnTimeoutOnly ==
    \A o \in Objects : ~Waits(o) => outcome[o] \notin {"busy", "rejected", "gaveUp"}
=============================================================================
