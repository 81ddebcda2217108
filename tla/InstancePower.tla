--------------------------- MODULE InstancePower ---------------------------
(***************************************************************************)
(* ibm_is_instance: the requests with which its handlers start, stop and   *)
(* reboot a virtual server instance, the waits that follow them, and the   *)
(* goroutine that force_recovery_time adds to each of these waits.         *)
(*                                                                         *)
(* The goroutine, the wait's routine, asks for a stop (and a start) again  *)
(* and again.  An unbuffered channel connects it with the refresh function *)
(* of its wait: the routine sends an error that ends the wait, and the     *)
(* refresh function closes the channel to end the routine.                 *)
(***************************************************************************)
EXTENDS Naturals, Sequences

CONSTANTS
    Plans,     \* the handlers' calls: [flow : Flows, changes : SUBSET Changes]
    Starting,  \* what an instance is when an update or a deletion begins
    Recovery,  \* the values of "is force_recovery_time set?"
    Faults,    \* the values of "may requests, waits and instances fail?"
    MaxHangs   \* how often an instance hangs in "starting" or "stopping"

Flows == {"create", "update", "delete"}

\* Attributes that make an update act on the instance: a dedicated host; the
\* three actions; network interfaces and their security groups; secure boot,
\* vcpu and the like; the profile.
Changes == {"host", "stop", "start", "reboot", "interface", "secureBoot", "profile"}

ASSUME PlansAssumption == Plans \subseteq [flow : Flows, changes : SUBSET Changes]
ASSUME FlagsAssumption ==
    /\ Starting \subseteq {"running", "stopped"}
    /\ Recovery \subseteq BOOLEAN /\ Faults \subseteq BOOLEAN
    /\ MaxHangs \in Nat

VARIABLES
    plan,      \* the call
    recovery,  \* is force_recovery_time set?
    faults,    \* may requests, waits and instances fail?
    todo,      \* the steps the handler has before it
    outcome,   \* how it ended, or "none"
    status,    \* of the instance
    asked,     \* the action the service has accepted and not begun, or "none"
    hanging,   \* does the instance hang in its status?
    hangs,     \* how often it did
    routine,   \* what the routine of the current wait is about to do
    left,      \* the routines of earlier waits
    crashed,   \* has the provider's process panicked?
    acted      \* history: has a routine asked for an action?

handlerVars == <<plan, recovery, faults, todo, outcome>>
serviceVars == <<status, asked, hanging, hangs>>
routineVars == <<routine, left, crashed, acted>>
vars == <<handlerVars, serviceVars, routineVars>>

Statuses == {"absent", "starting", "running", "restarting", "stopping", "stopped", "failed"}
Failed == {"error", "unexpected", "failed", "timedOut", "invalid"}
-----------------------------------------------------------------------------
(* The handlers' programs *)

Create == <<"create", "waitAvailable">>
Delete == <<"stop", "waitStop", "delete">>

\* Fault: the wait for the stop is forgotten.
FaultyHost == <<"stop", "patch", "start", "waitStart">>
Host == <<"stop", "waitStop", "patch", "start", "waitStart">>
Action(a) ==
    CASE a = "stop"   -> <<"ifRunning", "stop", "waitStop">>
      [] a = "start"  -> <<"ifStopped", "start", "waitStart">>
      [] a = "reboot" -> <<"ifRunning", "reboot", "waitStart">>

\* The wait for an available instance once more, though nothing starts it.
Interface == <<"bind", "waitBound">>
SecureBoot == <<"look", "patch">>
\* Fault: the instance is not started again.
FaultyProfile == <<"lookToStop", "patch", "waitAvailable">>
Profile == <<"lookToStop", "patch", "start", "waitAvailable">>

\* The sections of an update in the source's order.
Update(changes) ==
    (IF "host" \in changes THEN Host ELSE <<>>)
    \o (IF "stop" \in changes THEN Action("stop")
        ELSE IF "start" \in changes THEN Action("start")
        ELSE IF "reboot" \in changes THEN Action("reboot") ELSE <<>>)
    \o (IF "interface" \in changes THEN Interface ELSE <<>>)
    \o (IF "secureBoot" \in changes THEN SecureBoot ELSE <<>>)
    \o (IF "profile" \in changes THEN Profile ELSE <<>>)

\* Create ends with Update, whose sections look for !d.IsNewResource(), except
\* that for the host, where && binds to the second attribute only.
Program(p) ==
    CASE p.flow = "create" -> Create \o Update(p.changes \cap {"host"})
      [] p.flow = "update" -> Update(p.changes)
      [] p.flow = "delete" -> Delete

Running == outcome = "none" /\ ~crashed
At(step) == Running /\ todo # <<>> /\ Head(todo) = step

WaitSteps == {"waitAvailable", "waitBound", "waitStop", "waitStart"}
Waiting == \E step \in WaitSteps : At(step)

Init ==
    /\ plan \in Plans /\ recovery \in Recovery /\ faults \in Faults
    /\ todo = Program(plan) /\ outcome = "none"
    /\ status \in (IF plan.flow = "create" THEN {"absent"} ELSE Starting)
    /\ asked = "none" /\ hanging = FALSE /\ hangs = 0
    /\ routine = "none" /\ left = {} /\ crashed = FALSE /\ acted = FALSE
-----------------------------------------------------------------------------
(* The service *)

\* An action is accepted and begun later; it also frees an instance that hangs.
Ask(action) ==
    /\ asked' = action /\ hanging' = FALSE
    /\ UNCHANGED <<status, hangs>>

After(action, s) ==
    CASE action = "stop"   /\ s \in {"starting", "running", "restarting", "stopping"} -> "stopping"
      [] action = "start"  /\ s = "stopped" -> "starting"
      [] action = "reboot" /\ s = "running" -> "restarting"
      [] OTHER -> s

Begin ==
    /\ asked # "none" /\ asked' = "none"
    /\ status' = After(asked, status)
    /\ UNCHANGED <<handlerVars, hanging, hangs, routineVars>>

Progress ==
    /\ ~hanging
    /\ \/ status \in {"starting", "restarting"} /\ status' = "running"
       \/ status = "stopping" /\ status' = "stopped"
    /\ UNCHANGED <<handlerVars, asked, hanging, hangs, routineVars>>

Hang ==
    /\ status \in {"starting", "stopping"} /\ ~hanging
    /\ hangs < MaxHangs
    /\ hanging' = TRUE /\ hangs' = hangs + 1
    /\ UNCHANGED <<handlerVars, status, asked, routineVars>>

InstanceFails ==
    /\ faults /\ status \in {"starting", "stopping"}
    /\ status' = "failed" /\ hanging' = FALSE
    /\ UNCHANGED <<handlerVars, asked, hangs, routineVars>>
-----------------------------------------------------------------------------
(* The handlers *)

\* Fault: the outcome is the status of the instance.
FaultyEnd(result) ==
    /\ outcome' = status
    /\ UNCHANGED <<plan, recovery, faults, todo>>
End(result) ==
    /\ outcome' = result
    /\ UNCHANGED <<plan, recovery, faults, todo>>

Continue(rest) ==
    /\ todo' = rest
    /\ outcome' = (IF rest = <<>> THEN "ok" ELSE "none")
    /\ UNCHANGED <<plan, recovery, faults>>

\* A wait begins with its routine.
RoutineOf(rest) ==
    IF recovery /\ rest # <<>> /\ Head(rest) \in WaitSteps THEN "select" ELSE "none"

Advance == Continue(Tail(todo)) /\ routine' = RoutineOf(Tail(todo))

RequestSteps == {"create", "stop", "start", "reboot", "bind", "patch", "delete"}

Effect(step) ==
    CASE step \in {"stop", "start", "reboot"} -> Ask(step)
      [] step = "create" -> status' = "starting" /\ UNCHANGED <<asked, hanging, hangs>>
      [] step = "delete" -> status' = "absent" /\ asked' = "none" /\ UNCHANGED <<hanging, hangs>>
      [] OTHER -> UNCHANGED serviceVars

Request ==
    /\ \E step \in RequestSteps : At(step) /\ Effect(step)
    /\ Advance
    /\ UNCHANGED <<left, crashed, acted>>

RequestFails ==
    /\ faults
    /\ \E step \in RequestSteps : At(step) /\ (Effect(step) \/ UNCHANGED serviceVars)
    /\ End("error")
    /\ UNCHANGED routineVars

\* Of an action's request: is it allowed?
Check ==
    /\ At("ifRunning") \/ At("ifStopped")
    /\ IF status = (IF At("ifRunning") THEN "running" ELSE "stopped")
       THEN Advance
       ELSE End("invalid") /\ UNCHANGED routine
    /\ UNCHANGED <<serviceVars, left, crashed, acted>>

\* Secure boot: a running instance is stopped and started again.
Look ==
    /\ At("look")
    /\ Continue((IF status = "running"
                 THEN <<"stop", "waitStop", "patch", "start", "waitAvailable">>
                 ELSE <<"patch">>) \o Tail(Tail(todo)))
    /\ UNCHANGED <<serviceVars, routineVars>>

\* The profile: the start comes in any case.
LookToStop ==
    /\ At("lookToStop")
    /\ Continue((IF status = "running" THEN <<"stop", "waitStop">> ELSE <<>>) \o Tail(todo))
    /\ UNCHANGED <<serviceVars, routineVars>>
-----------------------------------------------------------------------------
(* Waiting *)

\* Fault: a transition towards the target will do.
FaultyTarget(step) ==
    IF step = "waitStop" THEN {"stopped", "stopping"} ELSE {"running", "starting"}
Target(step) == IF step = "waitStop" THEN {"stopped"} ELSE {"running"}

\* isInstanceRefreshFunc reports every other status as provisioning.
Pending(step) ==
    CASE step = "waitStop"  -> {"running", "stopping"}
      [] step = "waitStart" -> {"stopped", "stopping", "starting", "restarting"}
      [] OTHER -> Statuses \ {"running", "failed"}

\* The wait for an available instance has the routine that also starts it.
KindOf(step) == IF step \in {"waitStop", "waitStart"} THEN "stopper" ELSE "restarter"

\* A wait leaves its routine behind: told to end when the channel was closed,
\* blocked for ever, without effect, in the send of an error nobody receives.
Leave(told) ==
    left' = IF routine \in {"select", "start"}
            THEN left \cup {[kind |-> KindOf(Head(todo)), told |-> told, at |-> routine]}
            ELSE left

\* The refresh function has read the status; no error was sent.
WaitEnds ==
    /\ Waiting /\ routine # "send"
    /\ status \in Target(Head(todo))
    /\ Leave(KindOf(Head(todo)) = "restarter")
    /\ Advance
    /\ UNCHANGED <<serviceVars, crashed, acted>>

\* A failed instance closes the channel of every wait.
WaitFails ==
    /\ Waiting /\ routine # "send"
    /\ status \notin Target(Head(todo)) \cup Pending(Head(todo))
    /\ Leave(status = "failed")
    /\ End(IF status = "failed" THEN "failed" ELSE "unexpected")
    /\ routine' = "none"
    /\ UNCHANGED <<serviceVars, crashed, acted>>

\* The error of the routine ends the wait.
Receive ==
    /\ Waiting /\ routine = "send"
    /\ End("error")
    /\ routine' = "none"
    /\ UNCHANGED <<serviceVars, left, crashed, acted>>

\* GetInstance fails, or the time is over.
WaitBreaks ==
    /\ faults /\ Waiting
    /\ \E result \in {"error", "timedOut"} : End(result)
    /\ Leave(FALSE)
    /\ routine' = "none"
    /\ UNCHANGED <<serviceVars, crashed, acted>>
-----------------------------------------------------------------------------
(* The routines: isRestartStopAction, the stopper, and                     *)
(* isRestartStartAction, the restarter.                                    *)

\* The restarter waits a minute for the stop, whatever comes of it.
StopAwaited ==
    faults \/ hanging \/ (asked # "stop" /\ status \notin {"running", "stopping"})

\* That wait has a stopper of its own, which nobody tells to end.
NestedStopper == [kind |-> "stopper", told |-> FALSE, at |-> "select"]

\* The current wait's routine, when its ticker fires.
Tick ==
    /\ Waiting /\ routine = "select"
    /\ Ask("stop")
    /\ IF KindOf(Head(todo)) = "restarter"
       THEN routine' = "start" /\ left' = left \cup {NestedStopper}
       ELSE UNCHANGED <<routine, left>>
    /\ acted' = TRUE
    /\ UNCHANGED <<handlerVars, crashed>>

StartAgain ==
    /\ Waiting /\ routine = "start" /\ StopAwaited
    /\ Ask("start")
    /\ routine' = "select" /\ acted' = TRUE
    /\ UNCHANGED <<handlerVars, left, crashed>>

TickFails ==
    /\ faults /\ Waiting /\ routine \in {"select", "start"}
    /\ routine' = "send"
    /\ UNCHANGED <<handlerVars, serviceVars, left, crashed, acted>>

\* A routine left behind.  (Several of one kind do what one of them does.)  The
\* select may take the ticker although the channel is closed, too.
LeftTicks(r) ==
    /\ ~crashed /\ r.at = "select" /\ status # "absent"
    /\ Ask("stop")
    /\ left' = IF r.kind = "restarter"
               THEN (left \ {r}) \cup {[r EXCEPT !.at = "start"], NestedStopper}
               ELSE left
    /\ acted' = TRUE
    /\ UNCHANGED <<handlerVars, routine, crashed>>

LeftStarts(r) ==
    /\ ~crashed /\ r.at = "start" /\ StopAwaited /\ status # "absent"
    /\ Ask("start")
    /\ left' = (left \ {r}) \cup {[r EXCEPT !.at = "select"]}
    /\ acted' = TRUE
    /\ UNCHANGED <<handlerVars, routine, crashed>>

\* Its request fails: the send blocks for ever, or panics on a closed channel.
LeftFails(r) ==
    /\ ~crashed /\ (faults \/ status = "absent")
    /\ left' = left \ {r}
    /\ crashed' = r.told
    /\ UNCHANGED <<handlerVars, serviceVars, routine, acted>>

LeftEnds(r) ==
    /\ ~crashed /\ r.told /\ r.at = "select"
    /\ left' = left \ {r}
    /\ UNCHANGED <<handlerVars, serviceVars, routine, crashed, acted>>

Handler == Request \/ RequestFails \/ Check \/ Look \/ LookToStop
Wait == WaitEnds \/ WaitFails \/ Receive
Service == Begin \/ Progress
Routine == Tick \/ StartAgain \/ TickFails
Left == \E r \in left : LeftTicks(r) \/ LeftStarts(r) \/ LeftFails(r) \/ LeftEnds(r)

Next == Handler \/ Wait \/ WaitBreaks \/ Service \/ Hang \/ InstanceFails \/ Routine \/ Left

Spec == Init /\ [][Next]_vars

\* The handler polls far more often than a ticker fires (ten seconds against
\* minutes), and the service takes less time than that unless it hangs.  That
\* a wait times out is not assumed.
Fairness ==
    /\ WF_vars(Handler) /\ SF_vars(Wait) /\ SF_vars(Begin) /\ SF_vars(Progress)
    /\ WF_vars(Routine) /\ SF_vars(\E r \in left : LeftEnds(r) \/ LeftStarts(r))
FairSpec == Spec /\ Fairness
-----------------------------------------------------------------------------
(* Properties *)

TypeOK ==
    /\ plan \in Plans /\ recovery \in Recovery /\ faults \in Faults
    /\ todo \in Seq(RequestSteps \cup WaitSteps \cup {"ifRunning", "ifStopped", "look", "lookToStop"})
    /\ outcome \in {"none", "ok"} \cup Failed
    /\ status \in Statuses /\ asked \in {"none", "stop", "start", "reboot"}
    /\ hanging \in BOOLEAN /\ hangs \in 0..MaxHangs
    /\ routine \in {"none", "select", "start", "send"}
    /\ left \subseteq [kind : {"stopper", "restarter"}, told : BOOLEAN, at : {"select", "start"}]
    /\ crashed \in BOOLEAN /\ acted \in BOOLEAN

\* A reboot is reported done while the instance still runs, before it begins.
Reboots == "reboot" \in plan.changes

\* The instance is what the call is to make of it: an interface needs it to run.
Promised ==
    IF plan.flow = "delete" THEN {"absent"}
    ELSE IF plan.flow = "create" \/ plan.changes \cap {"interface", "profile"} # {} THEN {"running"}
    ELSE IF "stop" \in plan.changes THEN {"stopped"}
    ELSE IF plan.changes \cap {"start", "host"} # {} THEN {"running"}
    ELSE {"running", "stopped"}

\* As long as no routine has asked for an action, a handler reports success only
\* when the instance is in the state that the call asks for, and nothing is about
\* to change it: no wait takes a state before its own request for the one after
\* it.  And no wait finds a state it does not expect: each section leaves the
\* instance as the waits of the next one presume.  A deletion's success is true
\* whatever the routines do.
OutcomeIsTrue ==
    ~Reboots =>
        /\ outcome = "ok" /\ (acted => plan.flow = "delete") =>
              status \in Promised /\ asked = "none"
        /\ outcome = "unexpected" => acted

\* Changes that need a stopped instance, and its deletion, find it stopped.
\* Not so after a reboot, which is reported done before it begins; nor in a
\* creation, or an update of several attributes, in which a routine has asked
\* for an action: one that an earlier wait left behind may set the instance
\* going again.  In a deletion, or an update of one attribute, no routine can.
ChangesStopped ==
    At("patch") \/ At("delete") =>
        \/ status = "stopped"
        \/ Reboots
        \/ acted /\ (plan.flow = "create" \/ \E c, d \in plan.changes : c # d)

\* What only its timeout can end: without recovery the wait for an instance that
\* hangs, or the wait after a change of an interface when the instance is
\* stopped; with recovery any wait that a stopper can spoil.
Hopeless ==
    \/ ~recovery /\ (hanging \/ (At("waitBound") /\ status = "stopped"))
    \/ recovery /\ Waiting /\ ~At("waitStop")

\* Every call returns without the help of a timeout, except from hopeless waits;
\* recovery ends every wait for a stop, of an instance that hangs, too.
ReturnsUnaided == <>(faults \/ ~Running) \/ <>[]Hopeless
=============================================================================
