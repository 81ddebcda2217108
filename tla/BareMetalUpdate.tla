--------------------------- MODULE BareMetalUpdate ---------------------------
(***************************************************************************)
(* ibm_is_bare_metal_server: an update stops and starts the server around  *)
(* the changes that need it stopped, section by section, and is applied    *)
(* again until the service has what is configured; or the server is        *)
(* deleted.                                                                *)
(*                                                                         *)
(* Three goroutines compare the network attachments, and two of them       *)
(* assign the same variable serverRestartNeeded.  Every section keeps its  *)
(* own idea of whether it has stopped the server; failures in between      *)
(* leave the server as it is then.                                         *)
(***************************************************************************)
EXTENDS Naturals, Sequences, FiniteSets

CONSTANTS
    Plans,     \* the configurations' changes, sets of Changes
    MaxFaults  \* bound on failed requests, and on waits that end in vain

\* Attributes that initialize the server anew; physical (PCI) network
\* attachments and interfaces, those of a VLAN; secure boot, which stands for
\* the metadata service and the trusted platform module, too; the primary
\* interface; the name, which stands for what else one patch changes.
Initialization == {"image", "userData"}
Attachments == {"removePci", "addPci", "vlan"}
Interfaces == {"removePciInterface", "addPciInterface"}
Options == {"secureBoot", "name"}
Actions == {"stop", "start", "restart"}
Changes == Initialization \cup Attachments \cup Interfaces \cup Options \cup Actions
             \cup {"primary", "delete"}

ASSUME PlansAssumption == Plans \subseteq SUBSET Changes
\* The action of a configuration is one attribute.
ASSUME ActionAssumption == \A ch \in Plans : \A a, b \in ch \cap Actions : a = b
ASSUME BoundAssumption == MaxFaults \in Nat

VARIABLES
    left,        \* the changes the service has not made yet
    known,       \* those of them that the next plan shows
    plan,        \* those of the current apply
    todo,        \* the steps the handler has before it
    stopped,     \* which of the handler's flags say that it stopped the server
    outcome,     \* how the last apply ended
    began,       \* the server's status when it began
    cause,       \* what went wrong without ending the apply
    status, asked, \* of the server; the action that is accepted and not begun
    faults

vars == <<left, known, plan, todo, stopped, outcome, began, cause, status, asked, faults>>
service == <<status, asked>>

Flags == {"initialization", "server", "interfaces"}
Statuses == {"running", "stopping", "stopped", "starting", "restarting", "reinitializing",
             "deleting", "absent"}

\* What Read does not read: after a failed update Terraform takes it for done.
Unread == {"userData"} \cup Actions
-----------------------------------------------------------------------------
(* The handler's program, in the source's order *)

Step(do, flag, changes) == [do |-> do, flag |-> flag, of |-> changes]

Stop(flag) == <<Step("stop", flag, {})>>
StartIf(flag) == <<Step("start", flag, {})>>
Start == <<Step("start", "always", {})>>
Request(changes) == <<Step("request", "", changes)>>
When(condition, steps) == IF condition THEN steps ELSE <<>>

Initialize(ch) ==
    When(ch \cap Initialization # {},
         Stop("initialization") \o Request(ch \cap Initialization)
           \o <<Step("waitReload", "", {})>> \o StartIf("initialization"))

Compare(ch) == When(ch \cap Attachments # {}, <<Step("compare", "", ch \cap Attachments)>>)

\* Fault: a new physical interface is created without a stop.
FaultyInterfaceChanges(ch) ==
    When("removePciInterface" \in ch, Stop("interfaces") \o Request({"removePciInterface"}))
      \o When("addPciInterface" \in ch, Request({"addPciInterface"}))
      \o When(ch \cap Interfaces # {}, StartIf("interfaces"))
InterfaceChanges(ch) ==
    When("removePciInterface" \in ch, Stop("interfaces") \o Request({"removePciInterface"}))
      \o When("addPciInterface" \in ch, Stop("interfaces") \o Request({"addPciInterface"}))
      \o When(ch \cap Interfaces # {}, StartIf("interfaces"))

\* The wait for a running server follows although it may have been stopped.
Primary(ch) == When("primary" \in ch, Request({"primary"}) \o <<Step("waitRunning", "", {})>>)

Action(ch) == When(ch \cap Actions # {}, <<Step("action", "", ch \cap Actions)>>)

\* Fault: only a server that was stopped for a change is started.
FaultyFinally(ch) == <<>>
\* A patch, with or without a stop, starts the server, and so does the flag.
Finally(ch) == IF ch \cap Options # {} THEN Start ELSE StartIf("server")

Delete == <<Step("find", "", {}), Step("request", "", {"delete"}), Step("waitDeleted", "", {})>>

Program(ch) ==
    IF "delete" \in ch THEN Delete
    ELSE Initialize(ch) \o Compare(ch) \o InterfaceChanges(ch)
           \o When("secureBoot" \in ch, Stop("server")) \o Primary(ch)
           \o When(ch \cap Options # {}, Request(ch \cap Options))
           \o Action(ch) \o Finally(ch)
-----------------------------------------------------------------------------
TypeOK ==
    /\ left \subseteq Changes /\ known \subseteq Changes /\ plan \subseteq Changes
    /\ \A i \in DOMAIN todo : todo[i].flag \in Flags \cup {"", "always", "delete"}
    /\ stopped \subseteq Flags
    /\ outcome \in {"none", "ok", "refused", "error", "timedOut"}
    /\ began \in Statuses /\ cause \subseteq {"race", "gaveUp", "early", "moving", "ignored"}
    /\ status \in Statuses /\ asked \in {"none", "stop", "start", "restart", "reinitialize"}
    /\ faults \in 0..MaxFaults

Init ==
    /\ left \in Plans /\ known = left /\ plan = {}
    /\ todo = <<>> /\ stopped = {} /\ outcome = "none" /\ cause = {}
    /\ status \in {"running", "stopped"} /\ began = status /\ asked = "none"
    /\ faults = 0

At(do) == todo # <<>> /\ Head(todo).do = do
Fault == faults < MaxFaults /\ faults' = faults + 1

\* The end of the handler, and the refresh that follows.
\* Fault: Read leaves the planned values in the state.
FaultyEnd(result) ==
    /\ todo' = <<>> /\ outcome' = result /\ known' = {}
    /\ UNCHANGED <<left, plan, stopped, began, cause>>
End(result) ==
    /\ todo' = <<>> /\ outcome' = result /\ known' = left \ Unread
    /\ UNCHANGED <<left, plan, stopped, began, cause>>

\* The handler goes on with the given steps, or has succeeded.
Continue(steps) ==
    /\ todo' = steps
    /\ IF steps = <<>> THEN outcome' = "ok" /\ known' = left' \ Unread
       ELSE UNCHANGED <<outcome, known>>
    /\ UNCHANGED <<plan, began>>

Advance == Continue(Tail(todo))

\* Every apply of the user; what the server is doing then is left from before.
Apply ==
    /\ todo = <<>> /\ known # {}
    /\ plan' = known /\ todo' = Program(known) /\ stopped' = {} /\ outcome' = "none"
    /\ began' = status
    /\ cause' = IF status \in {"running", "stopped"} /\ asked = "none" THEN {} ELSE {"moving"}
    /\ UNCHANGED <<left, known, service, faults>>
-----------------------------------------------------------------------------
(* Stopping and starting *)

\* resourceStopServerIfRunning stops a running server.  The second stop of the interfaces is left out
\* when the first one was asked for.
Stops == status = "running" /\ ~(Head(todo).flag = "interfaces" /\ "interfaces" \in stopped)

StopServer ==
    /\ At("stop")
    /\ UNCHANGED <<left, cause, status, faults>>
    /\ LET flag == Head(todo).flag IN
       IF Stops
       THEN /\ asked = "none" /\ asked' = "stop" /\ stopped' = stopped \cup {flag}
            /\ Continue(<<Step("waitStop", flag, {})>> \o Tail(todo))
       ELSE Advance /\ UNCHANGED <<asked, stopped>>

\* A request to stop that gets no answer at all is taken for one that succeeded.
StopLost ==
    /\ At("stop") /\ Stops /\ Fault
    /\ UNCHANGED <<left, cause, service>>
    /\ stopped' = stopped \cup {Head(todo).flag}
    /\ Continue(<<Step("waitStop", Head(todo).flag, {})>> \o Tail(todo))

\* The wait for the stop; what becomes of it is not looked at, but by Delete.
Stopped ==
    /\ At("waitStop") /\ status = "stopped"
    /\ UNCHANGED <<left, stopped, cause, service, faults>> /\ Advance

StopGivenUp ==
    /\ At("waitStop") /\ status # "stopped" /\ UNCHANGED service
    /\ Fault \/ (status = "running" /\ asked = "none" /\ UNCHANGED faults)
    /\ IF Head(todo).flag = "delete" THEN End("timedOut")
       ELSE UNCHANGED <<left, stopped>> /\ cause' = cause \cup {"gaveUp"} /\ Advance

\* resourceStartServerIfStopped, called always or only if the flag is set.
StartServer ==
    /\ At("start")
    /\ UNCHANGED <<left, stopped, cause, status, faults>>
    /\ LET flag == Head(todo).flag IN
       IF status = "stopped" /\ (flag = "always" \/ flag \in stopped)
       THEN /\ asked = "none" /\ asked' = "start"
            /\ Continue(<<Step("waitRunning", "", {})>> \o Tail(todo))
       ELSE Advance /\ UNCHANGED asked

\* isWaitForBareMetalServerAvailable takes every other status for pending.
ServerRuns ==
    /\ At("waitRunning") /\ status = "running"
    /\ UNCHANGED <<left, stopped, cause, service, faults>> /\ Advance

Stuck == At("waitRunning") /\ status = "stopped" /\ asked = "none"

\* With its timeout or an error; for a server that nothing starts, for certain.
WaitFails ==
    /\ \/ Stuck /\ UNCHANGED faults
       \/ (At("waitRunning") \/ At("waitReload") \/ At("waitDeleted")) /\ Fault
    /\ End("timedOut") /\ UNCHANGED service

\* The wait for the initialization knows it only by the server's status, which
\* is "stopped" before it begins, too.
Reloaded ==
    /\ At("waitReload") /\ status \in {"running", "stopped"} /\ Advance
    /\ UNCHANGED <<left, stopped, service, faults>>
    /\ cause' = IF asked = "reinitialize" THEN cause \cup {"early"} ELSE cause
-----------------------------------------------------------------------------
(* Requests *)

NeedsStopped == Initialization \cup Interfaces \cup {"removePci", "addPci", "secureBoot", "delete"}
Allowed(changes) == changes \cap NeedsStopped # {} => status = "stopped" /\ asked = "none"

SendRequest ==
    /\ At("request") /\ Allowed(Head(todo).of)
    /\ left' = left \ (Head(todo).of \ {"delete"})
    /\ asked' = IF Head(todo).of \subseteq Initialization THEN "reinitialize" ELSE asked
    /\ status' = IF "delete" \in Head(todo).of THEN "deleting" ELSE status
    /\ Advance /\ UNCHANGED <<stopped, cause, faults>>

RequestRefused ==
    /\ \/ At("request") /\ ~Allowed(Head(todo).of)
       \/ At("stop") /\ Stops /\ asked # "none"
       \/ At("start") /\ status = "stopped" /\ asked # "none"
    /\ End("refused") /\ UNCHANGED <<service, faults>>

\* Reading the server in order to stop or start it is a request, too.
RequestFails ==
    /\ At("request") \/ At("stop") \/ At("start") \/ At("find")
    /\ End("error") /\ Fault /\ UNCHANGED service
-----------------------------------------------------------------------------
(* Network attachments *)

\* findNetworkAttachmentDifferences: the goroutine that is last decides.
RestartNeeded(ch) == {"removePci" \in ch, "addPci" \in ch}

CompareAttachments ==
    /\ At("compare")
    /\ UNCHANGED <<left, stopped, service, faults>>
    /\ LET ch == Head(todo).of IN
       \E needed \in RestartNeeded(ch) :
          /\ Continue(When(needed, Stop("server"))
                        \o When("removePci" \in ch, Request({"removePci"}))
                        \o When("addPci" \in ch, Request({"addPci"}))
                        \o When("vlan" \in ch, Request({"vlan"}))
                        \o When(needed, StartIf("server")) \o Tail(todo))
          /\ cause' = IF needed = (ch \cap {"removePci", "addPci"} # {}) THEN cause
                      ELSE cause \cup {"race"}
-----------------------------------------------------------------------------
(* The action of the configuration: neither the request's error nor that   *)
(* of the wait is looked at.                                               *)

Acts(a) == IF a = "start" THEN status = "stopped" ELSE status = "running"

DoAction ==
    /\ At("action") /\ UNCHANGED <<stopped, status>>
    /\ left' = left \ Actions
    /\ \E a \in Head(todo).of :
         \/ /\ Acts(a) /\ asked = "none" /\ asked' = a /\ UNCHANGED <<cause, faults>>
            /\ Continue(<<Step("waitAction", "", {a})>> \o Tail(todo))
         \/ /\ (~Acts(a) \/ asked # "none") /\ UNCHANGED <<cause, asked, faults>> /\ Advance
         \/ Fault /\ cause' = cause \cup {"ignored"} /\ UNCHANGED asked /\ Advance

ActionDone ==
    /\ At("waitAction")
    /\ status = (IF Head(todo).of = {"stop"} THEN "stopped" ELSE "running")
    /\ UNCHANGED <<left, stopped, cause, service, faults>> /\ Advance

ActionGivenUp ==
    /\ At("waitAction") /\ Fault
    /\ cause' = cause \cup {"gaveUp"} /\ UNCHANGED <<left, stopped, service>> /\ Advance
-----------------------------------------------------------------------------
(* Deletion *)

\* Fault: the kind of the stop (delete_type) is taken for the action.
FaultyFindServer ==
    /\ At("find") /\ UNCHANGED <<stopped, cause, status, faults>>
    /\ IF status = "absent"
       THEN left' = {} /\ Continue(<<>>) /\ UNCHANGED asked
       ELSE IF status = "running" /\ asked = "none"
       THEN UNCHANGED left /\ asked' = "hard" /\ Continue(<<Step("waitStop", "delete", {})>> \o Tail(todo))
       ELSE UNCHANGED <<left, asked>> /\ Advance
FindServer ==
    /\ At("find") /\ UNCHANGED <<stopped, cause, status, faults>>
    /\ IF status = "absent"
       THEN left' = {} /\ Continue(<<>>) /\ UNCHANGED asked
       ELSE IF status = "running" /\ asked = "none"
       THEN UNCHANGED left /\ asked' = "stop" /\ Continue(<<Step("waitStop", "delete", {})>> \o Tail(todo))
       ELSE UNCHANGED <<left, asked>> /\ Advance

ServerDeleted ==
    /\ At("waitDeleted") /\ status = "absent"
    /\ left' = left \ {"delete"} /\ Advance
    /\ UNCHANGED <<stopped, cause, service, faults>>
-----------------------------------------------------------------------------
(* The service *)

Begin ==
    /\ asked # "none" /\ asked' = "none"
    /\ status' = CASE asked = "stop" -> "stopping"
                   [] asked = "start" -> "starting"
                   [] asked = "restart" -> "restarting"
                   [] asked = "reinitialize" -> "reinitializing"
    /\ UNCHANGED <<left, known, plan, todo, stopped, outcome, began, cause, faults>>

Progress ==
    /\ status' \in CASE status = "stopping" -> {"stopped"}
                     [] status \in {"starting", "restarting"} -> {"running"}
                     [] status = "reinitializing" -> {"running", "stopped"}
                     [] status = "deleting" -> {"absent"}
                     [] OTHER -> {}
    /\ UNCHANGED <<left, known, plan, todo, stopped, outcome, began, cause, asked, faults>>

Handler ==
    \/ Apply \/ StopServer \/ StopLost \/ Stopped \/ StopGivenUp \/ StartServer \/ ServerRuns \/ WaitFails
    \/ Reloaded \/ SendRequest \/ RequestRefused \/ RequestFails \/ CompareAttachments
    \/ DoAction \/ ActionDone \/ ActionGivenUp \/ FindServer \/ ServerDeleted

Next == Handler \/ Begin \/ Progress
Spec == Init /\ [][Next]_vars
\* The user applies until no plan shows a change, and the service gets on.
FairSpec == Spec /\ WF_vars(Handler) /\ WF_vars(Begin) /\ WF_vars(Progress)
-----------------------------------------------------------------------------
(* Properties *)

\* A request is refused only when the wait for a stop was given up, when the
\* server was moving as the apply began, when an initialization was taken for
\* done before it began, or when the goroutine that saw no physical attachment
\* was the last to assign serverRestartNeeded
\* (resource_ibm_is_bare_metal_server.go:5265).  And a wait for a running server
\* runs into its timeout without a fault only for the primary interface of a
\* server that is stopped, by the same update or before it (:4344).
FailuresHaveACause ==
    /\ outcome = "refused" => cause # {}
    /\ Stuck => "primary" \in plan /\ ("secureBoot" \in plan \/ began # "running" \/ cause # {})

\* An apply that succeeds leaves a running server running, unless its action
\* stops it and no patch starts it again (:4431), nor the flag of a physical
\* attachment; one that was stopped stays so unless the server is initialized
\* or started, which each patch does.
PowerIsKnown ==
    outcome = "ok" /\ cause = {} /\ plan \cap {"delete", "restart"} = {} =>
        IF "stop" \in plan /\ plan \cap Options = {}
           THEN status = "stopped" \/ plan \cap {"removePci", "addPci"} # {}
        ELSE IF began = "running" \/ plan \cap (Options \cup {"start"}) # {} THEN status = "running"
        ELSE status = "stopped" \/ plan \cap Initialization # {}

\* Applied again and again, every change that Read can see is made, whatever
\* failed and wherever the server was left, unless the race of the goroutines
\* is lost again and again.
Converges == <>(left \subseteq Unread) \/ []<>("race" \in cause)
=============================================================================
