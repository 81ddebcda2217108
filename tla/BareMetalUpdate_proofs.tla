------------------------ MODULE BareMetalUpdate_proofs ------------------------
(***************************************************************************)
(* Proofs about BareMetalUpdate: its type invariant, and, for every plan,  *)
(* that a failed apply has a cause and in which state a successful one     *)
(* leaves the server.  A handler is known by its place, the position in    *)
(* its program of the step it is at.  As long as nothing has gone wrong,   *)
(* each position says what the server is doing and which flags are set.    *)
(***************************************************************************)
EXTENDS BareMetalUpdate, SequenceTheorems, TLAPS

-----------------------------------------------------------------------------
(* Steps *)

Steps ==
    [do : {"stop"}, flag : Flags, of : {{}}]
      \cup [do : {"waitStop"}, flag : Flags \cup {"delete"}, of : {{}}]
      \cup [do : {"start"}, flag : Flags \cup {"always"}, of : {{}}]
      \cup [do : {"request"}, flag : {""}, of : SUBSET Changes]
      \cup [do : {"compare"}, flag : {""}, of : SUBSET Attachments]
      \cup [do : {"action", "waitAction"}, flag : {""}, of : SUBSET Actions]
      \cup [do : {"waitReload", "waitRunning", "waitDeleted", "find"}, flag : {""}, of : {{}}]

\* An update that leaves the primary interface alone has no wait for a running
\* server but those that follow a start.
StepsOf(p) == IF "primary" \in p THEN Steps ELSE {s \in Steps : s.do # "waitRunning"}

Then(s, t) == <<s>> \o t

StopStep(flag) == Step("stop", flag, {})
WaitStop(flag) == Step("waitStop", flag, {})
StartStep(flag) == Step("start", flag, {})
WaitRunning == Step("waitRunning", "", {})
WaitReload == Step("waitReload", "", {})
RequestStep(changes) == Step("request", "", changes)
CompareStep(changes) == Step("compare", "", changes)
ActionStep(changes) == Step("action", "", changes)
ActionWait(a) == Step("waitAction", "", {a})

-----------------------------------------------------------------------------
(* The positions of a program: each holds one step, if the plan asks for it *)

Physical(p) == p \cap {"removePci", "addPci"}

Present(p, k) ==
    CASE k \in 0..3 -> p \cap Initialization # {}
      [] k = 4 -> p \cap Attachments # {}
      [] k \in {5, 9} -> Physical(p) # {}
      [] k = 6 -> "removePci" \in p
      [] k = 7 -> "addPci" \in p
      [] k = 8 -> "vlan" \in p
      [] k \in {10, 11} -> "removePciInterface" \in p
      [] k \in {12, 13} -> "addPciInterface" \in p
      [] k = 14 -> p \cap Interfaces # {}
      [] k = 15 -> "secureBoot" \in p
      [] k \in {16, 17} -> "primary" \in p
      [] k = 18 -> p \cap Options # {}
      [] k = 19 -> p \cap Actions # {}
      [] OTHER -> TRUE

StopPositions == {0, 5, 10, 12, 15}
StartPositions == {3, 9, 14, 20}
RequestPositions == {1, 6, 7, 8, 11, 13, 16, 18}

FlagAt(p, k) ==
    CASE k \in {0, 3} -> "initialization"
      [] k \in {5, 9, 15} -> "server"
      [] k \in {10, 12, 14} -> "interfaces"
      [] OTHER -> IF p \cap Options # {} THEN "always" ELSE "server"

ChangesAt(p, k) ==
    CASE k = 1 -> p \cap Initialization
      [] k = 6 -> {"removePci"}
      [] k = 7 -> {"addPci"}
      [] k = 8 -> {"vlan"}
      [] k = 11 -> {"removePciInterface"}
      [] k = 13 -> {"addPciInterface"}
      [] k = 16 -> {"primary"}
      [] OTHER -> p \cap Options

StepAt(p, k) ==
    CASE k \in StopPositions -> StopStep(FlagAt(p, k))
      [] k \in StartPositions -> StartStep(FlagAt(p, k))
      [] k \in RequestPositions -> RequestStep(ChangesAt(p, k))
      [] k = 2 -> WaitReload
      [] k = 4 -> CompareStep(p \cap Attachments)
      [] k = 17 -> WaitRunning
      [] OTHER -> ActionStep(p \cap Actions)

\* What remains from each position on.  The comparison of the attachments puts
\* positions 5 to 9 in its own place.
Slot(p, k) == When(Present(p, k), <<StepAt(p, k)>>)
From20(p) == Slot(p, 20) \o <<>>
From19(p) == Slot(p, 19) \o From20(p)
From18(p) == Slot(p, 18) \o From19(p)
From17(p) == Slot(p, 17) \o From18(p)
From16(p) == Slot(p, 16) \o From17(p)
From15(p) == Slot(p, 15) \o From16(p)
From14(p) == Slot(p, 14) \o From15(p)
From13(p) == Slot(p, 13) \o From14(p)
From12(p) == Slot(p, 12) \o From13(p)
From11(p) == Slot(p, 11) \o From12(p)
From10(p) == Slot(p, 10) \o From11(p)
From9(p) == Slot(p, 9) \o From10(p)
From8(p) == Slot(p, 8) \o From9(p)
From7(p) == Slot(p, 7) \o From8(p)
From6(p) == Slot(p, 6) \o From7(p)
From5(p) == Slot(p, 5) \o From6(p)
From4(p) == Slot(p, 4) \o From10(p)
From3(p) == Slot(p, 3) \o From4(p)
From2(p) == Slot(p, 2) \o From3(p)
From1(p) == Slot(p, 1) \o From2(p)
From0(p) == Slot(p, 0) \o From1(p)

From(p, k) ==
    CASE k = 0 -> From0(p) [] k = 1 -> From1(p) [] k = 2 -> From2(p) [] k = 3 -> From3(p)
      [] k = 4 -> From4(p) [] k = 5 -> From5(p) [] k = 6 -> From6(p) [] k = 7 -> From7(p)
      [] k = 8 -> From8(p) [] k = 9 -> From9(p) [] k = 10 -> From10(p) [] k = 11 -> From11(p)
      [] k = 12 -> From12(p) [] k = 13 -> From13(p) [] k = 14 -> From14(p) [] k = 15 -> From15(p)
      [] k = 16 -> From16(p) [] k = 17 -> From17(p) [] k = 18 -> From18(p) [] k = 19 -> From19(p)
      [] k = 20 -> From20(p) [] OTHER -> <<>>

Following(k) == IF k = 4 THEN 10 ELSE k + 1
After(p, k) == From(p, Following(k))

-----------------------------------------------------------------------------
(* What the server i may be doing *)

Server == [status |-> status, asked |-> asked]

Settled == {"running", "stopped"}
Quiet(S, i) == i.status \in S /\ i.asked = "none"
Halting(i) ==
    \/ i.status = "running" /\ i.asked \in {"none", "stop"}
    \/ i.status \in {"stopping", "stopped"} /\ i.asked = "none"
Rising(i) ==
    \/ i.status = "stopped" /\ i.asked = "start"
    \/ i.status \in {"starting", "running"} /\ i.asked = "none"
Restarting(i) ==
    \/ i.status = "running" /\ i.asked \in {"none", "restart"}
    \/ i.status = "restarting" /\ i.asked = "none"
Reloading(i) ==
    \/ i.status = "stopped" /\ i.asked = "reinitialize"
    \/ i.status \in {"reinitializing", "running", "stopped"} /\ i.asked = "none"

-----------------------------------------------------------------------------
(* What is expected of a server that was in state b when the apply began *)

Base(p, b) ==
    IF p \cap Initialization = {} THEN {b} ELSE IF b = "running" THEN {"running"} ELSE Settled
BeforePrimary(p, b) == IF "secureBoot" \in p THEN {"stopped"} ELSE Base(p, b)
AfterPrimary(p, b) ==
    IF "primary" \in p THEN BeforePrimary(p, b) \cap {"running"} ELSE BeforePrimary(p, b)
AfterAction(p, b) ==
    IF "stop" \in p THEN {"stopped"} ELSE IF "start" \in p THEN {"running"} ELSE AfterPrimary(p, b)

\* What a flag says.
FlagsTell(p, b, f) ==
    /\ "initialization" \in f => b = "running"
    /\ "server" \in f => "running" \in Base(p, b) /\ (Physical(p) # {} \/ "secureBoot" \in p)
    /\ "interfaces" \in f => "running" \in Base(p, b)

\* The server is stopped for a change; if no flag says who stopped it, it had
\* been found like that.
StoppedFor(flag, p, b, f, i) == Quiet({"stopped"}, i) /\ (flag \notin f => "stopped" \in Base(p, b))

Ready(p, b, f, k, i) ==
    CASE k = 0 -> Quiet({b}, i)
      [] k = 1 -> IF p \cap Initialization # {}
                  THEN Quiet({"stopped"}, i) /\ (b = "running" => "initialization" \in f)
                  ELSE Quiet({b}, i)
      [] k = 2 -> IF p \cap Initialization # {}
                  THEN Reloading(i) /\ (b = "running" => "initialization" \in f)
                  ELSE Quiet({b}, i)
      [] k = 3 -> IF p \cap Initialization # {}
                  THEN Quiet(Settled, i) /\ (b = "running" => "initialization" \in f)
                  ELSE Quiet({b}, i)
      [] k \in 6..9 -> IF Physical(p) # {} THEN StoppedFor("server", p, b, f, i)
                       ELSE Quiet(Base(p, b), i)
      [] k \in {11, 12} -> IF "removePciInterface" \in p THEN StoppedFor("interfaces", p, b, f, i)
                           ELSE Quiet(Base(p, b), i)
      [] k \in {13, 14} -> IF p \cap Interfaces # {} THEN StoppedFor("interfaces", p, b, f, i)
                           ELSE Quiet(Base(p, b), i)
      [] k \in {4, 5, 10, 15} -> Quiet(Base(p, b), i)
      [] k \in {16, 17} -> Quiet(BeforePrimary(p, b), i)
      [] k \in {18, 19} -> Quiet(AfterPrimary(p, b), i)
      [] k = 20 -> IF "restart" \in p THEN Restarting(i) \/ Quiet({"stopped"}, i)
                   ELSE Quiet(AfterAction(p, b), i)
      [] OTHER -> "restart" \in p \/ Quiet(IF p \cap Options # {} \/ "server" \in f THEN {"running"}
                                           ELSE AfterAction(p, b), i)

\* The stop of the interfaces is left out when its flag is set.
NotYet(p, f, k) ==
    "interfaces" \in f => k >= 11 /\ (k \in {11, 12} => "removePciInterface" \in p)

-----------------------------------------------------------------------------
(* The places of a handler: t is what it has before it *)

AtStep(p, b, f, t, i) ==
    \E k \in 0..20 : /\ Present(p, k) /\ t = Then(StepAt(p, k), After(p, k))
                     /\ Ready(p, b, f, k, i) /\ NotYet(p, f, k)

AtStopWait(p, b, f, t, i) ==
    \E k \in StopPositions :
        /\ Present(p, k) /\ t = Then(WaitStop(StepAt(p, k).flag), After(p, k))
        /\ Halting(i) /\ StepAt(p, k).flag \in f
        /\ NotYet(p, f, k + 1)

AtStartWait(p, b, f, t, i) ==
    \E k \in StartPositions :
        /\ Present(p, k) /\ t = Then(WaitRunning, After(p, k))
        /\ Rising(i) /\ NotYet(p, f, k + 1)
        /\ k # 20 => "running" \in Base(p, b)
        /\ k = 20 => p \cap Options # {} \/ "server" \in f

Acting(a, i) ==
    CASE a = "stop" -> Halting(i) [] a = "start" -> Rising(i) [] OTHER -> Restarting(i)

AtActionWait(p, b, f, t, i) ==
    \E a \in p \cap Actions :
        /\ t = Then(ActionWait(a), After(p, 19))
        /\ Acting(a, i)

AtEnd(p, b, f, t, i) == t = <<>> /\ Ready(p, b, f, 21, i)

AtDelete(p, b, f, t, i) ==
    LET wait == Then(Step("waitDeleted", "", {}), <<>>)
        delete == Then(RequestStep({"delete"}), wait)
    IN \/ t = <<>> \/ t = wait
       \/ t = delete /\ Quiet({"stopped"}, i)
       \/ t = Then(WaitStop("delete"), delete) /\ Halting(i)
       \/ t = Then(Step("find", "", {}), delete) /\ Quiet(Settled, i)

Place(p, b, f, t, i) ==
    IF "delete" \in p THEN AtDelete(p, b, f, t, i)
    ELSE /\ b \in Settled /\ FlagsTell(p, b, f)
         /\ \/ AtStep(p, b, f, t, i)
            \/ AtStopWait(p, b, f, t, i)
            \/ AtStartWait(p, b, f, t, i)
            \/ AtActionWait(p, b, f, t, i)
            \/ AtEnd(p, b, f, t, i)

-----------------------------------------------------------------------------
(* The inductive invariant *)

\* A configuration has one action at most, and so has what is left of it.
OneAction(ch) == \A a, b \in ch \cap Actions : a = b
ActionInv == OneAction(left) /\ OneAction(known) /\ OneAction(plan)

ValuesInv ==
    /\ left \subseteq Changes /\ known \subseteq Changes /\ plan \subseteq Changes
    /\ stopped \subseteq Flags
    /\ outcome \in {"none", "ok", "refused", "error", "timedOut"}
    /\ began \in Statuses /\ cause \subseteq {"race", "gaveUp", "early", "moving", "ignored"}
    /\ status \in Statuses /\ asked \in {"none", "stop", "start", "restart", "reinitialize"}
    /\ faults \in 0..MaxFaults

TodoInv == todo \in Seq(Steps) /\ (todo # <<>> => Tail(todo) \in Seq(StepsOf(plan)))

OutcomeInv == todo # <<>> => outcome = "none"

\* Whatever has gone wrong, a wait that follows a start is not for ever.
WaitInv == At("waitRunning") => "primary" \in plan \/ Rising(Server)

RefusedInv == outcome = "refused" => cause # {}

PlaceInv ==
    cause = {} /\ (todo # <<>> \/ outcome = "ok") => Place(plan, began, stopped, todo, Server)

IInv == ValuesInv /\ TodoInv /\ ActionInv /\ OutcomeInv /\ WaitInv /\ RefusedInv /\ PlaceInv

-----------------------------------------------------------------------------
(* Lemmas about programs *)

LEMMA ThenIs ==
    ASSUME NEW S, NEW s \in S, NEW u \in Seq(S)
    PROVE  /\ Then(s, u) \in Seq(S) /\ Then(s, u) # <<>>
           /\ Head(Then(s, u)) = s /\ Tail(Then(s, u)) = u
BY DEF Then

\* The fields of every step, and the steps of every position.
LEMMA StepIs ==
    /\ \A flag : /\ StopStep(flag).do = "stop" /\ StopStep(flag).flag = flag
                  /\ StartStep(flag).do = "start" /\ StartStep(flag).flag = flag
                  /\ WaitStop(flag).do = "waitStop" /\ WaitStop(flag).flag = flag
    /\ \A changes : /\ RequestStep(changes).do = "request" /\ RequestStep(changes).of = changes
                     /\ CompareStep(changes).do = "compare" /\ CompareStep(changes).of = changes
                     /\ ActionStep(changes).do = "action" /\ ActionStep(changes).of = changes
    /\ WaitRunning.do = "waitRunning" /\ WaitReload.do = "waitReload"
    /\ \A a : /\ ActionWait(a).do = "waitAction" /\ ActionWait(a).of = {a}
BY DEF StopStep, StartStep, WaitStop, RequestStep, CompareStep, ActionStep, WaitRunning, WaitReload, ActionWait, Step

LEMMA StepTypes ==
    /\ \A flag \in Flags : StopStep(flag) \in Steps /\ StartStep(flag) \in Steps /\ WaitStop(flag) \in Steps
    /\ StartStep("always") \in Steps /\ WaitStop("delete") \in Steps
    /\ WaitRunning \in Steps /\ WaitReload \in Steps
    /\ \A changes \in SUBSET Changes :
          /\ RequestStep(changes) \in Steps /\ CompareStep(changes \cap Attachments) \in Steps
          /\ ActionStep(changes \cap Actions) \in Steps
    /\ \A a \in Actions : ActionWait(a) \in Steps
BY DEF StopStep, StartStep, WaitStop, WaitRunning, WaitReload, RequestStep, CompareStep, ActionStep,
       ActionWait, Step, Steps

LEMMA Positions ==
    ASSUME NEW p, NEW k \in 0..20
    PROVE  /\ k \in StopPositions => StepAt(p, k) = StopStep(FlagAt(p, k))
           /\ k \in StartPositions => StepAt(p, k) = StartStep(FlagAt(p, k))
           /\ k \in RequestPositions => StepAt(p, k) = RequestStep(ChangesAt(p, k))
           /\ k = 2 => StepAt(p, k) = WaitReload
           /\ k = 4 => StepAt(p, k) = CompareStep(p \cap Attachments)
           /\ k = 17 => StepAt(p, k) = WaitRunning
           /\ k = 19 => StepAt(p, k) = ActionStep(p \cap Actions)
           /\ k \in StopPositions \cup StartPositions \cup RequestPositions \cup {2, 4, 17, 19}
<1>1. /\ StopPositions \cap StartPositions = {} /\ StopPositions \cap RequestPositions = {}
      /\ StartPositions \cap RequestPositions = {}
      /\ (StopPositions \cup StartPositions \cup RequestPositions) \cap {2, 4, 17, 19} = {}
      /\ k \in StopPositions \cup StartPositions \cup RequestPositions \cup {2, 4, 17, 19}
  BY DEF StopPositions, StartPositions, RequestPositions
<1> QED BY <1>1 DEF StepAt

LEMMA PositionTypes ==
    ASSUME NEW p \in SUBSET Changes, NEW k \in 0..20, Present(p, k)
    PROVE  StepAt(p, k) \in StepsOf(p)
<1>1. \A s \in Steps : s.do # "waitRunning" => s \in StepsOf(p)
  BY DEF StepsOf
<1>2. CASE k \in StopPositions
  <2>1. FlagAt(p, k) \in Flags
    BY <1>2 DEF StopPositions, FlagAt, Flags
  <2>2. StepAt(p, k) = StopStep(FlagAt(p, k))
    BY <1>2, Positions
  <2>3. StopStep(FlagAt(p, k)) \in StepsOf(p)
    BY <1>1, <2>1, StepTypes, StepIs
  <2> QED BY <2>2, <2>3
<1>3. CASE k \in StartPositions
  <2>1. FlagAt(p, k) \in Flags \/ FlagAt(p, k) = "always"
    BY <1>3 DEF StartPositions, FlagAt, Flags
  <2>2. StepAt(p, k) = StartStep(FlagAt(p, k))
    BY <1>3, Positions
  <2>3. StartStep(FlagAt(p, k)) \in StepsOf(p)
    BY <1>1, <2>1, StepTypes, StepIs
  <2> QED BY <2>2, <2>3
<1>4. CASE k \in RequestPositions
  <2>1. ChangesAt(p, k) \in SUBSET Changes
    BY <1>4 DEF RequestPositions, ChangesAt, Changes, Interfaces, Attachments
  <2>2. StepAt(p, k) = RequestStep(ChangesAt(p, k))
    BY <1>4, Positions
  <2>3. RequestStep(ChangesAt(p, k)) \in StepsOf(p)
    BY <1>1, <2>1, StepTypes, StepIs
  <2> QED BY <2>2, <2>3
<1>5. WaitReload \in StepsOf(p)
  BY <1>1, StepTypes, StepIs
<1>6. CompareStep(p \cap Attachments) \in StepsOf(p) /\ ActionStep(p \cap Actions) \in StepsOf(p)
  <2>1. CompareStep(p \cap Attachments).do = "compare" /\ ActionStep(p \cap Actions).do = "action"
    BY StepIs
  <2> QED BY <1>1, <2>1, StepTypes
<1>7. k = 17 => WaitRunning \in StepsOf(p)
  BY StepTypes DEF Present, StepsOf
<1>8. CASE k = 2
  BY <1>5, <1>8, Positions
<1>9. CASE k = 4
  BY <1>6, <1>9, Positions
<1>10. CASE k = 17
  BY <1>7, <1>10, Positions
<1>11. CASE k = 19
  BY <1>6, <1>11, Positions
<1>12. k \in StopPositions \cup StartPositions \cup RequestPositions \cup {2, 4, 17, 19}
  BY Positions
<1> QED BY <1>2, <1>3, <1>4, <1>8, <1>9, <1>10, <1>11, <1>12

\* A section of one step, or of none.
LEMMA SlotBefore ==
    ASSUME NEW S, NEW c, NEW s \in S, NEW u \in Seq(S)
    PROVE  When(c, <<s>>) \o u = IF c THEN Then(s, u) ELSE u
<1>1. CASE c
  BY <1>1 DEF When, Then
<1>2. CASE ~c
  <2>1. When(c, <<s>>) = <<>>
    BY <1>2 DEF When
  <2>2. <<>> \o u = u
    BY ConcatEmptySeq
  <2> QED BY <1>2, <2>1, <2>2
<1> QED BY <1>1, <1>2

LEMMA StepsOfSteps == ASSUME NEW p PROVE StepsOf(p) \subseteq Steps
BY DEF StepsOf

LEMMA OneSlot ==
    ASSUME NEW p \in SUBSET Changes, NEW k \in 0..20, NEW u \in Seq(StepsOf(p))
    PROVE  /\ Slot(p, k) \o u = IF Present(p, k) THEN Then(StepAt(p, k), u) ELSE u
           /\ Slot(p, k) \o u \in Seq(StepsOf(p))
<1>1. CASE Present(p, k)
  <2>1. StepAt(p, k) \in StepsOf(p)
    BY <1>1, PositionTypes
  <2>2. When(Present(p, k), <<StepAt(p, k)>>) \o u = Then(StepAt(p, k), u)
    BY <1>1, <2>1, SlotBefore
  <2>3. Slot(p, k) \o u = Then(StepAt(p, k), u)
    BY <2>2 DEF Slot
  <2>4. Then(StepAt(p, k), u) \in Seq(StepsOf(p))
    BY <2>1, ThenIs
  <2> QED BY <1>1, <2>3, <2>4
<1>2. CASE ~Present(p, k)
  <2>1. Slot(p, k) = <<>>
    BY <1>2 DEF Slot, When
  <2>2. <<>> \o u = u
    BY ConcatEmptySeq
  <2> QED BY <1>2, <2>1, <2>2
<1> QED BY <1>1, <1>2

\* What remains from a position on begins with its step, if it has one.
LEMMA Afterwards ==
    ASSUME NEW p
    PROVE  /\ After(p, 0) = From(p, 1) /\ After(p, 1) = From(p, 2) /\ After(p, 2) = From(p, 3)
           /\ After(p, 3) = From(p, 4) /\ After(p, 4) = From(p, 10) /\ After(p, 5) = From(p, 6)
           /\ After(p, 6) = From(p, 7) /\ After(p, 7) = From(p, 8) /\ After(p, 8) = From(p, 9)
           /\ After(p, 9) = From(p, 10) /\ After(p, 10) = From(p, 11) /\ After(p, 11) = From(p, 12)
           /\ After(p, 12) = From(p, 13) /\ After(p, 13) = From(p, 14) /\ After(p, 14) = From(p, 15)
           /\ After(p, 15) = From(p, 16) /\ After(p, 16) = From(p, 17) /\ After(p, 17) = From(p, 18)
           /\ After(p, 18) = From(p, 19) /\ After(p, 19) = From(p, 20) /\ After(p, 20) = From(p, 21)
BY DEF After, Following

LEMMA FromTypes ==
    ASSUME NEW p \in SUBSET Changes
    PROVE  \A k \in 0..21 : From(p, k) \in Seq(StepsOf(p))
<1>1. <<>> \in Seq(StepsOf(p))
  OBVIOUS
<1>2. From20(p) \in Seq(StepsOf(p))
  <2>1. \A u \in Seq(StepsOf(p)) : Slot(p, 20) \o u \in Seq(StepsOf(p))
    BY OneSlot
  <2> QED BY <1>1, <2>1 DEF From20
<1>3. From19(p) \in Seq(StepsOf(p))
  BY <1>2, OneSlot DEF From19
<1>4. From18(p) \in Seq(StepsOf(p))
  BY <1>3, OneSlot DEF From18
<1>5. From17(p) \in Seq(StepsOf(p))
  BY <1>4, OneSlot DEF From17
<1>6. From16(p) \in Seq(StepsOf(p))
  BY <1>5, OneSlot DEF From16
<1>7. From15(p) \in Seq(StepsOf(p))
  BY <1>6, OneSlot DEF From15
<1>8. From14(p) \in Seq(StepsOf(p))
  BY <1>7, OneSlot DEF From14
<1>9. From13(p) \in Seq(StepsOf(p))
  BY <1>8, OneSlot DEF From13
<1>10. From12(p) \in Seq(StepsOf(p))
  BY <1>9, OneSlot DEF From12
<1>11. From11(p) \in Seq(StepsOf(p))
  BY <1>10, OneSlot DEF From11
<1>12. From10(p) \in Seq(StepsOf(p))
  BY <1>11, OneSlot DEF From10
<1>13. From9(p) \in Seq(StepsOf(p))
  BY <1>12, OneSlot DEF From9
<1>14. From8(p) \in Seq(StepsOf(p))
  BY <1>13, OneSlot DEF From8
<1>15. From7(p) \in Seq(StepsOf(p))
  BY <1>14, OneSlot DEF From7
<1>16. From6(p) \in Seq(StepsOf(p))
  BY <1>15, OneSlot DEF From6
<1>17. From5(p) \in Seq(StepsOf(p))
  BY <1>16, OneSlot DEF From5
<1>18. From4(p) \in Seq(StepsOf(p))
  BY <1>12, OneSlot DEF From4
<1>19. From3(p) \in Seq(StepsOf(p))
  BY <1>18, OneSlot DEF From3
<1>20. From2(p) \in Seq(StepsOf(p))
  BY <1>19, OneSlot DEF From2
<1>21. From1(p) \in Seq(StepsOf(p))
  BY <1>20, OneSlot DEF From1
<1>22. From0(p) \in Seq(StepsOf(p))
  BY <1>21, OneSlot DEF From0
<1> QED BY <1>1, <1>2, <1>3, <1>4, <1>5, <1>6, <1>7, <1>8, <1>9, <1>10, <1>11,
           <1>12, <1>13, <1>14, <1>15, <1>16, <1>17, <1>18, <1>19, <1>20, <1>21, <1>22 DEF From

LEMMA FromConcat ==
    ASSUME NEW p \in SUBSET Changes
    PROVE  \A k \in 0..20 : From(p, k) = Slot(p, k) \o After(p, k)
<1>1. TAKE k \in 0..20
<1>2. CASE k = 0
  BY <1>2 DEF From, After, Following, From0
<1>3. CASE k = 1
  BY <1>3 DEF From, After, Following, From1
<1>4. CASE k = 2
  BY <1>4 DEF From, After, Following, From2
<1>5. CASE k = 3
  BY <1>5 DEF From, After, Following, From3
<1>6. CASE k = 4
  BY <1>6 DEF From, After, Following, From4
<1>7. CASE k = 5
  BY <1>7 DEF From, After, Following, From5
<1>8. CASE k = 6
  BY <1>8 DEF From, After, Following, From6
<1>9. CASE k = 7
  BY <1>9 DEF From, After, Following, From7
<1>10. CASE k = 8
  BY <1>10 DEF From, After, Following, From8
<1>11. CASE k = 9
  BY <1>11 DEF From, After, Following, From9
<1>12. CASE k = 10
  BY <1>12 DEF From, After, Following, From10
<1>13. CASE k = 11
  BY <1>13 DEF From, After, Following, From11
<1>14. CASE k = 12
  BY <1>14 DEF From, After, Following, From12
<1>15. CASE k = 13
  BY <1>15 DEF From, After, Following, From13
<1>16. CASE k = 14
  BY <1>16 DEF From, After, Following, From14
<1>17. CASE k = 15
  BY <1>17 DEF From, After, Following, From15
<1>18. CASE k = 16
  BY <1>18 DEF From, After, Following, From16
<1>19. CASE k = 17
  BY <1>19 DEF From, After, Following, From17
<1>20. CASE k = 18
  BY <1>20 DEF From, After, Following, From18
<1>21. CASE k = 19
  BY <1>21 DEF From, After, Following, From19
<1>22. CASE k = 20
  <2>1. From(p, 20) = Slot(p, 20) \o <<>>
    BY DEF From, From20
  <2>2. After(p, 20) = <<>>
    BY DEF After, Following, From
  <2> QED BY <1>22, <2>1, <2>2
<1> QED BY <1>2, <1>3, <1>4, <1>5, <1>6, <1>7, <1>8, <1>9, <1>10, <1>11, <1>12,
           <1>13, <1>14, <1>15, <1>16, <1>17, <1>18, <1>19, <1>20, <1>21, <1>22, SMTT(30)

LEMMA FromIs ==
    ASSUME NEW p \in SUBSET Changes
    PROVE  /\ From(p, 21) = <<>>
           /\ \A k \in 0..20 :
                 From(p, k) = IF Present(p, k) THEN Then(StepAt(p, k), After(p, k)) ELSE After(p, k)
<1>1. From(p, 21) = <<>>
  BY DEF From
<1>2. \A k \in 0..20 : From(p, k) = Slot(p, k) \o After(p, k)
  BY FromConcat
<1>3. \A k \in 0..20 : Following(k) \in 0..21
  BY DEF Following
<1>4. \A k \in 0..20 : After(p, k) \in Seq(StepsOf(p))
  BY <1>3, FromTypes DEF After
<1>5. ASSUME NEW k \in 0..20
      PROVE  From(p, k) = IF Present(p, k) THEN Then(StepAt(p, k), After(p, k)) ELSE After(p, k)
  <2>1. Slot(p, k) \o After(p, k) = IF Present(p, k) THEN Then(StepAt(p, k), After(p, k)) ELSE After(p, k)
    BY <1>4, OneSlot
  <2> QED BY <1>2, <2>1
<1> QED BY <1>1, <1>5


\* Concatenation as an operator of its own: the provers need not unfold it.
Joined(s, t) == s \o t

LEMMA JoinedOnce ==
    ASSUME NEW S, NEW s \in Seq(S), NEW t \in Seq(S), NEW u \in Seq(S)
    PROVE  Joined(s, t) \in Seq(S) /\ Joined(Joined(s, t), u) = Joined(s, Joined(t, u))
BY ConcatAssociative DEF Joined

LEMMA FromJoined ==
    ASSUME NEW p \in SUBSET Changes
    PROVE  \A k \in 0..20 : Joined(Slot(p, k), After(p, k)) = From(p, k)
BY FromConcat DEF Joined

LEMMA EmptyFirst == ASSUME NEW S, NEW u \in Seq(S) PROVE Joined(<<>>, u) = u
BY ConcatEmptySeq DEF Joined

\* A condition that holds for two steps, or for each of them.
LEMMA TwoSlots ==
    ASSUME NEW S, NEW c, NEW s \in Seq(S), NEW t \in Seq(S), NEW u \in Seq(S)
    PROVE  /\ When(c, s) \in Seq(S) /\ When(c, Joined(s, t)) \in Seq(S)
           /\ Joined(When(c, Joined(s, t)), u) = Joined(When(c, s), Joined(When(c, t), u))
<1>1. Joined(s, t) \in Seq(S) /\ Joined(Joined(s, t), u) = Joined(s, Joined(t, u))
  BY JoinedOnce
<1>2. CASE c
  BY <1>1, <1>2 DEF When
<1>3. CASE ~c
  <2>1. /\ When(c, s) = <<>> /\ When(c, t) = <<>> /\ When(c, Joined(s, t)) = <<>>
        /\ <<>> \in Seq(S)
    BY <1>3 DEF When
  <2>2. Joined(<<>>, u) = u
    BY EmptyFirst
  <2> QED BY <2>1, <2>2
<1> QED BY <1>2, <1>3

LEMMA Singletons ==
    /\ <<>> \in Seq(Steps) /\ \A s \in Steps : <<s>> \in Seq(Steps)
    /\ \A flag \in Flags : Stop(flag) \in Seq(Steps) /\ StartIf(flag) \in Seq(Steps)
    /\ \A changes \in SUBSET Changes : Request(changes) \in Seq(Steps)
    /\ \A do \in {"waitReload", "waitRunning", "waitDeleted", "find"} :
          Step(do, "", {}) \in Steps /\ <<Step(do, "", {})>> \in Seq(Steps)
<1>1. \A s \in Steps : <<s>> \in Seq(Steps)
  OBVIOUS
<1>2. \A flag \in Flags : Step("stop", flag, {}) \in Steps /\ Step("start", flag, {}) \in Steps
  BY DEF Step, Steps
<1>3. \A changes \in SUBSET Changes : Step("request", "", changes) \in Steps
  BY DEF Step, Steps
<1>4. \A do \in {"waitReload", "waitRunning", "waitDeleted", "find"} : Step(do, "", {}) \in Steps
  BY DEF Step, Steps
<1>5. <<>> \in Seq(Steps)
  OBVIOUS
<1> QED BY <1>1, <1>2, <1>3, <1>4, <1>5 DEF Stop, StartIf, Request

\* The stop, change, wait and start of an initialization.
LEMMA InitializeIs ==
    ASSUME NEW p \in SUBSET Changes, NEW u \in Seq(Steps)
    PROVE  /\ Initialize(p) \in Seq(Steps)
           /\ Joined(Initialize(p), u) =
                  Joined(Slot(p, 0), Joined(Slot(p, 1), Joined(Slot(p, 2), Joined(Slot(p, 3), u))))
<1> DEFINE c == p \cap Initialization # {}
           s0 == Stop("initialization")
           s1 == Request(p \cap Initialization)
           s2 == <<Step("waitReload", "", {})>>
           s3 == StartIf("initialization")
<1>1. s0 \in Seq(Steps) /\ s1 \in Seq(Steps) /\ s2 \in Seq(Steps) /\ s3 \in Seq(Steps)
  BY Singletons DEF Flags, Changes
<1>2. /\ Slot(p, 0) = When(c, s0) /\ Slot(p, 1) = When(c, s1)
      /\ Slot(p, 2) = When(c, s2) /\ Slot(p, 3) = When(c, s3)
  BY DEF Slot, Present, StepAt, FlagAt, ChangesAt, StopPositions, StartPositions,
       RequestPositions, Stop, Request, StartIf, StopStep, RequestStep, StartStep, WaitReload
<1>3. Initialize(p) = When(c, Joined(Joined(Joined(s0, s1), s2), s3))
  BY DEF Initialize, Joined
<1> HIDE DEF c, s0, s1, s2, s3
<1>4. \A s, t \in Seq(Steps) : Joined(s, t) \in Seq(Steps)
  BY <1>1, JoinedOnce
<1>5. /\ Joined(When(c, s3), u) \in Seq(Steps)
      /\ Joined(When(c, s2), Joined(When(c, s3), u)) \in Seq(Steps)
  BY <1>1, <1>4, TwoSlots
<1>6. /\ Joined(s0, s1) \in Seq(Steps) /\ Joined(Joined(s0, s1), s2) \in Seq(Steps)
  BY <1>1, <1>4
<1>7. /\ When(c, Joined(Joined(Joined(s0, s1), s2), s3)) \in Seq(Steps)
      /\ Joined(When(c, Joined(Joined(Joined(s0, s1), s2), s3)), u) =
             Joined(When(c, Joined(Joined(s0, s1), s2)), Joined(When(c, s3), u))
  BY <1>1, <1>6, TwoSlots
<1>8. Joined(When(c, Joined(Joined(s0, s1), s2)), Joined(When(c, s3), u)) =
          Joined(When(c, Joined(s0, s1)), Joined(When(c, s2), Joined(When(c, s3), u)))
  BY <1>1, <1>5, <1>6, TwoSlots
<1>9. Joined(When(c, Joined(s0, s1)), Joined(When(c, s2), Joined(When(c, s3), u))) =
          Joined(When(c, s0), Joined(When(c, s1), Joined(When(c, s2), Joined(When(c, s3), u))))
  BY <1>1, <1>5, TwoSlots
<1> QED BY <1>2, <1>3, <1>7, <1>8, <1>9

\* A removed and an added interface, each with its own stop, and the start.
LEMMA InterfaceChangesIs ==
    ASSUME NEW p \in SUBSET Changes, NEW u \in Seq(Steps)
    PROVE  /\ InterfaceChanges(p) \in Seq(Steps)
           /\ Joined(InterfaceChanges(p), u) =
                  Joined(Slot(p, 10), Joined(Slot(p, 11), Joined(Slot(p, 12), Joined(Slot(p, 13),
                      Joined(Slot(p, 14), u)))))
<1> DEFINE c == "removePciInterface" \in p
           d == "addPciInterface" \in p
           e == p \cap Interfaces # {}
           s0 == Stop("interfaces")
           s1 == Request({"removePciInterface"})
           s2 == Request({"addPciInterface"})
           s3 == StartIf("interfaces")
<1>1. s0 \in Seq(Steps) /\ s1 \in Seq(Steps) /\ s2 \in Seq(Steps) /\ s3 \in Seq(Steps)
  BY Singletons DEF Flags, Changes, Interfaces
<1>2. /\ Slot(p, 10) = When(c, s0) /\ Slot(p, 11) = When(c, s1)
      /\ Slot(p, 12) = When(d, s0) /\ Slot(p, 13) = When(d, s2) /\ Slot(p, 14) = When(e, s3)
  BY DEF Slot, Present, StepAt, FlagAt, ChangesAt, StopPositions, StartPositions,
       RequestPositions, Stop, Request, StartIf, StopStep, RequestStep, StartStep, WaitReload
<1>3. InterfaceChanges(p) =
          Joined(Joined(When(c, Joined(s0, s1)), When(d, Joined(s0, s2))), When(e, s3))
  BY DEF InterfaceChanges, Joined
<1> HIDE DEF c, d, e, s0, s1, s2, s3
<1>4. \A s, t \in Seq(Steps) : Joined(s, t) \in Seq(Steps)
  BY <1>1, JoinedOnce
<1>5. \A s, t, v \in Seq(Steps) : Joined(Joined(s, t), v) = Joined(s, Joined(t, v))
  BY JoinedOnce
<1>6. /\ When(c, Joined(s0, s1)) \in Seq(Steps) /\ When(d, Joined(s0, s2)) \in Seq(Steps)
      /\ When(e, s3) \in Seq(Steps) /\ When(d, s0) \in Seq(Steps) /\ When(d, s2) \in Seq(Steps)
  BY <1>1, TwoSlots
<1> DEFINE x == When(c, Joined(s0, s1))
           y == When(d, Joined(s0, s2))
           z == When(e, s3)
<1>7. Joined(Joined(Joined(x, y), z), u) = Joined(x, Joined(y, Joined(z, u)))
  <2>1. x \in Seq(Steps) /\ y \in Seq(Steps) /\ z \in Seq(Steps)
    BY <1>6
  <2> HIDE DEF x, y, z
  <2>2. Joined(Joined(Joined(x, y), z), u) = Joined(Joined(x, y), Joined(z, u))
    BY <1>4, <1>5, <2>1
  <2>3. Joined(Joined(x, y), Joined(z, u)) = Joined(x, Joined(y, Joined(z, u)))
    BY <1>4, <1>5, <2>1
  <2> QED BY <2>2, <2>3
<1>8. Joined(z, u) \in Seq(Steps) /\ Joined(y, Joined(z, u)) \in Seq(Steps)
  BY <1>4, <1>6
<1>9. Joined(y, Joined(z, u)) = Joined(When(d, s0), Joined(When(d, s2), Joined(z, u)))
  BY <1>1, <1>8, TwoSlots
<1>10. Joined(x, Joined(y, Joined(z, u))) =
          Joined(When(c, s0), Joined(When(c, s1), Joined(y, Joined(z, u))))
  BY <1>1, <1>8, TwoSlots
<1>11. InterfaceChanges(p) \in Seq(Steps)
  BY <1>3, <1>4, <1>6
<1> QED BY <1>2, <1>3, <1>7, <1>9, <1>10, <1>11

LEMMA PrimaryIs ==
    ASSUME NEW p \in SUBSET Changes, NEW u \in Seq(Steps)
    PROVE  /\ Primary(p) \in Seq(Steps)
           /\ Joined(Primary(p), u) = Joined(Slot(p, 16), Joined(Slot(p, 17), u))
<1> DEFINE c == "primary" \in p
           s0 == Request({"primary"})
           s1 == <<Step("waitRunning", "", {})>>
<1>1. s0 \in Seq(Steps) /\ s1 \in Seq(Steps)
  BY Singletons DEF Changes
<1>2. Slot(p, 16) = When(c, s0) /\ Slot(p, 17) = When(c, s1)
  BY DEF Slot, Present, StepAt, FlagAt, ChangesAt, StopPositions, StartPositions,
       RequestPositions, Request, RequestStep, WaitRunning
<1>3. Primary(p) = When(c, Joined(s0, s1))
  BY DEF Primary, Joined
<1> HIDE DEF c, s0, s1
<1> QED BY <1>1, <1>2, <1>3, TwoSlots

LEMMA CompareIs ==
    ASSUME NEW p \in SUBSET Changes
    PROVE  Compare(p) = Slot(p, 4) /\ Compare(p) \in Seq(Steps)
<1>1. Compare(p) = Slot(p, 4)
  BY DEF Compare, Slot, Present, StepAt, FlagAt, ChangesAt, StopPositions, StartPositions,
       RequestPositions, CompareStep
<1>2. Step("compare", "", p \cap Attachments) \in Steps
  BY DEF Step, Steps
<1>3. <<Step("compare", "", p \cap Attachments)>> \in Seq(Steps) /\ <<>> \in Seq(Steps)
  BY <1>2, Singletons
<1> QED BY <1>1, <1>3 DEF Compare, When

LEMMA ActionIs ==
    ASSUME NEW p \in SUBSET Changes
    PROVE  Action(p) = Slot(p, 19) /\ Action(p) \in Seq(Steps)
<1>1. Action(p) = Slot(p, 19)
  BY DEF Action, Slot, Present, StepAt, FlagAt, ChangesAt, StopPositions, StartPositions,
       RequestPositions, ActionStep
<1>2. Step("action", "", p \cap Actions) \in Steps
  BY DEF Step, Steps
<1>3. <<Step("action", "", p \cap Actions)>> \in Seq(Steps) /\ <<>> \in Seq(Steps)
  BY <1>2, Singletons
<1> QED BY <1>1, <1>3 DEF Action, When

LEMMA FinallyIs ==
    ASSUME NEW p \in SUBSET Changes
    PROVE  Finally(p) = Slot(p, 20) /\ Finally(p) \in Seq(Steps)
<1>1. Finally(p) = Slot(p, 20)
  BY DEF Finally, Slot, Present, StepAt, FlagAt, ChangesAt, StopPositions, StartPositions,
       RequestPositions, When, Start, StartIf, StartStep
<1>2. Step("start", "always", {}) \in Steps /\ Step("start", "server", {}) \in Steps
  BY DEF Step, Steps, Flags
<1>3. Start \in Seq(Steps) /\ StartIf("server") \in Seq(Steps)
  BY <1>2 DEF Start, StartIf
<1> QED BY <1>1, <1>3 DEF Finally

\* The program of an update is what remains at its first position.
LEMMA ProgramIsFrom ==
    ASSUME NEW p \in SUBSET Changes, "delete" \notin p
    PROVE  Program(p) = From(p, 0)
<1> DEFINE a == Initialize(p)
           b == Compare(p)
           c == InterfaceChanges(p)
           d == When("secureBoot" \in p, Stop("server"))
           e == Primary(p)
           f == When(p \cap Options # {}, Request(p \cap Options))
           g == Action(p)
           h == Finally(p)
<1>1. Program(p) = Joined(Joined(Joined(Joined(Joined(Joined(Joined(a, b), c), d), e), f), g), h)
  BY DEF Program, Joined
<1>2. d = Slot(p, 15) /\ f = Slot(p, 18)
  BY DEF Slot, Present, StepAt, FlagAt, ChangesAt, StopPositions, StartPositions,
       RequestPositions, Stop, Request, StopStep, RequestStep
<1>3. d \in Seq(Steps) /\ f \in Seq(Steps)
  <2>1. "server" \in Flags /\ p \cap Options \in SUBSET Changes
    BY DEF Flags
  <2>2. Stop("server") \in Seq(Steps) /\ Request(p \cap Options) \in Seq(Steps) /\ <<>> \in Seq(Steps)
    BY <2>1, Singletons
  <2> QED BY <2>2 DEF When
<1>4. \A k \in 0..21 : From(p, k) \in Seq(Steps)
  <2>1. \A s \in Seq(StepsOf(p)) : s \in Seq(Steps)
    BY DEF StepsOf
  <2> QED BY <2>1, FromTypes
<1>5. /\ Joined(Slot(p, 19), From(p, 20)) = From(p, 19) /\ Joined(Slot(p, 18), From(p, 19)) = From(p, 18)
      /\ Joined(Slot(p, 17), From(p, 18)) = From(p, 17) /\ Joined(Slot(p, 16), From(p, 17)) = From(p, 16)
      /\ Joined(Slot(p, 15), From(p, 16)) = From(p, 15) /\ Joined(Slot(p, 14), From(p, 15)) = From(p, 14)
      /\ Joined(Slot(p, 13), From(p, 14)) = From(p, 13) /\ Joined(Slot(p, 12), From(p, 13)) = From(p, 12)
      /\ Joined(Slot(p, 11), From(p, 12)) = From(p, 11) /\ Joined(Slot(p, 10), From(p, 11)) = From(p, 10)
      /\ Joined(Slot(p, 4), From(p, 10)) = From(p, 4) /\ Joined(Slot(p, 3), From(p, 4)) = From(p, 3)
      /\ Joined(Slot(p, 2), From(p, 3)) = From(p, 2) /\ Joined(Slot(p, 1), From(p, 2)) = From(p, 1)
      /\ Joined(Slot(p, 0), From(p, 1)) = From(p, 0)
  <2>1. \A k \in 0..20 : Joined(Slot(p, k), From(p, Following(k))) = From(p, k)
    BY FromJoined DEF After
  <2>2. /\ \A k \in 10..19 : Joined(Slot(p, k), From(p, k + 1)) = From(p, k)
        /\ \A k \in 0..3 : Joined(Slot(p, k), From(p, k + 1)) = From(p, k)
        /\ Joined(Slot(p, 4), From(p, 10)) = From(p, 4)
    BY <2>1 DEF Following
  <2> QED BY <2>2
<1>6. h = From(p, 20)
  <2>1. Slot(p, 20) \o <<>> = Slot(p, 20)
    BY FinallyIs, ConcatEmptySeq
  <2> QED BY <2>1, FinallyIs DEF From, From20
<1>7. /\ a \in Seq(Steps) /\ b \in Seq(Steps) /\ c \in Seq(Steps) /\ e \in Seq(Steps)
      /\ g \in Seq(Steps) /\ h \in Seq(Steps)
  BY <1>4, InitializeIs, CompareIs, InterfaceChangesIs, PrimaryIs, ActionIs, FinallyIs
<1>8. Program(p) = Joined(a, Joined(b, Joined(c, Joined(d, Joined(e, Joined(f, Joined(g, h)))))))
  <2> HIDE DEF a, b, c, d, e, f, g, h
  <2>1. /\ a \in Seq(Steps) /\ b \in Seq(Steps) /\ c \in Seq(Steps) /\ d \in Seq(Steps)
        /\ e \in Seq(Steps) /\ f \in Seq(Steps) /\ g \in Seq(Steps) /\ h \in Seq(Steps)
    BY <1>3, <1>7
  <2>2. Joined(Joined(Joined(Joined(Joined(Joined(Joined(a, b), c), d), e), f), g), h) =
            Joined(a, Joined(b, Joined(c, Joined(d, Joined(e, Joined(f, Joined(g, h)))))))
    <3>1. \A s, t, u \in Seq(Steps) :
              Joined(s, t) \in Seq(Steps) /\ Joined(Joined(s, t), u) = Joined(s, Joined(t, u))
      BY JoinedOnce
    <3> DEFINE v == Joined(g, h)
               w == Joined(f, v)
               x == Joined(e, w)
               y == Joined(d, x)
               z == Joined(c, y)
               k == Joined(a, b)
               l == Joined(k, c)
               m == Joined(l, d)
               n == Joined(m, e)
               o == Joined(n, f)
    <3>2. v \in Seq(Steps) /\ w \in Seq(Steps) /\ x \in Seq(Steps) /\ y \in Seq(Steps) /\ z \in Seq(Steps)
      BY <2>1, <3>1
    <3>3. k \in Seq(Steps) /\ l \in Seq(Steps) /\ m \in Seq(Steps) /\ n \in Seq(Steps) /\ o \in Seq(Steps)
      BY <2>1, <3>1
    <3>4. Joined(Joined(o, g), h) = Joined(o, v)
      BY <2>1, <3>1, <3>3, SMTT(30)
    <3>5. Joined(o, v) = Joined(n, w)
      BY <2>1, <3>1, <3>2, <3>3, SMTT(30)
    <3>6. Joined(n, w) = Joined(m, x)
      BY <2>1, <3>1, <3>2, <3>3, SMTT(30)
    <3>7. Joined(m, x) = Joined(l, y)
      BY <2>1, <3>1, <3>2, <3>3, SMTT(30)
    <3>8. Joined(l, y) = Joined(k, z)
      BY <2>1, <3>1, <3>2, <3>3, SMTT(30)
    <3>9. Joined(k, z) = Joined(a, Joined(b, z))
      BY <2>1, <3>1, <3>2, <3>3, SMTT(30)
    <3> QED BY <3>4, <3>5, <3>6, <3>7, <3>8, <3>9
  <2> QED BY <1>1, <2>2
<1>9. From(p, 18) \in Seq(Steps) /\ From(p, 15) \in Seq(Steps) /\ From(p, 4) \in Seq(Steps)
  BY <1>4
<1>10. Joined(f, Joined(g, h)) = From(p, 18)
  BY <1>2, <1>5, <1>6, ActionIs
<1>11. Joined(e, From(p, 18)) = From(p, 16)
  BY <1>5, <1>9, PrimaryIs
<1>12. Joined(d, From(p, 16)) = From(p, 15)
  BY <1>2, <1>5
<1>13. Joined(c, From(p, 15)) = From(p, 10)
  BY <1>5, <1>9, InterfaceChangesIs
<1>14. Joined(b, From(p, 10)) = From(p, 4)
  BY <1>5, CompareIs
<1>15. Joined(a, From(p, 4)) = From(p, 0)
  BY <1>5, <1>9, InitializeIs
<1> HIDE DEF a, b, c, d, e, f, g, h
<1> QED BY <1>8, <1>10, <1>11, <1>12, <1>13, <1>14, <1>15

\* The program of every apply is made of its steps, and is not empty.
LEMMA ProgramTypes ==
    ASSUME NEW p \in SUBSET Changes
    PROVE  Program(p) \in Seq(StepsOf(p)) /\ Program(p) # <<>>
<1>1. CASE "delete" \in p
  <2>1. /\ Step("find", "", {}) \in StepsOf(p) /\ Step("waitDeleted", "", {}) \in StepsOf(p)
        /\ Step("request", "", {"delete"}) \in StepsOf(p)
    <3>1. Step("find", "", {}) \in Steps /\ Step("waitDeleted", "", {}) \in Steps
      BY Singletons
    <3>2. Step("request", "", {"delete"}) \in Steps
      BY DEF Step, Steps, Changes
    <3> QED BY <3>1, <3>2 DEF StepsOf, Step
  <2>2. Delete \in Seq(StepsOf(p)) /\ Delete # <<>>
    <3>1. \A s, t, u \in StepsOf(p) : <<s, t, u>> \in Seq(StepsOf(p)) /\ <<s, t, u>> # <<>>
      OBVIOUS
    <3> QED BY <2>1, <3>1 DEF Delete
  <2> QED BY <1>1, <2>2 DEF Program
<1>2. CASE "delete" \notin p
  <2>1. From(p, 0) \in Seq(StepsOf(p))
    BY FromTypes
  <2>2. From(p, 20) # <<>>
    <3>1. Present(p, 20) /\ StepAt(p, 20) \in StepsOf(p) /\ After(p, 20) \in Seq(StepsOf(p))
      BY PositionTypes, FromTypes DEF Present, After, Following
    <3> QED BY <3>1, FromIs, ThenIs
  <2>3. ASSUME NEW k \in 0..20, After(p, k) # <<>> PROVE From(p, k) # <<>>
    <3>1. After(p, k) \in Seq(StepsOf(p))
      <4>1. Following(k) \in 0..21
        BY DEF Following
      <4> QED BY <4>1, FromTypes DEF After
    <3>2. Present(p, k) => StepAt(p, k) \in StepsOf(p)
      BY PositionTypes
    <3>3. From(p, k) = IF Present(p, k) THEN Then(StepAt(p, k), After(p, k)) ELSE After(p, k)
      BY FromIs
    <3> QED BY <2>3, <3>1, <3>2, <3>3, ThenIs
  <2>4. From(p, 19) # <<>>
    BY <2>3, <2>2, Afterwards
  <2>5. From(p, 18) # <<>>
    BY <2>3, <2>4, Afterwards
  <2>6. From(p, 17) # <<>>
    BY <2>3, <2>5, Afterwards
  <2>7. From(p, 16) # <<>>
    BY <2>3, <2>6, Afterwards
  <2>8. From(p, 15) # <<>>
    BY <2>3, <2>7, Afterwards
  <2>9. From(p, 14) # <<>>
    BY <2>3, <2>8, Afterwards
  <2>10. From(p, 13) # <<>>
    BY <2>3, <2>9, Afterwards
  <2>11. From(p, 12) # <<>>
    BY <2>3, <2>10, Afterwards
  <2>12. From(p, 11) # <<>>
    BY <2>3, <2>11, Afterwards
  <2>13. From(p, 10) # <<>>
    BY <2>3, <2>12, Afterwards
  <2>14. From(p, 4) # <<>>
    BY <2>3, <2>13, Afterwards
  <2>15. From(p, 3) # <<>>
    BY <2>3, <2>14, Afterwards
  <2>16. From(p, 2) # <<>>
    BY <2>3, <2>15, Afterwards
  <2>17. From(p, 1) # <<>>
    BY <2>3, <2>16, Afterwards
  <2>18. From(p, 0) # <<>>
    BY <2>3, <2>17, Afterwards
  <2> QED BY <1>2, <2>1, <2>18, ProgramIsFrom
<1> QED BY <1>1, <1>2

-----------------------------------------------------------------------------
(* What is expected *)

LEMMA Expectations ==
    ASSUME NEW p, NEW b \in Settled
    PROVE  /\ Base(p, b) \subseteq Settled /\ BeforePrimary(p, b) \subseteq Settled
           /\ AfterPrimary(p, b) \subseteq Settled /\ AfterAction(p, b) \subseteq Settled
           /\ p \cap Initialization = {} => Base(p, b) = {b}
           /\ p \cap Initialization # {} /\ b = "stopped" => Base(p, b) = Settled
           /\ b = "running" => Base(p, b) = {"running"}
           /\ b \in Base(p, b) /\ ("running" \notin Base(p, b) => Base(p, b) = {"stopped"})
           /\ "secureBoot" \notin p => BeforePrimary(p, b) = Base(p, b)
           /\ "secureBoot" \in p => BeforePrimary(p, b) = {"stopped"}
           /\ "primary" \notin p => AfterPrimary(p, b) = BeforePrimary(p, b)
           /\ "primary" \in p => AfterPrimary(p, b) = BeforePrimary(p, b) \cap {"running"}
           /\ "stop" \in p => AfterAction(p, b) = {"stopped"}
           /\ "stop" \notin p /\ "start" \in p => AfterAction(p, b) = {"running"}
           /\ "stop" \notin p /\ "start" \notin p => AfterAction(p, b) = AfterPrimary(p, b)
BY DEF Base, BeforePrimary, AfterPrimary, AfterAction, Settled

\* A position without a step expects what the next one expects.
LEMMA Skip ==
    ASSUME NEW p, NEW b \in Settled, NEW f, NEW i, NEW k \in 0..20,
           ~Present(p, k), Ready(p, b, f, k, i), NotYet(p, f, k)
    PROVE  Ready(p, b, f, Following(k), i) /\ NotYet(p, f, Following(k))
<1>1. CASE k = 0
  BY <1>1, Expectations DEF Present, Ready, NotYet, Following, Physical, Interfaces, Attachments, Actions
<1>2. CASE k = 1
  BY <1>2, Expectations DEF Present, Ready, NotYet, Following, Physical, Interfaces, Attachments, Actions
<1>3. CASE k = 2
  BY <1>3, Expectations DEF Present, Ready, NotYet, Following, Physical, Interfaces, Attachments, Actions
<1>4. CASE k = 3
  BY <1>4, Expectations DEF Present, Ready, NotYet, Following, Physical, Interfaces, Attachments, Actions
<1>5. CASE k = 4
  BY <1>5, Expectations DEF Present, Ready, NotYet, Following, Physical, Interfaces, Attachments, Actions
<1>6. CASE k = 5
  BY <1>6, Expectations DEF Present, Ready, NotYet, Following, Physical, Interfaces, Attachments, Actions
<1>7. CASE k = 6
  BY <1>7, Expectations DEF Present, Ready, NotYet, Following, Physical, Interfaces, Attachments, Actions
<1>8. CASE k = 7
  BY <1>8, Expectations DEF Present, Ready, NotYet, Following, Physical, Interfaces, Attachments, Actions
<1>9. CASE k = 8
  BY <1>9, Expectations DEF Present, Ready, NotYet, Following, Physical, Interfaces, Attachments, Actions
<1>10. CASE k = 9
  BY <1>10, Expectations DEF Present, Ready, NotYet, Following, Physical, Interfaces, Attachments, Actions
<1>11. CASE k = 10
  BY <1>11, Expectations DEF Present, Ready, NotYet, Following, Physical, Interfaces, Attachments, Actions
<1>12. CASE k = 11
  BY <1>12, Expectations DEF Present, Ready, NotYet, Following, Physical, Interfaces, Attachments, Actions
<1>13. CASE k = 12
  BY <1>13, Expectations DEF Present, Ready, NotYet, Following, Physical, Interfaces, Attachments, Actions
<1>14. CASE k = 13
  BY <1>14, Expectations DEF Present, Ready, NotYet, Following, Physical, Interfaces, Attachments, Actions
<1>15. CASE k = 14
  BY <1>15, Expectations DEF Present, Ready, NotYet, Following, Physical, Interfaces, Attachments, Actions
<1>16. CASE k = 15
  BY <1>16, Expectations DEF Present, Ready, NotYet, Following, Physical, Interfaces, Attachments, Actions
<1>17. CASE k = 16
  BY <1>17, Expectations DEF Present, Ready, NotYet, Following, Physical, Interfaces, Attachments, Actions
<1>18. CASE k = 17
  BY <1>18, Expectations DEF Present, Ready, NotYet, Following, Physical, Interfaces, Attachments, Actions
<1>19. CASE k = 18
  BY <1>19, Expectations DEF Present, Ready, NotYet, Following, Physical, Interfaces, Attachments, Actions
<1>20. CASE k = 19
  BY <1>20, Expectations DEF Present, Ready, NotYet, Following, Physical, Interfaces, Attachments, Actions
<1>21. CASE k = 20
  BY <1>21, Expectations DEF Present, Ready, NotYet, Following, Physical, Interfaces, Attachments, Actions
<1> QED BY <1>1, <1>2, <1>3, <1>4, <1>5, <1>6, <1>7, <1>8, <1>9, <1>10, <1>11, <1>12,
           <1>13, <1>14, <1>15, <1>16, <1>17, <1>18, <1>19, <1>20, <1>21

\* A handler between two positions is at a place if the server is as expected.
LEMMA EnterPlace ==
    ASSUME NEW p \in SUBSET Changes, "delete" \notin p, NEW b \in Settled, NEW f, FlagsTell(p, b, f),
           NEW i, NEW k \in 0..21, Ready(p, b, f, k, i), NotYet(p, f, k)
    PROVE  Place(p, b, f, From(p, k), i)
<1> DEFINE Enters(m) == Ready(p, b, f, m, i) /\ NotYet(p, f, m) => Place(p, b, f, From(p, m), i)
<1>1. Enters(21)
  BY FromIs DEF Place, AtEnd
<1>2. ASSUME NEW m \in 0..20, Enters(Following(m)) PROVE Enters(m)
  <2>1. CASE Present(p, m)
    <3>1. From(p, m) = Then(StepAt(p, m), After(p, m))
      BY <2>1, FromIs
    <3> QED BY <2>1, <3>1 DEF Place, AtStep
  <2>2. CASE ~Present(p, m)
    <3>1. From(p, m) = From(p, Following(m))
      BY <2>2, FromIs DEF After
    <3>2. Ready(p, b, f, m, i) /\ NotYet(p, f, m) =>
              Ready(p, b, f, Following(m), i) /\ NotYet(p, f, Following(m))
      BY <2>2, Skip
    <3> QED BY <1>2, <3>1, <3>2
  <2> QED BY <2>1, <2>2
<1>3. /\ Following(4) = 10
      /\ \A m \in (0..20) \ {4} : Following(m) = m + 1
  BY DEF Following
<1> HIDE DEF Enters
<1>4. Enters(20)
  <2>1. Following(20) = 21
    BY <1>3
  <2> QED BY <1>2, <1>1, <2>1
<1>5. Enters(19)
  <2>1. Following(19) = 20
    BY <1>3
  <2> QED BY <1>2, <1>4, <2>1
<1>6. Enters(18)
  <2>1. Following(18) = 19
    BY <1>3
  <2> QED BY <1>2, <1>5, <2>1
<1>7. Enters(17)
  <2>1. Following(17) = 18
    BY <1>3
  <2> QED BY <1>2, <1>6, <2>1
<1>8. Enters(16)
  <2>1. Following(16) = 17
    BY <1>3
  <2> QED BY <1>2, <1>7, <2>1
<1>9. Enters(15)
  <2>1. Following(15) = 16
    BY <1>3
  <2> QED BY <1>2, <1>8, <2>1
<1>10. Enters(14)
  <2>1. Following(14) = 15
    BY <1>3
  <2> QED BY <1>2, <1>9, <2>1
<1>11. Enters(13)
  <2>1. Following(13) = 14
    BY <1>3
  <2> QED BY <1>2, <1>10, <2>1
<1>12. Enters(12)
  <2>1. Following(12) = 13
    BY <1>3
  <2> QED BY <1>2, <1>11, <2>1
<1>13. Enters(11)
  <2>1. Following(11) = 12
    BY <1>3
  <2> QED BY <1>2, <1>12, <2>1
<1>14. Enters(10)
  <2>1. Following(10) = 11
    BY <1>3
  <2> QED BY <1>2, <1>13, <2>1
<1>15. Enters(9)
  <2>1. Following(9) = 10
    BY <1>3
  <2> QED BY <1>2, <1>14, <2>1
<1>16. Enters(8)
  <2>1. Following(8) = 9
    BY <1>3
  <2> QED BY <1>2, <1>15, <2>1
<1>17. Enters(7)
  <2>1. Following(7) = 8
    BY <1>3
  <2> QED BY <1>2, <1>16, <2>1
<1>18. Enters(6)
  <2>1. Following(6) = 7
    BY <1>3
  <2> QED BY <1>2, <1>17, <2>1
<1>19. Enters(5)
  <2>1. Following(5) = 6
    BY <1>3
  <2> QED BY <1>2, <1>18, <2>1
<1>20. Enters(4)
  <2>1. Following(4) = 10
    BY <1>3
  <2> QED BY <1>2, <1>14, <2>1
<1>21. Enters(3)
  <2>1. Following(3) = 4
    BY <1>3
  <2> QED BY <1>2, <1>20, <2>1
<1>22. Enters(2)
  <2>1. Following(2) = 3
    BY <1>3
  <2> QED BY <1>2, <1>21, <2>1
<1>23. Enters(1)
  <2>1. Following(1) = 2
    BY <1>3
  <2> QED BY <1>2, <1>22, <2>1
<1>24. Enters(0)
  <2>1. Following(0) = 1
    BY <1>3
  <2> QED BY <1>2, <1>23, <2>1
<1>25. Enters(k)
  BY <1>1, <1>4, <1>5, <1>6, <1>7, <1>8, <1>9, <1>10, <1>11, <1>12, <1>13, <1>14,
     <1>15, <1>16, <1>17, <1>18, <1>19, <1>20, <1>21, <1>22, <1>23, <1>24
<1> QED BY <1>25 DEF Enters



\* The sequences of a place are made of steps, and not empty but at an end.
LEMMA AfterTypes ==
    ASSUME NEW p \in SUBSET Changes
    PROVE  \A k \in 0..20 : After(p, k) \in Seq(Steps)
<1>1. \A k \in 0..20 : Following(k) \in 0..21
  BY DEF Following
<1>2. \A s \in Seq(StepsOf(p)) : s \in Seq(Steps)
  BY DEF StepsOf
<1> QED BY <1>1, <1>2, FromTypes DEF After


\* What a place of an update says of the next step s and of what follows it.
Located(p, b, f, s, u, i) ==
    \/ \E k \in 0..20 : /\ Present(p, k) /\ s = StepAt(p, k) /\ u = After(p, k)
                        /\ Ready(p, b, f, k, i) /\ NotYet(p, f, k)
    \/ \E k \in StopPositions :
          /\ Present(p, k) /\ s = WaitStop(StepAt(p, k).flag) /\ u = After(p, k)
          /\ Halting(i) /\ StepAt(p, k).flag \in f /\ NotYet(p, f, k + 1)
    \/ \E k \in StartPositions :
          /\ Present(p, k) /\ s = WaitRunning /\ u = After(p, k)
          /\ Rising(i) /\ NotYet(p, f, k + 1)
          /\ k # 20 => "running" \in Base(p, b)
          /\ k = 20 => p \cap Options # {} \/ "server" \in f
    \/ \E a \in p \cap Actions :
          /\ s = ActionWait(a) /\ u = After(p, 19)
          /\ Acting(a, i)

LEMMA PlaceIs ==
    ASSUME NEW p \in SUBSET Changes, "delete" \notin p, NEW b, NEW f, NEW t, NEW i,
           Place(p, b, f, t, i), t # <<>>
    PROVE  b \in Settled /\ FlagsTell(p, b, f) /\ Located(p, b, f, Head(t), Tail(t), i)
<1>1. b \in Settled /\ FlagsTell(p, b, f)
  BY DEF Place
<1>2. CASE AtStep(p, b, f, t, i)
  <2>1. PICK k \in 0..20 : /\ Present(p, k) /\ t = Then(StepAt(p, k), After(p, k))
                           /\ Ready(p, b, f, k, i) /\ NotYet(p, f, k)
    BY <1>2 DEF AtStep
  <2>2. StepAt(p, k) \in Steps /\ After(p, k) \in Seq(Steps)
    BY <2>1, PositionTypes, AfterTypes DEF StepsOf
  <2>3. Head(t) = StepAt(p, k) /\ Tail(t) = After(p, k)
    BY <2>1, <2>2, ThenIs
  <2>4. Located(p, b, f, Head(t), Tail(t), i)
    BY <2>1, <2>3 DEF Located
  <2> QED BY <1>1, <2>4
<1>3. CASE AtStopWait(p, b, f, t, i)
  <2>1. PICK k \in StopPositions :
            /\ Present(p, k) /\ t = Then(WaitStop(StepAt(p, k).flag), After(p, k))
            /\ Halting(i) /\ StepAt(p, k).flag \in f /\ NotYet(p, f, k + 1)
    BY <1>3 DEF AtStopWait
  <2>2. WaitStop(StepAt(p, k).flag) \in Steps /\ After(p, k) \in Seq(Steps)
    <3>1. k \in 0..20
      BY DEF StopPositions
    <3>2. StepAt(p, k).flag \in Flags
      <4>1. StepAt(p, k) = StopStep(FlagAt(p, k))
        BY <3>1, Positions
      <4>2. StopStep(FlagAt(p, k)).flag = FlagAt(p, k)
        BY StepIs
      <4>3. FlagAt(p, k) \in Flags
        BY DEF StopPositions, FlagAt, Flags
      <4> QED BY <4>1, <4>2, <4>3
    <3> QED BY <3>1, <3>2, AfterTypes, StepTypes
  <2>3. Head(t) = WaitStop(StepAt(p, k).flag) /\ Tail(t) = After(p, k)
    BY <2>1, <2>2, ThenIs
  <2>4. Located(p, b, f, Head(t), Tail(t), i)
    BY <2>1, <2>3 DEF Located
  <2> QED BY <1>1, <2>4
<1>4. CASE AtStartWait(p, b, f, t, i)
  <2>1. PICK k \in StartPositions :
            /\ Present(p, k) /\ t = Then(WaitRunning, After(p, k))
            /\ Rising(i) /\ NotYet(p, f, k + 1)
            /\ k # 20 => "running" \in Base(p, b)
            /\ k = 20 => p \cap Options # {} \/ "server" \in f
    BY <1>4 DEF AtStartWait
  <2>2. After(p, k) \in Seq(Steps) /\ WaitRunning \in Steps
    <3>1. k \in 0..20
      BY DEF StartPositions
    <3> QED BY <3>1, AfterTypes, StepTypes
  <2>3. Head(t) = WaitRunning /\ Tail(t) = After(p, k)
    BY <2>1, <2>2, ThenIs
  <2>4. Located(p, b, f, Head(t), Tail(t), i)
    BY <2>1, <2>3 DEF Located
  <2> QED BY <1>1, <2>4
<1>5. CASE AtActionWait(p, b, f, t, i)
  <2>1. PICK a \in p \cap Actions :
            /\ t = Then(ActionWait(a), After(p, 19))
            /\ Acting(a, i)
    BY <1>5 DEF AtActionWait
  <2>2. After(p, 19) \in Seq(Steps) /\ ActionWait(a) \in Steps
    <3>1. 19 \in 0..20 /\ a \in Actions
      OBVIOUS
    <3> QED BY <3>1, AfterTypes, StepTypes
  <2>3. Head(t) = ActionWait(a) /\ Tail(t) = After(p, 19)
    BY <2>1, <2>2, ThenIs
  <2>4. Located(p, b, f, Head(t), Tail(t), i)
    BY <2>1, <2>3 DEF Located
  <2> QED BY <1>1, <2>4
<1> QED BY <1>2, <1>3, <1>4, <1>5 DEF Place, AtEnd

LEMMA PositionDo ==
    ASSUME NEW p, NEW k \in 0..20
    PROVE  /\ StepAt(p, k).do = "stop" => k \in StopPositions /\ StepAt(p, k).flag = FlagAt(p, k)
           /\ StepAt(p, k).do = "start" => k \in StartPositions /\ StepAt(p, k).flag = FlagAt(p, k)
           /\ StepAt(p, k).do = "request" => k \in RequestPositions /\ StepAt(p, k).of = ChangesAt(p, k)
           /\ StepAt(p, k).do = "waitReload" => k = 2
           /\ StepAt(p, k).do = "compare" => k = 4 /\ StepAt(p, k).of = p \cap Attachments
           /\ StepAt(p, k).do = "waitRunning" => k = 17
           /\ StepAt(p, k).do = "action" => k = 19 /\ StepAt(p, k).of = p \cap Actions
           /\ StepAt(p, k).do \notin {"waitStop", "waitAction", "find", "waitDeleted"}
<1> DEFINE flag == FlagAt(p, k)
           changes == ChangesAt(p, k)
<1>1. StopStep(flag).do = "stop" /\ StopStep(flag).flag = flag
  BY StepIs
<1>2. StartStep(flag).do = "start" /\ StartStep(flag).flag = flag
  BY StepIs
<1>3. RequestStep(changes).do = "request" /\ RequestStep(changes).of = changes
  BY StepIs
<1>4. /\ CompareStep(p \cap Attachments).do = "compare"
      /\ CompareStep(p \cap Attachments).of = p \cap Attachments
      /\ ActionStep(p \cap Actions).do = "action" /\ ActionStep(p \cap Actions).of = p \cap Actions
      /\ WaitRunning.do = "waitRunning" /\ WaitReload.do = "waitReload"
  BY StepIs
<1>5. CASE k \in StopPositions
  <2>1. StepAt(p, k) = StopStep(flag)
    BY <1>5, Positions
  <2>2. StepAt(p, k).do = "stop" /\ StepAt(p, k).flag = flag
    BY <1>1, <2>1
  <2> QED BY <1>5, <2>2
<1>6. CASE k \in StartPositions
  <2>1. StepAt(p, k) = StartStep(flag)
    BY <1>6, Positions
  <2>2. StepAt(p, k).do = "start" /\ StepAt(p, k).flag = flag
    BY <1>2, <2>1
  <2> QED BY <1>6, <2>2
<1>7. CASE k \in RequestPositions
  <2>1. StepAt(p, k) = RequestStep(changes)
    BY <1>7, Positions
  <2>2. StepAt(p, k).do = "request" /\ StepAt(p, k).of = changes
    BY <1>3, <2>1
  <2> QED BY <1>7, <2>2
<1>8. CASE k = 2
  <2>1. StepAt(p, k) = WaitReload
    BY <1>8, Positions
  <2>2. StepAt(p, k).do = "waitReload"
    BY <1>4, <2>1
  <2> QED BY <1>8, <2>2
<1>9. CASE k = 17
  <2>1. StepAt(p, k) = WaitRunning
    BY <1>9, Positions
  <2>2. StepAt(p, k).do = "waitRunning"
    BY <1>4, <2>1
  <2> QED BY <1>9, <2>2
<1>10. CASE k = 4
  <2>1. StepAt(p, k) = CompareStep(p \cap Attachments)
    BY <1>10, Positions
  <2>2. StepAt(p, k).do = "compare" /\ StepAt(p, k).of = p \cap Attachments
    BY <1>4, <2>1
  <2> QED BY <1>10, <2>2
<1>11. CASE k = 19
  <2>1. StepAt(p, k) = ActionStep(p \cap Actions)
    BY <1>11, Positions
  <2>2. StepAt(p, k).do = "action" /\ StepAt(p, k).of = p \cap Actions
    BY <1>4, <2>1
  <2> QED BY <1>11, <2>2
<1> QED BY <1>5, <1>6, <1>7, <1>8, <1>9, <1>10, <1>11, Positions

\* What a place says, by the kind of the next step.
LEMMA PlaceByStep ==
    ASSUME NEW p \in SUBSET Changes, "delete" \notin p, NEW b, NEW f, NEW t, NEW i,
           Place(p, b, f, t, i), t # <<>>
    PROVE  LET s == Head(t)
               Here(k) == /\ Present(p, k) /\ Tail(t) = After(p, k)
                          /\ Ready(p, b, f, k, i) /\ NotYet(p, f, k)
           IN /\ s.do = "stop" => \E k \in StopPositions : Here(k) /\ s.flag = FlagAt(p, k)
              /\ s.do = "start" => \E k \in StartPositions : Here(k) /\ s.flag = FlagAt(p, k)
              /\ s.do = "request" => \E k \in RequestPositions : Here(k) /\ s.of = ChangesAt(p, k)
              /\ s.do = "waitReload" => Here(2)
              /\ s.do = "compare" => Here(4) /\ s.of = p \cap Attachments
              /\ s.do = "action" => Here(19) /\ s.of = p \cap Actions
              /\ s.do = "waitStop" =>
                    \E k \in StopPositions :
                       /\ Present(p, k) /\ Tail(t) = After(p, k) /\ s.flag = FlagAt(p, k)
                       /\ Halting(i) /\ FlagAt(p, k) \in f /\ NotYet(p, f, k + 1)
              /\ s.do = "waitRunning" =>
                    \/ Here(17)
                    \/ \E k \in StartPositions :
                          /\ Present(p, k) /\ Tail(t) = After(p, k)
                          /\ Rising(i) /\ NotYet(p, f, k + 1)
                          /\ k # 20 => "running" \in Base(p, b)
                          /\ k = 20 => p \cap Options # {} \/ "server" \in f
              /\ s.do = "waitAction" =>
                    \E a \in p \cap Actions :
                       /\ Tail(t) = After(p, 19) /\ s.of = {a}
                       /\ Acting(a, i)
              /\ s.do \notin {"find", "waitDeleted"}
<1> DEFINE s == Head(t)
<1>1. ASSUME NEW k \in 0..20, Present(p, k), s = StepAt(p, k), Tail(t) = After(p, k),
             Ready(p, b, f, k, i), NotYet(p, f, k)
      PROVE  /\ s.do = "stop" => k \in StopPositions /\ s.flag = FlagAt(p, k)
             /\ s.do = "start" => k \in StartPositions /\ s.flag = FlagAt(p, k)
             /\ s.do = "request" => k \in RequestPositions /\ s.of = ChangesAt(p, k)
             /\ s.do = "waitReload" => k = 2
             /\ s.do = "compare" => k = 4 /\ s.of = p \cap Attachments
             /\ s.do = "waitRunning" => k = 17
             /\ s.do = "action" => k = 19 /\ s.of = p \cap Actions
             /\ s.do \notin {"waitStop", "waitAction", "find", "waitDeleted"}
  <2> HIDE DEF s
  <2> QED BY <1>1, PositionDo, ZenonT(30)
<1>2. ASSUME NEW k \in StopPositions, s = WaitStop(StepAt(p, k).flag)
      PROVE  s.do = "waitStop" /\ s.flag = FlagAt(p, k) /\ StepAt(p, k).flag = FlagAt(p, k)
  <2>1. StepAt(p, k) = StopStep(FlagAt(p, k))
    <3>1. k \in 0..20
      BY DEF StopPositions
    <3> QED BY <3>1, Positions
  <2>2. StopStep(FlagAt(p, k)).flag = FlagAt(p, k)
    BY StepIs
  <2>3. StepAt(p, k).flag = FlagAt(p, k)
    BY <2>1, <2>2
  <2>4. WaitStop(FlagAt(p, k)).do = "waitStop" /\ WaitStop(FlagAt(p, k)).flag = FlagAt(p, k)
    BY StepIs
  <2> QED BY <1>2, <2>3, <2>4
<1>3. s = WaitRunning => s.do = "waitRunning"
  BY StepIs
<1>4. ASSUME NEW a, s = ActionWait(a) PROVE s.do = "waitAction" /\ s.of = {a}
  <2>1. ActionWait(a).do = "waitAction" /\ ActionWait(a).of = {a}
    BY StepIs
  <2> QED BY <1>4, <2>1
<1>5. CASE \E k \in 0..20 : /\ Present(p, k) /\ s = StepAt(p, k) /\ Tail(t) = After(p, k)
                            /\ Ready(p, b, f, k, i) /\ NotYet(p, f, k)
  <2> HIDE DEF s
  <2>1. PICK k \in 0..20 : /\ Present(p, k) /\ s = StepAt(p, k) /\ Tail(t) = After(p, k)
                            /\ Ready(p, b, f, k, i) /\ NotYet(p, f, k)
    BY <1>5
  <2>2. /\ s.do = "stop" => k \in StopPositions /\ s.flag = FlagAt(p, k)
        /\ s.do = "start" => k \in StartPositions /\ s.flag = FlagAt(p, k)
        /\ s.do = "request" => k \in RequestPositions /\ s.of = ChangesAt(p, k)
        /\ s.do = "waitReload" => k = 2
        /\ s.do = "compare" => k = 4 /\ s.of = p \cap Attachments
        /\ s.do = "waitRunning" => k = 17
        /\ s.do = "action" => k = 19 /\ s.of = p \cap Actions
        /\ s.do \notin {"waitStop", "waitAction", "find", "waitDeleted"}
    BY <1>1, <2>1
  <2> QED BY <2>1, <2>2 DEF s
<1>6. CASE \E k \in StopPositions :
              /\ Present(p, k) /\ s = WaitStop(StepAt(p, k).flag) /\ Tail(t) = After(p, k)
              /\ Halting(i) /\ StepAt(p, k).flag \in f /\ NotYet(p, f, k + 1)
  <2> HIDE DEF s
  <2>1. PICK k \in StopPositions :
              /\ Present(p, k) /\ s = WaitStop(StepAt(p, k).flag) /\ Tail(t) = After(p, k)
              /\ Halting(i) /\ StepAt(p, k).flag \in f /\ NotYet(p, f, k + 1)
    BY <1>6
  <2>2. s.do = "waitStop" /\ s.flag = FlagAt(p, k) /\ StepAt(p, k).flag = FlagAt(p, k)
    BY <1>2, <2>1
  <2> QED BY <2>1, <2>2 DEF s
<1>7. CASE \E k \in StartPositions :
              /\ Present(p, k) /\ s = WaitRunning /\ Tail(t) = After(p, k)
              /\ Rising(i) /\ NotYet(p, f, k + 1)
              /\ k # 20 => "running" \in Base(p, b)
              /\ k = 20 => p \cap Options # {} \/ "server" \in f
  <2> HIDE DEF s
  <2>1. s.do = "waitRunning"
    BY <1>3, <1>7
  <2> QED BY <1>7, <2>1 DEF s
<1>8. CASE \E a \in p \cap Actions :
              /\ s = ActionWait(a) /\ Tail(t) = After(p, 19)
              /\ Acting(a, i)
  <2> HIDE DEF s
  <2>1. PICK a \in p \cap Actions :
              /\ s = ActionWait(a) /\ Tail(t) = After(p, 19)
              /\ Acting(a, i)
    BY <1>8
  <2>2. s.do = "waitAction" /\ s.of = {a}
    BY <1>4, <2>1
  <2> QED BY <2>1, <2>2 DEF s
<1>9. Located(p, b, f, s, Tail(t), i)
  BY PlaceIs
<1> QED BY <1>5, <1>6, <1>7, <1>8, <1>9 DEF Located

\* The places of a deletion.
DeleteWait == Step("waitDeleted", "", {})
Find == Step("find", "", {})

LEMMA DeletePlaceIs ==
    ASSUME NEW p, "delete" \in p, NEW b, NEW f, NEW t, NEW i, Place(p, b, f, t, i), t # <<>>
    PROVE  LET wait == Then(DeleteWait, <<>>)
               delete == Then(RequestStep({"delete"}), wait)
           IN \/ Head(t) = DeleteWait /\ Tail(t) = <<>>
              \/ Head(t) = RequestStep({"delete"}) /\ Tail(t) = wait /\ Quiet({"stopped"}, i)
              \/ Head(t) = WaitStop("delete") /\ Tail(t) = delete /\ Halting(i)
              \/ Head(t) = Find /\ Tail(t) = delete /\ Quiet(Settled, i)
<1> DEFINE wait == Then(DeleteWait, <<>>)
           delete == Then(RequestStep({"delete"}), wait)
<1>1. /\ DeleteWait \in Steps /\ Find \in Steps /\ WaitStop("delete") \in Steps
      /\ RequestStep({"delete"}) \in Steps
  BY Singletons, StepTypes DEF DeleteWait, Find, Changes
<1>2. <<>> \in Seq(Steps)
  OBVIOUS
<1>3. wait \in Seq(Steps) /\ Head(wait) = DeleteWait /\ Tail(wait) = <<>>
  BY <1>1, <1>2, ThenIs
<1>4. delete \in Seq(Steps) /\ Head(delete) = RequestStep({"delete"}) /\ Tail(delete) = wait
  <2> HIDE DEF wait
  <2> QED BY <1>1, <1>3, ThenIs
<1>5. /\ Head(Then(WaitStop("delete"), delete)) = WaitStop("delete")
      /\ Tail(Then(WaitStop("delete"), delete)) = delete
      /\ Head(Then(Find, delete)) = Find /\ Tail(Then(Find, delete)) = delete
  <2> HIDE DEF delete
  <2> QED BY <1>1, <1>4, ThenIs
<1>6. \/ t = wait
      \/ t = delete /\ Quiet({"stopped"}, i)
      \/ t = Then(WaitStop("delete"), delete) /\ Halting(i)
      \/ t = Then(Find, delete) /\ Quiet(Settled, i)
  BY DEF Place, AtDelete, DeleteWait, Find
<1> HIDE DEF wait, delete
<1>7. \/ Head(t) = DeleteWait /\ Tail(t) = <<>>
      \/ Head(t) = RequestStep({"delete"}) /\ Tail(t) = wait /\ Quiet({"stopped"}, i)
      \/ Head(t) = WaitStop("delete") /\ Tail(t) = delete /\ Halting(i)
      \/ Head(t) = Find /\ Tail(t) = delete /\ Quiet(Settled, i)
  BY <1>3, <1>4, <1>5, <1>6
<1> QED BY <1>7 DEF wait, delete

LEMMA DeleteDoes ==
    ASSUME NEW p, "delete" \in p, NEW b, NEW f, NEW t, NEW i, Place(p, b, f, t, i), t # <<>>
    PROVE  /\ Head(t).do \in {"find", "waitStop", "request", "waitDeleted"}
           /\ Head(t).do = "waitStop" => Head(t).flag = "delete"
           /\ Head(t).do = "request" => Head(t).of = {"delete"}
<1>1. /\ DeleteWait.do = "waitDeleted" /\ Find.do = "find"
      /\ WaitStop("delete").do = "waitStop" /\ WaitStop("delete").flag = "delete"
  BY DEF DeleteWait, Find, WaitStop, Step
<1>2. RequestStep({"delete"}).do = "request" /\ RequestStep({"delete"}).of = {"delete"}
  BY DEF RequestStep, Step
<1>3. Head(t) \in {DeleteWait, RequestStep({"delete"}), WaitStop("delete"), Find}
  BY DeletePlaceIs
<1> QED BY <1>1, <1>2, <1>3

-----------------------------------------------------------------------------
(* From one place to the next: what holds at step Head(t), and what makes   *)
(* what follows a place again                                               *)

LEMMA FromStop ==
    ASSUME NEW p \in SUBSET Changes, NEW b, NEW f, NEW t, NEW i, Place(p, b, f, t, i),
           t # <<>>, Head(t).do = "stop"
    PROVE  LET flag == Head(t).flag
               stops == i.status = "running" /\ ~(flag = "interfaces" /\ "interfaces" \in f)
           IN /\ Quiet(Settled, i) /\ flag \in Flags
              /\ ~stops => Place(p, b, f, Tail(t), i)
              /\ stops => \A j : Halting(j) =>
                            Place(p, b, f \cup {flag}, Then(WaitStop(flag), Tail(t)), j)
<1> DEFINE flag == Head(t).flag
           stops == i.status = "running" /\ ~(flag = "interfaces" /\ "interfaces" \in f)
<1>1. "delete" \notin p
  BY DeleteDoes
<1>2. b \in Settled /\ FlagsTell(p, b, f)
  BY <1>1, PlaceIs
<1>3. PICK k \in StopPositions :
          /\ Present(p, k) /\ Tail(t) = After(p, k) /\ Ready(p, b, f, k, i) /\ NotYet(p, f, k)
          /\ flag = FlagAt(p, k)
  BY <1>1, PlaceByStep
<1> HIDE DEF flag
<1>4. /\ k \in 0..20 /\ Following(k) = k + 1 /\ k + 1 \in 0..21
      /\ FlagAt(p, k) \in Flags /\ StepAt(p, k).flag = FlagAt(p, k)
  <2>1. k \in 0..20 /\ Following(k) = k + 1 /\ k + 1 \in 0..21 /\ FlagAt(p, k) \in Flags
    BY DEF StopPositions, Following, FlagAt, Flags
  <2>2. StepAt(p, k) = StopStep(FlagAt(p, k))
    BY <2>1, Positions
  <2>3. StopStep(FlagAt(p, k)).flag = FlagAt(p, k)
    BY StepIs
  <2> QED BY <2>1, <2>2, <2>3
<1>5. Quiet(Settled, i)
  <2>1. Base(p, b) \subseteq Settled /\ b \in Settled
    BY <1>2, Expectations
  <2>2. CASE k = 0
    BY <1>3, <2>1, <2>2 DEF Ready, Quiet
  <2>3. CASE k \in {5, 10, 15}
    BY <1>3, <2>1, <2>3 DEF Ready, Quiet
  <2>4. CASE k = 12
    BY <1>3, <2>1, <2>4 DEF Ready, Quiet, StoppedFor, Settled
  <2> QED BY <2>2, <2>3, <2>4 DEF StopPositions
<1>6. ASSUME ~stops PROVE Place(p, b, f, Tail(t), i)
  <2>1. i.status = "stopped" /\ i.asked = "none"
    BY <1>3, <1>5, <1>6 DEF StopPositions, FlagAt, NotYet, Ready, StoppedFor, Quiet, Settled
  <2>2. Ready(p, b, f, k + 1, i) /\ NotYet(p, f, k + 1)
    <3>1. CASE k = 0
      BY <1>2, <1>3, <2>1, <3>1 DEF Ready, NotYet, Quiet
    <3>2. CASE k = 5
      BY <1>2, <1>3, <2>1, <3>2 DEF Ready, NotYet, Quiet, StoppedFor
    <3>3. CASE k = 10
      BY <1>2, <1>3, <2>1, <3>3 DEF Ready, NotYet, Quiet, StoppedFor, Present
    <3>4. CASE k = 12
      BY <1>2, <1>3, <2>1, <3>4 DEF Ready, NotYet, Quiet, StoppedFor, Present, Interfaces
    <3>5. CASE k = 15
      BY <1>2, <1>3, <2>1, <3>5, Expectations DEF Ready, NotYet, Quiet, Present
    <3> QED BY <1>3, <3>1, <3>2, <3>3, <3>4, <3>5 DEF StopPositions
  <2>3. Place(p, b, f, From(p, k + 1), i)
    BY <1>1, <1>2, <1>4, <2>2, EnterPlace
  <2> QED BY <1>3, <1>4, <2>3 DEF After
<1>7. ASSUME stops, NEW j, Halting(j)
      PROVE  Place(p, b, f \cup {flag}, Then(WaitStop(flag), Tail(t)), j)
  <2>1. FlagsTell(p, b, f \cup {flag}) /\ NotYet(p, f \cup {flag}, k + 1)
    <3>1. CASE k = 0
      BY <1>2, <1>3, <1>7, <3>1 DEF Ready, NotYet, Quiet, FlagsTell, FlagAt
    <3>2. CASE k = 5
      BY <1>2, <1>3, <1>7, <3>2 DEF Ready, NotYet, Quiet, FlagsTell, FlagAt, Present
    <3>3. CASE k = 10
      BY <1>2, <1>3, <1>7, <3>3 DEF Ready, NotYet, Quiet, FlagsTell, FlagAt, Present
    <3>4. CASE k = 12
      BY <1>2, <1>3, <1>7, <3>4 DEF Ready, NotYet, Quiet, StoppedFor, FlagsTell, FlagAt, Present
    <3>5. CASE k = 15
      BY <1>2, <1>3, <1>7, <3>5 DEF Ready, NotYet, Quiet, FlagsTell, FlagAt, Present
    <3> QED BY <1>3, <3>1, <3>2, <3>3, <3>4, <3>5 DEF StopPositions
  <2>2. AtStopWait(p, b, f \cup {flag}, Then(WaitStop(flag), Tail(t)), j)
    BY <1>3, <1>4, <1>7, <2>1 DEF AtStopWait
  <2> QED BY <1>1, <1>2, <2>1, <2>2 DEF Place
<1> QED BY <1>3, <1>4, <1>5, <1>6, <1>7 DEF flag

\* The wait for a stop ends with a stopped server.
LEMMA FromWaitStop ==
    ASSUME NEW p \in SUBSET Changes, NEW b, NEW f, NEW t, NEW i, Place(p, b, f, t, i),
           t # <<>>, Head(t).do = "waitStop"
    PROVE  /\ Halting(i)
           /\ Quiet({"stopped"}, i) => Place(p, b, f, Tail(t), i)
<1>1. CASE "delete" \in p
  <2>1. /\ DeleteWait.do = "waitDeleted" /\ Find.do = "find" /\ RequestStep({"delete"}).do = "request"
    BY DEF DeleteWait, Find, RequestStep, Step
  <2>2. /\ Tail(t) = Then(RequestStep({"delete"}), Then(DeleteWait, <<>>)) /\ Halting(i)
    BY <1>1, <2>1, DeletePlaceIs
  <2> QED BY <1>1, <2>2 DEF Place, AtDelete, DeleteWait
<1>2. CASE "delete" \notin p
  <2>1. b \in Settled /\ FlagsTell(p, b, f)
    BY <1>2, PlaceIs
  <2>3. PICK k \in StopPositions :
            /\ Present(p, k) /\ Tail(t) = After(p, k)
            /\ Halting(i) /\ FlagAt(p, k) \in f /\ NotYet(p, f, k + 1)
    BY <1>2, PlaceByStep
  <2>4. k \in 0..20 /\ Following(k) = k + 1 /\ k + 1 \in 0..21
    BY DEF StopPositions, Following
  <2>5. ASSUME Quiet({"stopped"}, i) PROVE Place(p, b, f, Tail(t), i)
    <3>1. Ready(p, b, f, k + 1, i)
      <4>1. CASE k = 0
        BY <2>1, <2>3, <2>4, <2>5, <4>1 DEF Ready, FlagAt, Present
      <4>2. CASE k = 5
        BY <2>1, <2>3, <2>4, <2>5, <4>2 DEF Ready, FlagAt, Present, StoppedFor
      <4>3. CASE k = 10
        BY <2>1, <2>3, <2>4, <2>5, <4>3 DEF Ready, FlagAt, Present, StoppedFor
      <4>4. CASE k = 12
        BY <2>1, <2>3, <2>4, <2>5, <4>4 DEF Ready, FlagAt, Present, StoppedFor, Interfaces
      <4>5. CASE k = 15
        <5>1. BeforePrimary(p, b) = {"stopped"}
          BY <2>3, <4>5 DEF Present, BeforePrimary
        <5> QED BY <2>5, <4>5, <5>1 DEF Ready
      <4> QED BY <2>3, <4>1, <4>2, <4>3, <4>4, <4>5 DEF StopPositions
    <3>2. Place(p, b, f, From(p, k + 1), i)
      BY <1>2, <2>1, <2>3, <2>4, <3>1, EnterPlace
    <3> QED BY <2>3, <2>4, <3>2 DEF After
  <2> QED BY <2>3, <2>5
<1> QED BY <1>1, <1>2

LEMMA FromStart ==
    ASSUME NEW p \in SUBSET Changes, NEW b, NEW f, NEW t, NEW i, Place(p, b, f, t, i),
           t # <<>>, Head(t).do = "start"
    PROVE  LET starts == i.status = "stopped" /\ (Head(t).flag = "always" \/ Head(t).flag \in f)
           IN /\ i.status = "stopped" => i.asked = "none"
              /\ ~starts => Place(p, b, f, Tail(t), i)
              /\ starts => \A j : Rising(j) => Place(p, b, f, Then(WaitRunning, Tail(t)), j)
<1> DEFINE flag == Head(t).flag
           starts == i.status = "stopped" /\ (flag = "always" \/ flag \in f)
<1>1. "delete" \notin p
  BY DeleteDoes
<1>2. b \in Settled /\ FlagsTell(p, b, f)
  BY <1>1, PlaceIs
<1>3. PICK k \in StartPositions :
          /\ Present(p, k) /\ Tail(t) = After(p, k) /\ Ready(p, b, f, k, i) /\ NotYet(p, f, k)
          /\ flag = FlagAt(p, k)
  BY <1>1, PlaceByStep
<1> HIDE DEF flag
<1>4. k \in 0..20 /\ Following(k) = k + 1 /\ k + 1 \in 0..21
  BY DEF StartPositions, Following
<1>5. /\ i.status = "stopped" => i.asked = "none"
      /\ "restart" \notin p \/ k # 20 => Quiet(Settled, i)
  <2>1. Base(p, b) \subseteq Settled /\ b \in Settled /\ AfterAction(p, b) \subseteq Settled
    BY <1>2, Expectations
  <2> QED BY <1>3, <2>1 DEF StartPositions, Ready, Quiet, StoppedFor, Settled, Restarting
<1>6. NotYet(p, f, k + 1)
  BY <1>3, <1>4 DEF StartPositions, NotYet
<1>7. ASSUME ~starts PROVE Place(p, b, f, Tail(t), i)
  <2>1. Ready(p, b, f, k + 1, i)
    <3>1. CASE k = 3
      <4>1. flag = "initialization" /\ p \cap Initialization # {}
        BY <1>3, <3>1 DEF FlagAt, Present
      <4>2. Quiet(Settled, i) /\ (b = "running" => flag \in f)
        BY <1>3, <3>1, <4>1 DEF Ready
      <4>3. Quiet(Base(p, b), i)
        BY <1>2, <1>7, <4>1, <4>2 DEF Base, Quiet, Settled
      <4> QED BY <3>1, <4>3 DEF Ready
    <3>2. CASE k = 9
      <4>1. flag = "server" /\ StoppedFor("server", p, b, f, i)
        BY <1>3, <3>2 DEF FlagAt, Present, Ready
      <4> QED BY <1>7, <3>2, <4>1 DEF Ready, StoppedFor, Quiet
    <3>3. CASE k = 14
      <4>1. flag = "interfaces" /\ StoppedFor("interfaces", p, b, f, i)
        BY <1>3, <3>3 DEF FlagAt, Present, Ready
      <4> QED BY <1>7, <3>3, <4>1 DEF Ready, StoppedFor, Quiet
    <3>4. CASE k = 20
      <4>1. flag = IF p \cap Options # {} THEN "always" ELSE "server"
        BY <1>3, <3>4 DEF FlagAt
      <4>2. "restart" \in p \/ Quiet(AfterAction(p, b), i)
        BY <1>3, <3>4 DEF Ready
      <4> QED BY <1>5, <1>7, <3>4, <4>1, <4>2 DEF Ready, Quiet, Settled
    <3> QED BY <3>1, <3>2, <3>3, <3>4 DEF StartPositions
  <2>2. Place(p, b, f, From(p, k + 1), i)
    BY <1>1, <1>2, <1>4, <1>6, <2>1, EnterPlace
  <2> QED BY <1>3, <1>4, <2>2 DEF After
<1>8. ASSUME starts, NEW j, Rising(j)
      PROVE  Place(p, b, f, Then(WaitRunning, Tail(t)), j)
  <2>1. k # 20 => "running" \in Base(p, b)
    <3>1. CASE k = 3
      BY <1>2, <1>3, <3>1 DEF Present, Base, Settled
    <3>2. CASE k = 9
      BY <1>2, <1>3, <1>8, <3>2 DEF FlagAt, FlagsTell
    <3>3. CASE k = 14
      BY <1>2, <1>3, <1>8, <3>3 DEF FlagAt, FlagsTell
    <3> QED BY <3>1, <3>2, <3>3 DEF StartPositions
  <2>2. k = 20 => p \cap Options # {} \/ "server" \in f
    BY <1>3, <1>8 DEF FlagAt
  <2>3. AtStartWait(p, b, f, Then(WaitRunning, Tail(t)), j)
    BY <1>3, <1>6, <1>8, <2>1, <2>2 DEF AtStartWait
  <2> QED BY <1>1, <1>2, <2>3 DEF Place
<1> QED BY <1>5, <1>7, <1>8 DEF flag

\* The wait for a running server, after a start or a change of the primary
\* interface.
LEMMA FromWaitRunning ==
    ASSUME NEW p \in SUBSET Changes, NEW b, NEW f, NEW t, NEW i, Place(p, b, f, t, i),
           t # <<>>, Head(t).do = "waitRunning"
    PROVE  /\ i.status = "running" => Place(p, b, f, Tail(t), i)
           /\ i.status = "stopped" /\ i.asked = "none" =>
                 "primary" \in p /\ ("secureBoot" \in p \/ b # "running")
<1>1. "delete" \notin p
  BY DeleteDoes
<1>2. b \in Settled /\ FlagsTell(p, b, f)
  BY <1>1, PlaceIs
<1>3. CASE /\ Present(p, 17) /\ Tail(t) = After(p, 17)
           /\ Ready(p, b, f, 17, i) /\ NotYet(p, f, 17)
  <2>1. "primary" \in p /\ Quiet(BeforePrimary(p, b), i)
    BY <1>3 DEF Present, Ready
  <2>2. ASSUME i.status = "running" PROVE Place(p, b, f, Tail(t), i)
    <3>1. Ready(p, b, f, 18, i) /\ NotYet(p, f, 18)
      BY <1>3, <2>1, <2>2 DEF Ready, NotYet, AfterPrimary, Quiet
    <3>2. Place(p, b, f, From(p, 18), i)
      BY <1>1, <1>2, <3>1, EnterPlace
    <3> QED BY <1>3, <3>2, Afterwards
  <2>3. i.status = "stopped" => "secureBoot" \in p \/ b # "running"
    BY <2>1 DEF Quiet, BeforePrimary, Base
  <2> QED BY <2>1, <2>2, <2>3
<1>4. CASE \E k \in StartPositions :
              /\ Present(p, k) /\ Tail(t) = After(p, k)
              /\ Rising(i) /\ NotYet(p, f, k + 1)
              /\ k # 20 => "running" \in Base(p, b)
              /\ k = 20 => p \cap Options # {} \/ "server" \in f
  <2>1. PICK k \in StartPositions :
              /\ Present(p, k) /\ Tail(t) = After(p, k)
              /\ Rising(i) /\ NotYet(p, f, k + 1)
              /\ k # 20 => "running" \in Base(p, b)
              /\ k = 20 => p \cap Options # {} \/ "server" \in f
    BY <1>4
  <2>2. k \in 0..20 /\ Following(k) = k + 1 /\ k + 1 \in 0..21
    BY DEF StartPositions, Following
  <2>3. ASSUME i.status = "running" PROVE Place(p, b, f, Tail(t), i)
    <3>1. Quiet({"running"}, i)
      BY <2>1, <2>3 DEF Rising, Quiet
    <3>2. Ready(p, b, f, k + 1, i)
      <4>1. CASE k \in {3, 9, 14}
        <5>1. Quiet(Base(p, b), i)
          BY <2>1, <3>1, <4>1 DEF Quiet
        <5>2. k + 1 \in {4, 10, 15}
          BY <4>1
        <5> QED BY <5>1, <5>2 DEF Ready
      <4>2. CASE k = 20
        BY <2>1, <3>1, <4>2 DEF Ready, Quiet
      <4> QED BY <4>1, <4>2 DEF StartPositions
    <3>3. Place(p, b, f, From(p, k + 1), i)
      BY <1>1, <1>2, <2>1, <2>2, <3>2, EnterPlace
    <3> QED BY <2>1, <2>2, <3>3 DEF After
  <2> QED BY <2>1, <2>3 DEF Rising
<1> QED BY <1>1, <1>3, <1>4, PlaceByStep

LEMMA FromWaitReload ==
    ASSUME NEW p \in SUBSET Changes, NEW b, NEW f, NEW t, NEW i, Place(p, b, f, t, i),
           t # <<>>, Head(t).do = "waitReload"
    PROVE  i.status \in Settled /\ i.asked # "reinitialize" => Place(p, b, f, Tail(t), i)
<1>1. "delete" \notin p
  BY DeleteDoes
<1>2. b \in Settled /\ FlagsTell(p, b, f)
  BY <1>1, PlaceIs
<1>3. /\ Present(p, 2) /\ Tail(t) = After(p, 2)
      /\ Ready(p, b, f, 2, i) /\ NotYet(p, f, 2)
  BY <1>1, PlaceByStep
<1>4. ASSUME i.status \in Settled, i.asked # "reinitialize" PROVE Place(p, b, f, Tail(t), i)
  <2>1. Ready(p, b, f, 3, i) /\ NotYet(p, f, 3)
    BY <1>3, <1>4 DEF Ready, NotYet, Present, Reloading, Quiet, Settled
  <2>2. Place(p, b, f, From(p, 3), i)
    BY <1>1, <1>2, <2>1, EnterPlace
  <2> QED BY <1>3, <2>2, Afterwards
<1> QED BY <1>4

\* A request that needs a stopped server finds one, and what it changes of the
\* server is what is expected next.
LEMMA FromRequest ==
    ASSUME NEW p \in SUBSET Changes, NEW b, NEW f, NEW t, NEW i, Place(p, b, f, t, i),
           t # <<>>, Head(t).do = "request"
    PROVE  LET of == Head(t).of
           IN /\ of \cap NeedsStopped # {} => i.status = "stopped" /\ i.asked = "none"
              /\ \A j : /\ j.asked = (IF of \subseteq Initialization THEN "reinitialize" ELSE i.asked)
                        /\ j.status = (IF "delete" \in of THEN "deleting" ELSE i.status)
                        => Place(p, b, f, Tail(t), j)
<1>1. CASE "delete" \in p
  <2>1. /\ DeleteWait.do = "waitDeleted" /\ Find.do = "find" /\ WaitStop("delete").do = "waitStop"
    BY StepIs DEF DeleteWait, Find, Step
  <2>2. Tail(t) = Then(DeleteWait, <<>>) /\ Quiet({"stopped"}, i)
    BY <1>1, <2>1, DeletePlaceIs
  <2>3. \A j : Place(p, b, f, Tail(t), j)
    BY <1>1, <2>2 DEF Place, AtDelete, DeleteWait
  <2> QED BY <2>2, <2>3 DEF Quiet
<1>2. CASE "delete" \notin p
  <2> DEFINE of == Head(t).of
  <2>1. b \in Settled /\ FlagsTell(p, b, f)
    BY <1>2, PlaceIs
  <2>2. PICK k \in RequestPositions :
            /\ Present(p, k) /\ Tail(t) = After(p, k) /\ Ready(p, b, f, k, i) /\ NotYet(p, f, k)
            /\ of = ChangesAt(p, k)
    BY <1>2, PlaceByStep
  <2> HIDE DEF of
  <2>3. k \in 0..20 /\ Following(k) = k + 1 /\ k + 1 \in 0..21
    BY DEF RequestPositions, Following
  <2>4. /\ "delete" \notin of
        /\ of \subseteq Initialization <=> k = 1
        /\ of \cap NeedsStopped # {} => k \in {1, 6, 7, 11, 13} \/ (k = 18 /\ "secureBoot" \in p)
    BY <2>2 DEF RequestPositions, ChangesAt, Present, Initialization, Options, NeedsStopped, Interfaces
  <2>5. of \cap NeedsStopped # {} => i.status = "stopped" /\ i.asked = "none"
    <3>1. CASE k = 1
      BY <2>2, <3>1 DEF Ready, Present, Quiet
    <3>2. CASE k \in {6, 7}
      BY <2>2, <3>2 DEF Ready, Present, StoppedFor, Quiet, Physical
    <3>3. CASE k \in {11, 13}
      BY <2>2, <3>3 DEF Ready, Present, StoppedFor, Quiet, Interfaces
    <3>4. CASE k = 18 /\ "secureBoot" \in p
      <4>1. AfterPrimary(p, b) \subseteq {"stopped"}
        BY <3>4 DEF AfterPrimary, BeforePrimary
      <4> QED BY <2>2, <3>4, <4>1 DEF Ready, Quiet
    <3> QED BY <2>4, <3>1, <3>2, <3>3, <3>4
  <2>6. NotYet(p, f, k + 1)
    BY <2>2, <2>3 DEF RequestPositions, NotYet, Present
  <2>7. ASSUME NEW j, j.asked = (IF of \subseteq Initialization THEN "reinitialize" ELSE i.asked),
               j.status = (IF "delete" \in of THEN "deleting" ELSE i.status)
        PROVE  Place(p, b, f, Tail(t), j)
    <3>1. j.status = i.status /\ j.asked = IF k = 1 THEN "reinitialize" ELSE i.asked
      BY <2>4, <2>7
    <3>2. Ready(p, b, f, k + 1, j)
      <4>1. CASE k = 1
        BY <2>2, <3>1, <4>1 DEF Ready, Present, Quiet, Reloading
      <4>2. CASE k \in {6, 7, 8}
        <5>1. ASSUME NEW m \in 6..9
              PROVE  Ready(p, b, f, m, i) <=>
                         IF Physical(p) # {} THEN StoppedFor("server", p, b, f, i)
                         ELSE Quiet(Base(p, b), i)
          BY DEF Ready
        <5>2. Ready(p, b, f, k + 1, i)
          BY <2>2, <4>2, <5>1
        <5> QED BY <3>1, <4>2, <5>2 DEF Ready, Quiet, StoppedFor
      <4>3. CASE k \in {11, 13}
        <5>1. p \cap Interfaces # {} /\ k + 1 \in {12, 14}
          BY <2>2, <4>3 DEF Present, Interfaces
        <5>2. StoppedFor("interfaces", p, b, f, i)
          <6>1. CASE k = 11
            BY <2>2, <6>1 DEF Ready, Present
          <6>2. CASE k = 13
            BY <2>2, <5>1, <6>2 DEF Ready
          <6> QED BY <4>3, <6>1, <6>2
        <5>3. StoppedFor("interfaces", p, b, f, j)
          BY <3>1, <4>3, <5>2 DEF StoppedFor, Quiet
        <5>4. k = 11 => "removePciInterface" \in p
          BY <2>2 DEF Present
        <5> QED BY <4>3, <5>1, <5>3, <5>4 DEF Ready
      <4>4. CASE k \in {16, 18}
        <5>1. Ready(p, b, f, k + 1, i)
          BY <2>2, <4>4 DEF Ready, Present
        <5> QED BY <3>1, <4>4, <5>1 DEF Ready, Quiet
      <4> QED BY <4>1, <4>2, <4>3, <4>4 DEF RequestPositions
    <3>3. Place(p, b, f, From(p, k + 1), j)
      BY <1>2, <2>1, <2>3, <2>6, <3>2, EnterPlace
    <3> QED BY <2>2, <2>3, <3>3 DEF After
  <2> QED BY <2>5, <2>7 DEF of
<1> QED BY <1>1, <1>2

\* After the comparison the changes of the attachments follow, if it has seen
\* what there is to see.
LEMMA FromCompare ==
    ASSUME NEW p \in SUBSET Changes, NEW b, NEW f, NEW t, NEW i, Place(p, b, f, t, i),
           t # <<>>, Head(t).do = "compare"
    PROVE  /\ Head(t).of = p \cap Attachments /\ Tail(t) = From(p, 10)
           /\ Place(p, b, f, From(p, 5), i)
<1>1. "delete" \notin p
  BY DeleteDoes
<1>2. b \in Settled /\ FlagsTell(p, b, f)
  BY <1>1, PlaceIs
<1>3. /\ Present(p, 4) /\ Tail(t) = After(p, 4) /\ Head(t).of = p \cap Attachments
      /\ Ready(p, b, f, 4, i) /\ NotYet(p, f, 4)
  BY <1>1, PlaceByStep
<1>4. Ready(p, b, f, 5, i) /\ NotYet(p, f, 5)
  BY <1>3 DEF Ready, NotYet
<1>5. Place(p, b, f, From(p, 5), i)
  BY <1>1, <1>2, <1>4, EnterPlace
<1> QED BY <1>3, <1>5, Afterwards

\* The action and the wait for it.
LEMMA FromAction ==
    ASSUME NEW p \in SUBSET Changes, OneAction(p), NEW b, NEW f, NEW t, NEW i, Place(p, b, f, t, i),
           t # <<>>, Head(t).do = "action", NEW a \in Head(t).of
    PROVE  LET acts == IF a = "start" THEN i.status = "stopped" ELSE i.status = "running"
           IN /\ i.asked = "none"
              /\ ~acts => Place(p, b, f, Tail(t), i)
              /\ acts => \A j : j.status = i.status /\ j.asked = a =>
                            Place(p, b, f, Then(ActionWait(a), Tail(t)), j)
<1> DEFINE acts == IF a = "start" THEN i.status = "stopped" ELSE i.status = "running"
<1>1. "delete" \notin p
  BY DeleteDoes
<1>2. b \in Settled /\ FlagsTell(p, b, f)
  BY <1>1, PlaceIs
<1>3. /\ Present(p, 19) /\ Tail(t) = After(p, 19) /\ Head(t).of = p \cap Actions
      /\ Ready(p, b, f, 19, i) /\ NotYet(p, f, 19)
  BY <1>1, PlaceByStep
<1>4. a \in p /\ a \in {"stop", "start", "restart"} /\ (\A c \in p \cap Actions : c = a)
  BY <1>3 DEF OneAction, Actions
<1>5. Quiet(AfterPrimary(p, b), i) /\ AfterPrimary(p, b) \subseteq Settled
  BY <1>2, <1>3, Expectations DEF Ready
<1>6. ASSUME ~acts PROVE Place(p, b, f, Tail(t), i)
  <2>1. Ready(p, b, f, 20, i)
    <3>1. CASE a = "stop"
      <4>1. "restart" \notin p /\ AfterAction(p, b) = {"stopped"}
        BY <1>4, <3>1 DEF Actions, AfterAction
      <4> QED BY <1>5, <1>6, <3>1, <4>1 DEF Ready, Quiet, Settled
    <3>2. CASE a = "start"
      <4>1. "restart" \notin p /\ AfterAction(p, b) = {"running"}
        BY <1>4, <3>2 DEF Actions, AfterAction
      <4> QED BY <1>5, <1>6, <3>2, <4>1 DEF Ready, Quiet, Settled
    <3>3. CASE a = "restart"
      BY <1>4, <1>5, <1>6, <3>3 DEF Ready, Quiet, Settled
    <3> QED BY <1>4, <3>1, <3>2, <3>3
  <2>2. NotYet(p, f, 20)
    BY <1>3 DEF NotYet
  <2>3. Place(p, b, f, From(p, 20), i)
    BY <1>1, <1>2, <2>1, <2>2, EnterPlace
  <2> QED BY <1>3, <2>3, Afterwards
<1>7. ASSUME acts, NEW j, j.status = i.status, j.asked = a
      PROVE  Place(p, b, f, Then(ActionWait(a), Tail(t)), j)
  <2>1. Acting(a, j)
    BY <1>4, <1>7 DEF Acting, Halting, Rising, Restarting
  <2>2. AtActionWait(p, b, f, Then(ActionWait(a), Tail(t)), j)
    BY <1>3, <1>4, <2>1 DEF AtActionWait
  <2> QED BY <1>1, <1>2, <2>2 DEF Place
<1> QED BY <1>5, <1>6, <1>7 DEF Quiet

LEMMA FromActionWait ==
    ASSUME NEW p \in SUBSET Changes, OneAction(p), NEW b, NEW f, NEW t, NEW i, Place(p, b, f, t, i),
           t # <<>>, Head(t).do = "waitAction"
    PROVE  i.status = (IF Head(t).of = {"stop"} THEN "stopped" ELSE "running") => Place(p, b, f, Tail(t), i)
<1>1. "delete" \notin p
  BY DeleteDoes
<1>2. b \in Settled /\ FlagsTell(p, b, f)
  BY <1>1, PlaceIs
<1>3. PICK a \in p \cap Actions :
         /\ Tail(t) = After(p, 19) /\ Head(t).of = {a}
         /\ Acting(a, i)
  BY <1>1, PlaceByStep, Z3T(60)
<1>4. a \in {"stop", "start", "restart"} /\ (\A c \in p \cap Actions : c = a)
  BY <1>3 DEF OneAction, Actions
<1>5. ASSUME i.status = (IF Head(t).of = {"stop"} THEN "stopped" ELSE "running")
      PROVE  Place(p, b, f, Tail(t), i)
  <2>1. Ready(p, b, f, 20, i)
    <3>1. CASE a = "stop"
      <4>1. "restart" \notin p /\ AfterAction(p, b) = {"stopped"}
        BY <1>3, <1>4, <3>1 DEF Actions, AfterAction
      <4> QED BY <1>3, <1>5, <3>1, <4>1 DEF Ready, Acting, Quiet, Halting
    <3>2. CASE a = "start"
      <4>1. "restart" \notin p /\ AfterAction(p, b) = {"running"}
        BY <1>3, <1>4, <3>2 DEF Actions, AfterAction
      <4> QED BY <1>3, <1>5, <3>2, <4>1 DEF Ready, Acting, Quiet, Rising
    <3>3. CASE a = "restart"
      BY <1>3, <3>3 DEF Ready, Acting
    <3> QED BY <1>4, <3>1, <3>2, <3>3
  <2>2. NotYet(p, f, 20)
    BY DEF NotYet
  <2>3. Place(p, b, f, From(p, 20), i)
    BY <1>1, <1>2, <2>1, <2>2, EnterPlace
  <2> QED BY <1>3, <2>3, Afterwards
<1> QED BY <1>5

LEMMA FromFind ==
    ASSUME NEW p \in SUBSET Changes, NEW b, NEW f, NEW t, NEW i, Place(p, b, f, t, i),
           t # <<>>, Head(t).do = "find"
    PROVE  /\ "delete" \in p /\ Quiet(Settled, i)
           /\ i.status = "stopped" => Place(p, b, f, Tail(t), i)
           /\ \A j : Halting(j) => Place(p, b, f, Then(WaitStop("delete"), Tail(t)), j)
<1>1. "delete" \in p
  BY PlaceByStep
<1>2. DeleteWait.do = "waitDeleted" /\ WaitStop("delete").do = "waitStop"
      /\ RequestStep({"delete"}).do = "request"
  BY StepIs DEF DeleteWait, Step
<1>3. Tail(t) = Then(RequestStep({"delete"}), Then(DeleteWait, <<>>)) /\ Quiet(Settled, i)
  BY <1>1, <1>2, DeletePlaceIs
<1>4. i.status = "stopped" => Quiet({"stopped"}, i)
  BY <1>3 DEF Quiet
<1> QED BY <1>1, <1>3, <1>4 DEF Place, AtDelete, DeleteWait

\* A place is kept by whatever the service does meanwhile.
Moves(i, j) ==
    \/ i.asked = "stop" /\ j.status = "stopping" /\ j.asked = "none"
    \/ i.asked = "start" /\ j.status = "starting" /\ j.asked = "none"
    \/ i.asked = "restart" /\ j.status = "restarting" /\ j.asked = "none"
    \/ i.asked = "reinitialize" /\ j.status = "reinitializing" /\ j.asked = "none"
    \/ i.status = "stopping" /\ j.status = "stopped" /\ j.asked = i.asked
    \/ i.status \in {"starting", "restarting"} /\ j.status = "running" /\ j.asked = i.asked
    \/ i.status = "reinitializing" /\ j.status \in {"running", "stopped"} /\ j.asked = i.asked
    \/ i.status = "deleting" /\ j.status = "absent" /\ j.asked = i.asked

LEMMA Evolution ==
    ASSUME NEW i, NEW j, Moves(i, j)
    PROVE  /\ Halting(i) => Halting(j)
           /\ Rising(i) => Rising(j)
           /\ Restarting(i) => Restarting(j)
           /\ Reloading(i) => Reloading(j)
           /\ \A S \in SUBSET Settled : ~Quiet(S, i)
<1>1. Halting(i) => Halting(j)
  BY DEF Moves, Halting
<1>2. Rising(i) => Rising(j)
  BY DEF Moves, Rising
<1>3. Restarting(i) => Restarting(j)
  BY DEF Moves, Restarting
<1>4. Reloading(i) => Reloading(j)
  BY DEF Moves, Reloading
<1>5. \A S \in SUBSET Settled : ~Quiet(S, i)
  BY DEF Moves, Quiet, Settled
<1> QED BY <1>1, <1>2, <1>3, <1>4, <1>5

LEMMA ReadyEvolves ==
    ASSUME NEW p, NEW b \in Settled, NEW f, NEW k \in 0..21, NEW i, NEW j, Moves(i, j), Ready(p, b, f, k, i)
    PROVE  Ready(p, b, f, k, j)
<1> DEFINE last == IF p \cap Options # {} \/ "server" \in f THEN {"running"} ELSE AfterAction(p, b)
<1>1. /\ ~Quiet({b}, i) /\ ~Quiet({"stopped"}, i) /\ ~Quiet(Settled, i) /\ ~Quiet(Base(p, b), i)
      /\ ~Quiet(BeforePrimary(p, b), i) /\ ~Quiet(AfterPrimary(p, b), i) /\ ~Quiet(AfterAction(p, b), i)
      /\ ~Quiet(last, i)
  <2>1. /\ {b} \in SUBSET Settled /\ {"stopped"} \in SUBSET Settled /\ Settled \in SUBSET Settled
        /\ Base(p, b) \in SUBSET Settled /\ BeforePrimary(p, b) \in SUBSET Settled
        /\ AfterPrimary(p, b) \in SUBSET Settled /\ AfterAction(p, b) \in SUBSET Settled
    BY Expectations DEF Settled
  <2>2. last \in SUBSET Settled
    BY <2>1 DEF Settled
  <2> HIDE DEF last
  <2> QED BY <2>1, <2>2, Evolution
<1>2. k \in {2, 20, 21}
  <2>1. ~StoppedFor("server", p, b, f, i) /\ ~StoppedFor("interfaces", p, b, f, i)
    BY <1>1 DEF StoppedFor
  <2> HIDE DEF last
  <2> QED BY <1>1, <2>1 DEF Ready
<1>3. CASE k = 2
  <2>1. p \cap Initialization # {} /\ Reloading(i) /\ (b = "running" => "initialization" \in f)
    BY <1>1, <1>3 DEF Ready
  <2> QED BY <1>3, <2>1, Evolution DEF Ready
<1>4. CASE k = 20
  <2>1. "restart" \in p /\ Restarting(i)
    BY <1>1, <1>4 DEF Ready
  <2> QED BY <1>4, <2>1, Evolution DEF Ready
<1>5. CASE k = 21
  <2>1. "restart" \in p
    BY <1>1, <1>5 DEF Ready
  <2> QED BY <1>5, <2>1 DEF Ready
<1> QED BY <1>2, <1>3, <1>4, <1>5

LEMMA PlaceEvolves ==
    ASSUME NEW p, NEW b, NEW f, NEW t, NEW i, NEW j, Place(p, b, f, t, i), Moves(i, j)
    PROVE  Place(p, b, f, t, j)
<1>1. CASE "delete" \in p
  <2>1. ~Quiet({"stopped"}, i) /\ ~Quiet(Settled, i)
    BY Evolution DEF Settled
  <2>2. Halting(i) => Halting(j)
    BY Evolution
  <2> QED BY <1>1, <2>1, <2>2 DEF Place, AtDelete
<1>2. CASE "delete" \notin p
  <2>1. b \in Settled /\ FlagsTell(p, b, f)
    BY <1>2 DEF Place
  <2>2. AtStep(p, b, f, t, i) => AtStep(p, b, f, t, j)
    <3>1. \A k \in 0..20 : Ready(p, b, f, k, i) => Ready(p, b, f, k, j)
      BY <2>1, ReadyEvolves
    <3> QED BY <3>1 DEF AtStep
  <2>3. AtStopWait(p, b, f, t, i) => AtStopWait(p, b, f, t, j)
    BY Evolution DEF AtStopWait
  <2>4. AtStartWait(p, b, f, t, i) => AtStartWait(p, b, f, t, j)
    BY Evolution DEF AtStartWait
  <2>5. AtActionWait(p, b, f, t, i) => AtActionWait(p, b, f, t, j)
    <3>1. \A a : Acting(a, i) => Acting(a, j)
      BY Evolution DEF Acting
    <3> QED BY <3>1 DEF AtActionWait
  <2>6. AtEnd(p, b, f, t, i) => AtEnd(p, b, f, t, j)
    BY <2>1, ReadyEvolves DEF AtEnd
  <2> QED BY <1>2, <2>1, <2>2, <2>3, <2>4, <2>5, <2>6 DEF Place
<1> QED BY <1>1, <1>2

\* An update that has nothing more before it is at its end.
LEMMA EndIs ==
    ASSUME NEW p \in SUBSET Changes, "delete" \notin p, NEW b, NEW f, NEW i, Place(p, b, f, <<>>, i)
    PROVE  b \in Settled /\ FlagsTell(p, b, f) /\ Ready(p, b, f, 21, i)
<1>1. b \in Settled /\ FlagsTell(p, b, f)
  BY DEF Place
<1>2. \A s \in Steps, k \in 0..20 : Then(s, After(p, k)) # <<>>
  BY AfterTypes, ThenIs
<1>3. ~AtStep(p, b, f, <<>>, i)
  <2>1. \A k \in 0..20 : Present(p, k) => StepAt(p, k) \in Steps
    BY PositionTypes, StepsOfSteps
  <2> QED BY <1>2, <2>1 DEF AtStep
<1>4. ~AtStopWait(p, b, f, <<>>, i)
  <2>1. ASSUME NEW k \in StopPositions PROVE k \in 0..20 /\ WaitStop(StepAt(p, k).flag) \in Steps
    <3>1. k \in 0..20 /\ FlagAt(p, k) \in Flags
      BY DEF StopPositions, FlagAt, Flags
    <3>2. StepAt(p, k) = StopStep(FlagAt(p, k))
      BY <3>1, Positions
    <3> QED BY <3>1, <3>2, StepIs, StepTypes
  <2> QED BY <1>2, <2>1 DEF AtStopWait
<1>5. ~AtStartWait(p, b, f, <<>>, i)
  <2>1. StartPositions \subseteq 0..20 /\ WaitRunning \in Steps
    BY StepTypes DEF StartPositions
  <2> QED BY <1>2, <2>1 DEF AtStartWait
<1>6. ~AtActionWait(p, b, f, <<>>, i)
  <2>1. \A a \in p \cap Actions : ActionWait(a) \in Steps
    BY StepTypes
  <2> QED BY <1>2, <2>1 DEF AtActionWait
<1> QED BY <1>1, <1>3, <1>4, <1>5, <1>6 DEF Place, AtEnd

-----------------------------------------------------------------------------
(* Types *)

LEMMA StepFields ==
    ASSUME NEW s \in Steps
    PROVE  /\ s.flag \in Flags \cup {"", "always", "delete"}
           /\ s.of \subseteq Changes
           /\ s.do = "stop" => s.flag \in Flags
           /\ s.do = "waitStop" => s.flag \in Flags \cup {"delete"}
           /\ s.do = "compare" => s.of \subseteq Attachments
           /\ s.do = "action" => s.of \subseteq Actions
BY DEF Steps, Changes, Attachments, Actions

LEMMA Fewer == ASSUME NEW x, NEW y, x \subseteq y, OneAction(y) PROVE OneAction(x)
BY DEF OneAction

LEMMA HeadTypes ==
    ASSUME TodoInv, todo # <<>>
    PROVE  /\ Head(todo) \in Steps /\ Tail(todo) \in Seq(StepsOf(plan)) /\ Tail(todo) \in Seq(Steps)
           /\ Tail(todo) # <<>> => /\ Head(Tail(todo)) \in StepsOf(plan)
                                   /\ Tail(Tail(todo)) \in Seq(StepsOf(plan))
<1>1. Head(todo) \in Steps /\ Tail(todo) \in Seq(StepsOf(plan))
  BY DEF TodoInv
<1>2. \A u \in Seq(StepsOf(plan)) : u \in Seq(Steps)
  BY StepsOfSteps
<1>3. \A u \in Seq(StepsOf(plan)) :
         u # <<>> => Head(u) \in StepsOf(plan) /\ Tail(u) \in Seq(StepsOf(plan))
  OBVIOUS
<1> QED BY <1>1, <1>2, <1>3

\* The three ways in which a handler goes on.
LEMMA GoesOn ==
    ASSUME TodoInv, todo # <<>>, Tail(todo) = todo', plan' = plan
    PROVE  TodoInv' /\ (At("waitRunning")' => "primary" \in plan')
<1>1. todo' \in Seq(Steps) /\ (todo' # <<>> => Tail(todo') \in Seq(StepsOf(plan)))
  BY HeadTypes
<1>2. todo' # <<>> /\ Head(todo').do = "waitRunning" => "primary" \in plan
  <2>1. todo' # <<>> => Head(todo') \in StepsOf(plan)
    BY HeadTypes
  <2> QED BY <2>1 DEF StepsOf
<1> QED BY <1>1, <1>2 DEF TodoInv, At

LEMMA GoesOnWith ==
    ASSUME TodoInv, todo # <<>>, NEW s \in Steps, todo' = Then(s, Tail(todo)), plan' = plan
    PROVE  TodoInv' /\ todo' # <<>> /\ Head(todo') = s /\ Tail(todo') = Tail(todo)
<1>1. Tail(todo) \in Seq(StepsOf(plan)) /\ Tail(todo) \in Seq(Steps)
  BY HeadTypes
<1>2. todo' \in Seq(Steps) /\ todo' # <<>> /\ Head(todo') = s /\ Tail(todo') = Tail(todo)
  BY <1>1, ThenIs
<1> QED BY <1>1, <1>2 DEF TodoInv

LEMMA Ends == ASSUME todo' = <<>> PROVE TodoInv' /\ ~At("waitRunning")'
BY DEF TodoInv, At

LEMMA InitTypes == ASSUME Init PROVE ValuesInv /\ TodoInv /\ ActionInv
<1>1. left \subseteq Changes /\ known = left /\ plan = {}
  BY PlansAssumption DEF Init
<1>2. OneAction(left) /\ OneAction(known) /\ OneAction(plan)
  BY <1>1, ActionAssumption DEF Init, OneAction
<1>3. ValuesInv
  BY <1>1, BoundAssumption DEF Init, ValuesInv, Statuses
<1>4. TodoInv
  BY DEF Init, TodoInv
<1> QED BY <1>2, <1>3, <1>4 DEF ActionInv

LEMMA FaultTypes == ASSUME faults \in 0..MaxFaults, Fault PROVE faults' \in 0..MaxFaults
BY BoundAssumption DEF Fault

LEMMA ContinueTypes ==
    ASSUME ValuesInv, ActionInv, NEW u, Continue(u), left' \subseteq left
    PROVE  /\ left' \subseteq Changes /\ known' \subseteq Changes /\ plan' \subseteq Changes
           /\ outcome' \in {"none", "ok", "refused", "error", "timedOut"} /\ began' \in Statuses
           /\ ActionInv'
<1>1. /\ left' \subseteq Changes /\ known' \subseteq Changes /\ plan' \subseteq Changes
      /\ outcome' \in {"none", "ok", "refused", "error", "timedOut"} /\ began' \in Statuses
  BY DEF Continue, ValuesInv
<1>2. (known' = known \/ known' \subseteq left) /\ plan' = plan
  BY DEF Continue
<1> QED BY <1>1, <1>2, Fewer DEF ActionInv

LEMMA EndTypes ==
    ASSUME ValuesInv, ActionInv, NEW result, End(result),
           result \in {"none", "ok", "refused", "error", "timedOut"}
    PROVE  /\ left' \subseteq Changes /\ known' \subseteq Changes /\ plan' \subseteq Changes
           /\ outcome' \in {"none", "ok", "refused", "error", "timedOut"} /\ began' \in Statuses
           /\ stopped' = stopped /\ cause' = cause /\ ActionInv'
<1>1. /\ left' = left /\ known' \subseteq left /\ plan' = plan /\ outcome' = result /\ began' = began
      /\ stopped' = stopped /\ cause' = cause
  BY DEF End
<1> QED BY <1>1, Fewer DEF ActionInv, ValuesInv

LEMMA ValuesStep ==
    ASSUME ValuesInv, TodoInv, ActionInv, [Next]_vars
    PROVE  ValuesInv' /\ ActionInv'
<1> DEFINE Rest == /\ stopped' \subseteq Flags
                   /\ cause' \subseteq {"race", "gaveUp", "early", "moving", "ignored"}
                   /\ status' \in Statuses
                   /\ asked' \in {"none", "stop", "start", "restart", "reinitialize"}
                   /\ faults' \in 0..MaxFaults
<1>1. ASSUME NEW u, Continue(u), left' \subseteq left, Rest PROVE ValuesInv' /\ ActionInv'
  BY <1>1, ContinueTypes DEF ValuesInv
<1>2. ASSUME NEW result, End(result), result \in {"none", "ok", "refused", "error", "timedOut"},
             UNCHANGED service, faults' \in 0..MaxFaults
      PROVE  ValuesInv' /\ ActionInv'
  BY <1>2, EndTypes DEF ValuesInv, service
<1>3. CASE Apply
  <2>1. ValuesInv'
    BY <1>3 DEF Apply, ValuesInv, service
  <2>2. ActionInv'
    BY <1>3 DEF Apply, ActionInv
  <2> QED BY <2>1, <2>2
<1>4. CASE StopServer
  <2>1. left' = left /\ Rest
    <3>1. Head(todo).flag \in Flags
      BY <1>4, HeadTypes, StepFields DEF StopServer, At
    <3> QED BY <1>4, <3>1 DEF StopServer, ValuesInv
  <2>2. \E u : Continue(u)
    BY <1>4 DEF StopServer, Advance
  <2> HIDE DEF Rest
  <2> QED BY <1>1, <2>1, <2>2
<1>5. CASE StopLost
  <2>1. left' = left /\ Rest
    <3>1. Head(todo).flag \in Flags
      BY <1>5, HeadTypes, StepFields DEF StopLost, At
    <3> QED BY <1>5, <3>1, FaultTypes DEF StopLost, ValuesInv, service
  <2>2. \E u : Continue(u)
    BY <1>5 DEF StopLost
  <2> HIDE DEF Rest
  <2> QED BY <1>1, <2>1, <2>2
<1>6. CASE Stopped \/ ServerRuns \/ ActionDone
  <2>1. left' = left /\ Rest
    BY <1>6 DEF Stopped, ServerRuns, ActionDone, ValuesInv, service
  <2>2. \E u : Continue(u)
    BY <1>6 DEF Stopped, ServerRuns, ActionDone, Advance
  <2> HIDE DEF Rest
  <2> QED BY <1>1, <2>1, <2>2
<1>7. CASE StopGivenUp
  <2>1. faults' \in 0..MaxFaults
    BY <1>7, FaultTypes DEF StopGivenUp, ValuesInv
  <2>2. CASE Head(todo).flag = "delete"
    BY <1>2, <1>7, <2>1, <2>2 DEF StopGivenUp
  <2>3. CASE Head(todo).flag # "delete"
    <3>1. left' = left /\ Rest
      BY <1>7, <2>1, <2>3 DEF StopGivenUp, ValuesInv, service
    <3>2. \E u : Continue(u)
      BY <1>7, <2>3 DEF StopGivenUp, Advance
    <3> HIDE DEF Rest
    <3> QED BY <1>1, <3>1, <3>2
  <2> QED BY <2>2, <2>3
<1>8. CASE StartServer
  <2>1. left' = left /\ Rest
    BY <1>8 DEF StartServer, Advance, Continue, ValuesInv
  <2>2. \E u : Continue(u)
    BY <1>8 DEF StartServer, Advance
  <2> HIDE DEF Rest
  <2> QED BY <1>1, <2>1, <2>2
<1>9. CASE WaitFails
  <2>1. faults' \in 0..MaxFaults
    BY <1>9, FaultTypes DEF WaitFails, ValuesInv
  <2> QED BY <1>2, <1>9, <2>1 DEF WaitFails
<1>10. CASE Reloaded
  <2>1. left' = left /\ Rest
    BY <1>10 DEF Reloaded, ValuesInv, service
  <2>2. \E u : Continue(u)
    BY <1>10 DEF Reloaded, Advance
  <2> HIDE DEF Rest
  <2> QED BY <1>1, <2>1, <2>2
<1>11. CASE SendRequest
  <2>1. left' \subseteq left /\ Rest
    BY <1>11 DEF SendRequest, ValuesInv, Statuses
  <2>2. \E u : Continue(u)
    BY <1>11 DEF SendRequest, Advance
  <2> HIDE DEF Rest
  <2> QED BY <1>1, <2>1, <2>2
<1>12. CASE RequestRefused
  <2>1. faults' \in 0..MaxFaults
    BY <1>12 DEF RequestRefused, ValuesInv
  <2> QED BY <1>2, <1>12, <2>1 DEF RequestRefused
<1>13. CASE RequestFails
  <2>1. faults' \in 0..MaxFaults
    BY <1>13, FaultTypes DEF RequestFails, ValuesInv
  <2> QED BY <1>2, <1>13, <2>1 DEF RequestFails
<1>14. CASE CompareAttachments
  <2>1. left' = left /\ Rest
    BY <1>14 DEF CompareAttachments, ValuesInv, service
  <2>2. \E u : Continue(u)
    BY <1>14 DEF CompareAttachments
  <2> HIDE DEF Rest
  <2> QED BY <1>1, <2>1, <2>2
<1>15. CASE DoAction
  <2>1. left' \subseteq left /\ Rest
    <3>1. Head(todo).of \subseteq Actions
      BY <1>15, HeadTypes, StepFields DEF DoAction, At
    <3> QED BY <1>15, <3>1, FaultTypes DEF DoAction, ValuesInv, Actions
  <2>2. \E u : Continue(u)
    BY <1>15 DEF DoAction, Advance
  <2> HIDE DEF Rest
  <2> QED BY <1>1, <2>1, <2>2
<1>16. CASE ActionGivenUp
  <2>1. left' = left /\ Rest
    BY <1>16, FaultTypes DEF ActionGivenUp, ValuesInv, service
  <2>2. \E u : Continue(u)
    BY <1>16 DEF ActionGivenUp, Advance
  <2> HIDE DEF Rest
  <2> QED BY <1>1, <2>1, <2>2
<1>17. CASE FindServer
  <2>1. left' \subseteq left /\ Rest
    BY <1>17 DEF FindServer, ValuesInv
  <2>2. \E u : Continue(u)
    BY <1>17 DEF FindServer, Advance
  <2> HIDE DEF Rest
  <2> QED BY <1>1, <2>1, <2>2
<1>18. CASE ServerDeleted
  <2>1. left' \subseteq left /\ Rest
    BY <1>18 DEF ServerDeleted, ValuesInv, service
  <2>2. \E u : Continue(u)
    BY <1>18 DEF ServerDeleted, Advance
  <2> HIDE DEF Rest
  <2> QED BY <1>1, <2>1, <2>2
<1>19. CASE Begin
  <2>1. ValuesInv'
    BY <1>19 DEF Begin, ValuesInv, Statuses
  <2> QED BY <1>19, <2>1 DEF Begin, ActionInv
<1>20. CASE Progress
  <2>1. ValuesInv'
    BY <1>20 DEF Progress, ValuesInv, Statuses
  <2> QED BY <1>20, <2>1 DEF Progress, ActionInv
<1>21. CASE UNCHANGED vars
  BY <1>21 DEF vars, ValuesInv, ActionInv
<1> QED BY <1>3, <1>4, <1>5, <1>6, <1>7, <1>8, <1>9, <1>10, <1>11, <1>12, <1>13, <1>14, <1>15, <1>16,
           <1>17, <1>18, <1>19, <1>20, <1>21 DEF Next, Handler

\* What the comparison of the attachments puts before the other steps.
Five(a, b, c, d, e, u) == a \o b \o c \o d \o e \o u

LEMMA FiveJoined ==
    ASSUME NEW S, NEW a \in Seq(S), NEW b \in Seq(S), NEW c \in Seq(S), NEW d \in Seq(S), NEW e \in Seq(S),
           NEW u \in Seq(S)
    PROVE  /\ Five(a, b, c, d, e, u) \in Seq(S)
           /\ Five(a, b, c, d, e, u) = Joined(a, Joined(b, Joined(c, Joined(d, Joined(e, u)))))
<1>1. \A s, t, v \in Seq(S) :
          Joined(s, t) \in Seq(S) /\ Joined(Joined(s, t), v) = Joined(s, Joined(t, v))
  BY JoinedOnce
<1>2. Five(a, b, c, d, e, u) = Joined(Joined(Joined(Joined(Joined(a, b), c), d), e), u)
  BY DEF Five, Joined
<1> DEFINE v == Joined(e, u)
           w == Joined(d, v)
           x == Joined(c, w)
           k == Joined(a, b)
           l == Joined(k, c)
           m == Joined(l, d)
<1>3. v \in Seq(S) /\ w \in Seq(S) /\ x \in Seq(S) /\ k \in Seq(S) /\ l \in Seq(S) /\ m \in Seq(S)
  BY <1>1
<1>4. Joined(Joined(m, e), u) = Joined(m, v) /\ Joined(m, e) \in Seq(S)
  BY <1>1, <1>3
<1>5. Joined(m, v) = Joined(l, w) /\ Joined(m, v) \in Seq(S)
  BY <1>1, <1>3
<1>6. Joined(l, w) = Joined(k, x)
  BY <1>1, <1>3
<1>7. Joined(k, x) = Joined(a, Joined(b, x))
  BY <1>1, <1>3
<1> QED BY <1>2, <1>4, <1>5, <1>6, <1>7

Compared(ch, needed, u) ==
    Five(When(needed, Stop("server")), When("removePci" \in ch, Request({"removePci"})),
         When("addPci" \in ch, Request({"addPci"})), When("vlan" \in ch, Request({"vlan"})),
         When(needed, StartIf("server")), u)

LEMMA ComparedTypes ==
    ASSUME NEW p, NEW ch, NEW needed, NEW u \in Seq(StepsOf(p))
    PROVE  Compared(ch, needed, u) \in Seq(StepsOf(p))
<1>1. /\ Step("stop", "server", {}) \in StepsOf(p) /\ Step("start", "server", {}) \in StepsOf(p)
      /\ Step("request", "", {"removePci"}) \in StepsOf(p) /\ Step("request", "", {"addPci"}) \in StepsOf(p)
      /\ Step("request", "", {"vlan"}) \in StepsOf(p)
  BY DEF Step, Steps, StepsOf, Flags, Changes, Attachments
<1>2. \A s \in StepsOf(p) : \A c : When(c, <<s>>) \in Seq(StepsOf(p))
  BY DEF When
<1>3. /\ When(needed, Stop("server")) \in Seq(StepsOf(p))
      /\ When("removePci" \in ch, Request({"removePci"})) \in Seq(StepsOf(p))
      /\ When("addPci" \in ch, Request({"addPci"})) \in Seq(StepsOf(p))
      /\ When("vlan" \in ch, Request({"vlan"})) \in Seq(StepsOf(p))
      /\ When(needed, StartIf("server")) \in Seq(StepsOf(p))
  BY <1>1, <1>2 DEF Stop, StartIf, Request
<1> QED BY <1>3, FiveJoined DEF Compared

LEMMA ComparedIs ==
    ASSUME NEW p \in SUBSET Changes
    PROVE  Compared(p \cap Attachments, Physical(p) # {}, From(p, 10)) = From(p, 5)
<1> DEFINE n == Physical(p) # {}
           a == When(n, Stop("server"))
           b == When("removePci" \in p, Request({"removePci"}))
           c == When("addPci" \in p, Request({"addPci"}))
           d == When("vlan" \in p, Request({"vlan"}))
           e == When(n, StartIf("server"))
           u == From(p, 10)
<1>1. Compared(p \cap Attachments, n, u) = Five(a, b, c, d, e, u)
  <2>1. /\ When("removePci" \in p \cap Attachments, Request({"removePci"})) = b
        /\ When("addPci" \in p \cap Attachments, Request({"addPci"})) = c
        /\ When("vlan" \in p \cap Attachments, Request({"vlan"})) = d
    BY DEF When, Attachments
  <2> HIDE DEF b, c, d
  <2> QED BY <2>1 DEF Compared
<1>2. a = Slot(p, 5) /\ b = Slot(p, 6) /\ c = Slot(p, 7) /\ d = Slot(p, 8) /\ e = Slot(p, 9)
  BY DEF Slot, Present, StepAt, FlagAt, ChangesAt, StopPositions, StartPositions,
       RequestPositions, Stop, Request, StartIf, StopStep, RequestStep, StartStep
<1>3. \A k \in 0..21 : From(p, k) \in Seq(Steps)
  <2>1. \A s \in Seq(StepsOf(p)) : s \in Seq(Steps)
    BY DEF StepsOf
  <2> QED BY <2>1, FromTypes
<1>4. a \in Seq(Steps) /\ b \in Seq(Steps) /\ c \in Seq(Steps) /\ d \in Seq(Steps) /\ e \in Seq(Steps)
  <2>1. /\ Stop("server") \in Seq(Steps) /\ StartIf("server") \in Seq(Steps) /\ <<>> \in Seq(Steps)
        /\ Request({"removePci"}) \in Seq(Steps) /\ Request({"addPci"}) \in Seq(Steps)
        /\ Request({"vlan"}) \in Seq(Steps)
    BY Singletons DEF Flags, Changes, Attachments
  <2> QED BY <2>1 DEF When
<1>5. /\ Joined(Slot(p, 9), From(p, 10)) = From(p, 9) /\ Joined(Slot(p, 8), From(p, 9)) = From(p, 8)
      /\ Joined(Slot(p, 7), From(p, 8)) = From(p, 7) /\ Joined(Slot(p, 6), From(p, 7)) = From(p, 6)
      /\ Joined(Slot(p, 5), From(p, 6)) = From(p, 5)
  <2>1. \A k \in 0..20 : Joined(Slot(p, k), From(p, Following(k))) = From(p, k)
    BY FromJoined DEF After
  <2>2. \A k \in 5..9 : Joined(Slot(p, k), From(p, k + 1)) = From(p, k)
    BY <2>1 DEF Following
  <2> QED BY <2>2
<1>6. u \in Seq(Steps)
  BY <1>3
<1> HIDE DEF a, b, c, d, e
<1>7. Five(a, b, c, d, e, u) = Joined(a, Joined(b, Joined(c, Joined(d, Joined(e, u)))))
  <2> HIDE DEF u
  <2> QED BY <1>4, <1>6, FiveJoined
<1> QED BY <1>1, <1>2, <1>5, <1>7

-----------------------------------------------------------------------------
(* What a handler has before it, after each step *)

LEMMA ServiceMoves ==
    ASSUME ValuesInv
    PROVE  /\ Begin \/ Progress => Moves(Server, Server')
           /\ UNCHANGED service => Server' = Server
           /\ Server.status = status /\ Server.asked = asked
           /\ Server'.status = status' /\ Server'.asked = asked'
<1>1. /\ Server.status = status /\ Server.asked = asked
      /\ Server'.status = status' /\ Server'.asked = asked'
  BY DEF Server
<1>2. UNCHANGED service => Server' = Server
  BY DEF Server, service
<1>3. Begin => Moves(Server, Server')
  BY <1>1 DEF Begin, Moves, ValuesInv
<1>4. Progress => Moves(Server, Server')
  BY <1>1 DEF Progress, Moves
<1> QED BY <1>1, <1>2, <1>3, <1>4

Onward == TodoInv /\ OutcomeInv /\ WaitInv

LEMMA AdvanceTodo == ASSUME Onward, todo # <<>>, Advance PROVE Onward'
<1>1. todo' = Tail(todo) /\ plan' = plan /\ (todo' # <<>> => outcome' = outcome)
  BY DEF Advance, Continue
<1>2. TodoInv' /\ (At("waitRunning")' => "primary" \in plan')
  BY <1>1, GoesOn DEF Onward
<1>3. OutcomeInv'
  BY <1>1 DEF Onward, OutcomeInv
<1> QED BY <1>2, <1>3 DEF Onward, WaitInv

LEMMA ContinueTodo ==
    ASSUME Onward, todo # <<>>, NEW s \in Steps, Continue(Then(s, Tail(todo))),
           s.do = "waitRunning" => Rising(Server')
    PROVE  Onward'
<1>1. todo' = Then(s, Tail(todo)) /\ plan' = plan /\ (todo' # <<>> => outcome' = outcome)
  BY DEF Continue
<1>2. TodoInv' /\ todo' # <<>> /\ Head(todo') = s
  BY <1>1, GoesOnWith DEF Onward
<1>3. OutcomeInv'
  BY <1>1 DEF Onward, OutcomeInv
<1>4. WaitInv'
  BY <1>2 DEF WaitInv, At
<1> QED BY <1>2, <1>3, <1>4 DEF Onward

LEMMA EndTodo == ASSUME todo' = <<>> PROVE Onward'
BY Ends DEF Onward, OutcomeInv, WaitInv

LEMMA TodoStep ==
    ASSUME ValuesInv, Onward, [Next]_vars
    PROVE  Onward'
<1>1. CASE Apply
  <2>1. todo' = Program(known) /\ plan' = known /\ known \in SUBSET Changes /\ outcome' = "none"
    BY <1>1 DEF Apply, ValuesInv
  <2>2. todo' \in Seq(StepsOf(plan')) /\ todo' # <<>>
    BY <2>1, ProgramTypes
  <2>3. Head(todo') \in StepsOf(plan') /\ Tail(todo') \in Seq(StepsOf(plan')) /\ todo' \in Seq(Steps)
    <3>1. \A u \in Seq(StepsOf(plan')) : u \in Seq(Steps)
      BY DEF StepsOf
    <3> QED BY <2>2, <3>1
  <2>4. TodoInv'
    BY <2>3 DEF TodoInv
  <2>5. WaitInv'
    BY <2>3 DEF WaitInv, At, StepsOf
  <2> QED BY <2>1, <2>4, <2>5 DEF Onward, OutcomeInv
<1>2. CASE StopServer \/ StopLost
  <2>1. todo # <<>> /\ Head(todo).do = "stop" /\ Head(todo).flag \in Flags
    BY <1>2, HeadTypes, StepFields DEF StopServer, StopLost, At, Onward
  <2>2. WaitStop(Head(todo).flag) \in Steps /\ WaitStop(Head(todo).flag).do = "waitStop"
    BY <2>1, StepTypes, StepIs
  <2>3. Advance \/ Continue(Then(WaitStop(Head(todo).flag), Tail(todo)))
    BY <1>2 DEF StopServer, StopLost, Then, WaitStop
  <2> QED BY <2>1, <2>2, <2>3, AdvanceTodo, ContinueTodo
<1>3. CASE Stopped \/ ServerRuns \/ ActionDone \/ ActionGivenUp \/ Reloaded \/ SendRequest \/ ServerDeleted
  <2>1. todo # <<>> /\ Advance
    BY <1>3 DEF Stopped, ServerRuns, ActionDone, ActionGivenUp, Reloaded, SendRequest, ServerDeleted, At
  <2> QED BY <2>1, AdvanceTodo
<1>4. CASE StopGivenUp
  <2>1. todo # <<>> /\ (Advance \/ todo' = <<>>)
    BY <1>4 DEF StopGivenUp, At, End
  <2> QED BY <2>1, AdvanceTodo, EndTodo
<1>5. CASE StartServer
  <2>1. todo # <<>>
    BY <1>5 DEF StartServer, At
  <2>2. \/ Advance
        \/ status = "stopped" /\ status' = status /\ asked' = "start" /\ Continue(Then(WaitRunning, Tail(todo)))
    BY <1>5 DEF StartServer, Then, WaitRunning
  <2>3. WaitRunning \in Steps
    BY StepTypes
  <2>4. status = "stopped" /\ status' = status /\ asked' = "start" => Rising(Server')
    BY ServiceMoves DEF Rising
  <2> QED BY <2>1, <2>2, <2>3, <2>4, AdvanceTodo, ContinueTodo
<1>6. CASE WaitFails \/ RequestRefused \/ RequestFails
  <2>1. todo' = <<>>
    BY <1>6 DEF WaitFails, RequestRefused, RequestFails, End
  <2> QED BY <2>1, EndTodo
<1>7. CASE CompareAttachments
  <2>1. PICK needed : Continue(Compared(Head(todo).of, needed, Tail(todo)))
    BY <1>7 DEF CompareAttachments, Compared, Five
  <2>2. todo # <<>>
    BY <1>7 DEF CompareAttachments, At
  <2>3. todo' \in Seq(StepsOf(plan)) /\ plan' = plan /\ (todo' # <<>> => outcome' = outcome)
    <3>1. Tail(todo) \in Seq(StepsOf(plan))
      BY <2>2, HeadTypes DEF Onward
    <3> QED BY <2>1, <3>1, ComparedTypes DEF Continue
  <2>4. todo' \in Seq(Steps)
    <3>1. \A u \in Seq(StepsOf(plan)) : u \in Seq(Steps)
      BY DEF StepsOf
    <3> QED BY <2>3, <3>1
  <2>5. todo' # <<>> => Head(todo') \in StepsOf(plan') /\ Tail(todo') \in Seq(StepsOf(plan'))
    BY <2>3
  <2>6. TodoInv'
    BY <2>4, <2>5 DEF TodoInv
  <2>7. WaitInv'
    BY <2>5 DEF WaitInv, At, StepsOf
  <2>8. OutcomeInv'
    BY <2>2, <2>3 DEF Onward, OutcomeInv
  <2> QED BY <2>6, <2>7, <2>8 DEF Onward
<1>8. CASE DoAction
  <2>1. todo # <<>> /\ Head(todo).of \subseteq Actions
    BY <1>8, HeadTypes, StepFields DEF DoAction, At, Onward
  <2>2. Advance \/ \E a \in Head(todo).of : Continue(Then(ActionWait(a), Tail(todo)))
    BY <1>8 DEF DoAction, Then, ActionWait
  <2>3. \A a \in Head(todo).of : ActionWait(a) \in Steps /\ ActionWait(a).do # "waitRunning"
    BY <2>1, StepTypes, StepIs
  <2> QED BY <2>1, <2>2, <2>3, AdvanceTodo, ContinueTodo
<1>9. CASE FindServer
  <2>1. todo # <<>>
    BY <1>9 DEF FindServer, At
  <2>2. \/ Advance \/ todo' = <<>>
        \/ Continue(Then(WaitStop("delete"), Tail(todo)))
    BY <1>9 DEF FindServer, Continue, Then, WaitStop
  <2>3. WaitStop("delete") \in Steps /\ WaitStop("delete").do # "waitRunning"
    BY StepTypes, StepIs
  <2> QED BY <2>1, <2>2, <2>3, AdvanceTodo, ContinueTodo, EndTodo
<1>10. CASE Begin \/ Progress
  <2>1. todo' = todo /\ plan' = plan /\ outcome' = outcome
    BY <1>10 DEF Begin, Progress
  <2>2. Rising(Server) => Rising(Server')
    BY <1>10, ServiceMoves, Evolution
  <2> QED BY <2>1, <2>2 DEF Onward, TodoInv, OutcomeInv, WaitInv, At
<1>11. CASE UNCHANGED vars
  <2>1. UNCHANGED <<todo, plan, outcome>> /\ Server' = Server
    BY <1>11, ServiceMoves DEF vars, service
  <2> QED BY <2>1 DEF Onward, TodoInv, OutcomeInv, WaitInv, At
<1> QED BY <1>1, <1>2, <1>3, <1>4, <1>5, <1>6, <1>7, <1>8, <1>9, <1>10, <1>11 DEF Next, Handler

-----------------------------------------------------------------------------
(* From place to place *)

\* The handler's own place.
Here == Place(plan, began, stopped, todo, Server)

LEMMA RefusedStep ==
    ASSUME ValuesInv, Onward, PlaceInv, RefusedInv, [Next]_vars
    PROVE  RefusedInv'
<1>1. ASSUME outcome' = outcome, cause \subseteq cause' PROVE RefusedInv'
  BY <1>1 DEF RefusedInv
<1>2. ASSUME outcome' # "refused" PROVE RefusedInv'
  BY <1>2 DEF RefusedInv
<1>3. ASSUME NEW u, Continue(u), cause \subseteq cause' PROVE RefusedInv'
  BY <1>1, <1>2, <1>3 DEF Continue
<1>4. CASE Apply
  BY <1>2, <1>4 DEF Apply
<1>5. CASE StopServer \/ StopLost \/ StartServer \/ SendRequest \/ CompareAttachments \/ FindServer
  <2>1. (\E u : Continue(u)) /\ cause \subseteq cause'
    BY <1>5 DEF StopServer, StopLost, StartServer, SendRequest, CompareAttachments, FindServer, Advance
  <2> QED BY <1>3, <2>1
<1>6. CASE Stopped \/ ServerRuns \/ Reloaded \/ DoAction \/ ActionDone \/ ActionGivenUp \/ ServerDeleted
  <2>1. (\E u : Continue(u)) /\ cause \subseteq cause'
    BY <1>6 DEF Stopped, ServerRuns, Reloaded, DoAction, ActionDone, ActionGivenUp, ServerDeleted, Advance
  <2> QED BY <1>3, <2>1
<1>7. CASE StopGivenUp
  <2>1. \/ outcome' = "timedOut"
        \/ (\E u : Continue(u)) /\ cause \subseteq cause'
    BY <1>7 DEF StopGivenUp, Advance, End
  <2> QED BY <1>2, <1>3, <2>1
<1>8. CASE WaitFails \/ RequestFails
  BY <1>2, <1>8 DEF WaitFails, RequestFails, End
<1>9. CASE RequestRefused
  <2>1. cause' = cause /\ todo # <<>>
    BY <1>9 DEF RequestRefused, End, At
  <2>2. SUFFICES ASSUME cause = {} PROVE FALSE
    BY <2>1 DEF RefusedInv
  <2>3. Here /\ plan \in SUBSET Changes
    BY <2>1, <2>2 DEF PlaceInv, Here, ValuesInv
  <2>4. CASE At("request") /\ ~Allowed(Head(todo).of)
    <3>1. Head(todo).of \cap NeedsStopped # {} => Server.status = "stopped" /\ Server.asked = "none"
      BY <2>1, <2>3, <2>4, FromRequest DEF Here, At
    <3> QED BY <2>4, <3>1, ServiceMoves DEF Allowed
  <2>5. CASE At("stop") /\ asked # "none"
    <3>1. Quiet(Settled, Server)
      BY <2>1, <2>3, <2>5, FromStop DEF Here, At
    <3> QED BY <2>5, <3>1, ServiceMoves DEF Quiet
  <2>6. CASE At("start") /\ status = "stopped" /\ asked # "none"
    <3>1. Server.status = "stopped" => Server.asked = "none"
      BY <2>1, <2>3, <2>6, FromStart DEF Here, At
    <3> QED BY <2>6, <3>1, ServiceMoves
  <2> QED BY <1>9, <2>4, <2>5, <2>6 DEF RequestRefused
<1>10. CASE Begin \/ Progress
  BY <1>1, <1>10 DEF Begin, Progress
<1>11. CASE UNCHANGED vars
  BY <1>1, <1>11 DEF vars
<1> QED BY <1>4, <1>5, <1>6, <1>7, <1>8, <1>9, <1>10, <1>11 DEF Next, Handler

\* An apply enters its program at the first position.
LEMMA EnterProgram ==
    ASSUME NEW p \in SUBSET Changes, NEW b \in Settled, NEW i, Quiet({b}, i)
    PROVE  Place(p, b, {}, Program(p), i)
<1>1. CASE "delete" \in p
  <2>1. Program(p) = Then(Find, Then(RequestStep({"delete"}), Then(DeleteWait, <<>>)))
    <3>1. ASSUME NEW s \in Steps, NEW t \in Steps, NEW u \in Steps
          PROVE  <<s, t, u>> = Then(s, Then(t, Then(u, <<>>)))
      <4>1. Then(u, <<>>) = <<u>>
        <5>1. <<u>> \in Seq(Steps)
          OBVIOUS
        <5> QED BY <5>1, ConcatEmptySeq DEF Then
      <4>2. Then(t, <<u>>) = <<t, u>>
        <5>1. /\ <<s>> \in Seq(Steps) /\ Len(<<s>>) = 1
              /\ <<t>> \in Seq(Steps) /\ Len(<<t>>) = 1 /\ <<t>>[1] = t
              /\ <<u>> \in Seq(Steps) /\ Len(<<u>>) = 1 /\ <<u>>[1] = u
              /\ <<t, u>> \in Seq(Steps) /\ Len(<<t, u>>) = 2 /\ <<t, u>>[1] = t /\ <<t, u>>[2] = u
          OBVIOUS
        <5>2. /\ <<t>> \o <<u>> \in Seq(Steps) /\ Len(<<t>> \o <<u>>) = 2
              /\ (<<t>> \o <<u>>)[1] = t /\ (<<t>> \o <<u>>)[2] = u
          BY <5>1, ConcatProperties
        <5> DEFINE v == <<t>> \o <<u>>
                   w == <<t, u>>
        <5>3. v \in Seq(Steps) /\ w \in Seq(Steps) /\ Len(v) = Len(w) /\ Len(v) = 2
          BY <5>1, <5>2
        <5>4. \A k \in {1, 2} : v[k] = w[k]
          BY <5>1, <5>2
        <5>5. v = w
          <6> HIDE DEF v, w
          <6>1. 1..Len(v) = {1, 2}
            BY <5>3
          <6> QED BY <5>3, <5>4, <6>1, SeqEqual
        <5> QED BY <5>5 DEF Then
      <4>3. Then(s, <<t, u>>) = <<s, t, u>>
        <5>1. /\ <<s>> \in Seq(Steps) /\ Len(<<s>>) = 1 /\ <<s>>[1] = s
              /\ <<t, u>> \in Seq(Steps) /\ Len(<<t, u>>) = 2 /\ <<t, u>>[1] = t /\ <<t, u>>[2] = u
              /\ <<s, t, u>> \in Seq(Steps) /\ Len(<<s, t, u>>) = 3
              /\ <<s, t, u>>[1] = s /\ <<s, t, u>>[2] = t /\ <<s, t, u>>[3] = u
          OBVIOUS
        <5>2. /\ <<s>> \o <<t, u>> \in Seq(Steps) /\ Len(<<s>> \o <<t, u>>) = 3
              /\ (<<s>> \o <<t, u>>)[1] = s /\ (<<s>> \o <<t, u>>)[2] = t
              /\ (<<s>> \o <<t, u>>)[3] = u
          BY <5>1, ConcatProperties
        <5> DEFINE v == <<s>> \o <<t, u>>
                   w == <<s, t, u>>
        <5>3. v \in Seq(Steps) /\ w \in Seq(Steps) /\ Len(v) = Len(w) /\ Len(v) = 3
          BY <5>1, <5>2
        <5>4. \A k \in {1, 2, 3} : v[k] = w[k]
          BY <5>1, <5>2
        <5>5. v = w
          <6> HIDE DEF v, w
          <6>1. 1..Len(v) = {1, 2, 3}
            BY <5>3
          <6> QED BY <5>3, <5>4, <6>1, SeqEqual
        <5> QED BY <5>5 DEF Then
      <4> QED BY <4>1, <4>2, <4>3
    <3>2. Find \in Steps /\ DeleteWait \in Steps /\ RequestStep({"delete"}) \in Steps
      BY Singletons, StepTypes DEF DeleteWait, Find, Changes
    <3>3. Program(p) = <<Find, RequestStep({"delete"}), DeleteWait>>
      BY <1>1 DEF Program, Delete, Find, RequestStep, DeleteWait
    <3> QED BY <3>1, <3>2, <3>3
  <2>2. Quiet(Settled, i)
    BY DEF Quiet
  <2> QED BY <1>1, <2>1, <2>2 DEF Place, AtDelete, Find, DeleteWait
<1>2. CASE "delete" \notin p
  <2>1. FlagsTell(p, b, {}) /\ Ready(p, b, {}, 0, i) /\ NotYet(p, {}, 0)
    BY DEF FlagsTell, Ready, NotYet
  <2>2. Place(p, b, {}, From(p, 0), i)
    BY <1>2, <2>1, EnterPlace
  <2> QED BY <1>2, <2>2, ProgramIsFrom
<1> QED BY <1>1, <1>2

LEMMA PlaceStep ==
    ASSUME ValuesInv, Onward, ActionInv, PlaceInv, [Next]_vars,
           cause' = {}, todo' # <<>> \/ outcome' = "ok"
    PROVE  Here'
<1> USE DEF At
<1>1. ASSUME todo # <<>>, cause = {} PROVE Here /\ plan \in SUBSET Changes /\ OneAction(plan)
  BY <1>1 DEF PlaceInv, Here, ValuesInv, ActionInv
<1>2. ASSUME NEW u, Continue(u), Place(plan, began, stopped', u, Server') PROVE Here'
  BY <1>2 DEF Continue, Here
<1>3. ASSUME Advance, stopped' = stopped, Place(plan, began, stopped, Tail(todo), Server') PROVE Here'
  BY <1>2, <1>3 DEF Advance
<1>4. CASE Apply
  <2>1. /\ began' = status /\ status \in Settled /\ asked = "none" /\ UNCHANGED service
        /\ plan' = known /\ todo' = Program(known) /\ stopped' = {} /\ known \in SUBSET Changes
    BY <1>4 DEF Apply, Settled, ValuesInv
  <2>2. Quiet({status}, Server')
    BY <2>1, ServiceMoves DEF Quiet
  <2> QED BY <2>1, <2>2, EnterProgram DEF Here
<1>5. CASE StopServer
  <2>1. todo # <<>> /\ Head(todo).do = "stop" /\ cause = {} /\ status' = status
    BY <1>5 DEF StopServer
  <2> DEFINE flag == Head(todo).flag
             stops == Server.status = "running" /\ ~(flag = "interfaces" /\ "interfaces" \in stopped)
  <2>2. /\ Quiet(Settled, Server)
        /\ ~stops => Place(plan, began, stopped, Tail(todo), Server)
        /\ stops => \A j : Halting(j) =>
                       Place(plan, began, stopped \cup {flag}, Then(WaitStop(flag), Tail(todo)), j)
    BY <1>1, <2>1, FromStop DEF Here
  <2>3. stops <=> Stops
    BY ServiceMoves DEF Stops
  <2>4. CASE Stops
    <3>1. /\ stopped' = stopped \cup {flag} /\ asked' = "stop" /\ status = "running"
          /\ Continue(Then(WaitStop(flag), Tail(todo)))
      BY <1>5, <2>4 DEF StopServer, Stops, Then, WaitStop
    <3>2. Halting(Server')
      BY <2>1, <3>1, ServiceMoves DEF Halting
    <3> HIDE DEF flag, stops
    <3> QED BY <1>2, <2>2, <2>3, <2>4, <3>1, <3>2
  <2>5. CASE ~Stops
    <3>1. Advance /\ stopped' = stopped /\ Server' = Server
      BY <1>5, <2>5 DEF StopServer, Server
    <3> HIDE DEF flag, stops
    <3> QED BY <1>3, <2>2, <2>3, <2>5, <3>1
  <2> QED BY <2>4, <2>5
<1>6. CASE StopLost
  <2>1. /\ todo # <<>> /\ Head(todo).do = "stop" /\ cause = {} /\ Server' = Server /\ Stops
        /\ stopped' = stopped \cup {Head(todo).flag}
        /\ Continue(Then(WaitStop(Head(todo).flag), Tail(todo)))
    BY <1>6, ServiceMoves DEF StopLost, Then, WaitStop
  <2>2. Server.status = "running" /\ ~(Head(todo).flag = "interfaces" /\ "interfaces" \in stopped)
    BY <2>1, ServiceMoves DEF Stops
  <2>3. /\ Quiet(Settled, Server)
        /\ \A j : Halting(j) => Place(plan, began, stopped \cup {Head(todo).flag},
                                      Then(WaitStop(Head(todo).flag), Tail(todo)), j)
    BY <1>1, <2>1, <2>2, FromStop DEF Here
  <2>4. Halting(Server)
    BY <2>2, <2>3 DEF Halting, Quiet
  <2> QED BY <1>2, <2>1, <2>3, <2>4
<1>7. CASE Stopped
  <2>1. /\ todo # <<>> /\ Head(todo).do = "waitStop" /\ cause = {} /\ Server' = Server
        /\ status = "stopped" /\ Advance /\ stopped' = stopped
    BY <1>7, ServiceMoves DEF Stopped
  <2>2. Halting(Server) /\ (Quiet({"stopped"}, Server) => Place(plan, began, stopped, Tail(todo), Server))
    BY <1>1, <2>1, FromWaitStop DEF Here
  <2>3. Quiet({"stopped"}, Server)
    BY <2>1, <2>2, ServiceMoves DEF Halting, Quiet
  <2> QED BY <1>3, <2>1, <2>2, <2>3
<1>8. CASE StopGivenUp \/ ActionGivenUp \/ WaitFails \/ RequestRefused \/ RequestFails
  BY <1>8 DEF StopGivenUp, ActionGivenUp, WaitFails, RequestRefused, RequestFails, End
<1>9. CASE StartServer
  <2>1. todo # <<>> /\ Head(todo).do = "start" /\ cause = {} /\ status' = status /\ stopped' = stopped
    BY <1>9 DEF StartServer
  <2> DEFINE flag == Head(todo).flag
             starts == Server.status = "stopped" /\ (flag = "always" \/ flag \in stopped)
  <2>2. /\ ~starts => Place(plan, began, stopped, Tail(todo), Server)
        /\ starts => \A j : Rising(j) => Place(plan, began, stopped, Then(WaitRunning, Tail(todo)), j)
    BY <1>1, <2>1, FromStart DEF Here
  <2>3. CASE starts
    <3>1. asked' = "start" /\ status = "stopped" /\ Continue(Then(WaitRunning, Tail(todo)))
      BY <1>9, <2>3, ServiceMoves DEF StartServer, Then, WaitRunning
    <3>2. Rising(Server')
      BY <2>1, <3>1, ServiceMoves DEF Rising
    <3> HIDE DEF starts
    <3> QED BY <1>2, <2>1, <2>2, <2>3, <3>1, <3>2
  <2>4. CASE ~starts
    <3>1. Advance /\ Server' = Server
      BY <1>9, <2>1, <2>4, ServiceMoves DEF StartServer, Server
    <3> HIDE DEF starts
    <3> QED BY <1>3, <2>1, <2>2, <2>4, <3>1
  <2> QED BY <2>3, <2>4
<1>10. CASE ServerRuns
  <2>1. /\ todo # <<>> /\ Head(todo).do = "waitRunning" /\ cause = {} /\ Server' = Server
        /\ Server.status = "running" /\ Advance /\ stopped' = stopped
    BY <1>10, ServiceMoves DEF ServerRuns
  <2>2. Place(plan, began, stopped, Tail(todo), Server)
    BY <1>1, <2>1, FromWaitRunning DEF Here
  <2> QED BY <1>3, <2>1, <2>2
<1>11. CASE Reloaded
  <2>1. /\ todo # <<>> /\ Head(todo).do = "waitReload" /\ cause = {} /\ Server' = Server
        /\ Server.status \in Settled /\ Server.asked # "reinitialize" /\ Advance /\ stopped' = stopped
    BY <1>11, ServiceMoves DEF Reloaded, Settled
  <2>2. Place(plan, began, stopped, Tail(todo), Server)
    BY <1>1, <2>1, FromWaitReload DEF Here
  <2> QED BY <1>3, <2>1, <2>2
<1>12. CASE SendRequest
  <2>1. /\ todo # <<>> /\ Head(todo).do = "request" /\ cause = {} /\ Advance /\ stopped' = stopped
        /\ asked' = (IF Head(todo).of \subseteq Initialization THEN "reinitialize" ELSE asked)
        /\ status' = (IF "delete" \in Head(todo).of THEN "deleting" ELSE status)
    BY <1>12 DEF SendRequest
  <2>2. \A j : /\ j.asked = (IF Head(todo).of \subseteq Initialization THEN "reinitialize" ELSE Server.asked)
               /\ j.status = (IF "delete" \in Head(todo).of THEN "deleting" ELSE Server.status)
               => Place(plan, began, stopped, Tail(todo), j)
    BY <1>1, <2>1, FromRequest DEF Here
  <2>3. Place(plan, began, stopped, Tail(todo), Server')
    BY <2>1, <2>2, ServiceMoves
  <2> QED BY <1>3, <2>1, <2>3
<1>13. CASE CompareAttachments
  <2>1. todo # <<>> /\ Head(todo).do = "compare" /\ cause = {} /\ Server' = Server /\ stopped' = stopped
    BY <1>13, ServiceMoves DEF CompareAttachments
  <2>2. /\ Head(todo).of = plan \cap Attachments /\ Tail(todo) = From(plan, 10)
        /\ Place(plan, began, stopped, From(plan, 5), Server)
    BY <1>1, <2>1, FromCompare DEF Here
  <2>3. PICK needed \in {"removePci" \in Head(todo).of, "addPci" \in Head(todo).of} :
             /\ Continue(Compared(Head(todo).of, needed, Tail(todo)))
             /\ needed = (Head(todo).of \cap {"removePci", "addPci"} # {})
    BY <1>13 DEF CompareAttachments, RestartNeeded, Compared, Five
  <2>4. Head(todo).of \cap {"removePci", "addPci"} = Physical(plan)
    BY <2>2 DEF Attachments, Physical
  <2>5. Compared(Head(todo).of, needed, Tail(todo)) = From(plan, 5)
    BY <1>1, <2>1, <2>2, <2>3, <2>4, ComparedIs
  <2> QED BY <1>2, <2>1, <2>2, <2>3, <2>5
<1>14. CASE DoAction
  <2>1. todo # <<>> /\ Head(todo).do = "action" /\ cause = {} /\ status' = status /\ stopped' = stopped
    BY <1>14 DEF DoAction
  <2>2. PICK a \in Head(todo).of :
           \/ /\ Acts(a) /\ asked' = a /\ Continue(Then(ActionWait(a), Tail(todo)))
           \/ /\ ~Acts(a) \/ asked # "none"
              /\ asked' = asked /\ Advance
    BY <1>14 DEF DoAction, Then, ActionWait
  <2> DEFINE acts == IF a = "start" THEN Server.status = "stopped" ELSE Server.status = "running"
  <2>3. /\ Server.asked = "none"
        /\ ~acts => Place(plan, began, stopped, Tail(todo), Server)
        /\ acts => \A j : j.status = Server.status /\ j.asked = a =>
                       Place(plan, began, stopped, Then(ActionWait(a), Tail(todo)), j)
    BY <1>1, <2>1, FromAction DEF Here
  <2>4. acts <=> Acts(a)
    BY ServiceMoves DEF Acts
  <2>5. CASE Acts(a) /\ asked' = a /\ Continue(Then(ActionWait(a), Tail(todo)))
    <3>1. Server'.status = Server.status /\ Server'.asked = a
      BY <2>1, <2>5, ServiceMoves
    <3> HIDE DEF acts
    <3>2. Place(plan, began, stopped, Then(ActionWait(a), Tail(todo)), Server')
      BY <2>3, <2>4, <2>5, <3>1
    <3> QED BY <1>2, <2>1, <2>5, <3>2
  <2>6. CASE (~Acts(a) \/ asked # "none") /\ asked' = asked /\ Advance
    <3>1. ~acts /\ Server' = Server
      BY <2>1, <2>3, <2>4, <2>6, ServiceMoves DEF Server
    <3> HIDE DEF acts
    <3> QED BY <1>3, <2>1, <2>3, <2>6, <3>1
  <2> QED BY <2>2, <2>5, <2>6
<1>15. CASE ActionDone
  <2>1. /\ todo # <<>> /\ Head(todo).do = "waitAction" /\ cause = {} /\ Server' = Server
        /\ Server.status = (IF Head(todo).of = {"stop"} THEN "stopped" ELSE "running")
        /\ Advance /\ stopped' = stopped
    BY <1>15, ServiceMoves DEF ActionDone
  <2>2. Place(plan, began, stopped, Tail(todo), Server)
    BY <1>1, <2>1, FromActionWait DEF Here
  <2> QED BY <1>3, <2>1, <2>2
<1>16. CASE FindServer
  <2>1. todo # <<>> /\ Head(todo).do = "find" /\ cause = {} /\ status' = status /\ stopped' = stopped
    BY <1>16 DEF FindServer
  <2>2. /\ Quiet(Settled, Server)
        /\ Server.status = "stopped" => Place(plan, began, stopped, Tail(todo), Server)
        /\ \A j : Halting(j) => Place(plan, began, stopped, Then(WaitStop("delete"), Tail(todo)), j)
    BY <1>1, <2>1, FromFind DEF Here
  <2>3. status \in Settled /\ asked = "none"
    BY <2>2, ServiceMoves DEF Quiet
  <2>4. CASE status = "running"
    <3>1. asked' = "stop" /\ Continue(Then(WaitStop("delete"), Tail(todo)))
      BY <1>16, <2>3, <2>4 DEF FindServer, Then, WaitStop
    <3>2. Halting(Server')
      BY <2>1, <2>4, <3>1, ServiceMoves DEF Halting
    <3> QED BY <1>2, <2>1, <2>2, <3>1, <3>2
  <2>5. CASE status = "stopped"
    <3>1. Advance /\ Server' = Server
      BY <1>16, <2>1, <2>5 DEF FindServer, Server
    <3> QED BY <1>3, <2>1, <2>2, <2>5, <3>1, ServiceMoves
  <2> QED BY <2>3, <2>4, <2>5 DEF Settled
<1>17. CASE ServerDeleted
  <2>1. /\ todo # <<>> /\ Head(todo).do = "waitDeleted" /\ cause = {} /\ Server' = Server
        /\ Advance /\ stopped' = stopped
    BY <1>17, ServiceMoves DEF ServerDeleted
  <2>2. "delete" \in plan
    BY <1>1, <2>1, PlaceByStep DEF Here
  <2>3. Tail(todo) = <<>>
    <3>1. WaitStop("delete").do = "waitStop" /\ RequestStep({"delete"}).do = "request" /\ Find.do = "find"
      BY StepIs DEF Find, Step
    <3> QED BY <1>1, <2>1, <2>2, <3>1, DeletePlaceIs DEF Here
  <2>4. Place(plan, began, stopped, Tail(todo), Server)
    BY <2>2, <2>3 DEF Place, AtDelete
  <2> QED BY <1>3, <2>1, <2>4
<1>18. CASE Begin \/ Progress
  <2>1. UNCHANGED <<plan, began, stopped, todo, outcome, cause>>
    BY <1>18 DEF Begin, Progress
  <2>2. Here /\ Moves(Server, Server')
    BY <1>18, <2>1, ServiceMoves DEF PlaceInv, Here
  <2> QED BY <2>1, <2>2, PlaceEvolves DEF Here
<1>19. CASE UNCHANGED vars
  <2>1. UNCHANGED <<plan, began, stopped, todo, outcome, cause>> /\ Server' = Server
    BY <1>19, ServiceMoves DEF vars, service
  <2> QED BY <2>1 DEF PlaceInv, Here
<1> QED BY <1>4, <1>5, <1>6, <1>7, <1>8, <1>9, <1>10, <1>11, <1>12, <1>13, <1>14, <1>15, <1>16, <1>17,
           <1>18, <1>19 DEF Next, Handler

-----------------------------------------------------------------------------
(* Theorems *)

LEMMA InitInv == ASSUME Init PROVE IInv
<1>1. ValuesInv /\ TodoInv /\ ActionInv
  BY InitTypes
<1>2. OutcomeInv /\ WaitInv /\ RefusedInv /\ PlaceInv
  BY DEF Init, OutcomeInv, WaitInv, At, RefusedInv, PlaceInv
<1> QED BY <1>1, <1>2 DEF IInv

LEMMA StepInv == ASSUME IInv, [Next]_vars PROVE IInv'
<1>1. ValuesInv /\ Onward /\ ActionInv /\ RefusedInv /\ PlaceInv
  BY DEF IInv, Onward
<1>2. ValuesInv' /\ ActionInv'
  BY <1>1, ValuesStep DEF Onward
<1>3. Onward'
  BY <1>1, TodoStep
<1>4. RefusedInv'
  BY <1>1, RefusedStep
<1>5. PlaceInv'
  <2>1. SUFFICES ASSUME cause' = {}, todo' # <<>> \/ outcome' = "ok" PROVE Here'
    BY DEF PlaceInv, Here
  <2> QED BY <1>1, <2>1, PlaceStep
<1> QED BY <1>2, <1>3, <1>4, <1>5 DEF IInv, Onward

LEMMA Invariance == Spec => []IInv
<1>1. Init => IInv
  BY InitInv
<1>2. IInv /\ [Next]_vars => IInv'
  BY StepInv
<1> QED BY <1>1, <1>2, PTL DEF Spec

\* Every variable of the update keeps its type (BareMetalUpdate.TypeOK).
THEOREM TypeCorrect == Spec => []TypeOK
<1>1. IInv => TypeOK
  <2> SUFFICES ASSUME IInv PROVE TypeOK
    OBVIOUS
  <2>1. ValuesInv /\ todo \in Seq(Steps)
    BY DEF IInv, TodoInv
  <2>2. \A k \in DOMAIN todo : todo[k].flag \in Flags \cup {"", "always", "delete"}
    <3>1. \A k \in DOMAIN todo : todo[k] \in Steps
      BY <2>1
    <3> QED BY <3>1, StepFields
  <2> QED BY <2>1, <2>2 DEF TypeOK, ValuesInv
<1> QED BY <1>1, Invariance, PTL

\* Whatever a configuration changes, the service refuses none of the requests
\* of an update in which nothing went wrong before: each change that needs a
\* stopped server is made while it is stopped.  And the wait for a running
\* server is in vain only for the primary interface of a server that is stopped
\* (resource_ibm_is_bare_metal_server.go:4344).
THEOREM RefusalsAndTimeouts == Spec => []FailuresHaveACause
<1>1. IInv => FailuresHaveACause
  <2> SUFFICES ASSUME IInv PROVE FailuresHaveACause
    OBVIOUS
  <2>1. ValuesInv /\ WaitInv /\ RefusedInv /\ PlaceInv
    BY DEF IInv
  <2>2. ASSUME Stuck PROVE "primary" \in plan /\ ("secureBoot" \in plan \/ began # "running" \/ cause # {})
    <3>1. /\ todo # <<>> /\ Head(todo).do = "waitRunning"
          /\ Server.status = "stopped" /\ Server.asked = "none"
      BY <2>1, <2>2, ServiceMoves DEF Stuck, At
    <3>2. "primary" \in plan
      BY <2>1, <2>2, <3>1 DEF WaitInv, Stuck, Rising
    <3>3. CASE cause = {}
      <4>1. Place(plan, began, stopped, todo, Server) /\ plan \in SUBSET Changes
        BY <2>1, <3>1, <3>3 DEF PlaceInv, ValuesInv
      <4> QED BY <3>1, <4>1, FromWaitRunning
    <3> QED BY <3>2, <3>3
  <2> QED BY <2>1, <2>2 DEF FailuresHaveACause, RefusedInv
<1> QED BY <1>1, Invariance, PTL

\* Whatever a configuration changes, an update in which nothing went wrong
\* leaves the server running or stopped as it found it, or as its action says,
\* but for what starts it anew.
THEOREM PowerAfterUpdate == Spec => []PowerIsKnown
<1>1. IInv => PowerIsKnown
  <2> SUFFICES ASSUME IInv, outcome = "ok", cause = {}, plan \cap {"delete", "restart"} = {}
               PROVE  IF "stop" \in plan /\ plan \cap Options = {}
                         THEN status = "stopped" \/ plan \cap {"removePci", "addPci"} # {}
                      ELSE IF began = "running" \/ plan \cap (Options \cup {"start"}) # {}
                         THEN status = "running"
                      ELSE status = "stopped" \/ plan \cap Initialization # {}
    BY DEF PowerIsKnown
  <2>1. ValuesInv /\ OutcomeInv /\ ActionInv /\ PlaceInv
    BY DEF IInv
  <2>2. todo = <<>> /\ plan \in SUBSET Changes /\ "delete" \notin plan /\ "restart" \notin plan
    BY <2>1 DEF OutcomeInv, ValuesInv
  <2>3. Place(plan, began, stopped, <<>>, Server)
    BY <2>1, <2>2 DEF PlaceInv
  <2>4. began \in Settled /\ FlagsTell(plan, began, stopped) /\ Ready(plan, began, stopped, 21, Server)
    BY <2>2, <2>3, EndIs
  <2>5. status \in IF plan \cap Options # {} \/ "server" \in stopped THEN {"running"}
                   ELSE AfterAction(plan, began)
    BY <2>1, <2>2, <2>4, ServiceMoves DEF Ready, Quiet
  <2>6. CASE plan \cap Options # {}
    BY <2>5, <2>6
  <2>7. CASE plan \cap Options = {} /\ "server" \in stopped
    <3>1. "running" \in Base(plan, began) /\ Physical(plan) # {} /\ status = "running"
      BY <2>4, <2>5, <2>7 DEF FlagsTell, Options
    <3>2. plan \cap Initialization # {} \/ began = "running"
      BY <3>1 DEF Base
    <3> QED BY <3>1, <3>2 DEF Physical
  <2>8. CASE plan \cap Options = {} /\ "server" \notin stopped
    <3>1. status \in AfterAction(plan, began)
      BY <2>5, <2>8
    <3>2. "secureBoot" \notin plan
      BY <2>8 DEF Options
    <3>3. CASE "stop" \in plan
      BY <2>8, <3>1, <3>3 DEF AfterAction
    <3>4. CASE "stop" \notin plan /\ "start" \in plan
      BY <3>1, <3>4 DEF AfterAction
    <3>5. CASE "stop" \notin plan /\ "start" \notin plan
      <4>1. status \in Base(plan, began)
        BY <3>1, <3>2, <3>5 DEF AfterAction, AfterPrimary, BeforePrimary
      <4> QED BY <2>4, <2>8, <3>5, <4>1 DEF Base, Settled
    <3> QED BY <3>3, <3>4, <3>5
  <2> QED BY <2>6, <2>7, <2>8
<1> QED BY <1>1, Invariance, PTL
=============================================================================
