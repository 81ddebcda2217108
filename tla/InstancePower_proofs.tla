------------------------- MODULE InstancePower_proofs -------------------------
(***************************************************************************)
(* Proofs about InstancePower: its type invariant, and in which state of   *)
(* the instance a handler ends and in which it changes or deletes it: for  *)
(* every plan without a reboot until a routine acts, and beyond that for   *)
(* deletions and updates of one attribute.  The argument knows a handler   *)
(* by its place, the step it is at and the sections that remain, and says  *)
(* at each place what the instance and the routines may be doing.          *)
(***************************************************************************)
EXTENDS InstancePower, SequenceTheorems, TLAPS

-----------------------------------------------------------------------------
(* Programs as steps and the sections that follow them *)

Steps == RequestSteps \cup WaitSteps \cup {"ifRunning", "ifStopped", "look", "lookToStop"}

Then(s, t) == <<s>> \o t

\* The attributes a call heeds.
Effective(p) == IF p.flow = "create" THEN p.changes \cap {"host"} ELSE p.changes

FromProfile(p) == IF "profile" \in Effective(p) THEN Profile ELSE <<>>
FromSecureBoot(p) == (IF "secureBoot" \in Effective(p) THEN SecureBoot ELSE <<>>) \o FromProfile(p)
FromInterface(p) == (IF "interface" \in Effective(p) THEN Interface ELSE <<>>) \o FromSecureBoot(p)
FromAction(p) ==
    (IF "stop" \in Effective(p) THEN Action("stop")
     ELSE IF "start" \in Effective(p) THEN Action("start")
     ELSE IF "reboot" \in Effective(p) THEN Action("reboot") ELSE <<>>) \o FromInterface(p)
FromHost(p) == (IF "host" \in Effective(p) THEN Host ELSE <<>>) \o FromAction(p)

\* What remains of an update after its first k sections.
Rest(p, k) ==
    CASE k = 0 -> FromHost(p)
      [] k = 1 -> FromAction(p)
      [] k = 2 -> FromInterface(p)
      [] k = 3 -> FromSecureBoot(p)
      [] k = 4 -> FromProfile(p)
      [] OTHER -> <<>>

\* What the instance may be then, when nothing goes wrong.
Settled == {"running", "stopped"}
AfterHost(p) == IF p.flow = "create" \/ "host" \in Effective(p) THEN {"running"} ELSE Settled
AfterAction(p) ==
    IF "stop" \in Effective(p) THEN {"stopped"}
    ELSE IF "start" \in Effective(p) THEN {"running"} ELSE AfterHost(p)
AfterInterface(p) == IF "interface" \in Effective(p) THEN {"running"} ELSE AfterAction(p)
AfterProfile(p) == IF "profile" \in Effective(p) THEN {"running"} ELSE AfterInterface(p)
Expected(p, k) ==
    CASE k = 0 -> IF p.flow = "create" THEN {"running"} ELSE Settled
      [] k = 1 -> AfterHost(p)
      [] k = 2 -> AfterAction(p)
      [] k \in {3, 4} -> AfterInterface(p)
      [] OTHER -> AfterProfile(p)

-----------------------------------------------------------------------------
(* What the instance i and its routines may be doing *)

\* As one sees it who heeds the routines (r), and as one who does not.
Instance(r) ==
    [status |-> status, asked |-> asked,
     left |-> IF r THEN left ELSE {}, routine |-> IF r THEN routine ELSE "none"]

\* Nothing is about to change it.
Quiet(S, i) == i.status \in S /\ i.asked = "none" /\ i.left = {} /\ i.routine = "none"

\* It was in a state of S when it was asked to stop.
Halting(r, S, i) ==
    IF r THEN i.asked \in {"none", "stop"} /\ i.left = {} /\ i.routine \in {"select", "send"}
         ELSE \/ i.asked = "stop" /\ i.status \in S
              \/ i.asked = "none" /\ i.status \in {"stopping", "stopped", "failed"}

\* It has stopped, and the routine that is left can but stop it again.
Halted(i) ==
    /\ i.status = "stopped" /\ i.asked \in {"none", "stop"} /\ i.routine = "none"
    /\ \A x \in i.left : x.kind = "stopper" /\ x.at = "select"

\* It is being started; with routines it may be doing anything.
Rising(r, i) ==
    r \/ (i.asked = "start" /\ i.status = "stopped")
      \/ (i.asked = "none" /\ i.status \in {"starting", "running", "failed"})

\* The calls about which something is claimed: none that reboots, and, where the
\* routines are heeded, a deletion or an update of a single attribute.
Mode(p, r) ==
    /\ "reboot" \notin p.changes
    /\ r => p.flow = "delete" \/ (p.flow = "update" /\ \A c, d \in p.changes : c = d)

\* The routines need no heed until one has acted.
Claimed(r) == Mode(plan, r) /\ (IF r THEN recovery ELSE ~acted)

-----------------------------------------------------------------------------
(* The places of a handler: t is what it has before it *)

\* Step s is the next one, and u follows it.
Is(t, s, u) == t # <<>> /\ Head(t) = s /\ Tail(t) = u

\* On the way to a start, which ends section k: stop, change, start and wait.
\* Such a section ends with a running instance; with routines nothing follows
\* it.
AtRestart(p, r, t, i) ==
    \E w \in {"waitStart", "waitAvailable"}, k \in 0..5 :
        LET wait == Then(w, Rest(p, k))
            start == Then("start", wait)
            patch == Then("patch", start)
        IN /\ "running" \in Expected(p, k) /\ (r => Rest(p, k) = <<>>)
           /\ \/ Is(t, w, Rest(p, k)) /\ Rising(r, i)
              \/ Is(t, "start", wait) /\ Halted(i)
              \/ Is(t, "patch", start) /\ Halted(i)
              \/ Is(t, "waitStop", patch) /\ Halting(r, Settled, i)
              \/ Is(t, "stop", Then("waitStop", patch)) /\ Quiet(Settled, i)

AtCreate(p, r, t, i) ==
    /\ p.flow = "create" /\ ~r
    /\ Is(t, "create", Then("waitAvailable", Rest(p, 0))) /\ Quiet({"absent"}, i)

AtAction(p, r, t, i) ==
    LET waitStart == Then("waitStart", Rest(p, 2))
        waitStop == Then("waitStop", Rest(p, 2))
    IN /\ r => Rest(p, 2) = <<>>
       /\ \/ /\ "running" \in Expected(p, 2)
             /\ Is(t, "ifStopped", Then("start", waitStart)) /\ Quiet(Settled, i)
          \/ /\ "stopped" \in Expected(p, 2)
             /\ \/ Is(t, "ifRunning", Then("stop", waitStop)) /\ Quiet(Settled, i)
                \/ Is(t, "stop", waitStop) /\ Quiet({"running"}, i)
                \/ Is(t, "waitStop", Rest(p, 2)) /\ Halting(r, {"running"}, i)

AtInterface(p, r, t, i) ==
    /\ "running" \in Expected(p, 3) /\ (r => Rest(p, 3) = <<>>)
    /\ \/ Is(t, "bind", Then("waitBound", Rest(p, 3))) /\ Quiet(Settled, i)
       \/ Is(t, "waitBound", Rest(p, 3)) /\ (r \/ Quiet(Settled, i))

AtSecureBoot(p, r, t, i) ==
    /\ r => Rest(p, 4) = <<>>
    /\ \/ Is(t, "look", Then("patch", Rest(p, 4))) /\ Quiet(Expected(p, 4), i)
       \/ Is(t, "patch", Rest(p, 4)) /\ Quiet(Expected(p, 4) \cap {"stopped"}, i)

AtProfile(p, r, t, i) ==
    /\ "running" \in Expected(p, 5)
    /\ Is(t, "lookToStop", Then("patch", Then("start", Then("waitAvailable", Rest(p, 5)))))
    /\ Quiet(Settled, i)

AtDelete(p, r, t, i) ==
    LET delete == Then("delete", <<>>)
    IN \/ Is(t, "delete", <<>>) /\ Halted(i)
       \/ Is(t, "waitStop", delete) /\ Halting(r, Settled, i)
       \/ Is(t, "stop", Then("waitStop", delete)) /\ Quiet(Settled, i)

\* Nothing is left to do.
Over(p, r, t, i) ==
    /\ t = <<>>
    /\ IF p.flow = "delete" THEN i.status = "absent" /\ i.asked = "none"
                            ELSE r \/ Quiet(Expected(p, 5), i)

Place(p, r, t, i) ==
    \/ Over(p, r, t, i)
    \/ p.flow = "delete" /\ AtDelete(p, r, t, i)
    \/ /\ p.flow # "delete"
       /\ \/ AtCreate(p, r, t, i)
          \/ AtRestart(p, r, t, i)
          \/ AtAction(p, r, t, i)
          \/ AtInterface(p, r, t, i)
          \/ AtSecureBoot(p, r, t, i)
          \/ AtProfile(p, r, t, i)

-----------------------------------------------------------------------------
(* The inductive invariant *)

\* Without recovery there is no routine.
CalmInv == ~recovery => routine = "none" /\ left = {} /\ ~acted

EndInv == outcome = "ok" => todo = <<>>

PlaceInv ==
    \A r \in BOOLEAN :
        Claimed(r) /\ outcome \in {"none", "ok"} => Place(plan, r, todo, Instance(r))

UnexpectedInv == outcome = "unexpected" => Reboots \/ acted

-----------------------------------------------------------------------------
(* Lemmas about programs *)

LEMMA ThenIs == \A s \in Steps, u \in Seq(Steps) : Then(s, u) \in Seq(Steps) /\ Is(Then(s, u), s, u)
BY DEF Then, Is

LEMMA ConsIs ==
    ASSUME NEW a \in Steps, NEW u \in Seq(Steps), NEW v \in Seq(Steps),
           Len(v) = Len(u) + 1, v[1] = a, \A i \in 1..Len(u) : v[i + 1] = u[i]
    PROVE  v = <<a>> \o u
<1>1. /\ <<a>> \in Seq(Steps) /\ Len(<<a>>) = 1 /\ <<a>>[1] = a /\ Len(u) \in Nat
  OBVIOUS
<1>2. /\ <<a>> \o u \in Seq(Steps) /\ Len(<<a>> \o u) = Len(u) + 1
      /\ \A i \in 1..(Len(u) + 1) : (<<a>> \o u)[i] = IF i <= 1 THEN <<a>>[i] ELSE u[i - 1]
  BY <1>1, ConcatProperties
<1>3. \A i \in 1..Len(v) : v[i] = (<<a>> \o u)[i]
  <2>1. TAKE i \in 1..Len(v)
  <2>2. CASE i = 1
    BY <1>1, <1>2, <2>2
  <2>3. CASE i # 1
    <3>1. i - 1 \in 1..Len(u) /\ i = (i - 1) + 1
      BY <1>1, <2>3
    <3>2. v[i] = u[i - 1]
      BY <3>1
    <3> QED BY <1>1, <1>2, <2>3, <3>2
  <2> QED BY <2>2, <2>3
<1> QED BY <1>2, <1>3, SeqEqual

LEMMA ThenConcat ==
    ASSUME NEW x \in Steps, NEW u \in Seq(Steps), NEW t \in Seq(Steps)
    PROVE  (<<x>> \o u) \o t = Then(x, u \o t)
<1>1. <<x>> \in Seq(Steps)
  OBVIOUS
<1> QED BY <1>1, ConcatAssociative DEF Then

LEMMA Unfold2 ==
    ASSUME NEW t \in Seq(Steps), NEW a \in Steps, NEW b \in Steps
    PROVE  <<a, b>> \o t = Then(a, Then(b, t))
<1>1. <<b>> \in Seq(Steps) /\ <<b>> \o t = Then(b, t)
  BY DEF Then
<1>2. <<a, b>> = <<a>> \o <<b>>
  <2> DEFINE u == <<a, b>>
             v == <<a>> \o <<b>>
  <2>1. u \in Seq(Steps) /\ Len(u) = 2 /\ u[1] = a /\ u[2] = b
    OBVIOUS
  <2>2. v \in Seq(Steps) /\ Len(v) = 2 /\ v[1] = a /\ v[2] = b
    OBVIOUS
  <2> HIDE DEF u, v
  <2>3. u = v
    BY <2>1, <2>2, SeqEqual
  <2> QED BY <2>3 DEF u, v
<1>3. (<<a>> \o <<b>>) \o t = Then(a, <<b>> \o t)
  BY <1>1, ThenConcat
<1> QED BY <1>1, <1>2, <1>3

LEMMA Unfold3 ==
    ASSUME NEW t \in Seq(Steps), NEW a \in Steps, NEW b \in Steps, NEW c \in Steps
    PROVE  <<a, b, c>> \o t = Then(a, Then(b, Then(c, t)))
<1>1. <<b, c>> \in Seq(Steps) /\ <<b, c>> \o t = Then(b, Then(c, t))
  BY Unfold2
<1>2. <<a, b, c>> = <<a>> \o <<b, c>>
  BY <1>1, ConsIs
<1>3. (<<a>> \o <<b, c>>) \o t = Then(a, <<b, c>> \o t)
  BY <1>1, ThenConcat
<1> QED BY <1>1, <1>2, <1>3

LEMMA Unfold4 ==
    ASSUME NEW t \in Seq(Steps), NEW a \in Steps, NEW b \in Steps, NEW c \in Steps, NEW d \in Steps
    PROVE  <<a, b, c, d>> \o t = Then(a, Then(b, Then(c, Then(d, t))))
<1>1. <<b, c, d>> \in Seq(Steps) /\ <<b, c, d>> \o t = Then(b, Then(c, Then(d, t)))
  BY Unfold3
<1>2. <<a, b, c, d>> = <<a>> \o <<b, c, d>>
  BY <1>1, ConsIs
<1>3. (<<a>> \o <<b, c, d>>) \o t = Then(a, <<b, c, d>> \o t)
  BY <1>1, ThenConcat
<1> QED BY <1>1, <1>2, <1>3

LEMMA UnfoldRestart ==
    ASSUME NEW t \in Seq(Steps), NEW w \in {"waitStart", "waitAvailable"}
    PROVE  <<"stop", "waitStop", "patch", "start", w>> \o t =
               Then("stop", Then("waitStop", Then("patch", Then("start", Then(w, t)))))
<1>1. /\ "stop" \in Steps /\ "waitStop" \in Steps /\ "patch" \in Steps /\ "start" \in Steps
      /\ w \in Steps
  BY DEF Steps, RequestSteps, WaitSteps
<1>2. <<"waitStop", "patch", "start", w>> \in Seq(Steps)
  BY <1>1
<1>3. <<"waitStop", "patch", "start", w>> \o t =
          Then("waitStop", Then("patch", Then("start", Then(w, t))))
  BY <1>1, Unfold4
<1>4. <<"stop", "waitStop", "patch", "start", w>> = <<"stop">> \o <<"waitStop", "patch", "start", w>>
  BY <1>1, <1>2, ConsIs
<1>5. (<<"stop">> \o <<"waitStop", "patch", "start", w>>) \o t =
          Then("stop", <<"waitStop", "patch", "start", w>> \o t)
  BY <1>1, <1>2, ThenConcat
<1> QED BY <1>3, <1>4, <1>5

\* The programs are made of known steps.
LEMMA SectionTypes ==
    /\ Host \in Seq(Steps) /\ Interface \in Seq(Steps) /\ SecureBoot \in Seq(Steps)
    /\ Profile \in Seq(Steps) /\ Create \in Seq(Steps) /\ Delete \in Seq(Steps)
    /\ \A a \in {"stop", "start", "reboot"} : Action(a) \in Seq(Steps)
BY DEF Host, Interface, SecureBoot, Profile, Create, Delete, Action, Steps, RequestSteps, WaitSteps

LEMMA RestTypes == ASSUME NEW p PROVE \A k \in 0..5 : Rest(p, k) \in Seq(Steps)
<1>1. <<>> \in Seq(Steps)
  OBVIOUS
<1>2. \A s, t \in Seq(Steps) : s \o t \in Seq(Steps)
  BY ConcatProperties
<1>3. FromProfile(p) \in Seq(Steps)
  BY <1>1, SectionTypes DEF FromProfile
<1>4. FromSecureBoot(p) \in Seq(Steps)
  BY <1>1, <1>2, <1>3, SectionTypes DEF FromSecureBoot
<1>5. FromInterface(p) \in Seq(Steps)
  BY <1>1, <1>2, <1>4, SectionTypes DEF FromInterface
<1>6. FromAction(p) \in Seq(Steps)
  BY <1>1, <1>2, <1>5, SectionTypes DEF FromAction
<1>7. FromHost(p) \in Seq(Steps)
  BY <1>1, <1>2, <1>6, SectionTypes DEF FromHost
<1> QED BY <1>1, <1>3, <1>4, <1>5, <1>6, <1>7 DEF Rest

\* Each section, step by step.
LEMMA RestShape ==
    ASSUME NEW p, "reboot" \notin p.changes
    PROVE  /\ Rest(p, 0) = IF "host" \in Effective(p)
                           THEN Then("stop", Then("waitStop", Then("patch", Then("start",
                                   Then("waitStart", Rest(p, 1))))))
                           ELSE Rest(p, 1)
           /\ Rest(p, 1) = IF "stop" \in Effective(p)
                           THEN Then("ifRunning", Then("stop", Then("waitStop", Rest(p, 2))))
                           ELSE IF "start" \in Effective(p)
                           THEN Then("ifStopped", Then("start", Then("waitStart", Rest(p, 2))))
                           ELSE Rest(p, 2)
           /\ Rest(p, 2) = IF "interface" \in Effective(p)
                           THEN Then("bind", Then("waitBound", Rest(p, 3))) ELSE Rest(p, 3)
           /\ Rest(p, 3) = IF "secureBoot" \in Effective(p)
                           THEN Then("look", Then("patch", Rest(p, 4))) ELSE Rest(p, 4)
           /\ Rest(p, 4) = IF "profile" \in Effective(p)
                           THEN Then("lookToStop", Then("patch", Then("start",
                                   Then("waitAvailable", Rest(p, 5)))))
                           ELSE Rest(p, 5)
           /\ Rest(p, 5) = <<>>
<1>1. /\ Rest(p, 0) = FromHost(p) /\ Rest(p, 1) = FromAction(p) /\ Rest(p, 2) = FromInterface(p)
      /\ Rest(p, 3) = FromSecureBoot(p) /\ Rest(p, 4) = FromProfile(p) /\ Rest(p, 5) = <<>>
  BY DEF Rest
<1>2. /\ Rest(p, 1) \in Seq(Steps) /\ Rest(p, 2) \in Seq(Steps) /\ Rest(p, 3) \in Seq(Steps)
      /\ Rest(p, 4) \in Seq(Steps) /\ Rest(p, 5) \in Seq(Steps)
  BY RestTypes
<1>3. \A t \in Seq(Steps) : <<>> \o t = t /\ t \o <<>> = t
  BY ConcatEmptySeq
<1>4. /\ "stop" \in Steps /\ "waitStop" \in Steps /\ "patch" \in Steps /\ "start" \in Steps
      /\ "waitStart" \in Steps /\ "ifRunning" \in Steps /\ "ifStopped" \in Steps /\ "bind" \in Steps
      /\ "waitBound" \in Steps /\ "look" \in Steps /\ "lookToStop" \in Steps /\ "waitAvailable" \in Steps
  BY DEF Steps, RequestSteps, WaitSteps
<1>5. "reboot" \notin Effective(p)
  BY DEF Effective
<1>6. Rest(p, 0) = IF "host" \in Effective(p)
                   THEN Then("stop", Then("waitStop", Then("patch", Then("start",
                           Then("waitStart", Rest(p, 1))))))
                   ELSE Rest(p, 1)
  <2>1. Host \o Rest(p, 1) = Then("stop", Then("waitStop", Then("patch", Then("start",
                                Then("waitStart", Rest(p, 1))))))
    <3>1. Rest(p, 1) \in Seq(Steps)
      BY <1>2
    <3>2. <<"stop", "waitStop", "patch", "start", "waitStart">> \o Rest(p, 1) =
              Then("stop", Then("waitStop", Then("patch", Then("start", Then("waitStart", Rest(p, 1))))))
      BY <3>1, UnfoldRestart
    <3> QED BY <3>2 DEF Host
  <2>2. CASE "host" \in Effective(p)
    BY <1>1, <2>1, <2>2 DEF FromHost
  <2>3. CASE "host" \notin Effective(p)
    <3>1. FromHost(p) = <<>> \o Rest(p, 1)
      BY <1>1, <2>3 DEF FromHost
    <3> QED BY <1>1, <1>2, <1>3, <2>3, <3>1
  <2> QED BY <2>2, <2>3
<1>7. Rest(p, 1) = IF "stop" \in Effective(p)
                   THEN Then("ifRunning", Then("stop", Then("waitStop", Rest(p, 2))))
                   ELSE IF "start" \in Effective(p)
                   THEN Then("ifStopped", Then("start", Then("waitStart", Rest(p, 2))))
                   ELSE Rest(p, 2)
  <2>1. /\ Action("stop") \o Rest(p, 2) = Then("ifRunning", Then("stop", Then("waitStop", Rest(p, 2))))
        /\ Action("start") \o Rest(p, 2) = Then("ifStopped", Then("start", Then("waitStart", Rest(p, 2))))
    <3>1. Rest(p, 2) \in Seq(Steps)
      BY <1>2
    <3>2. /\ <<"ifRunning", "stop", "waitStop">> \o Rest(p, 2) =
                 Then("ifRunning", Then("stop", Then("waitStop", Rest(p, 2))))
          /\ <<"ifStopped", "start", "waitStart">> \o Rest(p, 2) =
                 Then("ifStopped", Then("start", Then("waitStart", Rest(p, 2))))
      BY <1>4, <3>1, Unfold3
    <3> QED BY <3>2 DEF Action
  <2>2. CASE "stop" \in Effective(p)
    BY <1>1, <2>1, <2>2 DEF FromAction
  <2>3. CASE "stop" \notin Effective(p) /\ "start" \in Effective(p)
    BY <1>1, <2>1, <2>3 DEF FromAction
  <2>4. CASE "stop" \notin Effective(p) /\ "start" \notin Effective(p)
    <3>1. FromAction(p) = <<>> \o Rest(p, 2)
      BY <1>1, <1>5, <2>4 DEF FromAction
    <3> QED BY <1>1, <1>2, <1>3, <2>4, <3>1
  <2> QED BY <2>2, <2>3, <2>4
<1>8. Rest(p, 2) = IF "interface" \in Effective(p)
                   THEN Then("bind", Then("waitBound", Rest(p, 3))) ELSE Rest(p, 3)
  <2>1. Interface \o Rest(p, 3) = Then("bind", Then("waitBound", Rest(p, 3)))
    BY <1>2, <1>4, Unfold2 DEF Interface
  <2>2. CASE "interface" \in Effective(p)
    BY <1>1, <2>1, <2>2 DEF FromInterface
  <2>3. CASE "interface" \notin Effective(p)
    <3>1. FromInterface(p) = <<>> \o Rest(p, 3)
      BY <1>1, <2>3 DEF FromInterface
    <3> QED BY <1>1, <1>2, <1>3, <2>3, <3>1
  <2> QED BY <2>2, <2>3
<1>9. Rest(p, 3) = IF "secureBoot" \in Effective(p)
                   THEN Then("look", Then("patch", Rest(p, 4))) ELSE Rest(p, 4)
  <2>1. SecureBoot \o Rest(p, 4) = Then("look", Then("patch", Rest(p, 4)))
    BY <1>2, <1>4, Unfold2 DEF SecureBoot
  <2>2. CASE "secureBoot" \in Effective(p)
    BY <1>1, <2>1, <2>2 DEF FromSecureBoot
  <2>3. CASE "secureBoot" \notin Effective(p)
    <3>1. FromSecureBoot(p) = <<>> \o Rest(p, 4)
      BY <1>1, <2>3 DEF FromSecureBoot
    <3> QED BY <1>1, <1>2, <1>3, <2>3, <3>1
  <2> QED BY <2>2, <2>3
<1>10. Rest(p, 4) = IF "profile" \in Effective(p)
                    THEN Then("lookToStop", Then("patch", Then("start",
                            Then("waitAvailable", Rest(p, 5)))))
                    ELSE Rest(p, 5)
  <2>1. Profile \o Rest(p, 5) =
            Then("lookToStop", Then("patch", Then("start", Then("waitAvailable", Rest(p, 5)))))
    <3>1. Rest(p, 5) \in Seq(Steps)
      BY <1>2
    <3>2. <<"lookToStop", "patch", "start", "waitAvailable">> \o Rest(p, 5) =
              Then("lookToStop", Then("patch", Then("start", Then("waitAvailable", Rest(p, 5)))))
      BY <1>4, <3>1, Unfold4, SMTT(20)
    <3> QED BY <3>2 DEF Profile
  <2>2. Profile \o Rest(p, 5) = Profile
    BY <1>1, <1>3, SectionTypes
  <2> QED BY <1>1, <2>1, <2>2 DEF FromProfile
<1> QED BY <1>1, <1>6, <1>7, <1>8, <1>9, <1>10

LEMMA KnownSteps ==
    /\ "create" \in Steps /\ "stop" \in Steps /\ "start" \in Steps /\ "bind" \in Steps
    /\ "patch" \in Steps /\ "delete" \in Steps /\ "waitAvailable" \in Steps /\ "waitBound" \in Steps
    /\ "waitStop" \in Steps /\ "waitStart" \in Steps /\ "ifRunning" \in Steps
    /\ "ifStopped" \in Steps /\ "look" \in Steps /\ "lookToStop" \in Steps
BY DEF Steps, RequestSteps, WaitSteps

\* With recovery a single section is all there is.
LEMMA SingleRest ==
    ASSUME NEW p, Mode(p, TRUE), p.flow # "delete"
    PROVE  /\ "host" \in Effective(p) => Rest(p, 1) = <<>>
           /\ "stop" \in Effective(p) \/ "start" \in Effective(p) => Rest(p, 2) = <<>>
           /\ "interface" \in Effective(p) => Rest(p, 3) = <<>>
           /\ "secureBoot" \in Effective(p) => Rest(p, 4) = <<>>
<1>1. /\ "reboot" \notin p.changes
      /\ \A c, d \in Effective(p) : c = d
  BY DEF Mode, Effective
<1>2. Rest(p, 5) = <<>>
  BY <1>1, RestShape
<1>3. "profile" \notin Effective(p) => Rest(p, 4) = <<>>
  BY <1>1, <1>2, RestShape
<1>4. "profile" \notin Effective(p) /\ "secureBoot" \notin Effective(p) => Rest(p, 3) = <<>>
  BY <1>1, <1>3, RestShape
<1>5. "interface" \notin Effective(p) /\ Rest(p, 3) = <<>> => Rest(p, 2) = <<>>
  BY <1>1, RestShape
<1>6. "stop" \notin Effective(p) /\ "start" \notin Effective(p) /\ Rest(p, 2) = <<>> => Rest(p, 1) = <<>>
  BY <1>1, RestShape
<1> QED BY <1>1, <1>3, <1>4, <1>5, <1>6

\* What is expected is a settled state; what each section adds to it.
LEMMA Expectations ==
    ASSUME NEW p
    PROVE  /\ \A k \in 0..5 : Expected(p, k) \subseteq Settled
           /\ Expected(p, 1) = IF "host" \in Effective(p) THEN {"running"} ELSE Expected(p, 0)
           /\ Expected(p, 2) = IF "stop" \in Effective(p) THEN {"stopped"}
                               ELSE IF "start" \in Effective(p) THEN {"running"} ELSE Expected(p, 1)
           /\ Expected(p, 3) = IF "interface" \in Effective(p) THEN {"running"} ELSE Expected(p, 2)
           /\ Expected(p, 4) = Expected(p, 3)
           /\ Expected(p, 5) = IF "profile" \in Effective(p) THEN {"running"} ELSE Expected(p, 4)
BY DEF Expected, AfterProfile, AfterInterface, AfterAction, AfterHost, Settled

\* A handler between two sections is at a place when the instance is what it
\* expects.
LEMMA EnterPlace ==
    ASSUME NEW p, NEW r \in BOOLEAN, NEW i, NEW k \in 0..5, Mode(p, r), p.flow # "delete",
           Quiet(Expected(p, k), i)
    PROVE  Place(p, r, Rest(p, k), i)
<1>1. "reboot" \notin p.changes /\ (r => Mode(p, TRUE))
  BY DEF Mode
<1>2. \A n \in 0..5 : Quiet(Expected(p, n), i) => Quiet(Settled, i)
  BY Expectations DEF Quiet
<1>3. /\ Rest(p, 0) \in Seq(Steps) /\ Rest(p, 1) \in Seq(Steps) /\ Rest(p, 2) \in Seq(Steps)
      /\ Rest(p, 3) \in Seq(Steps) /\ Rest(p, 4) \in Seq(Steps) /\ Rest(p, 5) \in Seq(Steps)
  BY RestTypes
<1>4. Quiet(Expected(p, 5), i) => Place(p, r, Rest(p, 5), i)
  BY <1>1, RestShape DEF Place, Over
<1>5. Quiet(Expected(p, 4), i) => Place(p, r, Rest(p, 4), i)
  <2>1. CASE "profile" \in Effective(p)
    <3>1. Is(Rest(p, 4), "lookToStop", Then("patch", Then("start", Then("waitAvailable", Rest(p, 5)))))
      BY <1>1, <1>3, <2>1, RestShape, ThenIs, KnownSteps
    <3>2. "running" \in Expected(p, 5)
      BY <2>1, Expectations
    <3> QED BY <1>2, <3>1, <3>2 DEF Place, AtProfile
  <2>2. CASE "profile" \notin Effective(p)
    BY <1>1, <1>4, <2>2, RestShape, Expectations
  <2> QED BY <2>1, <2>2
<1>6. Quiet(Expected(p, 3), i) => Place(p, r, Rest(p, 3), i)
  <2>1. CASE "secureBoot" \in Effective(p)
    <3>1. Is(Rest(p, 3), "look", Then("patch", Rest(p, 4)))
      BY <1>1, <1>3, <2>1, RestShape, ThenIs, KnownSteps
    <3>2. Expected(p, 4) = Expected(p, 3) /\ (r => Rest(p, 4) = <<>>)
      BY <1>1, <2>1, Expectations, SingleRest
    <3> QED BY <3>1, <3>2 DEF Place, AtSecureBoot
  <2>2. CASE "secureBoot" \notin Effective(p)
    BY <1>1, <1>5, <2>2, RestShape, Expectations
  <2> QED BY <2>1, <2>2
<1>7. Quiet(Expected(p, 2), i) => Place(p, r, Rest(p, 2), i)
  <2>1. CASE "interface" \in Effective(p)
    <3>1. Is(Rest(p, 2), "bind", Then("waitBound", Rest(p, 3)))
      BY <1>1, <1>3, <2>1, RestShape, ThenIs, KnownSteps
    <3>2. "running" \in Expected(p, 3) /\ (r => Rest(p, 3) = <<>>)
      BY <1>1, <2>1, Expectations, SingleRest
    <3> QED BY <1>2, <3>1, <3>2 DEF Place, AtInterface
  <2>2. CASE "interface" \notin Effective(p)
    BY <1>1, <1>6, <2>2, RestShape, Expectations
  <2> QED BY <2>1, <2>2
<1>8. Quiet(Expected(p, 1), i) => Place(p, r, Rest(p, 1), i)
  <2>1. CASE "stop" \in Effective(p)
    <3>1. Is(Rest(p, 1), "ifRunning", Then("stop", Then("waitStop", Rest(p, 2))))
      BY <1>1, <1>3, <2>1, RestShape, ThenIs, KnownSteps
    <3>2. "stopped" \in Expected(p, 2) /\ (r => Rest(p, 2) = <<>>)
      BY <1>1, <2>1, Expectations, SingleRest
    <3> QED BY <1>2, <3>1, <3>2 DEF Place, AtAction
  <2>2. CASE "stop" \notin Effective(p) /\ "start" \in Effective(p)
    <3>1. Is(Rest(p, 1), "ifStopped", Then("start", Then("waitStart", Rest(p, 2))))
      BY <1>1, <1>3, <2>2, RestShape, ThenIs, KnownSteps
    <3>2. "running" \in Expected(p, 2) /\ (r => Rest(p, 2) = <<>>)
      BY <1>1, <2>2, Expectations, SingleRest
    <3> QED BY <1>2, <3>1, <3>2 DEF Place, AtAction
  <2>3. CASE "stop" \notin Effective(p) /\ "start" \notin Effective(p)
    BY <1>1, <1>7, <2>3, RestShape, Expectations
  <2> QED BY <2>1, <2>2, <2>3
<1>9. Quiet(Expected(p, 0), i) => Place(p, r, Rest(p, 0), i)
  <2>1. CASE "host" \in Effective(p)
    <3>1. Is(Rest(p, 0), "stop", Then("waitStop", Then("patch", Then("start",
                                     Then("waitStart", Rest(p, 1))))))
      BY <1>1, <1>3, <2>1, RestShape, ThenIs, KnownSteps
    <3>2. "running" \in Expected(p, 1) /\ (r => Rest(p, 1) = <<>>)
      BY <1>1, <2>1, Expectations, SingleRest
    <3> QED BY <1>2, <3>1, <3>2 DEF Place, AtRestart
  <2>2. CASE "host" \notin Effective(p)
    BY <1>1, <1>8, <2>2, RestShape, Expectations
  <2> QED BY <2>1, <2>2
<1> QED BY <1>4, <1>5, <1>6, <1>7, <1>8, <1>9

\* Concatenation as an operator of its own: the provers need not unfold it.
Joined(s, t) == s \o t

LEMMA JoinedOnce ==
    ASSUME NEW S, NEW s \in Seq(S), NEW t \in Seq(S), NEW u \in Seq(S)
    PROVE  Joined(s, t) \in Seq(S) /\ Joined(Joined(s, t), u) = Joined(s, Joined(t, u))
BY ConcatAssociative DEF Joined

LEMMA FiveSections ==
    ASSUME NEW S, NEW a \in Seq(S), NEW b \in Seq(S), NEW c \in Seq(S), NEW d \in Seq(S), NEW e \in Seq(S)
    PROVE  Joined(Joined(Joined(Joined(a, b), c), d), e) = Joined(a, Joined(b, Joined(c, Joined(d, e))))
<1>1. \A s, t, u \in Seq(S) :
          Joined(s, t) \in Seq(S) /\ Joined(Joined(s, t), u) = Joined(s, Joined(t, u))
  BY JoinedOnce
<1>2. /\ Joined(a, b) \in Seq(S) /\ Joined(Joined(a, b), c) \in Seq(S)
      /\ Joined(d, e) \in Seq(S) /\ Joined(c, Joined(d, e)) \in Seq(S)
  BY <1>1
<1>3. Joined(Joined(Joined(Joined(a, b), c), d), e) = Joined(Joined(Joined(a, b), c), Joined(d, e))
  BY <1>1, <1>2
<1>4. Joined(Joined(Joined(a, b), c), Joined(d, e)) = Joined(Joined(a, b), Joined(c, Joined(d, e)))
  BY <1>1, <1>2
<1>5. Joined(Joined(a, b), Joined(c, Joined(d, e))) = Joined(a, Joined(b, Joined(c, Joined(d, e))))
  BY <1>1, <1>2
<1> QED BY <1>3, <1>4, <1>5

\* The program of an update is what remains at its beginning.
LEMMA UpdateIsRest == ASSUME NEW p PROVE Update(Effective(p)) = Rest(p, 0)
<1>1. <<>> \in Seq(Steps)
  OBVIOUS
<1>2. PICK host \in Seq(Steps) : host = IF "host" \in Effective(p) THEN Host ELSE <<>>
  BY <1>1, SectionTypes
<1>3. PICK action \in Seq(Steps) :
          action = IF "stop" \in Effective(p) THEN Action("stop")
                   ELSE IF "start" \in Effective(p) THEN Action("start")
                   ELSE IF "reboot" \in Effective(p) THEN Action("reboot") ELSE <<>>
  BY <1>1, SectionTypes
<1>4. PICK interface \in Seq(Steps) :
          interface = IF "interface" \in Effective(p) THEN Interface ELSE <<>>
  BY <1>1, SectionTypes
<1>5. PICK secureBoot \in Seq(Steps) :
          secureBoot = IF "secureBoot" \in Effective(p) THEN SecureBoot ELSE <<>>
  BY <1>1, SectionTypes
<1>6. PICK profile \in Seq(Steps) : profile = IF "profile" \in Effective(p) THEN Profile ELSE <<>>
  BY <1>1, SectionTypes
<1>7. Update(Effective(p)) = (((host \o action) \o interface) \o secureBoot) \o profile
  BY <1>2, <1>3, <1>4, <1>5, <1>6 DEF Update
<1>8. Rest(p, 0) = host \o (action \o (interface \o (secureBoot \o profile)))
  <2>1. FromProfile(p) = profile
    BY <1>6 DEF FromProfile
  <2>2. FromSecureBoot(p) = secureBoot \o profile
    BY <1>5, <2>1 DEF FromSecureBoot
  <2>3. FromInterface(p) = interface \o (secureBoot \o profile)
    BY <1>4, <2>2 DEF FromInterface
  <2>4. FromAction(p) = action \o (interface \o (secureBoot \o profile))
    BY <1>3, <2>3 DEF FromAction
  <2>5. FromHost(p) = host \o (action \o (interface \o (secureBoot \o profile)))
    BY <1>2, <2>4 DEF FromHost
  <2>6. Rest(p, 0) = FromHost(p)
    BY DEF Rest
  <2> QED BY <2>5, <2>6
<1>9. (((host \o action) \o interface) \o secureBoot) \o profile =
          host \o (action \o (interface \o (secureBoot \o profile)))
  <2>1. Joined(Joined(Joined(Joined(host, action), interface), secureBoot), profile) =
            Joined(host, Joined(action, Joined(interface, Joined(secureBoot, profile))))
    BY FiveSections
  <2> QED BY <2>1 DEF Joined
<1> QED BY <1>7, <1>8, <1>9

-----------------------------------------------------------------------------
(* From one place to the next: what holds at step Head(t), and what makes   *)
(* Tail(t) a place again                                                    *)

\* Sequences built of known steps and remaining sections.
LEMMA TailTypes ==
    ASSUME NEW p
    PROVE  /\ Rest(p, 0) \in Seq(Steps) /\ Rest(p, 1) \in Seq(Steps) /\ Rest(p, 2) \in Seq(Steps)
           /\ Rest(p, 3) \in Seq(Steps) /\ Rest(p, 4) \in Seq(Steps) /\ Rest(p, 5) \in Seq(Steps)
           /\ \A k \in 0..5 : Rest(p, k) \in Seq(Steps)
           /\ \A w \in {"waitStart", "waitAvailable"}, k \in 0..5 :
                 /\ Then(w, Rest(p, k)) \in Seq(Steps)
                 /\ Then("start", Then(w, Rest(p, k))) \in Seq(Steps)
                 /\ Then("patch", Then("start", Then(w, Rest(p, k)))) \in Seq(Steps)
           /\ Then("delete", <<>>) \in Seq(Steps)
<1>1. Then("delete", <<>>) \in Seq(Steps)
  BY KnownSteps DEF Then
<1>2. \A k \in 0..5 : Rest(p, k) \in Seq(Steps)
  BY RestTypes
<1>3. ASSUME NEW w \in {"waitStart", "waitAvailable"}, NEW k \in 0..5
      PROVE  /\ Then(w, Rest(p, k)) \in Seq(Steps)
             /\ Then("start", Then(w, Rest(p, k))) \in Seq(Steps)
             /\ Then("patch", Then("start", Then(w, Rest(p, k)))) \in Seq(Steps)
  BY <1>2, ThenIs, KnownSteps
<1>4. /\ Rest(p, 0) \in Seq(Steps) /\ Rest(p, 1) \in Seq(Steps) /\ Rest(p, 2) \in Seq(Steps)
      /\ Rest(p, 3) \in Seq(Steps) /\ Rest(p, 4) \in Seq(Steps) /\ Rest(p, 5) \in Seq(Steps)
  BY <1>2
<1> QED BY <1>1, <1>2, <1>3, <1>4

LEMMA FromCreate ==
    ASSUME NEW p, NEW r \in BOOLEAN, NEW t, NEW i, Place(p, r, t, i), t # <<>>, Head(t) = "create"
    PROVE  /\ ~r
           /\ \A j : Rising(r, j) => Place(p, r, Tail(t), j)
<1>1. p.flow = "create" /\ ~r /\ Tail(t) = Then("waitAvailable", Rest(p, 0))
  BY DEF Place, Over, AtDelete, AtCreate, AtRestart, AtAction, AtInterface, AtSecureBoot, AtProfile, Is
<1>2. Is(Tail(t), "waitAvailable", Rest(p, 0))
  BY <1>1, TailTypes, ThenIs, KnownSteps
<1>3. "running" \in Expected(p, 0)
  BY <1>1 DEF Expected
<1> QED BY <1>1, <1>2, <1>3 DEF Place, AtRestart

LEMMA FromStop ==
    ASSUME NEW p, NEW r \in BOOLEAN, NEW t, NEW i, Place(p, r, t, i), t # <<>>, Head(t) = "stop"
    PROVE  /\ Quiet(Settled, i)
           /\ Tail(t) # <<>> /\ Head(Tail(t)) = "waitStop"
           /\ \A j : Halting(r, {i.status}, j) => Place(p, r, Tail(t), j)
<1>1. \A S, j : i.status \in S /\ Halting(r, {i.status}, j) => Halting(r, S, j)
  BY DEF Halting
<1>2. CASE p.flow = "delete"
  <2>1. Tail(t) = Then("waitStop", Then("delete", <<>>)) /\ Quiet(Settled, i)
    BY <1>2 DEF Place, Over, AtDelete, Is
  <2>2. Is(Tail(t), "waitStop", Then("delete", <<>>))
    BY <2>1, TailTypes, ThenIs, KnownSteps
  <2> QED BY <1>1, <1>2, <2>1, <2>2 DEF Place, AtDelete, Quiet, Is
<1>3. CASE p.flow # "delete" /\ AtRestart(p, r, t, i)
  <2>1. PICK w \in {"waitStart", "waitAvailable"}, k \in 0..5 :
            /\ "running" \in Expected(p, k) /\ (r => Rest(p, k) = <<>>)
            /\ Tail(t) = Then("waitStop", Then("patch", Then("start", Then(w, Rest(p, k)))))
            /\ Quiet(Settled, i)
    BY <1>3 DEF AtRestart, Is
  <2>2. Is(Tail(t), "waitStop", Then("patch", Then("start", Then(w, Rest(p, k)))))
    BY <2>1, TailTypes, ThenIs, KnownSteps
  <2> QED BY <1>1, <1>3, <2>1, <2>2 DEF Place, AtRestart, Quiet, Is
<1>4. CASE p.flow # "delete" /\ AtAction(p, r, t, i)
  <2>1. /\ "stopped" \in Expected(p, 2) /\ (r => Rest(p, 2) = <<>>)
        /\ Tail(t) = Then("waitStop", Rest(p, 2)) /\ Quiet({"running"}, i)
    BY <1>4 DEF AtAction, Is
  <2>2. Is(Tail(t), "waitStop", Rest(p, 2))
    BY <2>1, TailTypes, ThenIs, KnownSteps
  <2>3. Quiet(Settled, i)
    BY <2>1 DEF Quiet, Settled
  <2> QED BY <1>1, <1>4, <2>1, <2>2, <2>3 DEF Place, AtAction, Quiet, Is
<1> QED BY <1>2, <1>3, <1>4 DEF Place, Over, AtCreate, AtInterface, AtSecureBoot, AtProfile, Is

\* The wait for a stop ends with a stopped instance, and with no wait after it.
LEMMA FromWaitStop ==
    ASSUME NEW p, NEW r \in BOOLEAN, NEW t, NEW i, Place(p, r, t, i), Mode(p, r),
           t # <<>>, Head(t) = "waitStop"
    PROVE  /\ Halting(r, Settled, i)
           /\ r => Tail(t) = <<>> \/ Head(Tail(t)) \notin WaitSteps
           /\ \A j : i.status = "stopped" /\ j.asked = i.asked /\ Halted(j) /\ (~r => j.left = {})
                        => Place(p, r, Tail(t), j)
<1>1. CASE p.flow = "delete"
  <2>1. Tail(t) = Then("delete", <<>>) /\ Halting(r, Settled, i)
    BY <1>1 DEF Place, Over, AtDelete, Is
  <2>2. Is(Tail(t), "delete", <<>>)
    <3>1. <<>> \in Seq(Steps)
      OBVIOUS
    <3> QED BY <2>1, <3>1, ThenIs, KnownSteps
  <2> QED BY <1>1, <2>1, <2>2 DEF Place, AtDelete, Is, WaitSteps
<1>2. CASE p.flow # "delete" /\ AtRestart(p, r, t, i)
  <2>1. PICK w \in {"waitStart", "waitAvailable"}, k \in 0..5 :
            /\ "running" \in Expected(p, k) /\ (r => Rest(p, k) = <<>>)
            /\ Tail(t) = Then("patch", Then("start", Then(w, Rest(p, k))))
            /\ Halting(r, Settled, i)
    BY <1>2 DEF AtRestart, Is
  <2>2. Is(Tail(t), "patch", Then("start", Then(w, Rest(p, k))))
    BY <2>1, TailTypes, ThenIs, KnownSteps
  <2> QED BY <1>2, <2>1, <2>2 DEF Place, AtRestart, Is, WaitSteps
<1>3. CASE p.flow # "delete" /\ AtAction(p, r, t, i)
  <2>1. /\ "stopped" \in Expected(p, 2) /\ (r => Rest(p, 2) = <<>>)
        /\ Tail(t) = Rest(p, 2) /\ Halting(r, {"running"}, i)
    BY <1>3 DEF AtAction, Is
  <2>2. Halting(r, Settled, i)
    BY <2>1 DEF Halting, Settled
  <2>3. CASE r
    BY <1>3, <2>1, <2>2, <2>3 DEF Place, Over
  <2>4. CASE ~r
    <3>1. ASSUME NEW j, i.status = "stopped", j.asked = i.asked, Halted(j), j.left = {}
          PROVE  Place(p, r, Rest(p, 2), j)
      <4>1. Quiet(Expected(p, 2), j)
        BY <2>1, <2>4, <3>1 DEF Halting, Halted, Quiet
      <4> QED BY <1>3, <4>1, EnterPlace
    <3> QED BY <2>1, <2>2, <2>4, <3>1
  <2> QED BY <2>3, <2>4
<1> QED BY <1>1, <1>2, <1>3 DEF Place, Over, AtCreate, AtInterface, AtSecureBoot, AtProfile, Is

LEMMA FromPatch ==
    ASSUME NEW p, NEW r \in BOOLEAN, NEW t, NEW i, Place(p, r, t, i), Mode(p, r),
           t # <<>>, Head(t) = "patch"
    PROVE  /\ i.status = "stopped" /\ i.routine = "none"
           /\ r => Tail(t) = <<>> \/ Head(Tail(t)) \notin WaitSteps
           /\ Place(p, r, Tail(t), i)
<1>1. p.flow # "delete"
  BY DEF Place, Over, AtDelete, Is
<1>2. CASE AtRestart(p, r, t, i)
  <2>1. PICK w \in {"waitStart", "waitAvailable"}, k \in 0..5 :
            /\ "running" \in Expected(p, k) /\ (r => Rest(p, k) = <<>>)
            /\ Tail(t) = Then("start", Then(w, Rest(p, k)))
            /\ Halted(i)
    BY <1>2 DEF AtRestart, Is
  <2>2. Is(Tail(t), "start", Then(w, Rest(p, k)))
    BY <2>1, TailTypes, ThenIs, KnownSteps
  <2> QED BY <1>1, <2>1, <2>2 DEF Place, AtRestart, Is, WaitSteps, Halted
<1>3. CASE AtSecureBoot(p, r, t, i)
  <2>1. /\ Quiet(Expected(p, 4) \cap {"stopped"}, i) /\ (r => Rest(p, 4) = <<>>)
        /\ Tail(t) = Rest(p, 4)
    BY <1>3 DEF AtSecureBoot, Is
  <2>2. Quiet(Expected(p, 4), i)
    BY <2>1 DEF Quiet
  <2>3. Place(p, r, Rest(p, 4), i)
    BY <1>1, <2>2, EnterPlace
  <2> QED BY <2>1, <2>3 DEF Quiet
<1> QED BY <1>1, <1>2, <1>3 DEF Place, Over, AtCreate, AtAction, AtInterface, AtProfile, Is

LEMMA FromStart ==
    ASSUME NEW p, NEW r \in BOOLEAN, NEW t, NEW i, Place(p, r, t, i), t # <<>>, Head(t) = "start"
    PROVE  /\ Halted(i)
           /\ \A j : Rising(r, j) => Place(p, r, Tail(t), j)
<1>1. PICK w \in {"waitStart", "waitAvailable"}, k \in 0..5 :
          /\ p.flow # "delete"
          /\ "running" \in Expected(p, k) /\ (r => Rest(p, k) = <<>>)
          /\ Tail(t) = Then(w, Rest(p, k))
          /\ Halted(i)
  BY DEF Place, Over, AtDelete, AtCreate, AtRestart, AtAction, AtInterface, AtSecureBoot, AtProfile, Is
<1>2. Is(Tail(t), w, Rest(p, k))
  BY <1>1, TailTypes, ThenIs, KnownSteps
<1> QED BY <1>1, <1>2 DEF Place, AtRestart

LEMMA FromWaitRunning ==
    ASSUME NEW p, NEW r \in BOOLEAN, NEW t, NEW i, Place(p, r, t, i), Mode(p, r),
           t # <<>>, Head(t) \in {"waitStart", "waitAvailable"}
    PROVE  /\ Rising(r, i)
           /\ r => Tail(t) = <<>>
           /\ \A j : r \/ Quiet({"running"}, j) => Place(p, r, Tail(t), j)
<1>1. PICK k \in 0..5 :
          /\ p.flow # "delete"
          /\ "running" \in Expected(p, k) /\ (r => Rest(p, k) = <<>>)
          /\ Tail(t) = Rest(p, k)
          /\ Rising(r, i)
  BY DEF Place, Over, AtDelete, AtCreate, AtRestart, AtAction, AtInterface, AtSecureBoot, AtProfile, Is
<1>2. CASE r
  BY <1>1, <1>2 DEF Place, Over
<1>3. CASE ~r
  <2>1. \A j : Quiet({"running"}, j) => Quiet(Expected(p, k), j)
    BY <1>1 DEF Quiet
  <2> QED BY <1>1, <1>3, <2>1, EnterPlace
<1> QED BY <1>2, <1>3

LEMMA FromBind ==
    ASSUME NEW p, NEW r \in BOOLEAN, NEW t, NEW i, Place(p, r, t, i), t # <<>>, Head(t) = "bind"
    PROVE  /\ Quiet(Settled, i)
           /\ \A j : r \/ j = i => Place(p, r, Tail(t), j)
<1>1. /\ p.flow # "delete"
      /\ "running" \in Expected(p, 3) /\ (r => Rest(p, 3) = <<>>)
      /\ Tail(t) = Then("waitBound", Rest(p, 3))
      /\ Quiet(Settled, i)
  BY DEF Place, Over, AtDelete, AtCreate, AtRestart, AtAction, AtInterface, AtSecureBoot, AtProfile, Is
<1>2. Is(Tail(t), "waitBound", Rest(p, 3))
  BY <1>1, TailTypes, ThenIs, KnownSteps
<1> QED BY <1>1, <1>2 DEF Place, AtInterface

LEMMA FromWaitBound ==
    ASSUME NEW p, NEW r \in BOOLEAN, NEW t, NEW i, Place(p, r, t, i), Mode(p, r),
           t # <<>>, Head(t) = "waitBound"
    PROVE  /\ r \/ Quiet(Settled, i)
           /\ r => Tail(t) = <<>>
           /\ \A j : r \/ Quiet({"running"}, j) => Place(p, r, Tail(t), j)
<1>1. /\ p.flow # "delete"
      /\ "running" \in Expected(p, 3) /\ (r => Rest(p, 3) = <<>>)
      /\ Tail(t) = Rest(p, 3)
      /\ r \/ Quiet(Settled, i)
  BY DEF Place, Over, AtDelete, AtCreate, AtRestart, AtAction, AtInterface, AtSecureBoot, AtProfile, Is
<1>2. CASE r
  BY <1>1, <1>2 DEF Place, Over
<1>3. CASE ~r
  <2>1. ASSUME NEW j, Quiet({"running"}, j) PROVE Place(p, r, Rest(p, 3), j)
    <3>1. Quiet(Expected(p, 3), j)
      BY <1>1, <2>1 DEF Quiet
    <3> QED BY <1>1, <3>1, EnterPlace
  <2> QED BY <1>1, <1>3, <2>1
<1> QED BY <1>2, <1>3

LEMMA FromDelete ==
    ASSUME NEW p, NEW r \in BOOLEAN, NEW t, NEW i, Place(p, r, t, i), t # <<>>, Head(t) = "delete"
    PROVE  /\ Halted(i) /\ Tail(t) = <<>>
           /\ \A j : j.status = "absent" /\ j.asked = "none" => Place(p, r, Tail(t), j)
BY DEF Place, Over, AtDelete, AtCreate, AtRestart, AtAction, AtInterface, AtSecureBoot, AtProfile, Is

LEMMA FromIfRunning ==
    ASSUME NEW p, NEW r \in BOOLEAN, NEW t, NEW i, Place(p, r, t, i), t # <<>>, Head(t) = "ifRunning"
    PROVE  /\ Quiet(Settled, i)
           /\ Tail(t) # <<>> /\ Head(Tail(t)) = "stop"
           /\ i.status = "running" => Place(p, r, Tail(t), i)
<1>1. /\ p.flow # "delete"
      /\ "stopped" \in Expected(p, 2) /\ (r => Rest(p, 2) = <<>>)
      /\ Tail(t) = Then("stop", Then("waitStop", Rest(p, 2)))
      /\ Quiet(Settled, i)
  BY DEF Place, Over, AtDelete, AtCreate, AtRestart, AtAction, AtInterface, AtSecureBoot, AtProfile, Is
<1>2. Is(Tail(t), "stop", Then("waitStop", Rest(p, 2)))
  BY <1>1, TailTypes, ThenIs, KnownSteps
<1>3. i.status = "running" => Quiet({"running"}, i)
  BY <1>1 DEF Quiet
<1> QED BY <1>1, <1>2, <1>3 DEF Place, AtAction, Is

LEMMA FromIfStopped ==
    ASSUME NEW p, NEW r \in BOOLEAN, NEW t, NEW i, Place(p, r, t, i), t # <<>>, Head(t) = "ifStopped"
    PROVE  /\ Quiet(Settled, i)
           /\ Tail(t) # <<>> /\ Head(Tail(t)) = "start"
           /\ i.status = "stopped" => Place(p, r, Tail(t), i)
<1>1. /\ p.flow # "delete"
      /\ "running" \in Expected(p, 2) /\ (r => Rest(p, 2) = <<>>)
      /\ Tail(t) = Then("start", Then("waitStart", Rest(p, 2)))
      /\ Quiet(Settled, i)
  BY DEF Place, Over, AtDelete, AtCreate, AtRestart, AtAction, AtInterface, AtSecureBoot, AtProfile, Is
<1>2. Is(Tail(t), "start", Then("waitStart", Rest(p, 2)))
  BY <1>1, TailTypes, ThenIs, KnownSteps
<1>3. i.status = "stopped" => Halted(i)
  BY <1>1 DEF Quiet, Halted
<1>4. i.status = "stopped" => AtRestart(p, r, Tail(t), i)
  BY <1>1, <1>2, <1>3 DEF AtRestart
<1> QED BY <1>1, <1>2, <1>4 DEF Place, Is

\* Secure boot: by way of a stop and a start, or at once.
LEMMA FromLook ==
    ASSUME NEW p, NEW r \in BOOLEAN, NEW t, NEW i, Place(p, r, t, i), t # <<>>, Head(t) = "look"
    PROVE  Place(p, r, (IF i.status = "running"
                        THEN <<"stop", "waitStop", "patch", "start", "waitAvailable">>
                        ELSE <<"patch">>) \o Tail(Tail(t)), i)
<1>1. /\ p.flow # "delete"
      /\ r => Rest(p, 4) = <<>>
      /\ Tail(t) = Then("patch", Rest(p, 4))
      /\ Quiet(Expected(p, 4), i)
  BY DEF Place, Over, AtDelete, AtCreate, AtRestart, AtAction, AtInterface, AtSecureBoot, AtProfile, Is
<1>2. Tail(Tail(t)) = Rest(p, 4) /\ Rest(p, 4) \in Seq(Steps)
  <2>1. Rest(p, 4) \in Seq(Steps)
    BY TailTypes
  <2>2. Is(Then("patch", Rest(p, 4)), "patch", Rest(p, 4))
    BY <2>1, ThenIs, KnownSteps
  <2> QED BY <1>1, <2>1, <2>2 DEF Is
<1>3. CASE i.status = "running"
  <2>1. <<"stop", "waitStop", "patch", "start", "waitAvailable">> \o Rest(p, 4) =
            Then("stop", Then("waitStop", Then("patch", Then("start", Then("waitAvailable", Rest(p, 4))))))
    BY <1>2, UnfoldRestart
  <2>2. Is(Then("stop", Then("waitStop", Then("patch", Then("start", Then("waitAvailable", Rest(p, 4)))))),
           "stop", Then("waitStop", Then("patch", Then("start", Then("waitAvailable", Rest(p, 4))))))
    BY <1>2, ThenIs, KnownSteps
  <2>3. "running" \in Expected(p, 4) /\ Quiet(Settled, i)
    BY <1>1, <1>3, Expectations DEF Quiet
  <2>4. Place(p, r, <<"stop", "waitStop", "patch", "start", "waitAvailable">> \o Rest(p, 4), i)
    <3>1. AtRestart(p, r, Then("stop", Then("waitStop", Then("patch", Then("start",
                             Then("waitAvailable", Rest(p, 4)))))), i)
      BY <1>1, <2>2, <2>3 DEF AtRestart
    <3> QED BY <1>1, <2>1, <3>1 DEF Place
  <2> QED BY <1>2, <1>3, <2>4
<1>4. CASE i.status # "running"
  <2>1. <<"patch">> \o Rest(p, 4) = Then("patch", Rest(p, 4))
    BY DEF Then
  <2>2. Is(Then("patch", Rest(p, 4)), "patch", Rest(p, 4))
    BY <1>2, ThenIs, KnownSteps
  <2>3. Quiet(Expected(p, 4) \cap {"stopped"}, i)
    BY <1>1, <1>4, Expectations DEF Quiet, Settled
  <2>4. Place(p, r, <<"patch">> \o Rest(p, 4), i)
    BY <1>1, <2>1, <2>2, <2>3 DEF Place, AtSecureBoot
  <2> QED BY <1>2, <1>4, <2>4
<1> QED BY <1>3, <1>4

LEMMA FromLookToStop ==
    ASSUME NEW p, NEW r \in BOOLEAN, NEW t, NEW i, Place(p, r, t, i), Mode(p, r),
           t # <<>>, Head(t) = "lookToStop"
    PROVE  Place(p, r, (IF i.status = "running" THEN <<"stop", "waitStop">> ELSE <<>>) \o Tail(t), i)
<1> DEFINE start == Then("start", Then("waitAvailable", Rest(p, 5)))
<1>1. /\ p.flow # "delete"
      /\ Rest(p, 5) = <<>> /\ "running" \in Expected(p, 5)
      /\ Tail(t) = Then("patch", start)
      /\ Quiet(Settled, i)
  BY RestShape DEF Place, Over, AtDelete, AtCreate, AtRestart, AtAction, AtInterface, AtSecureBoot,
                   AtProfile, Is, Mode
<1>2. start \in Seq(Steps) /\ Then("patch", start) \in Seq(Steps)
  BY TailTypes
<1> HIDE DEF start
<1>3. CASE i.status = "running"
  <2>1. <<"stop", "waitStop">> \o Then("patch", start) = Then("stop", Then("waitStop", Then("patch", start)))
    BY <1>2, Unfold2, KnownSteps
  <2>2. Is(Then("stop", Then("waitStop", Then("patch", start))), "stop", Then("waitStop", Then("patch", start)))
    BY <1>2, ThenIs, KnownSteps
  <2>3. AtRestart(p, r, Then("stop", Then("waitStop", Then("patch", start))), i)
    BY <1>1, <2>2 DEF AtRestart, start
  <2> QED BY <1>1, <1>3, <2>1, <2>3 DEF Place
<1>4. CASE i.status # "running"
  <2>1. <<>> \o Then("patch", start) = Then("patch", start)
    BY <1>2, ConcatEmptySeq
  <2>2. Is(Then("patch", start), "patch", start)
    BY <1>2, ThenIs, KnownSteps
  <2>3. Halted(i)
    BY <1>1, <1>4 DEF Quiet, Settled, Halted
  <2>4. AtRestart(p, r, Then("patch", start), i)
    BY <1>1, <2>2, <2>3 DEF AtRestart, start
  <2> QED BY <1>1, <1>4, <2>1, <2>4 DEF Place
<1> QED BY <1>3, <1>4

-----------------------------------------------------------------------------
(* Types: a look at the instance is never a handler's last step *)

Good(s) == s \in Seq(Steps) /\ (s # <<>> => s[Len(s)] # "look")

TypeInv == TypeOK /\ Good(todo)

LEMMA GoodTail == ASSUME NEW s, Good(s), s # <<>> PROVE Good(Tail(s))
BY HeadTailProperties DEF Good

LEMMA GoodConcat == ASSUME NEW s, NEW t, Good(s), Good(t) PROVE Good(s \o t)
<1>1. s \in Seq(Steps) /\ t \in Seq(Steps) /\ Len(s) \in Nat /\ Len(t) \in Nat
  BY DEF Good
<1>2. /\ s \o t \in Seq(Steps) /\ Len(s \o t) = Len(s) + Len(t)
      /\ \A i \in 1..(Len(s) + Len(t)) : (s \o t)[i] = IF i <= Len(s) THEN s[i] ELSE t[i - Len(s)]
  BY <1>1, ConcatProperties
<1>3. CASE t = <<>>
  <2>1. s \o t = s
    BY <1>1, <1>3, ConcatEmptySeq
  <2> QED BY <2>1
<1>4. CASE t # <<>>
  <2>1. Len(t) > 0 /\ t[Len(t)] # "look"
    BY <1>1, <1>4 DEF Good
  <2>2. (s \o t)[Len(s) + Len(t)] = t[Len(t)]
    BY <1>1, <1>2, <2>1
  <2> QED BY <1>2, <2>1, <2>2 DEF Good
<1> QED BY <1>3, <1>4

LEMMA GoodSections ==
    /\ Good(<<>>) /\ Good(<<"patch">>) /\ Good(<<"stop", "waitStop">>)
    /\ Good(<<"stop", "waitStop", "patch", "start", "waitAvailable">>)
    /\ Good(Host) /\ Good(Interface) /\ Good(SecureBoot) /\ Good(Profile)
    /\ Good(Create) /\ Good(Delete)
    /\ Good(Action("stop")) /\ Good(Action("start")) /\ Good(Action("reboot"))
BY KnownSteps DEF Good, Host, Interface, SecureBoot, Profile, Create, Delete, Action, Steps, RequestSteps

LEMMA GoodProgram == ASSUME NEW p, p.flow \in Flows PROVE Good(Program(p))
<1>1. ASSUME NEW changes PROVE Good(Update(changes))
  <2>1. Good(IF "host" \in changes THEN Host ELSE <<>>)
    BY GoodSections
  <2>2. Good(IF "stop" \in changes THEN Action("stop")
             ELSE IF "start" \in changes THEN Action("start")
             ELSE IF "reboot" \in changes THEN Action("reboot") ELSE <<>>)
    BY GoodSections
  <2>3. Good(IF "interface" \in changes THEN Interface ELSE <<>>)
    BY GoodSections
  <2>4. Good(IF "secureBoot" \in changes THEN SecureBoot ELSE <<>>)
    BY GoodSections
  <2>5. Good(IF "profile" \in changes THEN Profile ELSE <<>>)
    BY GoodSections
  <2> QED BY <2>1, <2>2, <2>3, <2>4, <2>5, GoodConcat DEF Update
<1> QED BY <1>1, GoodSections, GoodConcat DEF Program, Flows

LEMMA TypeInit == ASSUME Init PROVE TypeInv
<1>1. plan.flow \in Flows
  BY PlansAssumption DEF Init
<1>2. Good(todo)
  BY <1>1, GoodProgram DEF Init
<1>3. status \in Statuses
  BY FlagsAssumption DEF Init, Statuses
<1>4. hangs \in 0..MaxHangs
  BY FlagsAssumption DEF Init
<1>5. /\ plan \in Plans /\ recovery \in Recovery /\ faults \in Faults /\ outcome = "none"
      /\ asked = "none" /\ hanging = FALSE /\ routine = "none" /\ left = {} /\ crashed = FALSE
      /\ acted = FALSE
  BY DEF Init
<1> QED BY <1>2, <1>3, <1>4, <1>5 DEF TypeInv, TypeOK, Good, Steps

\* A handler that goes on, at the next step or otherwise.
LEMMA ContinueType ==
    ASSUME TypeInv, NEW rest, Good(rest), Continue(rest)
    PROVE  /\ Good(todo') /\ outcome' \in {"none", "ok"} \cup Failed
           /\ plan' \in Plans /\ recovery' \in Recovery /\ faults' \in Faults
BY DEF TypeInv, TypeOK, Continue

LEMMA EffectType ==
    ASSUME TypeInv, NEW step \in RequestSteps, Effect(step) \/ UNCHANGED serviceVars
    PROVE  /\ status' \in Statuses /\ asked' \in {"none", "stop", "start", "reboot"}
           /\ hanging' \in BOOLEAN /\ hangs' \in 0..MaxHangs
BY DEF TypeInv, TypeOK, RequestSteps, Effect, Ask, serviceVars, Statuses

LEMMA LeaveType ==
    ASSUME TypeInv, NEW told \in BOOLEAN, Leave(told)
    PROVE  left' \subseteq [kind : {"stopper", "restarter"}, told : BOOLEAN, at : {"select", "start"}]
<1>1. KindOf(Head(todo)) \in {"stopper", "restarter"}
  BY DEF KindOf
<1>2. CASE routine \in {"select", "start"}
  <2>1. [kind |-> KindOf(Head(todo)), told |-> told, at |-> routine] \in
            [kind : {"stopper", "restarter"}, told : BOOLEAN, at : {"select", "start"}]
    BY <1>1, <1>2
  <2> QED BY <1>2, <2>1 DEF TypeInv, TypeOK, Leave
<1>3. CASE routine \notin {"select", "start"}
  BY <1>3 DEF TypeInv, TypeOK, Leave
<1> QED BY <1>2, <1>3

LEMMA TypeStep == ASSUME TypeInv, [Next]_vars PROVE TypeInv'
<1> USE DEF TypeInv
<1>1. /\ plan \in Plans /\ recovery \in Recovery /\ faults \in Faults /\ Good(todo)
      /\ outcome \in {"none", "ok"} \cup Failed
      /\ status \in Statuses /\ asked \in {"none", "stop", "start", "reboot"}
      /\ hanging \in BOOLEAN /\ hangs \in 0..MaxHangs /\ MaxHangs \in Nat
      /\ routine \in {"none", "select", "start", "send"}
      /\ left \subseteq [kind : {"stopper", "restarter"}, told : BOOLEAN, at : {"select", "start"}]
      /\ crashed \in BOOLEAN /\ acted \in BOOLEAN
  BY FlagsAssumption DEF TypeOK
<1>2. /\ plan' \in Plans /\ recovery' \in Recovery /\ faults' \in Faults /\ Good(todo')
      /\ outcome' \in {"none", "ok"} \cup Failed
      /\ status' \in Statuses /\ asked' \in {"none", "stop", "start", "reboot"}
      /\ hanging' \in BOOLEAN /\ hangs' \in 0..MaxHangs
      /\ routine' \in {"none", "select", "start", "send"}
      /\ left' \subseteq [kind : {"stopper", "restarter"}, told : BOOLEAN, at : {"select", "start"}]
      /\ crashed' \in BOOLEAN /\ acted' \in BOOLEAN
      => TypeInv'
  BY DEF TypeOK, Good, Steps
<1>3. \A rest : RoutineOf(rest) \in {"none", "select", "start", "send"}
  BY DEF RoutineOf
<1>4. Advance /\ todo # <<>> =>
          /\ Good(todo') /\ outcome' \in {"none", "ok"} \cup Failed
          /\ plan' \in Plans /\ recovery' \in Recovery /\ faults' \in Faults
          /\ routine' \in {"none", "select", "start", "send"}
  BY <1>1, <1>3, GoodTail, ContinueType DEF Advance
<1>5. CASE Request
  BY <1>1, <1>2, <1>4, <1>5, EffectType DEF Request, At
<1>6. CASE RequestFails
  BY <1>1, <1>2, <1>6, EffectType DEF RequestFails, End, Failed, routineVars
<1>7. CASE Check
  BY <1>1, <1>2, <1>4, <1>7 DEF Check, At, End, Failed, serviceVars
<1>8. CASE Look
  <2>1. Tail(todo) # <<>>
    <3>1. todo # <<>> /\ Head(todo) = "look"
      BY <1>8 DEF Look, At
    <3>2. todo \in Seq(Steps) /\ todo[Len(todo)] # "look" /\ todo[1] = "look"
      BY <1>1, <3>1 DEF Good
    <3>3. Len(todo) # 1
      BY <3>2
    <3>4. Len(Tail(todo)) # 0
      <4>1. Len(Tail(todo)) = Len(todo) - 1 /\ Len(todo) \in Nat
        BY <3>1, <3>2, HeadTailProperties
      <4> QED BY <3>3, <4>1
    <3>5. \A s : s = <<>> => Len(s) = 0
      OBVIOUS
    <3> QED BY <3>4, <3>5, Zenon
  <2>2. Good(Tail(Tail(todo)))
    BY <1>1, <1>8, <2>1, GoodTail DEF Look, At
  <2>3. Good((IF status = "running"
              THEN <<"stop", "waitStop", "patch", "start", "waitAvailable">>
              ELSE <<"patch">>) \o Tail(Tail(todo)))
    BY <2>2, GoodSections, GoodConcat
  <2>4. Good(todo') /\ outcome' \in {"none", "ok"} \cup Failed
        /\ plan' \in Plans /\ recovery' \in Recovery /\ faults' \in Faults
    BY <1>8, <2>3, ContinueType DEF Look
  <2> QED BY <1>1, <1>2, <1>8, <2>4 DEF Look, serviceVars, routineVars
<1>9. CASE LookToStop
  <2>1. Good((IF status = "running" THEN <<"stop", "waitStop">> ELSE <<>>) \o Tail(todo))
    BY <1>1, <1>9, GoodTail, GoodSections, GoodConcat DEF LookToStop, At
  <2>2. Good(todo') /\ outcome' \in {"none", "ok"} \cup Failed
        /\ plan' \in Plans /\ recovery' \in Recovery /\ faults' \in Faults
    BY <1>9, <2>1, ContinueType DEF LookToStop
  <2> QED BY <1>1, <1>2, <1>9, <2>2 DEF LookToStop, serviceVars, routineVars
<1>10. CASE WaitEnds
  BY <1>1, <1>2, <1>4, <1>10, LeaveType DEF WaitEnds, Waiting, At, serviceVars
<1>11. CASE WaitFails
  BY <1>1, <1>2, <1>11, LeaveType DEF WaitFails, End, Failed, serviceVars
<1>12. CASE Receive
  BY <1>1, <1>2, <1>12 DEF Receive, End, Failed, serviceVars
<1>13. CASE WaitBreaks
  BY <1>1, <1>2, <1>13, LeaveType DEF WaitBreaks, End, Failed, serviceVars
<1>14. CASE Begin
  <2>1. After(asked, status) \in Statuses
    BY <1>1 DEF After, Statuses
  <2> QED BY <1>1, <1>2, <1>14, <2>1 DEF Begin, handlerVars, routineVars
<1>15. CASE Progress
  BY <1>1, <1>2, <1>15 DEF Progress, handlerVars, routineVars, Statuses
<1>16. CASE Hang
  BY <1>1, <1>2, <1>16 DEF Hang, handlerVars, routineVars
<1>17. CASE InstanceFails
  BY <1>1, <1>2, <1>17 DEF InstanceFails, handlerVars, routineVars, Statuses
<1>18. NestedStopper \in [kind : {"stopper", "restarter"}, told : BOOLEAN, at : {"select", "start"}]
  BY DEF NestedStopper
<1>19. CASE Tick
  BY <1>1, <1>2, <1>18, <1>19 DEF Tick, Ask, handlerVars
<1>20. CASE StartAgain
  BY <1>1, <1>2, <1>20 DEF StartAgain, Ask, handlerVars
<1>21. CASE TickFails
  BY <1>1, <1>2, <1>21 DEF TickFails, handlerVars, serviceVars
<1>22. CASE Left
  <2>1. PICK x \in left : LeftTicks(x) \/ LeftStarts(x) \/ LeftFails(x) \/ LeftEnds(x)
    BY <1>22 DEF Left
  <2>2. x \in [kind : {"stopper", "restarter"}, told : BOOLEAN, at : {"select", "start"}]
    BY <1>1, <2>1
  <2>3. \A at \in {"select", "start"} : [x EXCEPT !.at = at] \in
            [kind : {"stopper", "restarter"}, told : BOOLEAN, at : {"select", "start"}]
    BY <2>2
  <2>4. CASE LeftTicks(x)
    BY <1>1, <1>2, <1>18, <2>3, <2>4 DEF LeftTicks, Ask, handlerVars
  <2>5. CASE LeftStarts(x)
    BY <1>1, <1>2, <2>3, <2>5 DEF LeftStarts, Ask, handlerVars
  <2>6. CASE LeftFails(x)
    BY <1>1, <1>2, <2>2, <2>6 DEF LeftFails, handlerVars, serviceVars
  <2>7. CASE LeftEnds(x)
    BY <1>1, <1>2, <2>7 DEF LeftEnds, handlerVars, serviceVars
  <2> QED BY <2>1, <2>4, <2>5, <2>6, <2>7
<1>23. CASE UNCHANGED vars
  BY <1>1, <1>2, <1>23 DEF vars, handlerVars, serviceVars, routineVars
<1> QED BY <1>5, <1>6, <1>7, <1>8, <1>9, <1>10, <1>11, <1>12, <1>13, <1>14, <1>15, <1>16, <1>17,
           <1>19, <1>20, <1>21, <1>22, <1>23 DEF Next, Handler, Wait, Service, Routine

-----------------------------------------------------------------------------
(* What happens to the instance leaves a handler at its place *)

LEMMA StablePlace ==
    ASSUME NEW p, NEW r \in BOOLEAN, NEW t, NEW i, NEW j, Place(p, r, t, i),
           \A S \in SUBSET (Settled \cup {"absent"}) : Quiet(S, i) => Quiet(S, j),
           \A S \in SUBSET Settled :
               t # <<>> /\ Head(t) = "waitStop" /\ Halting(r, S, i) => Halting(r, S, j),
           Halted(i) => Halted(j),
           t # <<>> /\ Rising(r, i) => Rising(r, j),
           t = <<>> /\ i.status = "absent" /\ i.asked = "none" => j.status = "absent" /\ j.asked = "none"
    PROVE  Place(p, r, t, j)
<1>1. /\ Quiet(Settled, i) => Quiet(Settled, j)
      /\ Quiet({"absent"}, i) => Quiet({"absent"}, j)
      /\ Quiet({"running"}, i) => Quiet({"running"}, j)
      /\ Quiet(Expected(p, 4), i) => Quiet(Expected(p, 4), j)
      /\ Quiet(Expected(p, 4) \cap {"stopped"}, i) => Quiet(Expected(p, 4) \cap {"stopped"}, j)
      /\ Quiet(Expected(p, 5), i) => Quiet(Expected(p, 5), j)
  <2>1. Expected(p, 4) \subseteq Settled /\ Expected(p, 5) \subseteq Settled /\ {"running"} \subseteq Settled
    BY Expectations DEF Settled
  <2> QED BY <2>1
<1>2. /\ t # <<>> /\ Head(t) = "waitStop" /\ Halting(r, Settled, i) => Halting(r, Settled, j)
      /\ t # <<>> /\ Head(t) = "waitStop" /\ Halting(r, {"running"}, i) => Halting(r, {"running"}, j)
  BY DEF Settled
<1>3. Over(p, r, t, i) => Over(p, r, t, j)
  BY <1>1 DEF Over
<1>4. AtDelete(p, r, t, i) => AtDelete(p, r, t, j)
  BY <1>1, <1>2 DEF AtDelete, Is
<1>5. AtCreate(p, r, t, i) => AtCreate(p, r, t, j)
  BY <1>1 DEF AtCreate
<1>6. AtRestart(p, r, t, i) => AtRestart(p, r, t, j)
  <2>1. \A s, u : Is(t, s, u) => t # <<>> /\ Head(t) = s
    BY DEF Is
  <2> QED BY <1>1, <1>2, <2>1 DEF AtRestart
<1>7. AtAction(p, r, t, i) => AtAction(p, r, t, j)
  BY <1>1, <1>2 DEF AtAction, Is
<1>8. AtInterface(p, r, t, i) => AtInterface(p, r, t, j)
  BY <1>1 DEF AtInterface
<1>9. AtSecureBoot(p, r, t, i) => AtSecureBoot(p, r, t, j)
  BY <1>1 DEF AtSecureBoot
<1>10. AtProfile(p, r, t, i) => AtProfile(p, r, t, j)
  BY <1>1 DEF AtProfile
<1> QED BY <1>3, <1>4, <1>5, <1>6, <1>7, <1>8, <1>9, <1>10 DEF Place

-----------------------------------------------------------------------------
(* The inductive invariant and its steps *)

IInv == TypeInv /\ CalmInv /\ EndInv /\ PlaceInv /\ UnexpectedInv

LEMMA Fields ==
    ASSUME NEW r \in BOOLEAN
    PROVE  /\ Instance(r).status = status /\ Instance(r).asked = asked
           /\ r => Instance(r).left = left /\ Instance(r).routine = routine
           /\ ~r => Instance(r).left = {} /\ Instance(r).routine = "none"
BY DEF Instance

LEMMA FieldsAfter ==
    ASSUME NEW r \in BOOLEAN
    PROVE  /\ Instance(r)'.status = status' /\ Instance(r)'.asked = asked'
           /\ r => Instance(r)'.left = left' /\ Instance(r)'.routine = routine'
           /\ ~r => Instance(r)'.left = {} /\ Instance(r)'.routine = "none"
BY DEF Instance

\* A handler at work whose call is one of those the claims are about.
LEMMA AtWork ==
    ASSUME IInv, NEW r \in BOOLEAN, Claimed(r), Running
    PROVE  /\ Place(plan, r, todo, Instance(r)) /\ Mode(plan, r)
           /\ r => recovery
           /\ plan.flow \in Flows
<1>1. plan.flow \in Flows
  BY PlansAssumption DEF IInv, TypeInv, TypeOK
<1> QED BY <1>1 DEF IInv, PlaceInv, Running, Claimed

\* What a routine has done stays done.
LEMMA StillClaimed ==
    ASSUME [Next]_vars
    PROVE  /\ UNCHANGED <<plan, recovery>>
           /\ acted' = acted \/ acted' = TRUE
           /\ \A r \in BOOLEAN : Claimed(r)' => Claimed(r)
<1>1. UNCHANGED <<plan, recovery>>
  BY DEF Next, Handler, Request, Advance, Continue, RequestFails, End, Check, Look, LookToStop, Wait,
         WaitEnds, WaitFails, Receive, WaitBreaks, Service, Begin, Progress, Hang, InstanceFails,
         Routine, Tick, StartAgain, TickFails, Left, LeftTicks, LeftStarts, LeftFails, LeftEnds,
         vars, handlerVars
<1>2. acted' = acted \/ acted' = TRUE
  BY DEF Next, Handler, Request, RequestFails, Check, Look, LookToStop, Wait,
         WaitEnds, WaitFails, Receive, WaitBreaks, Service, Begin, Progress, Hang, InstanceFails,
         Routine, Tick, StartAgain, TickFails, Left, LeftTicks, LeftStarts, LeftFails, LeftEnds,
         vars, routineVars
<1>3. ASSUME NEW r \in BOOLEAN, Claimed(r)' PROVE Claimed(r)
  BY <1>1, <1>2, <1>3 DEF Claimed
<1> QED BY <1>1, <1>2, <1>3

\* The service and the routines leave the handler alone.
LEMMA AroundPlace ==
    ASSUME IInv, [Next]_vars, UNCHANGED <<todo, outcome>>,
           \A r \in BOOLEAN : \A i, j :
               /\ i = Instance(r) /\ j = Instance(r)'
               /\ Claimed(r)' /\ Place(plan, r, todo, i)
               => Place(plan, r, todo, j)
    PROVE  EndInv' /\ PlaceInv'
<1>1. EndInv'
  BY DEF IInv, EndInv
<1>2. ASSUME NEW r \in BOOLEAN, Claimed(r)', outcome' \in {"none", "ok"}
      PROVE  Place(plan, r, todo, Instance(r)')
  <2>1. Claimed(r)
    BY <1>2, StillClaimed
  <2>2. Place(plan, r, todo, Instance(r))
    BY <1>2, <2>1 DEF IInv, PlaceInv
  <2> QED BY <1>2, <2>2
<1>3. PlaceInv'
  BY <1>2, StillClaimed DEF PlaceInv
<1> QED BY <1>1, <1>3

LEMMA ServicePlace ==
    ASSUME IInv, Begin \/ Progress \/ Hang \/ InstanceFails
    PROVE  EndInv' /\ PlaceInv'
<1>1. /\ UNCHANGED <<todo, outcome, routine, left>>
      /\ \/ asked # "none" /\ asked' = "none" /\ status' = After(asked, status)
         \/ asked' = asked /\ status \in {"starting", "restarting", "stopping"}
            /\ status' \in {"running", "stopped", "failed"}
            /\ (status = "stopping" => status' \in {"stopped", "failed"})
            /\ (status \in {"starting", "restarting"} => status' \in {"running", "failed"})
         \/ asked' = asked /\ status' = status
  BY DEF Begin, Progress, Hang, InstanceFails, handlerVars, routineVars
<1>2. ASSUME NEW r \in BOOLEAN, NEW i, NEW j, i = Instance(r), j = Instance(r)',
             Place(plan, r, todo, i)
      PROVE  Place(plan, r, todo, j)
  <2>1. /\ i.status = status /\ i.asked = asked
        /\ j.status = status' /\ j.asked = asked' /\ j.left = i.left /\ j.routine = i.routine
    BY <1>1, <1>2, Fields, FieldsAfter
  <2>2. /\ asked = "stop" /\ status \in Settled => After(asked, status) \in {"stopping", "stopped"}
        /\ asked = "stop" /\ status = "stopped" => After(asked, status) = "stopped"
        /\ asked = "start" /\ status = "stopped" => After(asked, status) = "starting"
    BY DEF After, Settled
  <2>3. ASSUME NEW S \in SUBSET (Settled \cup {"absent"}), Quiet(S, i) PROVE Quiet(S, j)
    BY <1>1, <2>1, <2>3 DEF Quiet, Settled
  <2>4. ASSUME NEW S \in SUBSET Settled, Halting(r, S, i) PROVE Halting(r, S, j)
    BY <1>1, <2>1, <2>2, <2>4 DEF Halting, Settled
  <2>5. Halted(i) => Halted(j)
    BY <1>1, <2>1, <2>2 DEF Halted
  <2>6. Rising(r, i) => Rising(r, j)
    BY <1>1, <2>1, <2>2 DEF Rising
  <2>7. i.status = "absent" /\ i.asked = "none" => j.status = "absent" /\ j.asked = "none"
    BY <1>1, <2>1
  <2> QED BY <1>2, <2>3, <2>4, <2>5, <2>6, <2>7, StablePlace
<1>3. [Next]_vars
  BY DEF Next, Service
<1> QED BY <1>1, <1>2, <1>3, AroundPlace

\* The current wait's routine: it stops an instance that is being stopped, and
\* what it does to one that is being started is not heeded.
LEMMA RoutinePlace ==
    ASSUME IInv, Tick \/ StartAgain \/ TickFails
    PROVE  EndInv' /\ PlaceInv'
<1>1. /\ UNCHANGED <<todo, outcome, status>>
      /\ todo # <<>> /\ routine \in {"select", "start"}
      /\ acted' \/ asked' = asked
  BY DEF Tick, StartAgain, TickFails, Ask, handlerVars, serviceVars, Waiting, At
<1>2. Head(todo) = "waitStop" /\ routine = "select" =>
          left' = left /\ asked' \in {asked, "stop"} /\ routine' \in {"select", "send"}
  BY DEF Tick, StartAgain, TickFails, Ask, KindOf, serviceVars
<1>3. ASSUME NEW r \in BOOLEAN, NEW i, NEW j, i = Instance(r), j = Instance(r)',
             Claimed(r)', Place(plan, r, todo, i)
      PROVE  Place(plan, r, todo, j)
  <2>1. CASE r
    <3>1. /\ i.status = status /\ i.asked = asked /\ i.left = left /\ i.routine = routine
          /\ j.status = status /\ j.asked = asked' /\ j.left = left' /\ j.routine = routine'
      BY <1>1, <1>3, <2>1, Fields, FieldsAfter
    <3>2. ASSUME NEW S \in SUBSET (Settled \cup {"absent"}), Quiet(S, i) PROVE FALSE
      BY <1>1, <3>1, <3>2 DEF Quiet
    <3>3. ASSUME NEW S \in SUBSET Settled, Head(todo) = "waitStop", Halting(r, S, i)
          PROVE  Halting(r, S, j)
      BY <1>1, <1>2, <2>1, <3>1, <3>3 DEF Halting
    <3>4. ~Halted(i)
      BY <1>1, <3>1 DEF Halted
    <3>5. Rising(r, j)
      BY <2>1 DEF Rising
    <3> QED BY <1>1, <1>3, <3>2, <3>3, <3>4, <3>5, StablePlace
  <2>2. CASE ~r
    <3>1. asked' = asked
      BY <1>1, <1>3, <2>2 DEF Claimed
    <3>2. i = j
      BY <1>1, <1>3, <2>2, <3>1 DEF Instance
    <3> QED BY <1>3, <3>2
  <2> QED BY <2>1, <2>2
<1>4. [Next]_vars
  BY DEF Next, Routine
<1> QED BY <1>1, <1>3, <1>4, AroundPlace

\* The routines that earlier waits left behind.
LEMMA LeftPlace ==
    ASSUME IInv, Left
    PROVE  EndInv' /\ PlaceInv'
<1>1. PICK x \in left : LeftTicks(x) \/ LeftStarts(x) \/ LeftFails(x) \/ LeftEnds(x)
  BY DEF Left
<1>2. /\ UNCHANGED <<todo, outcome, status, routine>>
      /\ left # {}
      /\ x.kind = "stopper" /\ x.at = "select" => left' \subseteq left /\ asked' \in {asked, "stop"}
      /\ status = "absent" => asked' = asked
      /\ acted' \/ asked' = asked
  BY <1>1 DEF LeftTicks, LeftStarts, LeftFails, LeftEnds, Ask, handlerVars, serviceVars
<1>3. ASSUME NEW r \in BOOLEAN, NEW i, NEW j, i = Instance(r), j = Instance(r)',
             Claimed(r)', Place(plan, r, todo, i)
      PROVE  Place(plan, r, todo, j)
  <2>1. CASE r
    <3>1. /\ i.status = status /\ i.asked = asked /\ i.left = left /\ i.routine = routine
          /\ j.status = status /\ j.asked = asked' /\ j.left = left' /\ j.routine = routine
      BY <1>2, <1>3, <2>1, Fields, FieldsAfter
    <3>2. ASSUME NEW S \in SUBSET (Settled \cup {"absent"}), Quiet(S, i) PROVE FALSE
      BY <1>2, <3>1, <3>2 DEF Quiet
    <3>3. ASSUME NEW S \in SUBSET Settled, Halting(r, S, i) PROVE FALSE
      BY <1>2, <2>1, <3>1, <3>3 DEF Halting
    <3>4. ASSUME Halted(i) PROVE Halted(j)
      <4>1. x.kind = "stopper" /\ x.at = "select"
        BY <1>1, <3>1, <3>4 DEF Halted
      <4> QED BY <1>2, <3>1, <3>4, <4>1 DEF Halted
    <3>5. Rising(r, j)
      BY <2>1 DEF Rising
    <3>6. i.status = "absent" /\ i.asked = "none" => j.status = "absent" /\ j.asked = "none"
      BY <1>2, <3>1
    <3> QED BY <1>3, <3>2, <3>3, <3>4, <3>5, <3>6, StablePlace
  <2>2. CASE ~r
    <3>1. asked' = asked
      BY <1>2, <1>3, <2>2 DEF Claimed
    <3>2. i = j
      BY <1>2, <1>3, <2>2, <3>1 DEF Instance
    <3> QED BY <1>3, <3>2
  <2> QED BY <2>1, <2>2
<1>4. [Next]_vars
  BY DEF Next
<1> QED BY <1>2, <1>3, <1>4, AroundPlace

\* A handler that goes on to a place.
LEMMA AdvancePlace ==
    ASSUME IInv, [Next]_vars, NEW rest, Continue(rest),
           \A r \in BOOLEAN : Claimed(r) => Place(plan, r, rest, Instance(r)')
    PROVE  EndInv' /\ PlaceInv'
<1>1. /\ todo' = rest
      /\ outcome' \in {"ok", "none"} /\ (outcome' = "ok" => rest = <<>>)
  BY DEF Continue
<1>2. EndInv'
  BY <1>1 DEF EndInv
<1>3. PlaceInv'
  BY <1>1, StillClaimed DEF PlaceInv
<1> QED BY <1>2, <1>3

\* The routine of the next step, unless that waits with recovery.
LEMMA NoRoutine ==
    ASSUME NEW rest, recovery => rest = <<>> \/ Head(rest) \notin WaitSteps
    PROVE  RoutineOf(rest) = "none"
BY DEF RoutineOf

LEMMA RequestPlace ==
    ASSUME IInv, Request
    PROVE  EndInv' /\ PlaceInv'
<1>1. PICK step \in RequestSteps : At(step) /\ Effect(step)
  BY DEF Request
<1>2. /\ Running /\ todo # <<>> /\ Head(todo) = step
      /\ Continue(Tail(todo)) /\ routine' = RoutineOf(Tail(todo)) /\ left' = left
  BY <1>1 DEF Request, Advance, At
<1>3. ASSUME NEW r \in BOOLEAN, Claimed(r) PROVE Place(plan, r, Tail(todo), Instance(r)')
  <2>1. Place(plan, r, todo, Instance(r)) /\ Mode(plan, r) /\ (r => recovery)
    BY <1>2, <1>3, AtWork
  <2>2. CASE step = "create"
    <3>1. ~r /\ \A j : Rising(r, j) => Place(plan, r, Tail(todo), j)
      BY <1>2, <2>1, <2>2, FromCreate
    <3>2. Quiet({"absent"}, Instance(r))
      BY <1>2, <2>1, <2>2 DEF Place, Over, AtDelete, AtCreate, AtRestart, AtAction, AtInterface,
                              AtSecureBoot, AtProfile, Is
    <3>3. status' = "starting" /\ asked' = "none"
      BY <1>1, <2>2, <3>2, Fields DEF Effect, Quiet
    <3>4. Rising(r, Instance(r)')
      BY <3>3, FieldsAfter DEF Rising
    <3> QED BY <3>1, <3>4
  <2>3. CASE step = "stop"
    <3>1. /\ Quiet(Settled, Instance(r)) /\ Tail(todo) # <<>> /\ Head(Tail(todo)) = "waitStop"
          /\ \A j : Halting(r, {Instance(r).status}, j) => Place(plan, r, Tail(todo), j)
      BY <1>2, <2>1, <2>3, FromStop
    <3>2. status' = status /\ asked' = "stop" /\ (r => left = {} /\ routine' = "select")
      BY <1>1, <1>2, <2>1, <2>3, <3>1, Fields DEF Effect, Ask, Quiet, RoutineOf, WaitSteps
    <3>3. Halting(r, {Instance(r).status}, Instance(r)')
      BY <1>2, <3>2, Fields, FieldsAfter DEF Halting
    <3> QED BY <3>1, <3>3
  <2>4. CASE step = "start"
    <3>1. Halted(Instance(r)) /\ \A j : Rising(r, j) => Place(plan, r, Tail(todo), j)
      BY <1>2, <2>1, <2>4, FromStart
    <3>2. status' = "stopped" /\ asked' = "start"
      BY <1>1, <2>4, <3>1, Fields DEF Effect, Ask, Halted
    <3>3. Rising(r, Instance(r)')
      BY <3>2, FieldsAfter DEF Rising
    <3> QED BY <3>1, <3>3
  <2>5. CASE step = "bind"
    <3>1. \A j : r \/ j = Instance(r) => Place(plan, r, Tail(todo), j)
      BY <1>2, <2>1, <2>5, FromBind
    <3>2. ~r => Instance(r)' = Instance(r)
      BY <1>1, <2>5 DEF Effect, Instance, serviceVars
    <3> QED BY <3>1, <3>2
  <2>6. CASE step = "patch"
    <3>1. /\ Instance(r).routine = "none" /\ Place(plan, r, Tail(todo), Instance(r))
          /\ r => Tail(todo) = <<>> \/ Head(Tail(todo)) \notin WaitSteps
      BY <1>2, <2>1, <2>6, FromPatch
    <3>2. r => routine' = routine
      BY <1>2, <2>1, <3>1, Fields, NoRoutine
    <3>3. Instance(r)' = Instance(r)
      BY <1>1, <1>2, <2>6, <3>2 DEF Effect, Instance, serviceVars
    <3> QED BY <3>1, <3>3
  <2>7. CASE step = "delete"
    <3>1. \A j : j.status = "absent" /\ j.asked = "none" => Place(plan, r, Tail(todo), j)
      BY <1>2, <2>1, <2>7, FromDelete
    <3>2. status' = "absent" /\ asked' = "none"
      BY <1>1, <2>7 DEF Effect
    <3> QED BY <3>1, <3>2, FieldsAfter
  <2>8. CASE step = "reboot"
    BY <1>2, <2>1, <2>8 DEF Place, Over, AtDelete, AtCreate, AtRestart, AtAction, AtInterface,
                            AtSecureBoot, AtProfile, Is
  <2> QED BY <1>1, <2>2, <2>3, <2>4, <2>5, <2>6, <2>7, <2>8 DEF RequestSteps
<1>4. [Next]_vars
  BY DEF Next, Handler
<1> QED BY <1>2, <1>3, <1>4, AdvancePlace

LEMMA CheckPlace ==
    ASSUME IInv, Check
    PROVE  EndInv' /\ PlaceInv'
<1>1. CASE Advance
  <2>1. /\ Running /\ todo # <<>> /\ Continue(Tail(todo)) /\ routine' = RoutineOf(Tail(todo))
        /\ UNCHANGED <<status, asked, left>>
        /\ \/ Head(todo) = "ifRunning" /\ status = "running"
           \/ Head(todo) = "ifStopped" /\ status = "stopped"
    <3>1. \/ At("ifRunning")
          \/ At("ifStopped") /\ ~At("ifRunning")
      BY DEF Check
    <3>2. outcome' # "invalid" => status = IF At("ifRunning") THEN "running" ELSE "stopped"
      BY DEF Check, End
    <3>3. outcome' # "invalid"
      BY <1>1 DEF Advance, Continue
    <3> QED BY <1>1, <3>1, <3>2, <3>3 DEF Check, Advance, At, serviceVars
  <2>2. ASSUME NEW r \in BOOLEAN, Claimed(r) PROVE Place(plan, r, Tail(todo), Instance(r)')
    <3>1. Place(plan, r, todo, Instance(r)) /\ (r => recovery)
      BY <2>1, <2>2, AtWork
    <3>2. /\ Quiet(Settled, Instance(r)) /\ Place(plan, r, Tail(todo), Instance(r))
          /\ Tail(todo) # <<>> /\ Head(Tail(todo)) \in {"stop", "start"}
      <4>1. CASE Head(todo) = "ifRunning"
        BY <2>1, <3>1, <4>1, Fields, FromIfRunning
      <4>2. CASE Head(todo) = "ifStopped"
        BY <2>1, <3>1, <4>2, Fields, FromIfStopped
      <4> QED BY <2>1, <4>1, <4>2
    <3>3. r => routine' = routine
      BY <2>1, <3>2, NoRoutine, Fields DEF Quiet, WaitSteps
    <3>4. Instance(r)' = Instance(r)
      BY <2>1, <3>3 DEF Instance
    <3> QED BY <3>2, <3>4
  <2>3. [Next]_vars
    BY DEF Next, Handler
  <2> QED BY <2>1, <2>2, <2>3, AdvancePlace
<1>2. CASE ~Advance
  <2>1. outcome' = "invalid"
    BY <1>2 DEF Check, End
  <2> QED BY <2>1 DEF EndInv, PlaceInv
<1> QED BY <1>1, <1>2

LEMMA LookPlace ==
    ASSUME IInv, Look
    PROVE  EndInv' /\ PlaceInv'
<1> DEFINE rest == (IF status = "running"
                    THEN <<"stop", "waitStop", "patch", "start", "waitAvailable">>
                    ELSE <<"patch">>) \o Tail(Tail(todo))
<1>1. /\ Running /\ todo # <<>> /\ Head(todo) = "look" /\ Continue(rest)
      /\ \A r \in BOOLEAN : Instance(r)' = Instance(r)
  BY DEF Look, At, serviceVars, routineVars, Instance
<1>2. ASSUME NEW r \in BOOLEAN, Claimed(r) PROVE Place(plan, r, rest, Instance(r)')
  <2>1. Place(plan, r, todo, Instance(r)) /\ Mode(plan, r)
    BY <1>1, <1>2, AtWork
  <2>2. Place(plan, r, rest, Instance(r))
    BY <1>1, <2>1, Fields, FromLook
  <2> QED BY <1>1, <2>2
<1>3. [Next]_vars
  BY DEF Next, Handler
<1> HIDE DEF rest
<1> QED BY <1>1, <1>2, <1>3, AdvancePlace

LEMMA LookToStopPlace ==
    ASSUME IInv, LookToStop
    PROVE  EndInv' /\ PlaceInv'
<1> DEFINE rest == (IF status = "running" THEN <<"stop", "waitStop">> ELSE <<>>) \o Tail(todo)
<1>1. /\ Running /\ todo # <<>> /\ Head(todo) = "lookToStop" /\ Continue(rest)
      /\ \A r \in BOOLEAN : Instance(r)' = Instance(r)
  BY DEF LookToStop, At, serviceVars, routineVars, Instance
<1>2. ASSUME NEW r \in BOOLEAN, Claimed(r) PROVE Place(plan, r, rest, Instance(r)')
  <2>1. Place(plan, r, todo, Instance(r)) /\ Mode(plan, r)
    BY <1>1, <1>2, AtWork
  <2>2. Place(plan, r, rest, Instance(r))
    BY <1>1, <2>1, Fields, FromLookToStop
  <2> QED BY <1>1, <2>2
<1>3. [Next]_vars
  BY DEF Next, Handler
<1> HIDE DEF rest
<1> QED BY <1>1, <1>2, <1>3, AdvancePlace

LEMMA WaitEndsPlace ==
    ASSUME IInv, WaitEnds
    PROVE  EndInv' /\ PlaceInv'
<1>1. /\ Running /\ todo # <<>> /\ Head(todo) \in WaitSteps
      /\ routine # "send" /\ status \in Target(Head(todo))
      /\ Continue(Tail(todo)) /\ routine' = RoutineOf(Tail(todo)) /\ UNCHANGED <<status, asked>>
      /\ Leave(KindOf(Head(todo)) = "restarter")
  BY DEF WaitEnds, Waiting, At, Advance, serviceVars
<1>2. ASSUME NEW r \in BOOLEAN, Claimed(r) PROVE Place(plan, r, Tail(todo), Instance(r)')
  <2>1. Place(plan, r, todo, Instance(r)) /\ Mode(plan, r) /\ (r => recovery)
    BY <1>1, <1>2, AtWork
  <2>2. CASE Head(todo) = "waitStop"
    <3>1. /\ Halting(r, Settled, Instance(r))
          /\ r => Tail(todo) = <<>> \/ Head(Tail(todo)) \notin WaitSteps
          /\ \A j : Instance(r).status = "stopped" /\ j.asked = Instance(r).asked /\ Halted(j)
                       /\ (~r => j.left = {})
                       => Place(plan, r, Tail(todo), j)
      BY <1>1, <2>1, <2>2, FromWaitStop
    <3>2. status = "stopped" /\ (r => routine' = "none")
      BY <1>1, <2>1, <2>2, <3>1, NoRoutine DEF Target
    <3>3. asked \in {"none", "stop"}
      BY <3>1, Fields DEF Halting
    <3>4. r => \A x \in left' : x.kind = "stopper" /\ x.at = "select"
      <4>1. SUFFICES ASSUME r PROVE \A x \in left' : x.kind = "stopper" /\ x.at = "select"
        OBVIOUS
      <4>2. left = {} /\ routine = "select"
        BY <1>1, <3>1, <4>1, Fields DEF Halting
      <4>3. left' = {[kind |-> "stopper", told |-> FALSE, at |-> "select"]}
        BY <1>1, <2>2, <4>2 DEF Leave, KindOf
      <4> QED BY <4>3
    <3>5. Halted(Instance(r)')
      BY <1>1, <3>2, <3>3, <3>4, FieldsAfter DEF Halted
    <3> QED BY <1>1, <3>1, <3>2, <3>5, Fields, FieldsAfter
  <2>3. CASE Head(todo) # "waitStop"
    <3>1. status = "running"
      BY <1>1, <2>3 DEF Target
    <3>2. /\ Rising(r, Instance(r)) \/ r \/ Quiet(Settled, Instance(r))
          /\ \A j : r \/ Quiet({"running"}, j) => Place(plan, r, Tail(todo), j)
      BY <1>1, <2>1, <2>3, FromWaitRunning, FromWaitBound DEF WaitSteps
    <3>3. ~r => asked = "none"
      BY <3>1, <3>2, Fields DEF Rising, Quiet
    <3>4. ~r => Quiet({"running"}, Instance(r)')
      BY <1>1, <3>1, <3>3, FieldsAfter DEF Quiet
    <3> QED BY <3>2, <3>4
  <2> QED BY <2>2, <2>3
<1>3. [Next]_vars
  BY DEF Next, Wait
<1> QED BY <1>1, <1>2, <1>3, AdvancePlace

\* Unless a routine has acted, no wait finds a state that it does not expect.
LEMMA UnexpectedStep == ASSUME IInv, [Next]_vars PROVE UnexpectedInv'
<1>1. UNCHANGED plan /\ (acted' = acted \/ acted' = TRUE)
  BY StillClaimed
<1>2. CASE WaitFails
  <2>1. /\ Running /\ todo # <<>> /\ Head(todo) \in WaitSteps
        /\ status \notin Target(Head(todo)) \cup Pending(Head(todo))
        /\ outcome' = (IF status = "failed" THEN "failed" ELSE "unexpected")
        /\ acted' = acted
    BY <1>2 DEF WaitFails, Waiting, At, End
  <2>2. ASSUME ~Reboots, status # "failed", ~acted PROVE FALSE
    <3>1. Claimed(FALSE)
      BY <2>2 DEF Claimed, Mode, Reboots
    <3>2. /\ Place(plan, FALSE, todo, Instance(FALSE)) /\ Mode(plan, FALSE)
          /\ status \in Statuses
      BY <2>1, <3>1, AtWork DEF IInv, TypeInv, TypeOK
    <3>3. CASE Head(todo) = "waitStop"
      <4>1. Halting(FALSE, Settled, Instance(FALSE))
        BY <2>1, <3>2, <3>3, FromWaitStop
      <4> QED BY <2>1, <2>2, <3>3, <4>1, Fields DEF Halting, Settled, Target, Pending
    <3>4. CASE Head(todo) = "waitStart"
      <4>1. Rising(FALSE, Instance(FALSE))
        BY <2>1, <3>2, <3>4, FromWaitRunning
      <4> QED BY <2>1, <2>2, <3>4, <4>1, Fields DEF Rising, Target, Pending
    <3>5. CASE Head(todo) \in {"waitAvailable", "waitBound"}
      BY <2>1, <2>2, <3>2, <3>5 DEF Target, Pending
    <3> QED BY <2>1, <3>3, <3>4, <3>5 DEF WaitSteps
  <2> QED BY <1>1, <2>1, <2>2 DEF UnexpectedInv, Reboots
<1>3. CASE ~WaitFails
  <2>1. outcome' = "unexpected" => outcome = "unexpected"
    BY <1>3 DEF Next, Handler, Request, Advance, Continue, RequestFails, End, Check, Look, LookToStop,
                Wait, WaitEnds, Receive, WaitBreaks, Service, Begin, Progress, Hang, InstanceFails,
                Routine, Tick, StartAgain, TickFails, Left, LeftTicks, LeftStarts, LeftFails, LeftEnds,
                vars, handlerVars
  <2> QED BY <1>1, <2>1 DEF IInv, UnexpectedInv, Reboots
<1> QED BY <1>2, <1>3

LEMMA CalmStep == ASSUME IInv, [Next]_vars PROVE CalmInv'
<1>1. recovery' = recovery
  BY StillClaimed
<1>2. ASSUME ~recovery PROVE routine' = "none" /\ left' = {} /\ ~acted'
  <2>1. routine = "none" /\ left = {} /\ ~acted
    BY <1>2 DEF IInv, CalmInv
  <2>2. \A rest : RoutineOf(rest) = "none"
    BY <1>2 DEF RoutineOf
  <2>3. \A told : Leave(told) => left' = {}
    BY <2>1 DEF Leave
  <2>4. CASE Handler
    BY <2>1, <2>2, <2>4 DEF Handler, Request, Advance, RequestFails, Check, Look, LookToStop, routineVars
  <2>5. CASE Wait \/ WaitBreaks
    <3>1. acted' = acted
      BY <2>5 DEF Wait, WaitEnds, WaitFails, Receive, WaitBreaks
    <3>2. routine' = "none" /\ left' = {}
      BY <2>1, <2>2, <2>3, <2>5 DEF Wait, WaitEnds, WaitFails, Receive, WaitBreaks, Advance
    <3> QED BY <2>1, <3>1, <3>2
  <2>6. CASE Service \/ Hang \/ InstanceFails \/ UNCHANGED vars
    BY <2>1, <2>6 DEF Service, Begin, Progress, Hang, InstanceFails, vars, routineVars
  <2>7. CASE Routine \/ Left
    BY <2>1, <2>7 DEF Routine, Tick, StartAgain, TickFails, Left
  <2> QED BY <2>4, <2>5, <2>6, <2>7 DEF Next
<1> QED BY <1>1, <1>2 DEF CalmInv

-----------------------------------------------------------------------------
(* Theorems *)

LEMMA InitPlace == ASSUME Init PROVE CalmInv /\ EndInv /\ PlaceInv /\ UnexpectedInv
<1>1. CalmInv /\ EndInv /\ UnexpectedInv
  BY DEF Init, CalmInv, EndInv, UnexpectedInv
<1>2. ASSUME NEW r \in BOOLEAN, Claimed(r) PROVE Place(plan, r, todo, Instance(r))
  <2>1. /\ asked = "none" /\ left = {} /\ routine = "none" /\ todo = Program(plan)
        /\ status \in (IF plan.flow = "create" THEN {"absent"} ELSE Settled)
        /\ plan.flow \in Flows /\ Mode(plan, r)
    BY <1>2, PlansAssumption, FlagsAssumption DEF Init, Settled, Claimed
  <2>2. CASE plan.flow = "create"
    <3>1. Update(plan.changes \cap {"host"}) = Rest(plan, 0)
      <4>1. /\ plan.changes \cap {"host"} = Effective(plan) /\ "stop" \notin Effective(plan)
            /\ "start" \notin Effective(plan) /\ "reboot" \notin Effective(plan)
            /\ "interface" \notin Effective(plan) /\ "secureBoot" \notin Effective(plan)
            /\ "profile" \notin Effective(plan)
        BY <2>2 DEF Effective
      <4>2. Update(Effective(plan)) = Rest(plan, 0)
        BY UpdateIsRest
      <4> QED BY <4>1, <4>2
    <3>2. Create \o Rest(plan, 0) = Then("create", Then("waitAvailable", Rest(plan, 0)))
      <4>1. Rest(plan, 0) \in Seq(Steps)
        BY TailTypes
      <4>2. <<"create", "waitAvailable">> \o Rest(plan, 0) =
                Then("create", Then("waitAvailable", Rest(plan, 0)))
        BY <4>1, Unfold2, KnownSteps
      <4> QED BY <4>2 DEF Create
    <3>3. todo = Then("create", Then("waitAvailable", Rest(plan, 0)))
      BY <2>1, <2>2, <3>1, <3>2 DEF Program
    <3>4. Is(todo, "create", Then("waitAvailable", Rest(plan, 0)))
      BY <3>3, TailTypes, ThenIs, KnownSteps
    <3>5. Quiet({"absent"}, Instance(r)) /\ ~r
      BY <2>1, <2>2, Fields DEF Quiet, Mode
    <3> QED BY <2>2, <3>4, <3>5 DEF Place, AtCreate
  <2>3. CASE plan.flow = "update"
    <3>1. todo = Rest(plan, 0)
      <4>1. Effective(plan) = plan.changes
        BY <2>3 DEF Effective
      <4>2. Update(Effective(plan)) = Rest(plan, 0)
        BY UpdateIsRest
      <4> QED BY <2>1, <2>3, <4>1, <4>2 DEF Program
    <3>2. Quiet(Expected(plan, 0), Instance(r))
      BY <2>1, <2>3, Fields DEF Quiet, Expected
    <3>3. Place(plan, r, Rest(plan, 0), Instance(r))
      BY <2>1, <2>3, <3>2, EnterPlace
    <3> QED BY <3>1, <3>3
  <2>4. CASE plan.flow = "delete"
    <3>1. Delete = Then("stop", Then("waitStop", Then("delete", <<>>)))
      <4>1. <<>> \in Seq(Steps) /\ Delete \o <<>> = Delete
        BY SectionTypes, ConcatEmptySeq
      <4>2. <<"stop", "waitStop", "delete">> \o <<>> =
                Then("stop", Then("waitStop", Then("delete", <<>>)))
        <5> DEFINE none == <<>>
        <5>1. none \in Seq(Steps)
          OBVIOUS
        <5> HIDE DEF none
        <5>2. <<"stop", "waitStop", "delete">> \o none =
                  Then("stop", Then("waitStop", Then("delete", none)))
          BY <5>1, Unfold3, KnownSteps
        <5> QED BY <5>2 DEF none
      <4> QED BY <4>1, <4>2 DEF Delete
    <3>2. Is(todo, "stop", Then("waitStop", Then("delete", <<>>)))
      BY <2>1, <2>4, <3>1, TailTypes, ThenIs, KnownSteps DEF Program
    <3>3. Quiet(Settled, Instance(r))
      BY <2>1, <2>4, Fields DEF Quiet
    <3> QED BY <2>4, <3>2, <3>3 DEF Place, AtDelete
  <2> QED BY <2>1, <2>2, <2>3, <2>4 DEF Flows
<1> QED BY <1>1, <1>2 DEF PlaceInv

LEMMA Invariance == Spec => []IInv
<1>1. Init => IInv
  BY TypeInit, InitPlace DEF IInv
<1>2. IInv /\ [Next]_vars => IInv'
  <2>1. SUFFICES ASSUME IInv, [Next]_vars PROVE EndInv' /\ PlaceInv'
    BY TypeStep, CalmStep, UnexpectedStep DEF IInv
  <2>2. CASE Handler
    <3>1. CASE RequestFails
      <4>1. outcome' = "error"
        BY <3>1 DEF RequestFails, End
      <4> QED BY <4>1 DEF EndInv, PlaceInv
    <3> QED BY <2>1, <2>2, <3>1, RequestPlace, CheckPlace, LookPlace, LookToStopPlace DEF Handler
  <2>3. CASE Wait
    <3>1. CASE Receive
      <4>1. outcome' = "error"
        BY <3>1 DEF Receive, End
      <4> QED BY <4>1 DEF EndInv, PlaceInv
    <3>2. CASE WaitFails
      <4>1. outcome' \in {"failed", "unexpected"}
        BY <3>2 DEF WaitFails, End
      <4> QED BY <4>1 DEF EndInv, PlaceInv
    <3> QED BY <2>1, <2>3, <3>1, <3>2, WaitEndsPlace DEF Wait
  <2>4. CASE WaitBreaks
    <3>1. outcome' \in {"error", "timedOut"}
      BY <2>4 DEF WaitBreaks, End
    <3> QED BY <3>1 DEF EndInv, PlaceInv
  <2>5. CASE Service \/ Hang \/ InstanceFails
    BY <2>1, <2>5, ServicePlace DEF Service
  <2>6. CASE Routine
    BY <2>1, <2>6, RoutinePlace DEF Routine
  <2>7. CASE Left
    BY <2>1, <2>7, LeftPlace
  <2>8. CASE UNCHANGED vars
    <3>1. /\ UNCHANGED <<todo, outcome>>
          /\ \A r \in BOOLEAN : Instance(r)' = Instance(r)
      BY <2>8 DEF vars, handlerVars, serviceVars, routineVars, Instance
    <3> QED BY <2>1, <3>1, AroundPlace
  <2> QED BY <2>1, <2>2, <2>3, <2>4, <2>5, <2>6, <2>7, <2>8 DEF Next
<1> QED BY <1>1, <1>2, PTL DEF Spec

\* Every reachable state is well typed: no handler runs out of steps after a
\* look at the instance, and no routine is of an unknown kind.
THEOREM TypeCorrect == Spec => []TypeOK
<1>1. IInv => TypeOK
  BY DEF IInv, TypeInv
<1> QED BY <1>1, Invariance, PTL

\* For every plan without a reboot: as long as no routine has asked for an
\* action, a handler that reports success leaves the instance as the call asks
\* for, with nothing about to change it, and none of its waits has found a state
\* that it does not expect; a deletion that reports success has deleted the
\* instance, whatever the routines did.
THEOREM Outcome == Spec => []OutcomeIsTrue
<1>1. ASSUME IInv PROVE OutcomeIsTrue
  <2>1. ASSUME ~Reboots, outcome = "ok", acted => plan.flow = "delete"
        PROVE  status \in Promised /\ asked = "none"
    <3>1. PICK r \in BOOLEAN : Claimed(r) /\ (r => plan.flow = "delete")
      <4>1. CASE acted
        <5>1. recovery \in BOOLEAN /\ recovery
          BY <1>1, <4>1, FlagsAssumption DEF IInv, CalmInv, TypeInv, TypeOK
        <5>2. Claimed(TRUE)
          BY <2>1, <4>1, <5>1 DEF Claimed, Mode, Reboots
        <5> QED BY <2>1, <4>1, <5>2
      <4>2. CASE ~acted
        <5>1. Claimed(FALSE)
          BY <2>1, <4>2 DEF Claimed, Mode, Reboots
        <5> QED BY <5>1
      <4> QED BY <4>1, <4>2
    <3>2. Over(plan, r, todo, Instance(r))
      BY <1>1, <2>1, <3>1 DEF IInv, EndInv, PlaceInv, Place, AtDelete, AtCreate, AtRestart, AtAction,
                              AtInterface, AtSecureBoot, AtProfile, Is
    <3>3. CASE plan.flow = "delete"
      BY <3>2, <3>3, Fields DEF Over, Promised
    <3>4. CASE plan.flow # "delete"
      <4>1. Quiet(Expected(plan, 5), Instance(r))
        BY <3>1, <3>2, <3>4 DEF Over
      <4>2. Expected(plan, 5) \subseteq Promised
        BY <3>4 DEF Expected, Promised, AfterProfile, AfterInterface, AfterAction, AfterHost, Effective,
                    Settled
      <4> QED BY <4>1, <4>2, Fields DEF Quiet
    <3> QED BY <3>3, <3>4
  <2>2. ASSUME ~Reboots, outcome = "unexpected" PROVE acted
    BY <1>1, <2>2 DEF IInv, UnexpectedInv
  <2> QED BY <2>1, <2>2 DEF OutcomeIsTrue
<1> QED BY <1>1, Invariance, PTL

\* An instance is stopped when it is changed in a way that needs that, or
\* deleted: for every plan without a reboot as long as no routine has asked for
\* an action, and for a deletion and an update of one attribute whatever the
\* routines do.  Nothing is claimed of a creation, or an update of several
\* attributes, after a routine has acted: one left behind may start the
\* instance between its stop and the change.
THEOREM Changed == Spec => []ChangesStopped
<1>1. ASSUME IInv PROVE ChangesStopped
  <2>1. SUFFICES ASSUME At("patch") \/ At("delete"), ~Reboots,
                        ~(acted /\ (plan.flow = "create" \/ \E c, d \in plan.changes : c # d))
                 PROVE  status = "stopped"
    BY DEF ChangesStopped
  <2>2. plan.flow \in Flows /\ Running /\ todo # <<>> /\ Head(todo) \in {"patch", "delete"}
    BY <1>1, <2>1, PlansAssumption DEF IInv, TypeInv, TypeOK, At
  <2>3. PICK r \in BOOLEAN : Claimed(r)
    <3>1. CASE acted
      <4>1. recovery \in BOOLEAN /\ recovery
        BY <1>1, <3>1, FlagsAssumption DEF IInv, CalmInv, TypeInv, TypeOK
      <4>2. Claimed(TRUE)
        BY <2>1, <2>2, <3>1, <4>1 DEF Claimed, Mode, Reboots, Flows
      <4> QED BY <4>2
    <3>2. CASE ~acted
      <4>1. Claimed(FALSE)
        BY <2>1, <3>2 DEF Claimed, Mode, Reboots
      <4> QED BY <4>1
    <3> QED BY <3>1, <3>2
  <2>4. Place(plan, r, todo, Instance(r)) /\ Mode(plan, r)
    BY <1>1, <2>2, <2>3, AtWork
  <2>5. CASE Head(todo) = "patch"
    <3>1. Instance(r).status = "stopped"
      BY <2>2, <2>4, <2>5, FromPatch
    <3> QED BY <3>1, Fields
  <2>6. CASE Head(todo) = "delete"
    <3>1. Halted(Instance(r))
      BY <2>2, <2>4, <2>6, FromDelete
    <3> QED BY <3>1, Fields DEF Halted
  <2> QED BY <2>2, <2>5, <2>6
<1> QED BY <1>1, Invariance, PTL
=============================================================================
