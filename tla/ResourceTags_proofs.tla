------------------------- MODULE ResourceTags_proofs -------------------------
(***************************************************************************)
(* Proofs about ResourceTags: its invariant and why a wait for the index   *)
(* is in vain, for any tags, any environments and any number of changes,   *)
(* edits and faults.                                                       *)
(***************************************************************************)
EXTENDS ResourceTags, TLAPS

-----------------------------------------------------------------------------
(* The inductive invariant *)

\* Before a resource is created it has no tags; a result is of an apply that
\* has ended.
BeginInv ==
    /\ result # "none" => pc = "idle" /\ created
    /\ ~created => state = {} /\ pc # "plan"
    /\ ~created /\ pc = "idle" => attached = {}

\* What of the tags at the service the state is about: a framework resource
\* leaves those of the environment out.
Own(tags) == IF kind = "framework" THEN tags \ env ELSE tags

\* How far an apply that nothing disturbs has brought the tags.
TagInv ==
    clean =>
        /\ pc \in {"plan", "detach"} => state = Own(attached)
        /\ pc = "attach" => Own(attached) = state \ Removed
        /\ pc \in {"wait", "read"} => attached = config \cup env

IInv == TypeOK /\ BeginInv /\ TagInv /\ SuccessIsTrue
-----------------------------------------------------------------------------
(* The tags of an update *)

\* Detaching takes away what the configuration does not have, and nothing of
\* the environment's that the state does not know of.
LEMMA Detached ==
  ASSUME state = Own(attached)
  PROVE  IF kind = "framework" THEN (attached \ Removed) \ env = state \ Removed
                               ELSE attached \ Removed = state \ Removed
  BY DEF Own

\* Attaching the rest makes the tags those of the configuration and of the
\* environment.
LEMMA Attached ==
  ASSUME Own(attached) = state \ Removed
  PROVE  attached \cup ToAttach = config \cup env
  <1>1. CASE kind = "framework"
    BY <1>1 DEF Own, Removed, Added, ToAttach
  <1>2. CASE kind # "framework"
    BY <1>2 DEF Own, Removed, Added, ToAttach
  <1>. QED  BY <1>1, <1>2

\* An empty plan about the truth: the tags are right or no plan shows the rest.
LEMMA NothingToPlan ==
  ASSUME state = Own(attached), Unchanged
  PROVE  attached = config \cup env \/ Blind
  <1>1. CASE state = config
    BY <1>1 DEF Own, Blind
  <1>2. CASE state # config
    <2>1. kind # "framework" /\ Added = {}
      BY <1>2 DEF Unchanged, Suppressed
    <2>2. Removed = env => attached = config \cup env
      BY <2>1 DEF Own, Added, Removed
    <2>. QED  BY <1>2, <2>2 DEF Blind
  <1>. QED  BY <1>1, <1>2
-----------------------------------------------------------------------------
(* The steps *)

LEMMA InitInv == Init => IInv
  <1>. SUFFICES ASSUME Init PROVE IInv
    OBVIOUS
  <1>1. plans \in 0..MaxPlans /\ edits \in 0..MaxEdits /\ faults \in 0..MaxFaults
    BY BoundAssumption DEF Init
  <1>2. TypeOK
    BY <1>1 DEF Init, TypeOK
  <1>3. BeginInv /\ TagInv /\ SuccessIsTrue
    BY DEF Init, BeginInv, TagInv, SuccessIsTrue
  <1>. QED  BY <1>2, <1>3 DEF IInv

\* The tags of the environment are tags.
LEMMA EnvTags == ASSUME TypeOK PROVE env \subseteq Tags
  <1>1. envList \in Seq(Tags)
    BY TagAssumption DEF TypeOK
  <1>2. \A i \in DOMAIN envList : envList[i] \in Tags
    BY <1>1
  <1>. QED  BY <1>2 DEF env

\* The steps of a handler leave kind, configuration and environment alone.
LEMMA HandlerType ==
  ASSUME TypeOK, Handler
  PROVE  TypeOK' /\ kind' = kind /\ config' = config /\ envList' = envList /\ env' = env
  <1>1. Fault => faults' \in 0..MaxFaults
    BY BoundAssumption DEF TypeOK, Fault
  <1>2. Removed \subseteq Tags /\ ToAttach \subseteq Tags /\ Seen \subseteq Tags
    <2>1. env \subseteq Tags
      BY EnvTags
    <2>. QED  BY <2>1 DEF TypeOK, Removed, Added, ToAttach, Seen
  <1>3. /\ kind' = kind /\ config' = config /\ envList' = envList /\ env' = env
        /\ plans' = plans /\ edits' = edits
    <2>1. UNCHANGED world
      BY DEF Handler, Create, Refresh, PlanNothing, PlanUpdate, Detach, DetachFails, Attach, AttachInPart,
             AttachFails, WaitSucceeds, WaitTimesOut, Read, Step, Fail
    <2>. QED  BY <2>1 DEF world, env
  <1>4. attached' \subseteq Tags /\ index' \subseteq Tags
    BY <1>2 DEF TypeOK, Handler, Create, Refresh, PlanNothing, PlanUpdate, Detach, DetachFails, Attach,
                AttachInPart, AttachFails, WaitSucceeds, WaitTimesOut, Read, Step, Fail
  <1>5. state' \subseteq Tags /\ faults' \in 0..MaxFaults
    BY <1>1, <1>2 DEF TypeOK, Handler, Create, Refresh, PlanNothing, PlanUpdate, Detach, DetachFails, Attach,
                AttachInPart, AttachFails, WaitSucceeds, WaitTimesOut, Read, Step, Fail
  <1>6. /\ created' \in BOOLEAN /\ clean' \in BOOLEAN /\ result' \in {"none", "ok", "error"}
        /\ pc' \in {"idle", "plan", "detach", "attach", "wait", "read"}
    BY DEF TypeOK, Handler, Create, Refresh, PlanNothing, PlanUpdate, Detach, DetachFails, Attach,
           AttachInPart, AttachFails, AfterAttach, WaitSucceeds, WaitTimesOut, Read, Step, Fail
  <1>. QED  BY <1>3, <1>4, <1>5, <1>6 DEF TypeOK

LEMMA HandlerInv ==
  ASSUME IInv, Handler
  PROVE  IInv'
  <1>. USE DEF IInv
  <1>1. TypeOK' /\ kind' = kind /\ config' = config /\ envList' = envList /\ env' = env
    BY HandlerType
  <1>2. CASE Create
    <2>1. /\ ~created /\ pc = "idle" /\ pc' \in {"read", "detach"} /\ (pc' = "read" => config = {} /\ env = {})
          /\ attached' = attached /\ state' = state /\ created' = created /\ result' = result /\ clean' = clean
      BY <1>2 DEF Create
    <2>2. BeginInv' /\ TagInv' /\ SuccessIsTrue'
      BY <1>1, <2>1 DEF BeginInv, TagInv, Own, SuccessIsTrue
    <2>. QED  BY <1>1, <2>2
  <1>3. CASE Refresh
    <2>1. /\ pc' = "plan" /\ result' = "none" /\ created /\ created' = created /\ attached' = attached
          /\ clean' => index = attached /\ state' = Seen
      BY <1>3 DEF Refresh
    <2>2. BeginInv' /\ SuccessIsTrue'
      BY <2>1 DEF BeginInv, SuccessIsTrue
    <2>3. TagInv'
      BY <1>1, <2>1 DEF TagInv, Own, Seen
    <2>. QED  BY <1>1, <2>2, <2>3
  <1>4. CASE PlanNothing
    <2>1. /\ pc = "plan" /\ Unchanged /\ pc' = "idle" /\ result' = "ok"
          /\ attached' = attached /\ state' = state /\ created' = created /\ clean' = clean
      BY <1>4 DEF PlanNothing
    <2>2. BeginInv' /\ TagInv'
      BY <2>1 DEF BeginInv, TagInv
    <2>3. Blind' = Blind
      BY <1>1, <2>1 DEF Blind, Unchanged, Suppressed, Added, Removed
    <2>4. SuccessIsTrue'
      BY <1>1, <2>1, <2>3, NothingToPlan DEF SuccessIsTrue, TagInv
    <2>. QED  BY <1>1, <2>2, <2>4
  <1>5. CASE PlanUpdate
    <2>1. /\ pc = "plan" /\ pc' = "detach" /\ result' = result
          /\ attached' = attached /\ state' = state /\ created' = created /\ clean' = clean
      BY <1>5 DEF PlanUpdate
    <2>2. BeginInv' /\ TagInv' /\ SuccessIsTrue'
      BY <1>1, <2>1 DEF BeginInv, TagInv, Own, SuccessIsTrue
    <2>. QED  BY <1>1, <2>2
  <1>6. CASE Detach
    <2>1. /\ pc = "detach" /\ pc' = "attach" /\ result' = result /\ attached' = attached \ Removed
          /\ state' = state /\ created' = created /\ clean' = clean
      BY <1>6 DEF Detach, Step
    <2>2. Removed' = Removed
      BY <1>1, <2>1 DEF Removed
    <2>3. BeginInv' /\ SuccessIsTrue'
      BY <2>1 DEF BeginInv, SuccessIsTrue
    <2>4. TagInv'
      BY <1>1, <2>1, <2>2, Detached DEF TagInv, Own
    <2>. QED  BY <1>1, <2>3, <2>4
  <1>7. CASE Attach
    <2>1. /\ pc = "attach" /\ pc' \in {"wait", "read"} /\ result' = result /\ attached' = attached \cup ToAttach
          /\ state' = state /\ created' = created /\ clean' = clean
      BY <1>7 DEF Attach, Step, AfterAttach
    <2>2. BeginInv' /\ SuccessIsTrue'
      BY <2>1 DEF BeginInv, SuccessIsTrue
    <2>3. TagInv'
      BY <1>1, <2>1, Attached DEF TagInv
    <2>. QED  BY <1>1, <2>2, <2>3
  <1>8. CASE WaitSucceeds \/ WaitTimesOut
    <2>1. /\ pc = "wait" /\ pc' = "read" /\ result' = result /\ attached' = attached
          /\ state' = state /\ created' = created /\ clean' = clean
      BY <1>8 DEF WaitSucceeds, WaitTimesOut, Step
    <2>2. BeginInv' /\ TagInv' /\ SuccessIsTrue'
      BY <1>1, <2>1 DEF BeginInv, TagInv, SuccessIsTrue
    <2>. QED  BY <1>1, <2>2
  <1>9. CASE Read
    <2>1. pc = "read" /\ pc' = "idle" /\ created' = TRUE /\ attached' = attached /\ clean' = clean
      BY <1>9 DEF Read
    <2>2. BeginInv' /\ TagInv'
      BY <2>1 DEF BeginInv, TagInv
    <2>3. SuccessIsTrue'
      BY <1>1, <2>1 DEF TagInv, SuccessIsTrue
    <2>. QED  BY <1>1, <2>2, <2>3
  <1>10. CASE DetachFails \/ AttachInPart \/ AttachFails
    <2>1. /\ pc \in {"detach", "attach"} /\ clean' = FALSE /\ state' = state /\ created' = created
          /\ \/ pc' \in {"wait", "read"} /\ result' = result
             \/ created /\ pc' = "idle" /\ result' = "error"
      BY <1>10 DEF DetachFails, AttachInPart, AttachFails, AfterAttach, Fail
    <2>2. BeginInv' /\ TagInv' /\ SuccessIsTrue'
      BY <2>1 DEF BeginInv, TagInv, SuccessIsTrue
    <2>. QED  BY <1>1, <2>2
  <1>. QED  BY <1>2, <1>3, <1>4, <1>5, <1>6, <1>7, <1>8, <1>9, <1>10 DEF Handler

LEMMA StepInv == IInv /\ [Next]_vars => IInv'
  <1>. SUFFICES ASSUME IInv, [Next]_vars PROVE IInv'
    OBVIOUS
  <1>. USE DEF IInv
  <1>1. CASE Handler
    BY <1>1, HandlerInv
  <1>2. CASE Follow \/ UNCHANGED vars
    <2>1. /\ kind' = kind /\ attached' = attached /\ config' = config /\ envList' = envList /\ state' = state
          /\ created' = created /\ pc' = pc /\ result' = result /\ clean' = clean
          /\ plans' = plans /\ edits' = edits /\ faults' = faults
          /\ index' \in {index, attached}
      BY <1>2 DEF Follow, counters, vars
    <2>2. env' = env
      BY <2>1 DEF env
    <2>3. Removed' = Removed /\ Blind' = Blind
      BY <2>1, <2>2 DEF Removed, Added, Blind, Unchanged, Suppressed
    <2>. QED  BY <2>1, <2>2, <2>3 DEF TypeOK, BeginInv, TagInv, Own, SuccessIsTrue
  <1>3. CASE Configure
    <2>1. /\ created /\ pc = "idle" /\ pc' = pc /\ result' = "none" /\ created' = created
          /\ kind' = kind /\ attached' = attached /\ index' = index /\ state' = state /\ clean' = clean
          /\ edits' = edits /\ faults' = faults
          /\ config' \subseteq Tags /\ envList' \in Environments
      BY <1>3 DEF Configure, TypeOK
    <2>2. plans' \in 0..MaxPlans
      BY <1>3, BoundAssumption DEF Configure, TypeOK
    <2>. QED  BY <2>1, <2>2 DEF TypeOK, BeginInv, TagInv, SuccessIsTrue
  <1>4. CASE Edit
    <2>1. /\ created /\ clean' = FALSE /\ created' = created /\ pc' = pc /\ result' = result /\ state' = state
          /\ kind' = kind /\ index' = index /\ config' = config /\ envList' = envList /\ plans' = plans /\ faults' = faults
          /\ attached' \subseteq Tags
      BY <1>4 DEF Edit, TypeOK
    <2>2. edits' \in 0..MaxEdits
      BY <1>4, BoundAssumption DEF Edit, TypeOK
    <2>. QED  BY <2>1, <2>2 DEF TypeOK, BeginInv, TagInv, SuccessIsTrue
  <1>. QED  BY <1>1, <1>2, <1>3, <1>4 DEF Next
-----------------------------------------------------------------------------
(* The theorems *)

LEMMA Invariant == Spec => []IInv
  BY InitInv, StepInv, PTL DEF Spec

\* The variables keep their types.
THEOREM TypeCorrect == Spec => []TypeOK
  <1>1. IInv => TypeOK
    BY DEF IInv
  <1>. QED  BY Invariant, <1>1, PTL

\* An apply that read the truth and met no fault and no company succeeds only
\* with the configured tags and those of the environment, or no plan shows what
\* is wrong.
THEOREM Truthful == Spec => []SuccessIsTrue
  <1>1. IInv => SuccessIsTrue
    BY DEF IInv
  <1>. QED  BY Invariant, <1>1, PTL

\* The wait for the index is in vain for a reason: a lagging index, a fault, an
\* edit, or tags of the environment that are not configured.
THEOREM TimeoutCause == Spec => TimesOutForACause
  <1>1. ASSUME IInv, WaitTimesOut PROVE index # attached \/ ~clean \/ ~(env \subseteq config)
    BY <1>1 DEF IInv, TagInv, WaitTimesOut, Available
  <1>2. IInv /\ [Next]_vars => [WaitTimesOut => index # attached \/ ~clean \/ ~(env \subseteq config)]_vars
    BY <1>1
  <1>. QED  BY Invariant, <1>2, PTL DEF Spec, TimesOutForACause
=============================================================================
