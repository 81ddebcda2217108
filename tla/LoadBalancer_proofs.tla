-------------------------- MODULE LoadBalancer_proofs --------------------------
(***************************************************************************)
(* Proofs about LoadBalancer: its invariants, for any load balancer, any   *)
(* number of parts and every consistent plan.  What the seventeen programs *)
(* have in common is stated once (Shape); the rest of the argument knows   *)
(* of a handler only the step it is at and the steps it has done.          *)
(***************************************************************************)
EXTENDS LoadBalancer, TLAPS

-----------------------------------------------------------------------------
(* The programs *)

Step(o) == Program(o)[pc[o]]

\* The steps a program has done at position i.
Before(program, i) == {program[j] : j \in 1..(i - 1)}
Done(o) == Before(Program(o), pc[o])

Steps == {"lock", "unlock", "get", "look", "getLB", "waitLB", "needLB", "waitPool", "waitSelf",
          "waitGone", "send", "try", "read"}
LastSteps == {"read", "waitLB", "waitGone"}
LockedSteps == {"send", "try", "unlock"}
WaitSteps == {"waitLB", "waitPool", "waitSelf"}

\* What holds of step s of the program of a kind and an operation when the
\* steps in done precede it and the step after it is next.
ShapeAt(kind, operation, s, done) ==
    /\ s \in Steps
    \* the lock is taken once, before whatever needs it, and given up once
    /\ s = "lock" => "lock" \notin done /\ "unlock" \notin done
    /\ s = "unlock" => "unlock" \notin done
    /\ kind = "pool" /\ operation = "create" => s # "lock" /\ "lock" \notin done
    /\ ~(kind = "pool" /\ operation = "create") =>
        /\ s \in LockedSteps => "lock" \in done /\ "unlock" \notin done
        /\ done \cap WaitSteps # {} /\ "send" \notin done => "lock" \in done /\ "unlock" \notin done
    \* what is waited for before the request
    /\ kind \notin {"policy", "rule"} =>
        /\ s = "send" => "waitLB" \in done
        /\ s = "send" /\ kind = "member" => "waitPool" \in done
        /\ s = "send" /\ kind = "pool" /\ operation # "create" => "waitSelf" \in done
        /\ s # "needLB"
    /\ s = "try" => kind = "target"
    /\ s = "waitPool" => kind = "member"
    /\ "waitPool" \in done => kind = "member"
    /\ s = "waitSelf" => kind # "target"
    \* one request, before it is waited for and read
    /\ s \in {"send", "try", "get", "look"} => "send" \notin done
    /\ s \in {"read", "waitGone", "unlock"} => "send" \in done
    /\ "waitGone" \in done => "send" \in done
    /\ s \in {"get", "look", "waitGone"} => operation = "delete"
    /\ "waitGone" \in done => operation = "delete"
    /\ s = "read" => operation # "delete"
    /\ s = "waitSelf" /\ operation = "delete" => "send" \notin done
    /\ "waitSelf" \in done /\ "send" \notin done => operation # "create"
    /\ s = "waitSelf" /\ operation = "create" => "send" \in done

\* What holds of a step and the one after it, and of the last step.
ShapeAfter(kind, operation, program, i) ==
    /\ i = Len(program) => program[i] \in LastSteps
    /\ i = Len(program) /\ operation # "delete" => program[i] = "read"
    /\ i = Len(program) /\ operation = "delete" => "waitGone" \in Before(program, i) \cup {program[i]}
    /\ i = Len(program) /\ kind \notin {"policy", "rule"} => program[i] \in {"read", "waitLB"}
    /\ program[i] = "read" => i = Len(program)
    /\ "unlock" \in Before(program, i) => \A j \in i..Len(program) : program[j] # "waitLB"
    /\ ~(kind = "pool" /\ operation = "create") /\ "send" \in Before(program, i) => "lock" \in Before(program, i)
    /\ program[i] = "try" =>
        i + 3 <= Len(program) /\ program[i + 1] = "waitLB" /\ program[i + 2] = "send"
    /\ program[i] = "send" /\ operation # "delete" /\ kind \notin {"pool", "target"} =>
        program[i + 1] = "waitSelf"
    /\ program[i] \in {"send", "try"} /\ kind \notin {"policy", "rule"} =>
        \E j \in (i + 1)..Len(program) : program[j] = "waitLB" /\ (program[i] = "try" => j >= i + 3)

Shape(kind, operation, program) ==
    /\ Len(program) \in 2..10
    /\ \A i \in 1..Len(program) :
        /\ ShapeAt(kind, operation, program[i], Before(program, i))
        /\ ShapeAfter(kind, operation, program, i)

LEMMA ProgramShape ==
  ASSUME NEW o \in Objects, plan[o] \in {"create", "update", "delete"},
         Kind[o] = "target" => plan[o] # "update"
  PROVE  Shape(Kind[o], plan[o], Program(o))
  <1>. USE DEF Before, Shape, ShapeAt, ShapeAfter, Steps, LastSteps, LockedSteps, WaitSteps
  <1>1. Shape("member", "create", MemberCreate)
    BY DEF MemberCreate
  <1>2. Shape("member", "update", MemberUpdate)
    BY DEF MemberUpdate
  <1>3. Shape("member", "delete", MemberDelete)
    BY DEF MemberDelete
  <1>4. Shape("pool", "create", PoolCreate)
    BY DEF PoolCreate
  <1>5. Shape("pool", "update", PoolUpdate)
    BY DEF PoolUpdate
  <1>6. Shape("pool", "delete", PoolDelete)
    BY DEF PoolDelete
  <1>7. Shape("listener", "create", ListenerCreate)
    BY DEF ListenerCreate
  <1>8. Shape("listener", "update", ListenerUpdate)
    BY DEF ListenerUpdate
  <1>9. Shape("listener", "delete", ListenerDelete)
    BY DEF ListenerDelete
  <1>10. Shape("policy", "create", PolicyCreate)
    BY DEF PolicyCreate
  <1>11. Shape("policy", "update", PolicyUpdate)
    BY DEF PolicyUpdate
  <1>12. Shape("policy", "delete", PolicyDelete)
    BY DEF PolicyDelete
  <1>13. Shape("rule", "create", RuleCreate)
    BY DEF RuleCreate
  <1>14. Shape("rule", "update", RuleUpdate)
    BY DEF RuleUpdate
  <1>15. Shape("rule", "delete", RuleDelete)
    BY DEF RuleDelete
  <1>16. Shape("target", "create", TargetCreate)
    BY DEF TargetCreate
  <1>17. Shape("target", "delete", TargetDelete)
    BY DEF TargetDelete
  <1>. HIDE DEF Shape
  <1>. QED  BY ObjectsAssumption, <1>1, <1>2, <1>3, <1>4, <1>5, <1>6, <1>7, <1>8, <1>9, <1>10, <1>11, <1>12, <1>13, <1>14, <1>15, <1>16, <1>17 DEF Kinds, Program, Programs
-----------------------------------------------------------------------------
(* The inductive invariant *)

\* A handler that was called has a program and a place in it.
PlaceInv ==
    /\ ConsistentPlan(plan)
    /\ \A o \in Objects :
        /\ pc[o] = 0 => outcome[o] = "none"
        /\ pc[o] # 0 => plan[o] # "none" /\ pc[o] \in 1..Len(Program(o))

\* A key is held by the running handler between its "lock" and its "unlock".
HasKey(o) == Running(o) /\ "lock" \in Done(o) /\ "unlock" \notin Done(o)
LockInv == \A k \in Keys, o \in Objects : lock[k] = o <=> Key(o) = k /\ HasKey(o)

\* Parents are created before and deleted after their children.
FamilyInv ==
    \A c \in Objects : Parent[c] # None =>
        /\ pc[c] # 0 /\ plan[Parent[c]] = "create" => outcome[Parent[c]] = "ok"
        /\ pc[Parent[c]] # 0 /\ plan[Parent[c]] = "delete" => outcome[c] = "ok"

\* Whether the request of o may have reached the service.
Requested(o) == "send" \in Done(o) \/ outcome[o] = "lost"

\* What the progress of a handler says about its object.
StatusOf(o) ==
    /\ plan[o] = "create" /\ ~Requested(o) => status[o] = "absent"
    /\ plan[o] = "create" /\ "send" \in Done(o) => status[o] # "absent" /\ id[o]
    /\ Kind[o] # "pool" /\ ~Requested(o) => status[o] = "absent" \/ Settled(status[o])
    /\ status[o] = "delete_pending" => plan[o] = "delete" /\ pc[o] # 0 /\ Requested(o)
    /\ "waitGone" \in Done(o) => status[o] = "absent"
    /\ Kind[o] # "pool" /\ plan[o] # "delete" /\ "send" \in Done(o) /\ outcome[o] \in {"none", "ok"} =>
          Settled(status[o]) \/ (Running(o) /\ Step(o) = "waitSelf")
    /\ ~id[o] => status[o] = "absent" \/ outcome[o] = "lost"
StatusInv == \A o \in Objects : StatusOf(o)

\* What a handler has waited for is still so when it sends its request.
WaitOf(o) ==
    Running(o) /\ "send" \notin Done(o) =>
        /\ "waitPool" \in Done(o) => Settled(status[Parent[o]])
        /\ "waitSelf" \in Done(o) => Settled(status[o])
        /\ "waitLB" \in Done(o) /\ Waits(o) /\ ~NotKeptApart(o) => lb = "active"
WaitInv == \A o \in Objects : WaitOf(o)

\* A handler that is yet to wait for the load balancer after its request.
Owes(o) ==
    /\ Running(o) /\ "send" \in Done(o)
    /\ \E i \in pc[o]..Len(Program(o)) : Program(o)[i] = "waitLB"

BusyInv ==
    lb # "active" =>
        \E o \in Objects : \/ outcome[o] \in Failed
                           \/ ~Waits(o) /\ pc[o] # 0
                           \/ Owes(o)

\* Why a handler has failed; the reasons do not go away.
CauseOf(o) ==
    Waits(o) =>
        /\ outcome[o] = "rejected" => NotKeptApart(o)
        /\ outcome[o] = "unexpected" =>
            \/ status[o] = "absent"
            \/ Kind[o] = "member" /\ status[o] = "failed"
            \/ Parent[o] # None /\ status[Parent[o]] = "absent"
CauseInv == \A o \in Objects : CauseOf(o)

\* What success means.
SuccessOf(o) ==
    outcome[o] = "ok" =>
        /\ plan[o] = "delete" => status[o] = "absent" /\ ~id[o]
        /\ plan[o] = "create" => id[o] /\ (Kind[o] = "pool" \/ Settled(status[o]))
        /\ plan[o] = "update" => (id[o] => Kind[o] = "pool" \/ Settled(status[o]))
        /\ plan[o] # "none"
SuccessInv == \A o \in Objects : SuccessOf(o)

IInv == /\ TypeOK /\ PlaceInv /\ LockInv /\ FamilyInv /\ StatusInv /\ WaitInv
        /\ BusyInv /\ CauseInv /\ SuccessInv
-----------------------------------------------------------------------------
(* Handlers, steps and keys *)

\* The shape of its program at the place of a handler that was called.
LEMMA Here ==
  ASSUME TypeOK, PlaceInv, NEW o \in Objects, pc[o] # 0
  PROVE  /\ plan[o] \in {"create", "update", "delete"}
         /\ pc[o] \in 1..Len(Program(o)) /\ Len(Program(o)) \in 2..10
         /\ ShapeAt(Kind[o], plan[o], Step(o), Done(o))
         /\ ShapeAfter(Kind[o], plan[o], Program(o), pc[o])
  <1>1. plan[o] \in {"create", "update", "delete"} /\ (Kind[o] = "target" => plan[o] # "update")
    BY DEF TypeOK, PlaceInv, ConsistentPlan, Operations
  <1>2. Shape(Kind[o], plan[o], Program(o))
    BY <1>1, ProgramShape
  <1>. QED  BY <1>1, <1>2 DEF PlaceInv, Shape, Step, Done

\* A step of handler o, or of the service, is none of another handler's.
LEMMA Others ==
  ASSUME NEW x \in Objects, plan' = plan, pc'[x] = pc[x], outcome'[x] = outcome[x]
  PROVE  /\ Program(x)' = Program(x) /\ Step(x)' = Step(x) /\ Done(x)' = Done(x)
         /\ Running(x)' = Running(x) /\ HasKey(x)' = HasKey(x) /\ Owes(x)' = Owes(x)
         /\ Requested(x)' = Requested(x)
  <1>1. Program(x)' = Program(x) /\ Step(x)' = Step(x) /\ Done(x)' = Done(x)
    BY DEF Program, Step, Done, Before
  <1>2. Running(x)' = Running(x)
    BY DEF Running
  <1>. QED  BY <1>1, <1>2 DEF HasKey, Owes, Requested

\* The next step.
LEMMA OneStep ==
  ASSUME TypeOK, PlaceInv, NEW o \in Objects, pc[o] # 0, plan' = plan, pc' = [pc EXCEPT ![o] = @ + 1]
  PROVE  /\ pc'[o] = pc[o] + 1 /\ \A x \in Objects \ {o} : pc'[x] = pc[x]
         /\ Program(o)' = Program(o) /\ Done(o)' = Done(o) \cup {Step(o)}
         /\ Step(o)' = Program(o)[pc[o] + 1]
  <1>1. pc'[o] = pc[o] + 1 /\ \A x \in Objects \ {o} : pc'[x] = pc[x]
    BY DEF TypeOK
  <1>2. Program(o)' = Program(o)
    BY DEF Program
  <1>3. pc[o] \in 1..10
    BY DEF TypeOK
  <1>. QED  BY <1>1, <1>2, <1>3 DEF Done, Before, Step

\* A handler that once had company keeps it.
LEMMA KeptApartStays ==
  ASSUME plan' = plan, \A x \in Objects : pc[x] # 0 => pc'[x] # 0
  PROVE  \A x \in Objects : NotKeptApart(x) => NotKeptApart(x)'
  BY DEF NotKeptApart, TakesKey

\* Two handlers do not hold the same key.
LEMMA Exclusive ==
  ASSUME LockInv, NEW o \in Objects, NEW x \in Objects, HasKey(o), HasKey(x), Key(o) = Key(x)
  PROVE  o = x
  BY DEF LockInv, Keys, Key

\* A handler that takes a key has it when it sends its request, and from its
\* first wait on until then.
LEMMA HoldsKey ==
  ASSUME TypeOK, PlaceInv, NEW o \in Objects, Running(o),
         ~(Kind[o] = "pool" /\ plan[o] = "create"),
         \/ Step(o) \in {"send", "try"}
         \/ Done(o) \cap WaitSteps # {} /\ "send" \notin Done(o)
  PROVE  HasKey(o)
  BY Here DEF Running, HasKey, ShapeAt, LockedSteps
-----------------------------------------------------------------------------
(* The beginning *)

LEMMA InitInv == Init => IInv
  <1>. SUFFICES ASSUME Init PROVE IInv
    OBVIOUS
  <1>1. \A o \in Objects : /\ pc[o] = 0 /\ outcome[o] = "none" /\ id[o] = (plan[o] # "create")
                           /\ Done(o) = {} /\ ~Running(o)
    BY DEF Init, Done, Before, Running
  <1>2. plan \in [Objects -> Operations] /\ ConsistentPlan(plan)
    BY PlansAssumption DEF Init
  <1>3. TypeOK
    BY <1>2 DEF Init, TypeOK, Outcomes, Keys
  <1>4. PlaceInv /\ FamilyInv
    BY <1>1, <1>2, ObjectsAssumption DEF PlaceInv, FamilyInv
  <1>5. LockInv
    BY <1>1, ObjectsAssumption DEF Init, LockInv, HasKey
  <1>6. \A o \in Objects : /\ status[o] = "absent" \/ Settled(status[o])
                           /\ plan[o] = "create" => status[o] = "absent"
    BY <1>2 DEF Init, StartingStatuses, Settled, Operations
  <1>7. StatusInv
    BY <1>1, <1>6 DEF StatusInv, StatusOf, Requested, Settled
  <1>8. WaitInv /\ BusyInv
    BY <1>1 DEF Init, WaitInv, WaitOf, BusyInv
  <1>9. CauseInv /\ SuccessInv
    BY <1>1 DEF CauseInv, CauseOf, SuccessInv, SuccessOf
  <1>. QED  BY <1>3, <1>4, <1>5, <1>7, <1>8, <1>9 DEF IInv
-----------------------------------------------------------------------------
(* The steps: what they leave alone *)

\* An object whose handler and status do not change.
LEMMA StatusKept ==
  ASSUME NEW x \in Objects, StatusOf(x), plan' = plan, pc'[x] = pc[x], outcome'[x] = outcome[x],
         id'[x] = id[x], status'[x] = status[x]
  PROVE  StatusOf(x)'
  BY Others DEF StatusOf

\* Its result, when no parent reappears.
LEMMA ResultKept ==
  ASSUME NEW x \in Objects, CauseOf(x), SuccessOf(x), plan' = plan,
         \A y \in Objects : pc[y] # 0 => pc'[y] # 0,
         outcome'[x] = outcome[x], id'[x] = id[x], status'[x] = status[x],
         Parent[x] # None /\ status[Parent[x]] = "absent" => status'[Parent[x]] = "absent"
  PROVE  CauseOf(x)' /\ SuccessOf(x)'
  BY KeptApartStays DEF CauseOf, SuccessOf, Waits

\* What it has waited for, when no status changes and no load balancer becomes busy.
LEMMA WaitKept ==
  ASSUME NEW x \in Objects, WaitOf(x), plan' = plan, pc'[x] = pc[x], outcome'[x] = outcome[x],
         \A y \in Objects : pc[y] # 0 => pc'[y] # 0, status' = status, lb' = lb
  PROVE  WaitOf(x)'
  BY Others, KeptApartStays DEF WaitOf, Waits

\* The places, when one handler is called or goes on.
LEMMA PlaceKept ==
  ASSUME PlaceInv, plan' = plan, NEW o \in Objects, plan[o] # "none", pc'[o] \in 1..Len(Program(o)),
         \A x \in Objects \ {o} : pc'[x] = pc[x] /\ outcome'[x] = outcome[x]
  PROVE  PlaceInv'
  <1>1. ConsistentPlan(plan)'
    BY DEF PlaceInv, ConsistentPlan
  <1>2. ASSUME NEW x \in Objects, x # o
        PROVE  /\ pc'[x] = 0 => outcome'[x] = "none"
               /\ pc'[x] # 0 => plan'[x] # "none" /\ pc'[x] \in 1..Len(Program(x)')
    BY <1>2, Others DEF PlaceInv
  <1>3. pc'[o] \in 1..Len(Program(o)') /\ pc'[o] # 0
    BY DEF Program
  <1>. QED  BY <1>1, <1>2, <1>3 DEF PlaceInv

LEMMA CallStep ==
  ASSUME IInv, NEW o \in Objects, Call(o)
  PROVE  IInv'
  <1>. USE DEF IInv
  <1>1. /\ pc[o] = 0 /\ plan[o] # "none" /\ Ready(o)
        /\ plan' = plan /\ outcome' = outcome /\ id' = id /\ lock' = lock /\ status' = status /\ lb' = lb
        /\ pc' = [pc EXCEPT ![o] = 1]
    BY DEF Call, serviceVars
  <1>2. pc'[o] = 1 /\ \A x \in Objects \ {o} : pc'[x] = pc[x]
    BY <1>1 DEF TypeOK
  <1>3. Done(o) = {} /\ Done(o)' = {} /\ ~Running(o) /\ outcome[o] = "none"
    BY <1>1, <1>2 DEF Done, Before, Running, PlaceInv
  <1>4. TypeOK'
    BY <1>1 DEF TypeOK
  <1>5. PlaceInv'
    <2>1. Len(Program(o)) \in 2..10
      BY <1>1, ProgramShape DEF TypeOK, PlaceInv, ConsistentPlan, Operations, Shape
    <2>2. pc'[o] \in 1..Len(Program(o))
      BY <1>2, <2>1
    <2>. QED  BY <1>1, <1>2, <2>2, PlaceKept
  <1>6. LockInv'
    <2>1. \A x \in Objects : HasKey(x)' = HasKey(x)
      BY <1>1, <1>2, <1>3, Others DEF HasKey
    <2>. QED  BY <1>1, <2>1 DEF LockInv, Key
  <1>7. FamilyInv'
    BY <1>1, <1>2, ObjectsAssumption DEF FamilyInv, Ready, PlaceInv, ConsistentPlan
  <1>8. StatusInv'
    <2>1. StatusOf(o)'
      BY <1>1, <1>2, <1>3 DEF StatusInv, StatusOf, Requested
    <2>. QED  BY <1>1, <1>2, <2>1, StatusKept DEF StatusInv
  <1>9. WaitInv'
    <2>1. WaitOf(o)'
      BY <1>3 DEF WaitOf
    <2>. QED  BY <1>1, <1>2, <2>1, WaitKept DEF WaitInv
  <1>10. BusyInv'
    BY <1>1, <1>2, <1>3, Others DEF BusyInv, Waits, Owes
  <1>11. CauseInv' /\ SuccessInv'
    BY <1>1, <1>2, ResultKept DEF CauseInv, SuccessInv
  <1>. QED  BY <1>4, <1>5, <1>6, <1>7, <1>8, <1>9, <1>10, <1>11

\* What the handler finds when it goes on: nothing to wait for any more.
Found(o) ==
    /\ Step(o) = "waitLB" => lb = "active"
    /\ Step(o) = "waitPool" => Settled(status[Parent[o]])
    /\ Step(o) = "waitSelf" => Settled(status[o])
    /\ Step(o) = "waitGone" => status[o] = "absent"

\* A handler goes on; the keys are looked at apart.
LEMMA MoveStep ==
  ASSUME IInv, NEW o \in Objects, Running(o), pc[o] < Len(Program(o)), Found(o), Step(o) # "send",
         plan' = plan, outcome' = outcome, id' = id, status' = status, lb' = lb,
         pc' = [pc EXCEPT ![o] = @ + 1]
  PROVE  /\ pc' \in [Objects -> 0..10]
         /\ PlaceInv' /\ FamilyInv' /\ StatusInv' /\ WaitInv' /\ BusyInv' /\ CauseInv' /\ SuccessInv'
  <1>. USE DEF IInv
  <1>1. pc[o] # 0 /\ outcome[o] = "none" /\ pc[o] \in 1..Len(Program(o)) /\ Len(Program(o)) \in 2..10
    BY Here DEF Running
  <1>2. /\ pc'[o] = pc[o] + 1 /\ \A x \in Objects \ {o} : pc'[x] = pc[x]
        /\ Done(o)' = Done(o) \cup {Step(o)} /\ Program(o)' = Program(o)
    BY <1>1, OneStep
  <1>3. pc'[o] \in 1..Len(Program(o)) /\ pc'[o] # 0 /\ pc'[o] \in 0..10
    <2>1. \A n \in 2..10 : \A i \in 1..n : i < n => i + 1 \in 1..n /\ i + 1 # 0 /\ i + 1 \in 0..10
      OBVIOUS
    <2>. QED  BY <1>1, <1>2, <2>1
  <1>4. pc' \in [Objects -> 0..10]
    BY <1>3 DEF TypeOK
  <1>5. PlaceInv'
    BY <1>1, <1>2, <1>3, PlaceKept, Here
  <1>6. FamilyInv'
    BY <1>1, <1>2, <1>3 DEF FamilyInv
  <1>7. Running(o)' /\ (Requested(o)' <=> Requested(o)) /\ ("send" \in Done(o)' <=> "send" \in Done(o))
    BY <1>1, <1>2, <1>3 DEF Running, Requested
  <1>8. StatusOf(o)'
    BY <1>1, <1>2, <1>3, <1>7 DEF StatusInv, StatusOf, Found
  <1>9. StatusInv'
    BY <1>2, <1>8, StatusKept DEF StatusInv
  <1>10. \A x \in Objects : pc[x] # 0 => pc'[x] # 0
    BY <1>2, <1>3
  <1>11. WaitOf(o)'
    BY <1>1, <1>2, <1>7, <1>10, KeptApartStays DEF WaitInv, WaitOf, Found, Waits
  <1>12. WaitInv'
    BY <1>2, <1>10, <1>11, WaitKept DEF WaitInv
  <1>13. CauseInv' /\ SuccessInv'
    BY <1>10, ResultKept DEF CauseInv, SuccessInv
  <1>14. BusyInv'
    <2>1. SUFFICES ASSUME lb # "active" PROVE BusyInv'
      BY DEF BusyInv
    <2>2. PICK x \in Objects : outcome[x] \in Failed \/ (~Waits(x) /\ pc[x] # 0) \/ Owes(x)
      BY <2>1 DEF BusyInv
    <2>3. Owes(o) => Owes(o)'
      BY <1>1, <1>2, <1>3, <1>7, <2>1 DEF Owes, Found, Step
    <2>4. x # o => (Owes(x) => Owes(x)')
      BY <1>2, Others
    <2>. QED  BY <1>10, <2>2, <2>3, <2>4 DEF BusyInv, Waits
  <1>. QED  BY <1>4, <1>5, <1>6, <1>9, <1>12, <1>13, <1>14

\* The keys, when a handler takes its own, gives it up, or does neither.
LEMMA KeysAfter ==
  ASSUME IInv, NEW o \in Objects, plan' = plan,
         \A x \in Objects \ {o} : pc'[x] = pc[x] /\ outcome'[x] = outcome[x],
         \/ lock' = lock /\ HasKey(o)' = HasKey(o)
         \/ lock' = Release(o) /\ ~HasKey(o)'
         \/ lock' = [lock EXCEPT ![Key(o)] = o] /\ lock[Key(o)] = None /\ HasKey(o)'
  PROVE  LockInv' /\ lock' \in [Keys -> Objects \cup {None}]
  <1>1. \A x \in Objects \ {o} : HasKey(x)' = HasKey(x)
    BY Others
  <1>2. lock \in [Keys -> Objects \cup {None}] /\ Key(o) \in Keys /\ None \notin Objects
    BY ObjectsAssumption DEF IInv, TypeOK, Key, Keys
  <1>3. CASE lock' = lock /\ HasKey(o)' = HasKey(o)
    BY <1>1, <1>2, <1>3 DEF IInv, LockInv, Key
  <1>4. CASE lock' = Release(o) /\ ~HasKey(o)'
    BY <1>1, <1>2, <1>4 DEF IInv, LockInv, Key, Release
  <1>5. CASE lock' = [lock EXCEPT ![Key(o)] = o] /\ lock[Key(o)] = None /\ HasKey(o)'
    <2>1. lock'[Key(o)] = o /\ \A k \in Keys : k # Key(o) => lock'[k] = lock[k]
      BY <1>2, <1>5
    <2>2. \A x \in Objects \ {o} : ~(HasKey(x) /\ Key(x) = Key(o))
      BY <1>2, <1>5 DEF IInv, LockInv
    <2>. QED  BY <1>1, <1>2, <1>5, <2>1, <2>2 DEF IInv, LockInv, Key
  <1>. QED  BY <1>3, <1>4, <1>5

\* Taking the key, giving it up, and going on without either.
LEMMA AdvanceStep ==
  ASSUME IInv, NEW o \in Objects, Running(o), pc[o] < Len(Program(o)), Found(o), Step(o) # "send",
         plan' = plan, outcome' = outcome, id' = id, status' = status, lb' = lb,
         pc' = [pc EXCEPT ![o] = @ + 1],
         CASE Step(o) = "lock"   -> lock[Key(o)] = None /\ lock' = [lock EXCEPT ![Key(o)] = o]
           [] Step(o) = "unlock" -> lock' = Release(o)
           [] OTHER              -> lock' = lock
  PROVE  IInv'
  <1>. USE DEF IInv
  <1>1. pc[o] # 0
    BY DEF Running
  <1>2. /\ pc'[o] = pc[o] + 1 /\ \A x \in Objects \ {o} : pc'[x] = pc[x]
        /\ Done(o)' = Done(o) \cup {Step(o)}
    BY <1>1, OneStep
  <1>3. Running(o)' /\ ShapeAt(Kind[o], plan[o], Step(o), Done(o))
    BY <1>1, <1>2, Here DEF Running
  <1>4. LockInv' /\ lock' \in [Keys -> Objects \cup {None}]
    <2>1. CASE Step(o) = "lock"
      BY <1>2, <1>3, <2>1, KeysAfter DEF HasKey, ShapeAt
    <2>2. CASE Step(o) = "unlock"
      BY <1>2, <2>2, KeysAfter DEF HasKey
    <2>3. CASE Step(o) \notin {"lock", "unlock"}
      BY <1>2, <1>3, <2>3, KeysAfter DEF HasKey
    <2>. QED  BY <2>1, <2>2, <2>3
  <1>5. /\ pc' \in [Objects -> 0..10]
        /\ PlaceInv' /\ FamilyInv' /\ StatusInv' /\ WaitInv' /\ BusyInv' /\ CauseInv' /\ SuccessInv'
    BY MoveStep
  <1>6. TypeOK'
    BY <1>4, <1>5 DEF TypeOK
  <1>. QED  BY <1>4, <1>5, <1>6
-----------------------------------------------------------------------------
(* The steps that end a handler *)

\* What the end of a handler leaves as it is, whatever the result.
LEMMA Ending ==
  ASSUME IInv, NEW o \in Objects, Running(o), NEW result \in (Outcomes \ {"none"}),
         plan' = plan, pc' = pc, lock' = Release(o), outcome' = [outcome EXCEPT ![o] = result],
         id' \in [Objects -> BOOLEAN], \A x \in Objects \ {o} : id'[x] = id[x]
  PROVE  /\ outcome'[o] = result /\ pc[o] # 0 /\ ~Running(o)' /\ Done(o)' = Done(o)
         /\ \A x \in Objects \ {o} : outcome'[x] = outcome[x]
         /\ outcome' \in [Objects -> Outcomes]
         /\ PlaceInv' /\ FamilyInv' /\ LockInv' /\ lock' \in [Keys -> Objects \cup {None}]
  <1>. USE DEF IInv
  <1>1. outcome'[o] = result /\ \A x \in Objects \ {o} : outcome'[x] = outcome[x]
    BY DEF TypeOK
  <1>2. outcome' \in [Objects -> Outcomes]
    BY DEF TypeOK
  <1>3. pc[o] # 0 /\ outcome[o] = "none" /\ pc'[o] \in 1..Len(Program(o)) /\ plan[o] # "none"
    BY DEF Running, PlaceInv
  <1>4. ~Running(o)' /\ ~HasKey(o)'
    BY <1>1 DEF Running, HasKey
  <1>5. Done(o)' = Done(o)
    BY DEF Done, Before, Program
  <1>6. PlaceInv'
    BY <1>1, <1>3, PlaceKept
  <1>7. FamilyInv'
    BY <1>1, <1>3 DEF FamilyInv
  <1>8. LockInv' /\ lock' \in [Keys -> Objects \cup {None}]
    BY <1>1, <1>4, KeysAfter
  <1>. QED  BY <1>1, <1>2, <1>3, <1>4, <1>5, <1>6, <1>7, <1>8

LEMMA EndStep ==
  ASSUME IInv, NEW o \in Objects, Running(o), NEW result \in (Outcomes \ {"none", "lost"}), End(o, result),
         plan' = plan, status' = status, lb' = lb,
         result = "ok" => /\ plan[o] = "delete" /\ status[o] = "absent"
                          /\ Owes(o) /\ Waits(o) => lb = "active",
         result = "rejected" /\ Waits(o) => NotKeptApart(o),
         result = "unexpected" /\ Waits(o) =>
            \/ status[o] = "absent"
            \/ Kind[o] = "member" /\ status[o] = "failed"
            \/ Parent[o] # None /\ status[Parent[o]] = "absent"
  PROVE  IInv'
  <1>. USE DEF IInv
  <1>1. /\ outcome' = [outcome EXCEPT ![o] = result] /\ lock' = Release(o) /\ pc' = pc
        /\ id' \in [Objects -> BOOLEAN] /\ \A x \in Objects \ {o} : id'[x] = id[x]
        /\ id'[o] = (id[o] /\ ~(result = "ok" /\ plan[o] = "delete"))
    BY DEF End, TypeOK
  <1>2. /\ outcome'[o] = result /\ pc[o] # 0 /\ ~Running(o)' /\ Done(o)' = Done(o)
        /\ \A x \in Objects \ {o} : outcome'[x] = outcome[x]
        /\ outcome' \in [Objects -> Outcomes]
        /\ PlaceInv' /\ FamilyInv' /\ LockInv' /\ lock' \in [Keys -> Objects \cup {None}]
    BY <1>1, Ending
  <1>3. TypeOK'
    BY <1>1, <1>2 DEF TypeOK
  <1>4. outcome[o] = "none" /\ (Requested(o)' <=> Requested(o))
    BY <1>2 DEF Running, Requested
  <1>5. StatusInv'
    <2>1. StatusOf(o)'
      BY <1>1, <1>2, <1>4 DEF StatusInv, StatusOf
    <2>. QED  BY <1>1, <1>2, <2>1, StatusKept DEF StatusInv
  <1>6. WaitInv'
    <2>1. WaitOf(o)'
      BY <1>2 DEF WaitOf
    <2>. QED  BY <1>1, <1>2, <2>1, WaitKept DEF WaitInv
  <1>7. CauseInv'
    <2>1. CauseOf(o)'
      BY <1>1, <1>2, KeptApartStays DEF CauseOf, Waits
    <2>. QED  BY <1>1, <1>2, <2>1, ResultKept DEF CauseInv, SuccessInv
  <1>8. SuccessInv'
    <2>1. SuccessOf(o)'
      BY <1>1, <1>2 DEF SuccessOf
    <2>. QED  BY <1>1, <1>2, <2>1, ResultKept DEF CauseInv, SuccessInv
  <1>9. BusyInv'
    <2>1. SUFFICES ASSUME lb # "active" PROVE BusyInv'
      BY DEF BusyInv
    <2>2. PICK x \in Objects : outcome[x] \in Failed \/ (~Waits(x) /\ pc[x] # 0) \/ Owes(x)
      BY <2>1 DEF BusyInv
    <2>3. CASE x = o
      BY <1>1, <1>2, <1>4, <2>1, <2>2, <2>3 DEF BusyInv, Waits, Outcomes, Failed
    <2>4. CASE x # o
      BY <1>1, <1>2, <2>2, <2>4, Others DEF BusyInv, Waits
    <2>. QED  BY <2>3, <2>4
  <1>. QED  BY <1>2, <1>3, <1>5, <1>6, <1>7, <1>8, <1>9

LEMMA ReadStep ==
  ASSUME IInv, NEW o \in Objects, Read(o)
  PROVE  IInv'
  <1>. USE DEF IInv
  <1>1. /\ Running(o) /\ Step(o) = "read" /\ pc[o] # 0
        /\ outcome' = [outcome EXCEPT ![o] = "ok"] /\ lock' = Release(o) /\ pc' = pc
        /\ plan' = plan /\ status' = status /\ lb' = lb
        /\ id' \in [Objects -> BOOLEAN] /\ \A x \in Objects \ {o} : id'[x] = id[x]
        /\ id'[o] = (id[o] /\ status[o] # "absent")
    BY DEF Read, At, Step, Running, serviceVars, TypeOK
  <1>2. /\ outcome'[o] = "ok" /\ ~Running(o)' /\ Done(o)' = Done(o)
        /\ \A x \in Objects \ {o} : outcome'[x] = outcome[x]
        /\ outcome' \in [Objects -> Outcomes]
        /\ PlaceInv' /\ FamilyInv' /\ LockInv' /\ lock' \in [Keys -> Objects \cup {None}]
    BY <1>1, Ending DEF Outcomes
  <1>3. TypeOK'
    BY <1>1, <1>2 DEF TypeOK
  <1>4. "send" \in Done(o) /\ plan[o] \in {"create", "update"} /\ pc[o] = Len(Program(o))
    BY <1>1, Here DEF ShapeAt, ShapeAfter, Step
  <1>5. outcome[o] = "none" /\ Kind[o] # "pool" => Settled(status[o])
    BY <1>1, <1>4 DEF StatusInv, StatusOf, Running
  <1>6. StatusInv'
    <2>1. StatusOf(o)'
      BY <1>1, <1>2, <1>4, <1>5 DEF StatusInv, StatusOf, Requested, Running
    <2>. QED  BY <1>1, <1>2, <2>1, StatusKept DEF StatusInv
  <1>7. WaitInv'
    <2>1. WaitOf(o)'
      BY <1>2 DEF WaitOf
    <2>. QED  BY <1>1, <1>2, <2>1, WaitKept DEF WaitInv
  <1>8. CauseInv' /\ SuccessInv'
    <2>1. CauseOf(o)'
      BY <1>2 DEF CauseOf
    <2>2. SuccessOf(o)'
      BY <1>1, <1>2, <1>4, <1>5 DEF SuccessOf, StatusInv, StatusOf, Running
    <2>. QED  BY <1>1, <1>2, <2>1, <2>2, ResultKept DEF CauseInv, SuccessInv
  <1>9. BusyInv'
    <2>1. ~Owes(o)
      BY <1>1, <1>4, Here DEF Owes, Step
    <2>2. outcome[o] \notin Failed
      BY <1>1 DEF Running, Failed
    <2>. QED  BY <1>1, <1>2, <2>1, <2>2, Others DEF BusyInv, Waits
  <1>. QED  BY <1>2, <1>3, <1>6, <1>7, <1>8, <1>9
-----------------------------------------------------------------------------
(* The steps that change the service *)

\* A request that is taken disturbs no other handler: it changes at most the
\* pool of a member, and those that have waited for one hold the key.
LEMMA TakeLeaves ==
  ASSUME IInv, NEW o \in Objects, Running(o), Step(o) \in {"send", "try"}, Accepts(o), Take(o),
         plan' = plan, pc'[o] # 0,
         NEW x \in Objects, x # o,
         \A y \in Objects \ {o} : pc'[y] = pc[y] /\ outcome'[y] = outcome[y] /\ id'[y] = id[y]
  PROVE  StatusOf(x)' /\ WaitOf(x)' /\ CauseOf(x)' /\ SuccessOf(x)'
  <1>. USE DEF IInv
  <1>1. \/ status'[x] = status[x]
        \/ /\ Kind[o] = "member" /\ x = Parent[o] /\ Kind[x] = "pool"
           /\ Settled(status[x]) /\ status'[x] = "update_pending"
    BY ObjectsAssumption DEF Take, Accepts
  <1>2. /\ Program(x)' = Program(x) /\ Step(x)' = Step(x) /\ Done(x)' = Done(x)
        /\ Running(x)' = Running(x) /\ Requested(x)' = Requested(x)
    BY Others
  <1>3. StatusOf(x)'
    BY <1>1, <1>2 DEF StatusInv, StatusOf, Settled
  <1>4. SuccessOf(x)'
    BY <1>1 DEF SuccessInv, SuccessOf, Settled
  <1>5. \A y \in Objects : pc[y] # 0 => pc'[y] # 0
    OBVIOUS
  <1>6. outcome[o] = "none" /\ pc[o] # 0
    BY DEF Running
  <1>7. CauseOf(x)'
    <2>1. CASE outcome[x] = "unexpected" /\ Parent[x] # None /\ status[Parent[x]] = "absent"
      <3>1. pc[x] # 0 /\ Parent[x] \in Objects
        BY <2>1, ObjectsAssumption DEF PlaceInv
      <3>2. Parent[x] # o
        BY <1>6, <2>1, <3>1 DEF FamilyInv, Accepts, Settled
      <3>3. status'[Parent[x]] = "absent"
        BY <2>1, <3>1, <3>2 DEF Take, Accepts, Settled
      <3>. QED  BY <2>1, <3>3 DEF CauseOf
    <2>2. CASE ~(outcome[x] = "unexpected" /\ Parent[x] # None /\ status[Parent[x]] = "absent")
      BY <1>1, <1>5, <2>2, KeptApartStays DEF CauseInv, CauseOf, Waits, Settled
    <2>. QED  BY <2>1, <2>2
  <1>8. WaitOf(x)'
    <2>1. SUFFICES ASSUME Running(x), "send" \notin Done(x)
                   PROVE  /\ "waitPool" \in Done(x) => Settled(status'[Parent[x]])
                          /\ "waitSelf" \in Done(x) => Settled(status'[x])
                          /\ "waitLB" \in Done(x) /\ Waits(x) => NotKeptApart(x)'
      BY <1>2 DEF WaitOf, Waits
    <2>2. /\ pc[x] # 0
          /\ "waitPool" \in Done(x) => Kind[x] = "member"
          /\ "waitSelf" \in Done(x) => plan[x] # "create"
      BY <2>1, Here DEF Running, ShapeAt
    <2>3. ASSUME ~(Kind[x] = "pool" /\ plan[x] = "create"), Done(x) \cap WaitSteps # {},
                 ~(Kind[o] = "pool" /\ plan[o] = "create")
          PROVE  Key(x) # Key(o)
      BY <2>1, <2>3, HoldsKey, Exclusive
    <2>4. ASSUME "waitPool" \in Done(x)
          PROVE  Settled(status'[Parent[x]])
      <3>1. Settled(status[Parent[x]]) /\ Parent[x] \in Objects /\ Parent[x] # None /\ Kind[Parent[x]] = "pool"
        BY <2>1, <2>2, <2>4, ObjectsAssumption DEF WaitInv, WaitOf
      <3>2. Kind[o] # "member"
        BY <2>2, <2>3, <2>4 DEF Key, WaitSteps
      <3>3. Parent[x] # o
        <4>1. Kind[o] = "pool" => plan[o] = "create"
          BY <2>2, <2>3, <2>4 DEF Key, WaitSteps
        <4>. QED  BY <1>6, <2>2, <3>1, <4>1 DEF FamilyInv
      <3>. QED  BY <3>1, <3>2, <3>3 DEF Take
    <2>5. ASSUME "waitSelf" \in Done(x)
          PROVE  Settled(status'[x])
      <3>1. Settled(status[x])
        BY <2>1, <2>5 DEF WaitInv, WaitOf
      <3>2. ~(Kind[o] = "member" /\ Kind[x] = "pool")
        BY <2>2, <2>3, <2>5 DEF Key, WaitSteps
      <3>. QED  BY <1>1, <3>1, <3>2
    <2>6. ASSUME "waitLB" \in Done(x), ~NotKeptApart(x)
          PROVE  FALSE
      <3>1. \E k \in Keys : TakesKey(x, k) /\ TakesKey(o, k)
        BY <1>6, <2>2, <2>6 DEF NotKeptApart
      <3>. QED  BY <2>3, <2>6, <3>1 DEF TakesKey, WaitSteps
    <2>. QED  BY <1>5, <2>4, <2>5, <2>6, KeptApartStays
  <1>. QED  BY <1>3, <1>4, <1>7, <1>8

\* What a handler that makes a request leaves behind it.
LEMMA TakeTypes ==
  ASSUME IInv, NEW o \in Objects, Running(o), Step(o) \in {"send", "try"}, Accepts(o), Take(o)
  PROVE  /\ status' \in [Objects -> Statuses] /\ lb' = "update_pending"
         /\ status'[o] = IF Kind[o] = "target" /\ plan[o] = "create" THEN "active"
                         ELSE PendingStatus(plan[o])
         /\ pc[o] # 0 /\ outcome[o] = "none"
         /\ "send" \notin Done(o) /\ "waitGone" \notin Done(o) /\ Step(o) # "waitGone"
         /\ ~id[o] => plan[o] = "create"
  <1>1. pc[o] # 0 /\ outcome[o] = "none"
    BY DEF Running
  <1>2. plan[o] \in {"create", "update", "delete"} /\ ShapeAt(Kind[o], plan[o], Step(o), Done(o))
    BY <1>1, Here DEF IInv
  <1>3. "send" \notin Done(o) /\ "waitGone" \notin Done(o) /\ Step(o) # "waitGone"
    BY <1>2 DEF ShapeAt
  <1>4. PendingStatus(plan[o]) \in Statuses
    BY <1>2 DEF PendingStatus, Statuses, Pending
  <1>5. status' \in [Objects -> Statuses]
    BY <1>4 DEF Take, IInv, TypeOK, Statuses, Pending
  <1>6. ~id[o] => plan[o] = "create"
    BY <1>1 DEF IInv, StatusInv, StatusOf, Accepts, Settled
  <1>. QED  BY <1>1, <1>3, <1>5, <1>6 DEF Take

LEMMA SendStep ==
  ASSUME IInv, NEW o \in Objects, Send(o)
  PROVE  IInv'
  <1>. USE DEF IInv
  <1>1. /\ Running(o) /\ Step(o) \in {"send", "try"} /\ Accepts(o) /\ Take(o)
        /\ plan' = plan /\ outcome' = outcome /\ lock' = lock
        /\ pc' = [pc EXCEPT ![o] = IF Step(o) = "try" THEN pc[o] + 3 ELSE pc[o] + 1]
        /\ id' = [id EXCEPT ![o] = @ \/ plan[o] = "create"]
    BY DEF Send, Requests, At, Step, AfterRequest
  <1>2. /\ status' \in [Objects -> Statuses] /\ lb' = "update_pending"
        /\ status'[o] = IF Kind[o] = "target" /\ plan[o] = "create" THEN "active"
                        ELSE PendingStatus(plan[o])
        /\ pc[o] # 0 /\ outcome[o] = "none"
        /\ "send" \notin Done(o) /\ "waitGone" \notin Done(o) /\ Step(o) # "waitGone"
        /\ ~id[o] => plan[o] = "create"
    BY <1>1, TakeTypes
  <1>3. /\ plan[o] \in {"create", "update", "delete"}
        /\ pc[o] \in 1..Len(Program(o)) /\ Len(Program(o)) \in 2..10
        /\ ShapeAt(Kind[o], plan[o], Step(o), Done(o))
        /\ ShapeAfter(Kind[o], plan[o], Program(o), pc[o])
    BY <1>2, Here
  <1>4. /\ pc'[o] = IF Step(o) = "try" THEN pc[o] + 3 ELSE pc[o] + 1
        /\ \A x \in Objects \ {o} : pc'[x] = pc[x] /\ outcome'[x] = outcome[x] /\ id'[x] = id[x]
        /\ id'[o] = (id[o] \/ plan[o] = "create")
    BY <1>1 DEF TypeOK
  <1>5. pc[o] < Len(Program(o)) /\ (Step(o) = "try" => pc[o] + 3 <= Len(Program(o)))
    BY <1>1, <1>3 DEF ShapeAfter, LastSteps, Step
  <1>6. pc'[o] \in 1..Len(Program(o)) /\ pc'[o] # 0 /\ pc'[o] \in 0..10
    <2>1. \A n \in 2..10 : \A i \in 1..n :
            /\ i < n => i + 1 \in 1..n /\ i + 1 # 0 /\ i + 1 \in 0..10
            /\ i + 3 <= n => i + 3 \in 1..n /\ i + 3 # 0 /\ i + 3 \in 0..10
      OBVIOUS
    <2>. QED  BY <1>3, <1>4, <1>5, <2>1
  <1>7. TypeOK'
    BY <1>1, <1>2, <1>6 DEF TypeOK
  <1>8. PlaceInv'
    BY <1>1, <1>3, <1>4, <1>6, PlaceKept
  <1>9. /\ Done(o)' = Done(o) \cup (IF Step(o) = "try" THEN {"try", "waitLB", "send"} ELSE {"send"})
        /\ Step(o)' = Program(o)[pc'[o]]
    <2>1. Program(o)' = Program(o)
      BY <1>1 DEF Program
    <2>2. CASE Step(o) = "try"
      <3>1. Program(o)[pc[o] + 1] = "waitLB" /\ Program(o)[pc[o] + 2] = "send" /\ Program(o)[pc[o]] = "try"
        BY <1>3, <2>2 DEF ShapeAfter, Step
      <3>2. \A j : j \in 1..(pc'[o] - 1) <=> j \in 1..(pc[o] - 1) \/ j \in {pc[o], pc[o] + 1, pc[o] + 2}
        BY <1>3, <1>4, <2>2
      <3>3. Done(o)' = {Program(o)[j] : j \in 1..(pc'[o] - 1)}
        BY <2>1 DEF Done, Before
      <3>4. Done(o)' = Done(o) \cup {"try", "waitLB", "send"}
        BY <3>1, <3>2, <3>3 DEF Done, Before
      <3>. QED  BY <2>1, <2>2, <3>4 DEF Step
    <2>3. CASE Step(o) # "try"
      <3>1. pc' = [pc EXCEPT ![o] = @ + 1] /\ Step(o) = "send"
        BY <1>1, <2>3
      <3>. QED  BY <1>1, <1>2, <1>4, <2>1, <3>1, OneStep DEF Step
    <2>. QED  BY <2>2, <2>3
  <1>10. Running(o)' /\ HasKey(o)' = HasKey(o) /\ Requested(o)' /\ "send" \in Done(o)'
    BY <1>1, <1>2, <1>6, <1>9 DEF Running, HasKey, Requested
  <1>11. LockInv'
    BY <1>1, <1>4, <1>10, KeysAfter
  <1>12. FamilyInv'
    BY <1>1, <1>2, <1>4, <1>6 DEF FamilyInv
  <1>13. StatusOf(o)'
    <2>1. plan[o] # "delete" /\ Kind[o] \notin {"pool", "target"} => Step(o)' = "waitSelf"
      BY <1>1, <1>3, <1>4, <1>9 DEF ShapeAt, ShapeAfter, Step
    <2>2. Kind[o] = "target" => plan[o] # "update"
      BY DEF PlaceInv, ConsistentPlan
    <2>3. "waitGone" \notin Done(o)'
      BY <1>2, <1>9
    <2>. QED  BY <1>1, <1>2, <1>3, <1>4, <1>6, <1>10, <2>1, <2>2, <2>3 DEF StatusOf, PendingStatus, Settled
  <1>14. WaitOf(o)' /\ CauseOf(o)' /\ SuccessOf(o)'
    BY <1>1, <1>2, <1>10 DEF WaitOf, CauseOf, SuccessOf
  <1>15. StatusInv' /\ WaitInv' /\ CauseInv' /\ SuccessInv'
    BY <1>1, <1>4, <1>6, <1>13, <1>14, TakeLeaves DEF StatusInv, WaitInv, CauseInv, SuccessInv
  <1>16. BusyInv'
    <2>1. Waits(o) => Owes(o)'
      <3>1. SUFFICES ASSUME Waits(o) PROVE \E j \in pc'[o]..Len(Program(o)') : Program(o)'[j] = "waitLB"
        BY <1>10 DEF Owes
      <3>2. PICK j \in (pc[o] + 1)..Len(Program(o)) :
                Program(o)[j] = "waitLB" /\ (Step(o) = "try" => j >= pc[o] + 3)
        BY <1>1, <1>3, <3>1 DEF ShapeAfter, Step, Waits
      <3>3. j \in pc'[o]..Len(Program(o)) /\ Program(o)' = Program(o)
        BY <1>1, <1>3, <1>4, <3>2 DEF Program
      <3>. QED  BY <3>2, <3>3
    <2>. QED  BY <1>1, <1>6, <2>1 DEF BusyInv, Waits
  <1>. QED  BY <1>7, <1>8, <1>11, <1>12, <1>15, <1>16

LEMMA LostStep ==
  ASSUME IInv, NEW o \in Objects, AnswerLost(o)
  PROVE  IInv'
  <1>. USE DEF IInv
  <1>1. /\ Running(o) /\ Step(o) \in {"send", "try"} /\ Accepts(o) /\ Take(o)
        /\ plan' = plan /\ outcome' = [outcome EXCEPT ![o] = "lost"] /\ lock' = Release(o) /\ pc' = pc
        /\ id' = id
    BY DEF AnswerLost, Requests, At, Step, End, TypeOK
  <1>2. /\ status' \in [Objects -> Statuses] /\ lb' = "update_pending"
        /\ status'[o] = IF Kind[o] = "target" /\ plan[o] = "create" THEN "active"
                        ELSE PendingStatus(plan[o])
        /\ pc[o] # 0 /\ outcome[o] = "none"
        /\ "send" \notin Done(o) /\ "waitGone" \notin Done(o)
    BY <1>1, TakeTypes
  <1>3. /\ outcome'[o] = "lost" /\ ~Running(o)' /\ Done(o)' = Done(o)
        /\ \A x \in Objects \ {o} : outcome'[x] = outcome[x]
        /\ outcome' \in [Objects -> Outcomes]
        /\ PlaceInv' /\ FamilyInv' /\ LockInv' /\ lock' \in [Keys -> Objects \cup {None}]
    <2>1. "lost" \in Outcomes \ {"none"} /\ id' \in [Objects -> BOOLEAN]
      BY <1>1 DEF Outcomes, Failed, TypeOK
    <2>. QED  BY <1>1, <2>1, Ending
  <1>4. TypeOK'
    BY <1>1, <1>2, <1>3 DEF TypeOK
  <1>5. StatusOf(o)'
    <2>1. plan[o] \in {"create", "update", "delete"}
      BY <1>2, Here
    <2>. QED  BY <1>1, <1>2, <1>3, <2>1 DEF StatusOf, Requested, PendingStatus
  <1>6. WaitOf(o)' /\ CauseOf(o)' /\ SuccessOf(o)'
    BY <1>3 DEF WaitOf, CauseOf, SuccessOf
  <1>7. StatusInv' /\ WaitInv' /\ CauseInv' /\ SuccessInv'
    BY <1>1, <1>2, <1>3, <1>5, <1>6, TakeLeaves DEF StatusInv, WaitInv, CauseInv, SuccessInv
  <1>8. BusyInv'
    BY <1>3 DEF BusyInv, Failed
  <1>. QED  BY <1>3, <1>4, <1>7, <1>8

\* The service settles what is pending: it changes nothing that has settled and
\* brings nothing back.
LEMMA ProvisionedStep ==
  ASSUME IInv, NEW o \in Objects, Provisioned(o)
  PROVE  IInv'
  <1>. USE DEF IInv
  <1>1. /\ status[o] \in Pending
        /\ plan' = plan /\ pc' = pc /\ outcome' = outcome /\ id' = id /\ lock' = lock /\ lb' = lb
        /\ \A x \in Objects \ {o} : status'[x] = status[x]
        /\ status[o] = "delete_pending" => status'[o] = "absent"
        /\ status[o] # "delete_pending" => Settled(status'[o])
        /\ status' \in [Objects -> Statuses]
    BY DEF Provisioned, handlerVars, TypeOK, Settled, Statuses
  <1>2. \A x \in Objects : /\ Program(x)' = Program(x) /\ Step(x)' = Step(x) /\ Done(x)' = Done(x)
                           /\ Running(x)' = Running(x) /\ HasKey(x)' = HasKey(x) /\ Owes(x)' = Owes(x)
                           /\ Requested(x)' = Requested(x) /\ NotKeptApart(x)' = NotKeptApart(x)
    BY <1>1, Others DEF NotKeptApart, TakesKey
  <1>3. TypeOK' /\ PlaceInv' /\ FamilyInv' /\ LockInv'
    BY <1>1, <1>2 DEF TypeOK, PlaceInv, FamilyInv, LockInv, ConsistentPlan
  <1>4. StatusInv'
    <2>1. StatusOf(o)'
      BY <1>1, <1>2 DEF StatusInv, StatusOf, Pending, Settled
    <2>. QED  BY <1>1, <2>1, StatusKept DEF StatusInv
  <1>5. \A x \in Objects : /\ Settled(status[x]) => status'[x] = status[x]
                           /\ status[x] = "absent" => status'[x] = "absent"
    BY <1>1 DEF Settled, Pending
  <1>6. WaitInv'
    <2>1. ASSUME NEW x \in Objects PROVE WaitOf(x)'
      <3>1. "waitPool" \in Done(x) /\ Running(x) => Parent[x] \in Objects
        BY Here, ObjectsAssumption DEF Running, ShapeAt
      <3>. QED  BY <1>1, <1>2, <1>5, <3>1 DEF WaitInv, WaitOf, Waits
    <2>. QED  BY <2>1 DEF WaitInv
  <1>7. CauseInv'
    <2>1. ASSUME NEW x \in Objects PROVE CauseOf(x)'
      <3>1. Parent[x] # None => Parent[x] \in Objects
        BY ObjectsAssumption
      <3>. QED  BY <1>1, <1>2, <1>5, <3>1 DEF CauseInv, CauseOf, Waits, Settled
    <2>. QED  BY <2>1 DEF CauseInv
  <1>8. SuccessInv'
    BY <1>1, <1>5 DEF SuccessInv, SuccessOf
  <1>9. BusyInv'
    BY <1>1, <1>2 DEF BusyInv, Waits
  <1>. QED  BY <1>3, <1>4, <1>6, <1>7, <1>8, <1>9

LEMMA BalancerStep ==
  ASSUME IInv, BalancerProvisioned
  PROVE  IInv'
  <1>. USE DEF IInv
  <1>1. /\ plan' = plan /\ pc' = pc /\ outcome' = outcome /\ id' = id /\ lock' = lock /\ status' = status
        /\ lb' = "active"
    BY DEF BalancerProvisioned, handlerVars
  <1>2. \A x \in Objects : HasKey(x)' = HasKey(x) /\ Done(x)' = Done(x) /\ Running(x)' = Running(x)
    BY <1>1, Others
  <1>3. TypeOK' /\ PlaceInv' /\ FamilyInv' /\ LockInv'
    <2>1. \A x \in Objects : Program(x)' = Program(x)
      BY <1>1 DEF Program
    <2>. QED  BY <1>1, <1>2, <2>1 DEF TypeOK, PlaceInv, FamilyInv, LockInv, ConsistentPlan
  <1>4. StatusInv' /\ CauseInv' /\ SuccessInv'
    BY <1>1, StatusKept, ResultKept DEF StatusInv, CauseInv, SuccessInv
  <1>5. WaitInv' /\ BusyInv'
    BY <1>1, <1>2 DEF WaitInv, WaitOf, BusyInv
  <1>. QED  BY <1>3, <1>4, <1>5
-----------------------------------------------------------------------------
(* What the waits and the requests find *)

\* A handler with a key to itself finds what it has waited for: no request of
\* it is refused, but of an object that is gone.
LEMMA NotRefused ==
  ASSUME IInv, NEW o \in Objects, Requests(o), Waits(o), ~NotKeptApart(o), ~Repeats(o),
         plan[o] = "create" \/ status[o] # "absent"
  PROVE  Accepts(o)
  <1>. USE DEF IInv
  <1>1. Running(o) /\ Step(o) \in {"send", "try"} /\ pc[o] # 0 /\ outcome[o] = "none"
    BY DEF Requests, At, Step, Running
  <1>2. /\ plan[o] \in {"create", "update", "delete"}
        /\ ShapeAt(Kind[o], plan[o], Step(o), Done(o))
    BY <1>1, Here
  <1>3. "send" \notin Done(o) /\ ~Requested(o)
    BY <1>1, <1>2 DEF ShapeAt, Requested
  <1>4. lb = "active"
    <2>1. CASE Step(o) = "send"
      BY <1>1, <1>2, <1>3, <2>1 DEF ShapeAt, Waits, WaitInv, WaitOf
    <2>2. CASE Step(o) = "try"
      BY <1>1, <2>2 DEF Repeats, At, Step
    <2>. QED  BY <1>1, <2>1, <2>2
  <1>5. plan[o] = "create" => status[o] = "absent"
    BY <1>3 DEF StatusInv, StatusOf
  <1>6. plan[o] # "create" => Settled(status[o])
    <2>1. CASE Kind[o] = "pool"
      BY <1>1, <1>2, <1>3, <2>1 DEF ShapeAt, Waits, WaitInv, WaitOf
    <2>2. CASE Kind[o] # "pool"
      BY <1>3, <2>2 DEF StatusInv, StatusOf
    <2>. QED  BY <2>1, <2>2
  <1>7. Kind[o] = "member" => Settled(status[Parent[o]])
    BY <1>1, <1>2, <1>3 DEF ShapeAt, Waits, WaitInv, WaitOf
  <1>. QED  BY <1>4, <1>5, <1>6, <1>7 DEF Accepts

\* Nothing is deleted but by its own handler, and that one waits for no
\* unexpected state: what a wait does not expect has failed or is gone.
LEMMA Unexpected ==
  ASSUME IInv, NEW o \in Objects, Waits(o), Sees(o, "unexpected")
  PROVE  \/ status[o] = "absent"
         \/ Kind[o] = "member" /\ status[o] = "failed"
         \/ Parent[o] # None /\ status[Parent[o]] = "absent"
  <1>. USE DEF IInv
  <1>1. Running(o) /\ pc[o] # 0 /\ outcome[o] = "none"
    BY DEF Sees, At, Running
  <1>2. /\ plan[o] \in {"create", "update", "delete"}
        /\ ShapeAt(Kind[o], plan[o], Step(o), Done(o))
    BY <1>1, Here
  <1>3. \A p \in Objects : status[p] \in Statuses
    BY DEF TypeOK
  <1>4. CASE At(o, "waitPool") /\ WaitForPool(Parent[o]) = "unexpected"
    <2>1. Kind[o] = "member" /\ Parent[o] # None /\ Parent[o] \in Objects
      BY <1>2, <1>4, ObjectsAssumption DEF At, Step, ShapeAt
    <2>2. status[Parent[o]] \in {"absent", "delete_pending"}
      BY <1>3, <1>4, <2>1 DEF WaitForPool, Settled, Statuses, Pending
    <2>3. status[Parent[o]] # "delete_pending"
      BY <1>1, <2>1 DEF StatusInv, StatusOf, FamilyInv
    <2>. QED  BY <2>1, <2>2, <2>3
  <1>5. CASE At(o, "waitSelf") /\ WaitForSelf(o) = "unexpected"
    <2>1. status[o] # "delete_pending"
      <3>1. plan[o] = "delete" => ~Requested(o)
        BY <1>1, <1>2, <1>5 DEF At, Step, ShapeAt, Requested
      <3>. QED  BY <3>1 DEF StatusInv, StatusOf
    <2>. QED  BY <1>3, <1>5, <2>1 DEF WaitForSelf, WaitForMember, WaitForPool, Settled, Statuses, Pending
  <1>6. CASE At(o, "needLB")
    BY <1>2, <1>6 DEF At, Step, ShapeAt, Waits
  <1>. QED  BY <1>4, <1>5, <1>6 DEF Sees, WaitForLB, WaitForDeletion
-----------------------------------------------------------------------------
(* Every step *)

\* Going on, where there is no key to take or to give up.
LEMMA GoesOn ==
  ASSUME IInv, NEW o \in Objects, Running(o), pc[o] < Len(Program(o)), Found(o),
         Step(o) \notin {"send", "lock", "unlock"},
         NextStep(o), plan' = plan, status' = status, lb' = lb
  PROVE  IInv'
  BY AdvanceStep DEF NextStep

\* Ending without success, for a reason that needs no explanation.
LEMMA Fails ==
  ASSUME IInv, NEW o \in Objects, Running(o), NEW result \in Failed \ {"lost", "rejected", "unexpected"},
         End(o, result), plan' = plan, status' = status, lb' = lb
  PROVE  IInv'
  <1>1. result \in Outcomes \ {"none", "lost"} /\ result \notin {"ok", "rejected", "unexpected"}
    BY DEF Failed, Outcomes
  <1>. QED  BY <1>1, EndStep

\* Where a handler is and what its program says about it.
LEMMA Place ==
  ASSUME IInv, NEW o \in Objects, Running(o)
  PROVE  /\ pc[o] # 0 /\ outcome[o] = "none" /\ plan[o] \in {"create", "update", "delete"}
         /\ pc[o] \in 1..Len(Program(o)) /\ Len(Program(o)) \in 2..10
         /\ Step(o) \notin LastSteps => pc[o] < Len(Program(o))
         /\ ShapeAt(Kind[o], plan[o], Step(o), Done(o))
         /\ ShapeAfter(Kind[o], plan[o], Program(o), pc[o])
  <1>1. /\ pc[o] # 0 /\ outcome[o] = "none" /\ plan[o] \in {"create", "update", "delete"}
        /\ pc[o] \in 1..Len(Program(o)) /\ Len(Program(o)) \in 2..10
        /\ ShapeAt(Kind[o], plan[o], Step(o), Done(o))
        /\ ShapeAfter(Kind[o], plan[o], Program(o), pc[o])
    BY Here DEF IInv, Running
  <1>2. \A n \in 2..10 : \A i \in 1..n : i # n => i < n
    OBVIOUS
  <1>3. Step(o) \notin LastSteps => pc[o] # Len(Program(o))
    BY <1>1 DEF ShapeAfter, Step
  <1>. QED  BY <1>1, <1>2, <1>3

LEMMA LockStep ==
  ASSUME IInv, NEW o \in Objects, Lock(o) \/ Unlock(o)
  PROVE  IInv'
  <1>1. /\ Running(o) /\ Step(o) \in {"lock", "unlock"}
        /\ Step(o) = "lock" => lock[Key(o)] = None /\ lock' = [lock EXCEPT ![Key(o)] = o]
        /\ Step(o) = "unlock" => lock' = Release(o)
        /\ pc' = [pc EXCEPT ![o] = @ + 1]
        /\ plan' = plan /\ outcome' = outcome /\ id' = id /\ status' = status /\ lb' = lb
    BY DEF Lock, Unlock, At, Step, serviceVars
  <1>2. pc[o] < Len(Program(o)) /\ Found(o)
    BY <1>1, Place DEF LastSteps, Found
  <1>. QED  BY <1>1, <1>2, AdvanceStep

LEMMA LookStep ==
  ASSUME IInv, NEW o \in Objects, Get(o) \/ GetBalancer(o) \/ LookFails(o)
  PROVE  IInv'
  <1>1. /\ Running(o) /\ Step(o) \in {"get", "look", "getLB"}
        /\ plan' = plan /\ status' = status /\ lb' = lb
        /\ NextStep(o) \/ (Step(o) \in {"get", "look"} /\ status[o] = "absent" /\ End(o, "ok"))
    BY DEF Get, GetBalancer, LookFails, At, Step, serviceVars
  <1>2. pc[o] < Len(Program(o)) /\ Found(o)
    BY <1>1, Place DEF LastSteps, Found
  <1>3. CASE NextStep(o)
    BY <1>1, <1>2, <1>3, GoesOn
  <1>4. CASE Step(o) \in {"get", "look"} /\ status[o] = "absent" /\ End(o, "ok")
    <2>1. plan[o] = "delete" /\ "send" \notin Done(o)
      BY <1>1, <1>4, Place DEF ShapeAt
    <2>. QED  BY <1>1, <1>4, <2>1, EndStep DEF Owes, Outcomes
  <1>. QED  BY <1>1, <1>3, <1>4

LEMMA WaitStep ==
  ASSUME IInv, NEW o \in Objects, WaitEnds(o)
  PROVE  IInv'
  <1>1. /\ Running(o) /\ Step(o) \in {"waitLB", "needLB", "waitPool", "waitSelf", "waitGone"}
        /\ Found(o)
        /\ plan' = plan /\ status' = status /\ lb' = lb
        /\ Advance(o)
    BY DEF WaitEnds, Sees, At, Step, Found, WaitForLB, WaitForPool, WaitForSelf, WaitForMember,
           WaitForDeletion, Settled, serviceVars
  <1>2. CASE pc[o] < Len(Program(o))
    BY <1>1, <1>2, GoesOn DEF Advance
  <1>3. CASE ~(pc[o] < Len(Program(o)))
    <2>1. End(o, "ok")
      BY <1>1, <1>3 DEF Advance
    <2>2. pc[o] = Len(Program(o))
      <3>1. \A n \in 2..10 : \A i \in 1..n : ~(i < n) => i = n
        OBVIOUS
      <3>. QED  BY <1>1, <1>3, <3>1, Place
    <2>3. plan[o] = "delete" /\ "waitGone" \in Done(o) \cup {Step(o)}
      BY <1>1, <2>2, Place DEF ShapeAfter, Step, Done
    <2>4. status[o] = "absent"
      BY <1>1, <2>3 DEF Found, IInv, StatusInv, StatusOf
    <2>5. Waits(o) => lb = "active"
      BY <1>1, <2>2, Place DEF ShapeAfter, Step, Found, Waits
    <2>. QED  BY <1>1, <2>1, <2>3, <2>4, <2>5, EndStep DEF Outcomes
  <1>. QED  BY <1>2, <1>3

LEMMA FailStep ==
  ASSUME IInv, NEW o \in Objects,
         WaitFails(o) \/ TimeOut(o) \/ GiveUp(o) \/ CallFails(o)
  PROVE  IInv'
  <1>1. Running(o) /\ plan' = plan /\ status' = status /\ lb' = lb
    BY DEF WaitFails, TimeOut, GiveUp, CallFails, Sees, At, serviceVars
  <1>2. CASE WaitFails(o)
    <2>1. CASE At(o, "needLB")
      BY <1>1, <1>2, <2>1, Fails DEF WaitFails, Failed
    <2>2. CASE ~At(o, "needLB")
      <3>1. Sees(o, "unexpected") /\ End(o, "unexpected")
        BY <1>2, <2>2 DEF WaitFails
      <3>2. "unexpected" \in Outcomes \ {"none", "lost"}
        BY DEF Outcomes, Failed
      <3>3. Waits(o) => \/ status[o] = "absent"
                        \/ Kind[o] = "member" /\ status[o] = "failed"
                        \/ Parent[o] # None /\ status[Parent[o]] = "absent"
        BY <3>1, Unexpected
      <3>. QED  BY <1>1, <3>1, <3>2, <3>3, EndStep
    <2>. QED  BY <2>1, <2>2
  <1>3. CASE TimeOut(o)
    BY <1>1, <1>3, Fails DEF TimeOut, Failed
  <1>4. CASE GiveUp(o)
    BY <1>1, <1>4, Fails DEF GiveUp, Failed
  <1>5. CASE CallFails(o)
    BY <1>1, <1>5, Fails DEF CallFails, Failed
  <1>. QED  BY <1>2, <1>3, <1>4, <1>5

LEMMA RefusedStep ==
  ASSUME IInv, NEW o \in Objects, TryAgain(o) \/ Rejected(o)
  PROVE  IInv'
  <1>1. Running(o) /\ Step(o) \in {"send", "try"} /\ plan' = plan /\ status' = status /\ lb' = lb
    BY DEF TryAgain, Rejected, Repeats, Requests, At, Step, serviceVars
  <1>2. CASE TryAgain(o)
    <2>1. Step(o) = "try" /\ NextStep(o)
      BY <1>2 DEF TryAgain, Repeats, At, Step
    <2>2. pc[o] < Len(Program(o)) /\ Found(o)
      BY <1>1, <2>1, Place DEF LastSteps, Found
    <2>. QED  BY <1>1, <2>1, <2>2, GoesOn
  <1>3. CASE Rejected(o)
    <2>1. CASE plan[o] # "create" /\ status[o] = "absent"
      BY <1>1, <1>3, <2>1, Fails DEF Rejected, Failed
    <2>2. CASE ~(plan[o] # "create" /\ status[o] = "absent")
      <3>1. End(o, "rejected") /\ "rejected" \in Outcomes \ {"none", "lost"}
        BY <1>3, <2>2 DEF Rejected, Outcomes, Failed
      <3>2. Waits(o) => NotKeptApart(o)
        BY <1>3, <2>2, NotRefused DEF Rejected
      <3>. QED  BY <1>1, <3>1, <3>2, EndStep
    <2>. QED  BY <2>1, <2>2
  <1>. QED  BY <1>2, <1>3

LEMMA StepInv == IInv /\ [Next]_vars => IInv'
  <1>. SUFFICES ASSUME IInv, [Next]_vars PROVE IInv'
    OBVIOUS
  <1>1. ASSUME NEW o \in Objects, Handler(o) PROVE IInv'
    BY <1>1, CallStep, LockStep, LookStep, ReadStep, WaitStep, FailStep, SendStep, RefusedStep, LostStep
    DEF Handler
  <1>2. ASSUME NEW o \in Objects, Provisioned(o) PROVE IInv'
    BY <1>2, ProvisionedStep
  <1>3. CASE BalancerProvisioned
    BY <1>3, BalancerStep
  <1>4. CASE UNCHANGED vars
    <2>1. plan' = plan /\ pc' = pc /\ outcome' = outcome /\ id' = id /\ lock' = lock /\ status' = status /\ lb' = lb
      BY <1>4 DEF vars, handlerVars, serviceVars
    <2>2. \A x \in Objects : /\ HasKey(x)' = HasKey(x) /\ Owes(x)' = Owes(x) /\ Program(x)' = Program(x)
      BY <2>1, Others
    <2>3. TypeOK' /\ PlaceInv' /\ FamilyInv' /\ LockInv' /\ BusyInv'
      BY <2>1, <2>2 DEF IInv, TypeOK, PlaceInv, FamilyInv, LockInv, ConsistentPlan, BusyInv, Waits
    <2>4. StatusInv' /\ WaitInv' /\ CauseInv' /\ SuccessInv'
      BY <2>1, StatusKept, ResultKept, WaitKept DEF IInv, StatusInv, WaitInv, CauseInv, SuccessInv
    <2>. QED  BY <2>3, <2>4 DEF IInv
  <1>. QED  BY <1>1, <1>2, <1>3, <1>4 DEF Next
-----------------------------------------------------------------------------
(* The theorems *)

LEMMA Invariant == Spec => []IInv
  BY InitInv, StepInv, PTL DEF Spec

\* The variables keep their types: a handler never leaves its program, a key
\* names an object, an outcome is one of those the handlers return.
THEOREM TypeCorrect == Spec => []TypeOK
  <1>1. IInv => TypeOK
    BY DEF IInv
  <1>. QED  BY Invariant, <1>1, PTL

\* A handler of a pool, member, listener or target is refused only in company
\* that no key keeps apart from it, and no wait of it is surprised by an object
\* that has neither failed nor gone: whatever calls fail, time out or are lost.
THEOREM Causes == Spec => []FailuresHaveACause
  <1>1. IInv => FailuresHaveACause
    BY DEF IInv, CauseInv, CauseOf, FailuresHaveACause
  <1>. QED  BY Invariant, <1>1, PTL

\* A handler that reports success has had its change provisioned.
THEOREM Truthful == Spec => []SuccessIsTrue
  <1>1. IInv => SuccessIsTrue
    <2>1. ASSUME IInv, NEW o \in Objects, outcome[o] = "ok"
          PROVE  CASE plan[o] = "delete" -> status[o] = "absent" /\ ~id[o]
                   [] plan[o] = "create" -> id[o] /\ (Kind[o] = "pool" \/ Settled(status[o]))
                   [] OTHER -> id[o] => Kind[o] = "pool" \/ Settled(status[o])
      BY <2>1 DEF IInv, SuccessInv, SuccessOf, TypeOK, Operations
    <2>. QED  BY <2>1 DEF SuccessIsTrue
  <1>. QED  BY Invariant, <1>1, PTL

\* A busy load balancer has somebody at work on it, or somebody who failed or
\* does not wait for it.
THEOREM Owned == Spec => []BusyHasAnOwner
  <1>1. IInv => BusyHasAnOwner
    <2>1. SUFFICES ASSUME IInv, lb # "active", NEW o \in Objects, Owes(o)
                   PROVE  \/ \E k \in Keys : lock[k] # None
                          \/ Running(o) /\ Kind[o] = "pool" /\ plan[o] = "create"
                          \/ ~Waits(o) /\ pc[o] # 0
      BY DEF IInv, BusyInv, BusyHasAnOwner
    <2>2. Running(o) /\ pc[o] # 0
      BY <2>1 DEF Owes, Running
    <2>3. ~(Kind[o] = "pool" /\ plan[o] = "create") => "lock" \in Done(o)
      BY <2>1, <2>2, Place DEF Owes, ShapeAfter, Done
    <2>4. "unlock" \notin Done(o)
      BY <2>1, <2>2, Place DEF Owes, ShapeAfter, Done
    <2>5. HasKey(o) => lock[Key(o)] = o /\ Key(o) \in Keys /\ o # None
      BY <2>1, ObjectsAssumption DEF IInv, LockInv, Keys, Key
    <2>. QED  BY <2>2, <2>3, <2>4, <2>5 DEF HasKey
  <1>. QED  BY Invariant, <1>1, PTL

\* No orphans: an object the service has is in the Terraform state when its
\* handler has ended, unless the answer to the request that made it was lost.
THEOREM NoOrphans == Spec => []Recorded
  <1>1. IInv => Recorded
    BY DEF IInv, StatusInv, StatusOf, Recorded
  <1>. QED  BY Invariant, <1>1, PTL
=============================================================================
