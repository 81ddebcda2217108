----------------------- MODULE VpcWorkerReplace_proofs -----------------------
(***************************************************************************)
(* Proofs about VpcWorkerReplace: for any number of handlers, nodes and    *)
(* clusters, handlers take turns, a failure stops them all, at most one    *)
(* node is down at any time, at most one is lost to the state, and storage *)
(* is drained before a replacement and restored after it.                  *)
(***************************************************************************)
EXTENDS VpcWorkerReplace, TLAPS

(* The inductive invariant *)

\* No handler will get a turn any more.
Stopped == ~initRun /\ ~workerReplaceStatus /\ ~replaceInProgress

\* Handlers that hold createMutex.
HoldingSteps == Steps \cup {"unlock"}

\* On the way out.
Leaving == {"unlock", "conclude"} \cup Ended

TurnInv ==
    /\ TakeTurns
    /\ \A h \in Handlers : InTurn(h) => replaceInProgress /\ ~initRun
    /\ \A h \in Handlers : pc[h] = "rejected" \/ Failed(h) => Stopped
    /\ \A h \in Handlers : currentStatus[h] => pc[h] \in Leaving
    /\ createMutex # None => createMutex \in Handlers /\ pc[createMutex] \in HoldingSteps

\* Before the replacement is asked for; after it, until the new node works;
\* and past it.
Before == {"idle", "invalid", "wait", "rejected", "lock", "get", "scale", "cordon", "list", "replace"}
Replacing == {"delete", "create", "find", "update"}
Past == {"scaleUp", "restored", "storage", "portworx"}

\* A replaced node is the worker of a handler that is replacing it, has
\* replaced it or has failed.
ReplacedInv ==
    \A n \in Nodes : nodeState[n] \in {"deleting", "deleted"} =>
        \E h \in Handlers :
            /\ n = WorkerOf[h]
            /\ pc[h] \notin Before
            /\ Down(n) => pc[h] \in Replacing \/ (pc[h] \in Leaving /\ ~currentStatus[h])

\* New nodes are heirs, and heirs are new.
HeirInv ==
    /\ \A n \in Nodes : heir[n] # None =>
          heir[n] \in Nodes \ InitialNodes /\ nodeState[heir[n]] \in {"deploying", "normal"}
    /\ \A n \in Nodes \ InitialNodes : nodeState[n] \in {"absent", "deploying", "normal"}
    /\ \A n \in InitialNodes : nodeState[n] \in {"normal", "deleting", "deleted"}

\* The only node a handler that replaces its worker can find is its heir.
SnapshotInv ==
    /\ \A h \in Handlers : pc[h] \in {"replace", "delete", "create", "find"} =>
          \A n \in NewWorkers(h) : n = heir[WorkerOf[h]]
    /\ \A h \in Handlers : pc[h] = "update" => id[h] # None /\ id[h] = heir[WorkerOf[h]]

\* The node of a handler that is past the replacement, or has succeeded.
DoneInv ==
    \A h \in Handlers : pc[h] \in Past
                        \/ (currentStatus[h] /\ pc[h] # "destroyed") =>
        /\ id[h] # None /\ nodeState[id[h]] = "normal"
        /\ id[h] \in {WorkerOf[h], heir[WorkerOf[h]]}

NodeInv == ReplacedInv /\ HeirInv /\ SnapshotInv /\ DoneInv /\ AtMostOneDown

IInv == TypeOK /\ TurnInv /\ (~Resizes => NodeInv)
-----------------------------------------------------------------------------
(* Type correctness *)

LEMMA InitType == Init => TypeOK
  <1>. SUFFICES ASSUME Init PROVE TypeOK
    OBVIOUS
  <1>1. home \in [Deployments -> Nodes]
    BY NodesAssumption DEF Init
  <1>2. nodeState \in [Nodes -> {"absent", "deploying", "normal", "deleting", "deleted"}]
    BY DEF Init
  <1>3. pc \in [Handlers -> Places] /\ workersInfo \in [Handlers -> SUBSET Nodes]
    BY DEF Init, Places
  <1>. QED  BY <1>1, <1>2, <1>3 DEF Init, TypeOK

LEMMA StepType == TypeOK /\ [Next]_vars => TypeOK'
  <1>. SUFFICES ASSUME TypeOK, [Next]_vars PROVE TypeOK'
    OBVIOUS
  <1>. USE HandlersAssumption, NodesAssumption DEF TypeOK, Places, TurnSteps, Steps, Ended, Goto, Cluster, turnVars, storageVars, nodeVars, localVars
  <1>1. CASE Service
    BY <1>1 DEF Service, NodeDeleted, NodeCreated, NodeReady, Resize
  <1>2. ASSUME NEW h \in Handlers, Destroy(h) PROVE TypeOK'
    BY <1>2 DEF Destroy
  <1>3. ASSUME NEW h \in Handlers, Create(h) PROVE TypeOK'
    <2>1. CASE Start(h) \/ StartFails(h)
      BY <2>1 DEF Start, StartFails
    <2>10. CASE TakeTurn(h)
      BY <2>10 DEF TakeTurn
    <2>14. CASE LockCreateMutex(h)
      BY <2>14 DEF LockCreateMutex
    <2>11. CASE Reject(h) \/ Fail(h) \/ GetWorker(h)
      BY <2>11 DEF Reject, Fail, GetWorker
    <2>2. CASE Unlock(h) \/ StorageHealthy(h)
      BY <2>2 DEF Unlock, StorageHealthy
    <2>12. CASE Conclude(h)
      BY <2>12 DEF Conclude, StatusAfter
    <2>13. CASE Succeed(h)
      BY <2>13 DEF Succeed
    <2>3. CASE ScaleDown(h)
      BY <2>3 DEF ScaleDown, OnNode, Deployed, NamesOf
    <2>4. CASE ForgetList(h) \/ Cordon(h)
      BY <2>4 DEF ForgetList, Cordon
    <2>5. CASE ScaleUp(h)
      BY <2>5 DEF ScaleUp, PlacedAnew
    <2>6. CASE ListWorkers(h)
      BY <2>6 DEF ListWorkers, Listed
    <2>7. CASE WaitForDelete(h) \/ WaitForNew(h) \/ WaitForUpdate(h)
      BY <2>7 DEF WaitForDelete, WaitForNew, WaitForUpdate
    <2>8. CASE Replace(h)
      <3>1. nodeState' \in [Nodes -> {"absent", "deploying", "normal", "deleting", "deleted"}]
        BY <2>8 DEF Replace
      <3>2. pc' \in [Handlers -> Places]
        BY <2>8 DEF Replace
      <3>. QED  BY <2>8, <3>1, <3>2 DEF Replace
    <2>9. CASE FindNew(h)
      <3>1. PICK n \in NewWorkers(h) : id' = [id EXCEPT ![h] = n]
        BY <2>9 DEF FindNew
      <3>2. n \in Nodes
        BY DEF NewWorkers, Listed
      <3>3. id' \in [Handlers -> Nodes \cup {None}]
        BY <3>1, <3>2
      <3>4. pc' \in [Handlers -> Places]
        BY <2>9 DEF FindNew
      <3>. QED  BY <2>9, <3>3, <3>4 DEF FindNew
    <2>. QED  BY <1>3, <2>1, <2>2, <2>3, <2>4, <2>5, <2>6, <2>7, <2>8, <2>9, <2>10, <2>11, <2>12, <2>13, <2>14 DEF Create
  <1>4. CASE UNCHANGED vars
    BY <1>4 DEF vars
  <1>. QED  BY <1>1, <1>2, <1>3, <1>4 DEF Next

\* Type correctness: every variable has its type in every reachable state.
THEOREM TypeCorrect == Spec => []TypeOK
  BY InitType, StepType, PTL DEF Spec
-----------------------------------------------------------------------------
(* Turns *)

LEMMA InitTurn == Init => TurnInv
  BY HandlersAssumption DEF Init, TurnInv, TakeTurns, InTurn, Failed, Leaving, TurnSteps, Steps, Ended

LEMMA StepTurn == TypeOK /\ TurnInv /\ [Next]_vars => TurnInv'
  <1>. SUFFICES ASSUME TypeOK, TurnInv, [Next]_vars PROVE TurnInv'
    OBVIOUS
  <1>t. USE HandlersAssumption DEF TurnInv, TakeTurns, InTurn, Failed, Stopped, HoldingSteps, Leaving, TurnSteps, Steps, Ended, Goto
  <1>p. pc \in [Handlers -> Places] /\ createMutex \in Handlers \cup {None} /\ currentStatus \in [Handlers -> BOOLEAN]
    BY DEF TypeOK
  <1>1. CASE Service
    BY <1>1 DEF Service, NodeDeleted, NodeCreated, NodeReady, Resize, turnVars, localVars
  <1>2. ASSUME NEW h \in Handlers, Destroy(h) PROVE TurnInv'
    BY <1>2, <1>p DEF Destroy, turnVars
  <1>3. ASSUME NEW h \in Handlers, Create(h) PROVE TurnInv'
    <2>1. CASE Start(h) \/ StartFails(h)
      BY <2>1, <1>p DEF Start, StartFails, turnVars, localVars
    <2>2. CASE TakeTurn(h)
      BY <2>2, <1>p DEF TakeTurn, TurnIsFree, MayTakeTurn, localVars
    <2>3. CASE LockCreateMutex(h)
      BY <2>3, <1>p DEF LockCreateMutex, localVars
    <2>4. CASE Reject(h)
      BY <2>4, <1>p DEF Reject, TurnIsFree, MayTakeTurn, turnVars, localVars
    <2>5. CASE Unlock(h)
      BY <2>5, <1>p DEF Unlock, localVars
    <2>6. CASE Conclude(h)
      <3>1. /\ pc' = [pc EXCEPT ![h] = "returned"] /\ pc[h] \in {"conclude", "rejected"}
            /\ currentStatus' = currentStatus /\ createMutex' = createMutex /\ initRun' = initRun
            /\ workerReplaceStatus' = currentStatus[h] /\ replaceInProgress' = FALSE
        BY <2>6 DEF Conclude, StatusAfter, localVars
      <3>2. \A g \in Handlers : pc'[g] = IF g = h THEN "returned" ELSE pc[g]
        BY <3>1, <1>p
      <3>3. \A g \in Handlers : ~InTurn(g)'
        BY <3>1, <3>2
      <3>4. ~initRun
        BY <3>1
      <3>5. \A g \in Handlers : (pc[g] = "rejected" \/ Failed(g))' => Stopped'
        BY <3>1, <3>2, <3>4, <1>p
      <3>. QED  BY <3>1, <3>2, <3>3, <3>5
    <2>7. CASE Succeed(h)
      BY <2>7, <1>p DEF Succeed, turnVars
    <2>8. ASSUME turnVars' = turnVars, currentStatus' = currentStatus, pc[h] \in Steps,
                 \E step \in Steps \cup {"unlock"} : Goto(h, step)
          PROVE  TurnInv'
      BY <2>8, <1>p DEF turnVars
    <2>9. CASE Fail(h) \/ GetWorker(h) \/ ScaleDown(h) \/ Cordon(h) \/ ScaleUp(h) \/ ForgetList(h) \/ StorageHealthy(h)
      BY <2>8, <2>9 DEF Fail, GetWorker, ScaleDown, Cordon, ScaleUp, ForgetList, StorageHealthy, localVars
    <2>10. CASE ListWorkers(h) \/ Replace(h) \/ WaitForDelete(h) \/ WaitForNew(h) \/ FindNew(h) \/ WaitForUpdate(h)
      BY <2>8, <2>10 DEF ListWorkers, Replace, WaitForDelete, WaitForNew, FindNew, WaitForUpdate, localVars
    <2>. QED  BY <1>3, <2>1, <2>2, <2>3, <2>4, <2>5, <2>6, <2>7, <2>9, <2>10 DEF Create
  <1>4. CASE UNCHANGED vars
    BY <1>4 DEF vars, turnVars, localVars
  <1>. QED  BY <1>1, <1>2, <1>3, <1>4 DEF Next

LEMMA TurnInvariance == Spec => [](TypeOK /\ TurnInv)
  BY InitType, StepType, InitTurn, StepTurn, PTL DEF Spec

\* Handlers work in turns: two never hold it together.
THEOREM Turns == Spec => []TakeTurns
  <1>1. TurnInv => TakeTurns
    BY DEF TurnInv
  <1>. QED  BY <1>1, TurnInvariance, PTL

\* The handler that locks createMutex inside commonVarMutex never waits for it.
THEOREM LockNeverBlocks == Spec => []NeverWaitsTwice
  <1>1. TypeOK /\ TurnInv => NeverWaitsTwice
    BY HandlersAssumption DEF TypeOK, TurnInv, TakeTurns, InTurn, HoldingSteps, TurnSteps, Steps, NeverWaitsTwice
  <1>. QED  BY <1>1, TurnInvariance, PTL
-----------------------------------------------------------------------------
(* Nodes *)

LEMMA InitNodes == Init => NodeInv
  <1>. SUFFICES ASSUME Init PROVE NodeInv
    OBVIOUS
  <1>1. \A n \in Nodes : nodeState[n] \in {"normal", "absent"} /\ heir[n] = None
    BY DEF Init
  <1>2. ReplacedInv /\ AtMostOneDown
    BY <1>1 DEF ReplacedInv, AtMostOneDown, Down
  <1>3. HeirInv
    BY <1>1, NodesAssumption DEF HeirInv, Init
  <1>4. SnapshotInv /\ DoneInv
    BY DEF Init, SnapshotInv, DoneInv, Past
  <1>. QED  BY <1>2, <1>3, <1>4 DEF NodeInv

\* A step of a handler that leaves the nodes and its own variables alone.
LEMMA QuietStep ==
  ASSUME TypeOK, TurnInv, NodeInv, NEW h \in Handlers, NEW step, Goto(h, step),
         UNCHANGED <<nodeState, heir, currentStatus, workersInfo, id>>,
         \/ pc[h] \in Before /\ step \in (Before \ {"replace"}) \cup Leaving
         \/ pc[h] \notin Before /\ step \in Leaving
         \/ pc[h] = "delete" /\ step = "create"
         \/ pc[h] = "create" /\ step = "find"
         \/ pc[h] \in Past /\ step \in Past,
         pc[h] # "destroyed"
  PROVE  NodeInv'
  <1>1. /\ \A g \in Handlers : pc'[g] = IF g = h THEN step ELSE pc[g]
        /\ \A g \in Handlers : currentStatus[g] => pc[g] \in Leaving
        /\ \A g \in Handlers : currentStatus[g] \in BOOLEAN
    BY DEF TypeOK, TurnInv, Goto
  <1>2. \A n \in Nodes : Down(n)' = Down(n)
    BY DEF Down
  <1>3. ReplacedInv'
    <2>. SUFFICES ASSUME NEW n \in Nodes, nodeState[n] \in {"deleting", "deleted"}
                  PROVE  \E g \in Handlers : /\ n = WorkerOf[g]
                                             /\ pc'[g] \notin Before
                                             /\ Down(n) => pc'[g] \in Replacing \/ (pc'[g] \in Leaving /\ ~currentStatus[g])
      BY <1>2 DEF ReplacedInv
    <2>1. PICK g \in Handlers : /\ n = WorkerOf[g]
                                /\ pc[g] \notin Before
                                /\ Down(n) => pc[g] \in Replacing \/ (pc[g] \in Leaving /\ ~currentStatus[g])
      BY DEF NodeInv, ReplacedInv
    <2>. QED  BY <2>1, <1>1 DEF Before, Replacing, Past, Leaving, Ended
  <1>4. HeirInv' /\ AtMostOneDown'
    BY <1>2 DEF NodeInv, HeirInv, AtMostOneDown
  <1>5. SnapshotInv'
    <2>1. \A g \in Handlers : NewWorkers(g)' = NewWorkers(g)
      BY DEF NewWorkers, Listed
    <2>2. \A g \in Handlers : pc'[g] \in {"replace", "delete", "create", "find"}
                             => pc[g] \in {"replace", "delete", "create", "find"}
      BY <1>1 DEF Before, Past, Leaving, Ended
    <2>3. \A g \in Handlers : pc'[g] = "update" => pc[g] = "update"
      BY <1>1 DEF Before, Past, Leaving, Ended
    <2>. QED  BY <2>1, <2>2, <2>3 DEF NodeInv, SnapshotInv
  <1>6. DoneInv'
    <2>1. \A g \in Handlers : pc'[g] \in Past => pc[g] \in Past
      BY <1>1 DEF Before, Past, Leaving, Ended
    <2>2. \A g \in Handlers : pc'[g] # "destroyed" => pc[g] # "destroyed"
      BY <1>1
    <2>. QED  BY <2>1, <2>2 DEF NodeInv, DoneInv
  <1>. QED  BY <1>3, <1>4, <1>5, <1>6 DEF NodeInv

\* Which handler a node that was replaced belongs to.
LEMMA WhoseNode ==
  ASSUME TypeOK, TurnInv, NodeInv, NEW h \in Handlers, InTurn(h)
  PROVE  /\ pc[h] \in Before => nodeState[WorkerOf[h]] = "normal" /\ \A n \in Nodes : ~Down(n)
         /\ \A n \in Nodes : Down(n) => n = WorkerOf[h]
  <1>1. WorkerOf[h] \in InitialNodes /\ WorkerOf[h] \in Nodes
    BY HandlersAssumption, NodesAssumption
  <1>2. ASSUME NEW n \in Nodes, Down(n) PROVE n = WorkerOf[h] /\ pc[h] \notin Before
    <2>1. PICK g \in Handlers : /\ n = WorkerOf[g] /\ pc[g] \notin Before
                                /\ pc[g] \in Replacing \/ (pc[g] \in Leaving /\ ~currentStatus[g])
      BY <1>2 DEF NodeInv, ReplacedInv, Down
    <2>2. CASE pc[g] \in Ended
      <3>1. Stopped /\ replaceInProgress
        BY <2>1, <2>2 DEF TurnInv, Failed, Replacing, Ended
      <3>. QED  BY <3>1 DEF Stopped
    <2>3. CASE pc[g] \notin Ended
      BY <2>1, <2>3 DEF TurnInv, TakeTurns, InTurn, TurnSteps, Steps, Replacing, Leaving
    <2>. QED  BY <2>2, <2>3
  <1>3. ASSUME pc[h] \in Before PROVE nodeState[WorkerOf[h]] = "normal"
    <2>1. nodeState[WorkerOf[h]] \in {"normal", "deleting", "deleted"}
      BY <1>1 DEF NodeInv, HeirInv
    <2>2. ASSUME nodeState[WorkerOf[h]] \in {"deleting", "deleted"} PROVE FALSE
      <3>1. PICK g \in Handlers : WorkerOf[h] = WorkerOf[g] /\ pc[g] \notin Before
        BY <2>2, <1>1 DEF NodeInv, ReplacedInv
      <3>. QED  BY <3>1, <1>3, HandlersAssumption
    <2>. QED  BY <2>1, <2>2
  <1>. QED  BY <1>2, <1>3

LEMMA ListStep ==
  ASSUME TypeOK, TurnInv, NodeInv, NEW h \in Handlers, ListWorkers(h)
  PROVE  NodeInv'
  <1>1. /\ pc[h] = "list" /\ nodeState' = nodeState /\ heir' = heir /\ currentStatus' = currentStatus
        /\ \A g \in Handlers : /\ g # h => pc'[g] = pc[g] /\ workersInfo'[g] = workersInfo[g] /\ id'[g] = id[g]
        /\ workersInfo'[h] = Listed(Cluster(h))
        /\ \/ pc'[h] = "replace"
           \/ pc'[h] = "portworx" /\ id'[h] = WorkerOf[h]
    BY DEF ListWorkers, TypeOK, Goto, nodeVars
  <1>2. nodeState[WorkerOf[h]] = "normal"
    BY <1>1, WhoseNode DEF InTurn, TurnSteps, Steps, Before
  <1>3. \A n \in Nodes : Down(n)' = Down(n)
    BY <1>1 DEF Down
  <1>w. WorkerOf[h] \in Nodes
    BY HandlersAssumption, NodesAssumption
  <1>4. ReplacedInv'
    <2>. SUFFICES ASSUME NEW n \in Nodes, nodeState[n] \in {"deleting", "deleted"}
                  PROVE  \E g \in Handlers : /\ n = WorkerOf[g]
                                             /\ pc'[g] \notin Before
                                             /\ Down(n) => pc'[g] \in Replacing \/ (pc'[g] \in Leaving /\ ~currentStatus[g])
      BY <1>1, <1>3 DEF ReplacedInv
    <2>1. PICK g \in Handlers : /\ n = WorkerOf[g]
                                /\ pc[g] \notin Before
                                /\ Down(n) => pc[g] \in Replacing \/ (pc[g] \in Leaving /\ ~currentStatus[g])
      BY DEF NodeInv, ReplacedInv
    <2>2. g # h
      BY <2>1, <1>1 DEF Before
    <2>. QED  BY <2>1, <2>2, <1>1
  <1>5. HeirInv' /\ AtMostOneDown'
    BY <1>1, <1>3 DEF NodeInv, HeirInv, AtMostOneDown
  <1>6. SnapshotInv'
    <2>1. \A g \in Handlers : g # h => NewWorkers(g)' = NewWorkers(g)
      BY <1>1 DEF NewWorkers, Listed, Cluster
    <2>2. NewWorkers(h)' = {}
      BY <1>1 DEF NewWorkers, Listed, Cluster
    <2>. QED  BY <2>1, <2>2, <1>1 DEF NodeInv, SnapshotInv
  <1>7. DoneInv'
    <2>1. \A g \in Handlers : currentStatus[g] => pc[g] \in Leaving
      BY DEF TurnInv
    <2>2. ~currentStatus[h]
      BY <2>1, <1>1 DEF Leaving, Ended
    <2>3. WorkerOf[h] # None
      BY <1>w, NodesAssumption
    <2>. QED  BY <2>2, <2>3, <1>1, <1>2 DEF NodeInv, DoneInv, Past
  <1>. QED  BY <1>4, <1>5, <1>6, <1>7 DEF NodeInv

LEMMA ReplaceStep ==
  ASSUME TypeOK, TurnInv, NodeInv, NEW h \in Handlers, Replace(h)
  PROVE  NodeInv'
  <1>w. WorkerOf[h] \in InitialNodes /\ WorkerOf[h] \in Nodes
    BY HandlersAssumption, NodesAssumption
  <1>1. /\ pc[h] = "replace" /\ heir' = heir /\ currentStatus' = currentStatus
        /\ workersInfo' = workersInfo /\ id' = id
        /\ \A g \in Handlers : g # h => pc'[g] = pc[g]
        /\ pc'[h] \in {"delete", "unlock"}
        /\ nodeState[WorkerOf[h]] = "normal"
        /\ \A n \in Nodes : nodeState'[n] = IF n = WorkerOf[h] THEN "deleting" ELSE nodeState[n]
    BY DEF Replace, TypeOK, Goto, localVars
  <1>2. ~currentStatus[h]
    BY <1>1 DEF TurnInv, Leaving, Ended
  <1>3. \A n \in Nodes : ~Down(n)
    BY <1>1, WhoseNode DEF InTurn, TurnSteps, Steps, Before
  <1>h. \A n \in Nodes : heir[n] # None => heir[n] \in Nodes /\ heir[n] # WorkerOf[h]
    BY <1>w DEF NodeInv, HeirInv
  <1>4. \A n \in Nodes : Down(n)' => n = WorkerOf[h]
    BY <1>1, <1>3, <1>h DEF Down
  <1>5. ReplacedInv'
    <2>. SUFFICES ASSUME NEW n \in Nodes, nodeState'[n] \in {"deleting", "deleted"}
                  PROVE  \E g \in Handlers : /\ n = WorkerOf[g]
                                             /\ pc'[g] \notin Before
                                             /\ Down(n)' => pc'[g] \in Replacing \/ (pc'[g] \in Leaving /\ ~currentStatus'[g])
      BY DEF ReplacedInv
    <2>1. CASE n = WorkerOf[h]
      BY <2>1, <1>1, <1>2 DEF Before, Replacing, Leaving
    <2>2. CASE n # WorkerOf[h]
      <3>1. PICK g \in Handlers : n = WorkerOf[g] /\ pc[g] \notin Before
        BY <2>2, <1>1 DEF NodeInv, ReplacedInv
      <3>. QED  BY <3>1, <2>2, <1>1, <1>4
    <2>. QED  BY <2>1, <2>2
  <1>6. HeirInv'
    <2>1. \A n \in Nodes : heir[n] # None => /\ heir[n] \in Nodes \ InitialNodes
                                             /\ nodeState'[heir[n]] \in {"deploying", "normal"}
      BY <1>1, <1>h DEF NodeInv, HeirInv
    <2>2. \A n \in Nodes \ InitialNodes : nodeState'[n] \in {"absent", "deploying", "normal"}
      BY <1>1, <1>w DEF NodeInv, HeirInv
    <2>3. \A n \in InitialNodes : nodeState'[n] \in {"normal", "deleting", "deleted"}
      BY <1>1, NodesAssumption DEF NodeInv, HeirInv
    <2>. QED  BY <2>1, <2>2, <2>3, <1>1 DEF HeirInv
  <1>7. AtMostOneDown'
    BY <1>4 DEF AtMostOneDown
  <1>8. SnapshotInv'
    <2>1. \A g \in Handlers : NewWorkers(g)' = NewWorkers(g)
      BY <1>1 DEF NewWorkers, Listed, Cluster
    <2>. QED  BY <2>1, <1>1 DEF NodeInv, SnapshotInv
  <1>9. DoneInv'
    <2>. SUFFICES ASSUME NEW g \in Handlers, pc'[g] \in Past \/ (currentStatus[g] /\ pc'[g] # "destroyed")
                  PROVE  /\ id[g] # None /\ nodeState'[id[g]] = "normal"
                         /\ id[g] \in {WorkerOf[g], heir[WorkerOf[g]]}
      BY <1>1 DEF DoneInv
    <2>1. g # h
      BY <1>1, <1>2 DEF Past
    <2>2. /\ id[g] # None /\ nodeState[id[g]] = "normal"
          /\ id[g] \in {WorkerOf[g], heir[WorkerOf[g]]}
      BY <2>1, <1>1 DEF NodeInv, DoneInv
    <2>3. WorkerOf[g] # WorkerOf[h] /\ WorkerOf[g] \in Nodes
      BY <2>1, HandlersAssumption, NodesAssumption
    <2>4. id[g] \in Nodes /\ id[g] # WorkerOf[h]
      BY <2>2, <2>3, <1>h
    <2>. QED  BY <2>2, <2>4, <1>1
  <1>. QED  BY <1>5, <1>6, <1>7, <1>8, <1>9 DEF NodeInv

LEMMA FindStep ==
  ASSUME TypeOK, TurnInv, NodeInv, NEW h \in Handlers, FindNew(h)
  PROVE  NodeInv'
  <1>1. /\ pc[h] = "find" /\ nodeState' = nodeState /\ heir' = heir /\ currentStatus' = currentStatus
        /\ workersInfo' = workersInfo
        /\ \A g \in Handlers : g # h => pc'[g] = pc[g] /\ id'[g] = id[g]
        /\ pc'[h] = "update" /\ id'[h] \in NewWorkers(h)
    BY DEF FindNew, TypeOK, Goto, nodeVars
  <1>2. \A n \in Nodes : Down(n)' = Down(n)
    BY <1>1 DEF Down
  <1>3. id'[h] = heir[WorkerOf[h]] /\ id'[h] # None
    BY <1>1, NodesAssumption DEF NodeInv, SnapshotInv, NewWorkers, Listed
  <1>4. ReplacedInv'
    BY <1>1, <1>2 DEF NodeInv, ReplacedInv, Before, Replacing, Leaving
  <1>5. HeirInv' /\ AtMostOneDown'
    BY <1>1, <1>2 DEF NodeInv, HeirInv, AtMostOneDown
  <1>6. SnapshotInv'
    <2>1. \A g \in Handlers : NewWorkers(g)' = NewWorkers(g)
      BY <1>1 DEF NewWorkers, Listed, Cluster
    <2>. QED  BY <2>1, <1>1, <1>3 DEF NodeInv, SnapshotInv
  <1>7. ~currentStatus[h]
    BY <1>1 DEF TurnInv, Leaving, Ended
  <1>8. DoneInv'
    BY <1>1, <1>7 DEF NodeInv, DoneInv, Past
  <1>. QED  BY <1>4, <1>5, <1>6, <1>8 DEF NodeInv

LEMMA UpdateStep ==
  ASSUME TypeOK, TurnInv, NodeInv, NEW h \in Handlers, WaitForUpdate(h)
  PROVE  NodeInv'
  <1>1. /\ pc[h] = "update" /\ nodeState' = nodeState /\ heir' = heir /\ currentStatus' = currentStatus
        /\ workersInfo' = workersInfo /\ id' = id
        /\ \A g \in Handlers : g # h => pc'[g] = pc[g]
        /\ pc'[h] \in {"scaleUp", "portworx"} /\ nodeState[id[h]] = "normal"
    BY DEF WaitForUpdate, IsNormal, TypeOK, Goto, nodeVars, localVars
  <1>2. \A n \in Nodes : Down(n)' = Down(n)
    BY <1>1 DEF Down
  <1>3. id[h] = heir[WorkerOf[h]] /\ id[h] # None
    BY <1>1 DEF NodeInv, SnapshotInv
  <1>4. ReplacedInv'
    <2>1. ~Down(WorkerOf[h])
      BY <1>1, <1>3 DEF Down
    <2>. QED  BY <2>1, <1>1, <1>2 DEF NodeInv, ReplacedInv, Before, Replacing, Leaving
  <1>5. HeirInv' /\ AtMostOneDown'
    BY <1>1, <1>2 DEF NodeInv, HeirInv, AtMostOneDown
  <1>6. SnapshotInv'
    <2>1. \A g \in Handlers : NewWorkers(g)' = NewWorkers(g)
      BY <1>1 DEF NewWorkers, Listed, Cluster
    <2>. QED  BY <2>1, <1>1 DEF NodeInv, SnapshotInv
  <1>7. DoneInv'
    BY <1>1, <1>3 DEF NodeInv, DoneInv
  <1>. QED  BY <1>4, <1>5, <1>6, <1>7 DEF NodeInv

LEMMA SucceedStep ==
  ASSUME TypeOK, TurnInv, NodeInv, NEW h \in Handlers, Succeed(h)
  PROVE  NodeInv'
  <1>1. /\ pc[h] = "portworx" /\ nodeState' = nodeState /\ heir' = heir
        /\ workersInfo' = workersInfo /\ id' = id
        /\ \A g \in Handlers : g # h => pc'[g] = pc[g] /\ currentStatus'[g] = currentStatus[g]
        /\ pc'[h] = "unlock"
    BY DEF Succeed, TypeOK, Goto, nodeVars
  <1>2. \A n \in Nodes : Down(n)' = Down(n)
    BY <1>1 DEF Down
  <1>3. ReplacedInv'
    <2>. SUFFICES ASSUME NEW n \in Nodes, nodeState[n] \in {"deleting", "deleted"}
                  PROVE  \E g \in Handlers : /\ n = WorkerOf[g]
                                             /\ pc'[g] \notin Before
                                             /\ Down(n) => pc'[g] \in Replacing \/ (pc'[g] \in Leaving /\ ~currentStatus'[g])
      BY <1>1, <1>2 DEF ReplacedInv
    <2>1. PICK g \in Handlers : /\ n = WorkerOf[g]
                                /\ pc[g] \notin Before
                                /\ Down(n) => pc[g] \in Replacing \/ (pc[g] \in Leaving /\ ~currentStatus[g])
      BY DEF NodeInv, ReplacedInv
    <2>2. CASE g = h
      <3>1. ~Down(n)
        BY <2>1, <2>2, <1>1 DEF Replacing, Leaving, Ended
      <3>. QED  BY <3>1, <2>1, <2>2, <1>1 DEF Before
    <2>3. CASE g # h
      BY <2>1, <2>3, <1>1
    <2>. QED  BY <2>2, <2>3
  <1>4. HeirInv' /\ AtMostOneDown'
    BY <1>1, <1>2 DEF NodeInv, HeirInv, AtMostOneDown
  <1>5. SnapshotInv'
    <2>1. \A g \in Handlers : NewWorkers(g)' = NewWorkers(g)
      BY <1>1 DEF NewWorkers, Listed, Cluster
    <2>. QED  BY <2>1, <1>1 DEF NodeInv, SnapshotInv
  <1>6. DoneInv'
    BY <1>1 DEF NodeInv, DoneInv, Past
  <1>. QED  BY <1>3, <1>4, <1>5, <1>6 DEF NodeInv

LEMMA DestroyStep ==
  ASSUME TypeOK, TurnInv, NodeInv, NEW h \in Handlers, Destroy(h)
  PROVE  NodeInv'
  <1>1. /\ pc[h] = "returned" /\ nodeState' = nodeState /\ heir' = heir /\ currentStatus' = currentStatus
        /\ workersInfo' = workersInfo
        /\ \A g \in Handlers : g # h => pc'[g] = pc[g] /\ id'[g] = id[g]
        /\ pc'[h] = "destroyed"
    BY DEF Destroy, TypeOK, Goto, nodeVars
  <1>2. \A n \in Nodes : Down(n)' = Down(n)
    BY <1>1 DEF Down
  <1>3. ReplacedInv'
    BY <1>1, <1>2 DEF NodeInv, ReplacedInv, Before, Replacing, Leaving, Ended
  <1>4. HeirInv' /\ AtMostOneDown'
    BY <1>1, <1>2 DEF NodeInv, HeirInv, AtMostOneDown
  <1>5. SnapshotInv'
    <2>1. \A g \in Handlers : NewWorkers(g)' = NewWorkers(g)
      BY <1>1 DEF NewWorkers, Listed, Cluster
    <2>. QED  BY <2>1, <1>1 DEF NodeInv, SnapshotInv
  <1>6. DoneInv'
    BY <1>1 DEF NodeInv, DoneInv, Past
  <1>. QED  BY <1>3, <1>4, <1>5, <1>6 DEF NodeInv

\* A deletion that ends, or a new node that works.
LEMMA ProgressStep ==
  ASSUME TypeOK, TurnInv, NodeInv, NEW n \in Nodes, NodeDeleted(n) \/ NodeReady(n)
  PROVE  NodeInv'
  <1>1. /\ pc' = pc /\ heir' = heir /\ currentStatus' = currentStatus /\ workersInfo' = workersInfo /\ id' = id
        /\ \A m \in Nodes : m # n => nodeState'[m] = nodeState[m]
        /\ \/ nodeState[n] = "deleting" /\ nodeState'[n] = "deleted"
           \/ nodeState[n] = "deploying" /\ nodeState'[n] = "normal"
    BY DEF NodeDeleted, NodeReady, TypeOK, localVars
  <1>h. \A m \in Nodes : heir[m] # None => heir[m] \in Nodes /\ nodeState[heir[m]] \in {"deploying", "normal"}
    BY DEF NodeInv, HeirInv
  <1>2. \A m \in Nodes : Down(m)' => Down(m)
    BY <1>1, <1>h DEF Down
  <1>3. ReplacedInv'
    <2>1. \A m \in Nodes : nodeState'[m] \in {"deleting", "deleted"} => nodeState[m] \in {"deleting", "deleted"}
      BY <1>1
    <2>. QED  BY <2>1, <1>1, <1>2 DEF NodeInv, ReplacedInv
  <1>4. HeirInv'
    <2>1. \A m \in Nodes : heir[m] # None => /\ heir[m] \in Nodes \ InitialNodes
                                             /\ nodeState'[heir[m]] \in {"deploying", "normal"}
      BY <1>1, <1>h DEF NodeInv, HeirInv
    <2>2. \A m \in Nodes \ InitialNodes : nodeState'[m] \in {"absent", "deploying", "normal"}
      BY <1>1 DEF NodeInv, HeirInv
    <2>3. \A m \in InitialNodes : nodeState'[m] \in {"normal", "deleting", "deleted"}
      BY <1>1, NodesAssumption DEF NodeInv, HeirInv
    <2>. QED  BY <2>1, <2>2, <2>3, <1>1 DEF HeirInv
  <1>5. AtMostOneDown'
    BY <1>2 DEF NodeInv, AtMostOneDown
  <1>6. SnapshotInv'
    <2>1. \A h \in Handlers : NewWorkers(h)' \subseteq NewWorkers(h)
      BY <1>1 DEF NewWorkers, Listed, Cluster
    <2>. QED  BY <2>1, <1>1 DEF NodeInv, SnapshotInv
  <1>7. DoneInv'
    <2>1. \A h \in Handlers : id[h] \in Nodes \cup {None}
      BY DEF TypeOK
    <2>. QED  BY <2>1, <1>1 DEF NodeInv, DoneInv
  <1>. QED  BY <1>3, <1>4, <1>5, <1>6, <1>7 DEF NodeInv

LEMMA CreatedStep ==
  ASSUME TypeOK, TurnInv, NodeInv, NEW n \in Nodes, NEW new \in Nodes, NodeCreated(n, new)
  PROVE  NodeInv'
  <1>1. /\ pc' = pc /\ currentStatus' = currentStatus /\ workersInfo' = workersInfo /\ id' = id
        /\ \A m \in Nodes : nodeState'[m] = IF m = new THEN "deploying" ELSE nodeState[m]
        /\ \A m \in Nodes : heir'[m] = IF m = n THEN new ELSE heir[m]
        /\ nodeState[n] \in {"deleting", "deleted"} /\ heir[n] = None /\ nodeState[new] = "absent"
    BY DEF NodeCreated, TypeOK, localVars
  <1>n. new \notin InitialNodes /\ new # None
    BY <1>1, NodesAssumption DEF NodeInv, HeirInv
  <1>h. \A m \in Nodes : heir[m] # None => heir[m] \in Nodes /\ nodeState[heir[m]] \in {"deploying", "normal"}
    BY DEF NodeInv, HeirInv
  <1>d. Down(n)
    BY <1>1 DEF Down
  <1>2. \A m \in Nodes : Down(m)' => Down(m)
    <2>. SUFFICES ASSUME NEW m \in Nodes, Down(m)' PROVE Down(m)
      OBVIOUS
    <2>1. CASE m = n
      BY <2>1, <1>d
    <2>2. CASE m # n
      <3>1. nodeState[m] \in {"deleting", "deleted"} /\ heir'[m] = heir[m]
        BY <2>2, <1>1 DEF Down
      <3>. QED  BY <3>1, <1>1, <1>h DEF Down
    <2>. QED  BY <2>1, <2>2
  <1>3. ReplacedInv'
    <2>1. \A m \in Nodes : nodeState'[m] \in {"deleting", "deleted"} => nodeState[m] \in {"deleting", "deleted"}
      BY <1>1
    <2>. QED  BY <2>1, <1>1, <1>2 DEF NodeInv, ReplacedInv
  <1>4. HeirInv'
    <2>1. \A m \in Nodes : heir'[m] # None => /\ heir'[m] \in Nodes \ InitialNodes
                                              /\ nodeState'[heir'[m]] \in {"deploying", "normal"}
      BY <1>1, <1>h, <1>n DEF NodeInv, HeirInv
    <2>2. \A m \in Nodes \ InitialNodes : nodeState'[m] \in {"absent", "deploying", "normal"}
      BY <1>1 DEF NodeInv, HeirInv
    <2>3. \A m \in InitialNodes : nodeState'[m] \in {"normal", "deleting", "deleted"}
      BY <1>1, <1>n, NodesAssumption DEF NodeInv, HeirInv
    <2>. QED  BY <2>1, <2>2, <2>3 DEF HeirInv
  <1>5. AtMostOneDown'
    BY <1>2 DEF NodeInv, AtMostOneDown
  <1>6. SnapshotInv'
    <2>1. ASSUME NEW h \in Handlers, pc[h] \in {"replace", "delete", "create", "find"}, NEW m \in NewWorkers(h)'
          PROVE  m = heir'[WorkerOf[h]]
      <3>1. InTurn(h)
        BY <2>1 DEF InTurn, TurnSteps, Steps
      <3>2. n = WorkerOf[h]
        BY <3>1, <1>d, WhoseNode
      <3>3. NewWorkers(h) = {}
        <4>1. ASSUME NEW k \in NewWorkers(h) PROVE FALSE
          <5>1. k \in Nodes /\ k = heir[WorkerOf[h]]
            BY <2>1 DEF NewWorkers, Listed, NodeInv, SnapshotInv
          <5>. QED  BY <5>1, <3>2, <1>1, NodesAssumption
        <4>. QED  BY <4>1
      <3>4. NewWorkers(h)' \subseteq NewWorkers(h) \cup {new}
        BY <1>1 DEF NewWorkers, Listed, Cluster
      <3>. QED  BY <3>2, <3>3, <3>4, <1>1
    <2>2. ASSUME NEW h \in Handlers, pc[h] = "update" PROVE id[h] # None /\ id[h] = heir'[WorkerOf[h]]
      <3>1. id[h] # None /\ id[h] = heir[WorkerOf[h]] /\ WorkerOf[h] \in Nodes
        BY <2>2, HandlersAssumption, NodesAssumption DEF NodeInv, SnapshotInv
      <3>. QED  BY <3>1, <1>1
    <2>. QED  BY <2>1, <2>2, <1>1 DEF SnapshotInv
  <1>7. DoneInv'
    <2>. SUFFICES ASSUME NEW h \in Handlers, pc[h] \in Past \/ (currentStatus[h] /\ pc[h] # "destroyed")
                  PROVE  /\ id[h] # None /\ nodeState'[id[h]] = "normal"
                         /\ id[h] \in {WorkerOf[h], heir'[WorkerOf[h]]}
      BY <1>1 DEF DoneInv
    <2>1. /\ id[h] # None /\ nodeState[id[h]] = "normal"
          /\ id[h] \in {WorkerOf[h], heir[WorkerOf[h]]}
      BY DEF NodeInv, DoneInv
    <2>2. id[h] \in Nodes /\ WorkerOf[h] \in Nodes
      BY <2>1, HandlersAssumption, NodesAssumption DEF TypeOK
    <2>. QED  BY <2>1, <2>2, <1>1
  <1>. QED  BY <1>3, <1>4, <1>5, <1>6, <1>7 DEF NodeInv
-----------------------------------------------------------------------------
(* Invariance *)

LEMMA StepNodes ==
  ASSUME ~Resizes, TypeOK, TurnInv, NodeInv, [Next]_vars
  PROVE  NodeInv'
  <1>1. ASSUME Service PROVE NodeInv'
    <2>1. ASSUME NEW n \in Nodes, NodeDeleted(n) \/ NodeReady(n) PROVE NodeInv'
      BY <2>1, ProgressStep
    <2>2. ASSUME NEW n \in Nodes, NEW new \in Nodes, NodeCreated(n, new) PROVE NodeInv'
      BY <2>2, CreatedStep
    <2>. QED  BY <1>1, <2>1, <2>2 DEF Service, Resize
  <1>2. ASSUME NEW h \in Handlers, Destroy(h) PROVE NodeInv'
    BY <1>2, DestroyStep
  <1>3. ASSUME NEW h \in Handlers, Create(h) PROVE NodeInv'
    <2>1. CASE Start(h) \/ StartFails(h) \/ TakeTurn(h) \/ LockCreateMutex(h) \/ Reject(h) \/ GetWorker(h)
      <3>1. \E step \in Before \ {"replace"} :
               /\ Goto(h, step) /\ pc[h] \in Before
               /\ UNCHANGED <<nodeState, heir, currentStatus, workersInfo, id>>
        BY <2>1 DEF Start, StartFails, TakeTurn, LockCreateMutex, Reject, GetWorker, Before, localVars, nodeVars
      <3>. QED  BY <3>1, QuietStep DEF Before
    <2>2. CASE ScaleDown(h) \/ Cordon(h) \/ Fail(h) \/ Unlock(h) \/ Conclude(h)
      <3>1. \E step \in ((Before \ {"replace"}) \cup Leaving) :
               /\ Goto(h, step) /\ pc[h] # "destroyed"
               /\ pc[h] \in Before \/ step \in Leaving
               /\ UNCHANGED <<nodeState, heir, currentStatus, workersInfo, id>>
        BY <2>2 DEF ScaleDown, Cordon, Fail, Unlock, Conclude, Before, Leaving, Steps, Ended, localVars, nodeVars
      <3>. QED  BY <3>1, QuietStep
    <2>3. CASE WaitForDelete(h) \/ WaitForNew(h)
      <3>1. /\ (Goto(h, "create") /\ pc[h] = "delete") \/ (Goto(h, "find") /\ pc[h] = "create")
            /\ UNCHANGED <<nodeState, heir, currentStatus, workersInfo, id>>
        BY <2>3 DEF WaitForDelete, WaitForNew, localVars, nodeVars
      <3>. QED  BY <3>1, QuietStep
    <2>4. CASE ScaleUp(h) \/ ForgetList(h) \/ StorageHealthy(h)
      <3>1. \E step \in Past \cup Leaving :
               /\ Goto(h, step) /\ pc[h] \in Past
               /\ UNCHANGED <<nodeState, heir, currentStatus, workersInfo, id>>
        BY <2>4 DEF ScaleUp, ForgetList, StorageHealthy, Past, Leaving, localVars, nodeVars
      <3>. QED  BY <3>1, QuietStep DEF Past, Before
    <2>. QED  BY <1>3, <2>1, <2>2, <2>3, <2>4, ListStep, ReplaceStep, FindStep, UpdateStep, SucceedStep DEF Create
  <1>4. ASSUME UNCHANGED vars PROVE NodeInv'
    <2>1. /\ pc' = pc /\ currentStatus' = currentStatus /\ workersInfo' = workersInfo /\ id' = id
          /\ nodeState' = nodeState /\ heir' = heir
      BY <1>4 DEF vars, localVars, nodeVars
    <2>. QED  BY <2>1 DEF NodeInv, ReplacedInv, HeirInv, SnapshotInv, DoneInv, AtMostOneDown, Down, NewWorkers, Listed, Cluster
  <1>. QED  BY <1>1, <1>2, <1>3, <1>4 DEF Next

LEMMA Invariance == Spec => []IInv
  <1>1. Init => IInv
    BY InitType, InitTurn, InitNodes DEF IInv
  <1>2. IInv /\ [Next]_vars => IInv'
    BY StepType, StepTurn, StepNodes DEF IInv
  <1>. QED  BY <1>1, <1>2, PTL DEF Spec

\* At most one worker is missing at any time, whatever fails, when nothing
\* else adds nodes to the clusters.
THEOREM OneDown == ASSUME ~Resizes PROVE Spec => []AtMostOneDown
  <1>1. IInv => AtMostOneDown
    BY DEF IInv, NodeInv
  <1>. QED  BY <1>1, Invariance, PTL

\* Under the same assumption, a handler that succeeded names a working node:
\* its worker or the node that took the worker's place.
THEOREM Truthful == ASSUME ~Resizes PROVE Spec => []SuccessIsTrue
  <1>1. IInv => SuccessIsTrue
    BY DEF IInv, NodeInv, DoneInv, SuccessIsTrue
  <1>. QED  BY <1>1, Invariance, PTL

\* Once a handler has failed, no worker is replaced any more.
THEOREM Final == Spec => FailureIsFinal
  <1>1. TypeOK /\ TurnInv /\ [Next]_vars
        => [\A n \in Nodes : nodeState[n] = "normal" /\ nodeState'[n] = "deleting"
                            => \A h \in Handlers : ~Failed(h)]_vars
    <2>. SUFFICES ASSUME TypeOK, TurnInv, [Next]_vars, NEW n \in Nodes,
                         nodeState[n] = "normal", nodeState'[n] = "deleting",
                         NEW f \in Handlers, Failed(f)
                  PROVE  FALSE
      OBVIOUS
    <2>1. nodeState \in [Nodes -> {"absent", "deploying", "normal", "deleting", "deleted"}]
      BY DEF TypeOK
    <2>2. ~Service
      BY <2>1 DEF Service, NodeDeleted, NodeCreated, NodeReady, Resize
    <2>3. PICK h \in Handlers : Create(h) \/ Destroy(h)
      BY <2>2 DEF Next, vars, nodeVars
    <2>4. Replace(h)
      BY <2>3 DEF Create, Destroy, Start, StartFails, TakeTurn, LockCreateMutex, Reject, GetWorker, ScaleDown,
                  Cordon, ListWorkers, WaitForDelete, WaitForNew, FindNew, WaitForUpdate, ScaleUp, ForgetList,
                  StorageHealthy, Succeed, Fail, Unlock, Conclude, nodeVars
    <2>5. InTurn(h)
      BY <2>4 DEF Replace, InTurn, TurnSteps, Steps
    <2>. QED  BY <2>5 DEF TurnInv, Stopped
  <1>. QED  BY <1>1, TurnInvariance, PTL DEF Spec, FailureIsFinal
-----------------------------------------------------------------------------
(* What the state loses sight of *)

\* The replacement was asked for, and the state does not name a node.
Unnamed(h) ==
    /\ pc[h] \notin Before \cup {"destroyed"}
    /\ nodeState[WorkerOf[h]] # "normal" /\ id[h] = None

AtMostOneUnnamed == \A g, h \in Handlers : Unnamed(g) /\ Unnamed(h) => g = h

\* A worker is as it was until its handler asks for its replacement, and a
\* handler that is past the search for its node has named one.
NamesInv ==
    /\ \A h \in Handlers : nodeState[WorkerOf[h]] # "normal" => pc[h] \notin Before
    /\ \A h \in Handlers : pc[h] \in {"update"} \cup Past \/ currentStatus[h]
                           => pc[h] = "destroyed" \/ id[h] # None
    /\ AtMostOneUnnamed

LEMMA InitNames == Init => NamesInv
  BY HandlersAssumption, NodesAssumption DEF Init, NamesInv, AtMostOneUnnamed, Unnamed, Before, Past

\* A step that touches no normal node and names no fewer.
LEMMA NamesKept ==
  ASSUME NamesInv,
         \A h \in Handlers : nodeState[WorkerOf[h]] = "normal" => nodeState'[WorkerOf[h]] = "normal",
         \A h \in Handlers : pc[h] \notin Before => pc'[h] \notin Before,
         \A h \in Handlers : pc[h] = "destroyed" => pc'[h] = "destroyed",
         \A h \in Handlers : id[h] # None => id'[h] # None \/ pc'[h] = "destroyed",
         \A h \in Handlers : pc'[h] \in {"update"} \cup Past \/ currentStatus'[h] =>
                                \/ pc[h] \in {"update"} \cup Past \/ currentStatus[h]
                                \/ id'[h] # None
  PROVE  NamesInv'
  <1>1. \A h \in Handlers : (nodeState[WorkerOf[h]] # "normal" => pc[h] \notin Before)'
    BY DEF NamesInv
  <1>2. \A h \in Handlers : Unnamed(h)' => Unnamed(h)
    BY DEF NamesInv, Unnamed
  <1>3. \A h \in Handlers : (pc[h] \in {"update"} \cup Past \/ currentStatus[h] => pc[h] = "destroyed" \/ id[h] # None)'
    BY DEF NamesInv
  <1>. QED  BY <1>1, <1>2, <1>3 DEF NamesInv, AtMostOneUnnamed

LEMMA StepNames == TypeOK /\ TurnInv /\ NamesInv /\ [Next]_vars => NamesInv'
  <1>. SUFFICES ASSUME TypeOK, TurnInv, NamesInv, [Next]_vars PROVE NamesInv'
    OBVIOUS
  <1>t. /\ pc \in [Handlers -> Places] /\ currentStatus \in [Handlers -> BOOLEAN]
        /\ id \in [Handlers -> Nodes \cup {None}]
        /\ nodeState \in [Nodes -> {"absent", "deploying", "normal", "deleting", "deleted"}]
    BY DEF TypeOK
  <1>w. WorkerOf \in [Handlers -> Nodes] /\ None \notin Nodes
    BY HandlersAssumption, NodesAssumption
  <1>1. CASE Service
    <2>1. pc' = pc /\ id' = id /\ currentStatus' = currentStatus
      BY <1>1 DEF Service, NodeDeleted, NodeCreated, NodeReady, Resize, localVars
    <2>2. \A n \in Nodes : nodeState[n] = "normal" => nodeState'[n] = "normal"
      BY <1>1, <1>t DEF Service, NodeDeleted, NodeCreated, NodeReady, Resize
    <2>. QED  BY <2>1, <2>2, <1>w, NamesKept
  <1>2. ASSUME NEW h \in Handlers, Destroy(h) PROVE NamesInv'
    <2>1. /\ pc' = [pc EXCEPT ![h] = "destroyed"] /\ pc[h] = "returned" /\ id' = [id EXCEPT ![h] = None]
          /\ currentStatus' = currentStatus /\ nodeState' = nodeState
      BY <1>2 DEF Destroy, Goto, nodeVars
    <2>. QED  BY <2>1, <1>t, NamesKept DEF Before, Past
  <1>3. ASSUME NEW h \in Handlers, Create(h) PROVE NamesInv'
    <2>1. ASSUME NEW from \in Places, NEW to \in Places, pc[h] = from, pc' = [pc EXCEPT ![h] = to],
                 from # "destroyed", from \notin Before => to \notin Before,
                 to \in {"update"} \cup Past => from \in {"update"} \cup Past \/ id'[h] # None,
                 \A g \in Handlers : id[g] # None => id'[g] # None,
                 \A g \in Handlers : currentStatus'[g] => currentStatus[g],
                 nodeState' = nodeState
          PROVE  NamesInv'
      BY <2>1, <1>t, NamesKept DEF Before, Past
    <2>. USE DEF Before, Past, Places, TurnSteps, Steps, Ended, Goto, localVars, nodeVars
    <2>2. CASE Start(h) \/ StartFails(h) \/ TakeTurn(h) \/ LockCreateMutex(h) \/ Reject(h) \/ GetWorker(h)
      BY <2>1, <2>2 DEF Start, StartFails, TakeTurn, LockCreateMutex, Reject, GetWorker
    <2>3. CASE ScaleDown(h) \/ Cordon(h)
      BY <2>1, <2>3 DEF ScaleDown, Cordon
    <2>4. CASE ScaleUp(h) \/ ForgetList(h) \/ StorageHealthy(h)
      BY <2>1, <2>4 DEF ScaleUp, ForgetList, StorageHealthy
    <2>5. CASE WaitForDelete(h) \/ WaitForNew(h) \/ WaitForUpdate(h)
      BY <2>1, <2>5 DEF WaitForDelete, WaitForNew, WaitForUpdate
    <2>6. CASE Unlock(h) \/ Conclude(h) \/ Fail(h)
      BY <2>1, <2>6 DEF Unlock, Conclude, Fail
    <2>7. CASE Succeed(h)
      <3>1. /\ pc[h] = "portworx" /\ pc' = [pc EXCEPT ![h] = "unlock"]
            /\ currentStatus' = [currentStatus EXCEPT ![h] = TRUE] /\ id' = id /\ nodeState' = nodeState
        BY <2>7 DEF Succeed
      <3>. QED  BY <3>1, <1>t, NamesKept
    <2>8. CASE ListWorkers(h)
      <3>1. /\ pc[h] = "list" /\ currentStatus' = currentStatus /\ nodeState' = nodeState
            /\ \/ Goto(h, "replace") /\ id' = id
               \/ Goto(h, "portworx") /\ id' = [id EXCEPT ![h] = WorkerOf[h]]
        BY <2>8 DEF ListWorkers
      <3>. QED  BY <2>1, <3>1, <1>t, <1>w
    <2>9. CASE FindNew(h)
      <3>1. PICK n \in NewWorkers(h) : id' = [id EXCEPT ![h] = n]
        BY <2>9 DEF FindNew
      <3>2. n \in Nodes
        BY DEF NewWorkers, Listed
      <3>3. /\ pc[h] = "find" /\ pc' = [pc EXCEPT ![h] = "update"]
            /\ currentStatus' = currentStatus /\ nodeState' = nodeState
        BY <2>9 DEF FindNew
      <3>. QED  BY <2>1, <3>1, <3>2, <3>3, <1>t, <1>w
    <2>10. CASE Replace(h)
      \* The other handlers have returned, and none failed: each names a node.
      <3>1. /\ pc[h] = "replace" /\ \E to \in {"delete", "unlock"} : pc' = [pc EXCEPT ![h] = to]
            /\ nodeState' = [nodeState EXCEPT ![WorkerOf[h]] = "deleting"]
            /\ currentStatus' = currentStatus /\ id' = id
        BY <2>10 DEF Replace
      <3>2. \A g \in Handlers : g # h => WorkerOf[g] # WorkerOf[h]
        BY HandlersAssumption
      <3>3. \A g \in Handlers : g # h => pc'[g] = pc[g] /\ nodeState'[WorkerOf[g]] = nodeState[WorkerOf[g]]
        BY <3>1, <3>2, <1>t, <1>w
      <3>4. pc'[h] \in {"delete", "unlock"}
        BY <3>1, <1>t
      <3>5. InTurn(h) /\ ~Stopped
        BY <3>1 DEF TurnInv, InTurn, Stopped
      <3>6. \A g \in Handlers : g # h => ~Unnamed(g)
        BY <3>5, <1>t DEF TurnInv, TakeTurns, InTurn, Failed, NamesInv, Unnamed
      <3>7. \A g \in Handlers : g # h => ~Unnamed(g)'
        BY <3>1, <3>3, <3>6 DEF Unnamed
      <3>8. \A g \in Handlers : (nodeState[WorkerOf[g]] # "normal" => pc[g] \notin Before)'
        BY <3>3, <3>4 DEF NamesInv
      <3>9. \A g \in Handlers : (pc[g] \in {"update"} \cup Past \/ currentStatus[g]
                                 => pc[g] = "destroyed" \/ id[g] # None)'
        BY <3>1, <3>3, <3>4, <1>t DEF NamesInv, TurnInv, Leaving
      <3>. QED  BY <3>7, <3>8, <3>9 DEF NamesInv, AtMostOneUnnamed
    <2>. QED  BY <1>3, <2>2, <2>3, <2>4, <2>5, <2>6, <2>7, <2>8, <2>9, <2>10 DEF Create
  <1>4. CASE UNCHANGED vars
    BY <1>4, NamesKept DEF vars, localVars, nodeVars
  <1>. QED  BY <1>1, <1>2, <1>3, <1>4 DEF Next

\* The state loses sight of one replaced worker at most: a handler that failed
\* without naming a node stops every other before it asks for a replacement.
THEOREM OneForgotten == Spec => []AtMostOneForgotten
  <1>1. NamesInv => AtMostOneForgotten
    BY DEF NamesInv, AtMostOneUnnamed, Unnamed, AtMostOneForgotten, Forgotten, Before
  <1>. QED  BY <1>1, InitType, StepType, InitTurn, StepTurn, InitNames, StepNames, PTL DEF Spec
-----------------------------------------------------------------------------
(* The storage globals *)

\* In a cluster an address names one node.
DistinctNames == \A m, n \in Nodes : ClusterOf[m] = ClusterOf[n] /\ Ip[m] = Ip[n] => m = n

\* The blocks that use the storage helpers are about one cluster.
OneStorageCluster ==
    \A g, h \in Handlers : NeedsKubeConfig(g) /\ NeedsKubeConfig(h) => Cluster(g) = Cluster(h)

\* The helpers talk to the cluster of every handler that uses them.
ClientInv ==
    \A h \in Handlers : NeedsKubeConfig(h) /\ pc[h] \notin {"idle", "invalid"} => clientSet = Cluster(h)

\* Pods never leave their cluster.
HomeInv == \A d \in Deployments : ClusterOf[home[d]] = ClusterOf[Home[d]]

LEMMA InitClient == Init => ClientInv /\ HomeInv
  BY DEF Init, ClientInv, HomeInv

LEMMA StepClient ==
  ASSUME OneStorageCluster
  PROVE  TypeOK /\ ClientInv /\ HomeInv /\ [Next]_vars => ClientInv' /\ HomeInv'
  <1>. SUFFICES ASSUME TypeOK, ClientInv, HomeInv, [Next]_vars PROVE ClientInv' /\ HomeInv'
    OBVIOUS
  <1>t. pc \in [Handlers -> Places] /\ scaledDown \subseteq Deployments
    BY DEF TypeOK
  <1>c. \A g \in Handlers : NeedsKubeConfig(g)' = NeedsKubeConfig(g) /\ Cluster(g)' = Cluster(g)
    BY DEF NeedsKubeConfig, Cluster
  <1>0. ASSUME clientSet' = clientSet,
               \A g \in Handlers : pc'[g] \in {"idle", "invalid"} \/ pc[g] \notin {"idle", "invalid"}
        PROVE  ClientInv'
    BY <1>0, <1>c DEF ClientInv
  <1>h. home' = home => HomeInv'
    BY DEF HomeInv
  <1>1. CASE Service \/ UNCHANGED vars
    <2>1. UNCHANGED <<pc, clientSet, home>>
      BY <1>1 DEF Service, NodeDeleted, NodeCreated, NodeReady, Resize, storageVars, vars
    <2>. QED  BY <2>1, <1>0, <1>h
  <1>2. ASSUME NEW h \in Handlers, Start(h) PROVE ClientInv' /\ HomeInv'
    <2>1. /\ pc' = [pc EXCEPT ![h] = "wait"] /\ home' = home
          /\ clientSet' = IF NeedsKubeConfig(h) THEN Cluster(h) ELSE clientSet
      BY <1>2 DEF Start, Goto, storageVars
    <2>2. pc'[h] = "wait" /\ \A g \in Handlers \ {h} : pc'[g] = pc[g]
      BY <2>1, <1>t
    <2>3. \A g \in Handlers : NeedsKubeConfig(g) /\ pc'[g] \notin {"idle", "invalid"} => clientSet' = Cluster(g)
      BY <2>1, <2>2 DEF OneStorageCluster, ClientInv
    <2>. QED  BY <2>1, <2>3, <1>c, <1>h DEF ClientInv
  <1>3. ASSUME NEW h \in Handlers, Destroy(h) \/ (Create(h) /\ ~Start(h)) PROVE ClientInv' /\ HomeInv'
    <2>1. PICK to : pc' = [pc EXCEPT ![h] = to] /\ (pc[h] \in {"idle", "invalid"} => to \in {"idle", "invalid"})
      BY <1>3 DEF Create, Destroy, Goto, StartFails, TakeTurn, LockCreateMutex, Reject, GetWorker, ScaleDown, Cordon,
                  ListWorkers, Replace, WaitForDelete, WaitForNew, FindNew, WaitForUpdate, ScaleUp, ForgetList,
                  StorageHealthy, Succeed, Fail, Unlock, Conclude, Steps
    <2>2. pc'[h] = to /\ \A g \in Handlers \ {h} : pc'[g] = pc[g]
      BY <2>1, <1>t
    <2>3. clientSet' = clientSet
      BY <1>3 DEF Create, Destroy, StartFails, TakeTurn, LockCreateMutex, Reject, GetWorker, ScaleDown, Cordon,
                  ListWorkers, Replace, WaitForDelete, WaitForNew, FindNew, WaitForUpdate, ScaleUp, ForgetList,
                  StorageHealthy, Succeed, Fail, Unlock, Conclude
    <2>4. ~ScaleUp(h) => home' = home
      BY <1>3 DEF Create, Destroy, StartFails, TakeTurn, LockCreateMutex, Reject, GetWorker, ScaleDown, Cordon,
                  ListWorkers, Replace, WaitForDelete, WaitForNew, FindNew, WaitForUpdate, ForgetList,
                  StorageHealthy, Succeed, Fail, Unlock, Conclude, storageVars
    <2>5. ASSUME ScaleUp(h) PROVE HomeInv'
      <3>1. PICK up : PlacedAnew(up)
        BY <2>5 DEF ScaleUp
      <3>. QED  BY <3>1 DEF PlacedAnew, HomeInv
    <2>. QED  BY <2>1, <2>2, <2>3, <2>4, <2>5, <1>0, <1>h
  <1>. QED  BY <1>1, <1>2, <1>3 DEF Next
-----------------------------------------------------------------------------
(* What the storage steps leave to the next handler *)

\* No deployment is down for a replacement, and none is listed.
Clean == deploymentList = {} /\ NamesOf(scaledDown) \subseteq CrashCollectors

\* Those that are down are listed, and of the cluster of the handler in turn.
DownListed(h) ==
    \A d \in scaledDown :
        NameOf[d] \in CrashCollectors \/ (NameOf[d] \in deploymentList /\ d \in Deployed(Cluster(h)))

\* The listed deployments are down, and no others.
Emptied(h) ==
    /\ \A name \in deploymentList : \E d \in Lookup(name, Cluster(h)) : d \in scaledDown
    /\ DownListed(h)

ListInv ==
    /\ (\A h \in Handlers : ~InTurn(h) /\ ~Failed(h)) => initRun \/ workerReplaceStatus
    /\ (\A h \in Handlers : ~InTurn(h)) /\ (initRun \/ workerReplaceStatus) => Clean
    /\ \A h \in Handlers :
        /\ pc[h] \in {"lock", "get", "scale", "storage", "portworx"} => Clean
        /\ InTurn(h) /\ currentStatus[h] => Clean
        /\ pc[h] \in {"scale", "cordon", "scaleUp", "restored"} => h \in Odf
        /\ pc[h] \in {"cordon", "scaleUp"} => Emptied(h)
        /\ pc[h] \in {"list", "replace", "delete", "create", "find", "update"} =>
              IF h \in Odf THEN Emptied(h) ELSE Clean
        /\ pc[h] = "restored" => DownListed(h)

\* Storage that stays as it is leaves both as they are.
LEMMA StorageKept ==
  ASSUME UNCHANGED <<deploymentList, scaledDown>>
  PROVE  Clean' = Clean /\ \A h \in Handlers : Emptied(h)' = Emptied(h) /\ DownListed(h)' = DownListed(h)
  <1>1. Clean' = Clean
    BY DEF Clean, NamesOf
  <1>2. \A h \in Handlers : DownListed(h)' = DownListed(h)
    BY DEF DownListed, Deployed, Cluster
  <1>3. \A h \in Handlers : Emptied(h)' = Emptied(h)
    BY <1>2 DEF Emptied, Lookup, Deployed, Cluster
  <1>. QED  BY <1>1, <1>2, <1>3

LEMMA InitList == Init => ListInv
  BY DEF Init, ListInv, Clean, NamesOf, InTurn, TurnSteps, Steps

LEMMA StepList == TypeOK /\ TurnInv /\ ClientInv /\ ListInv /\ [Next]_vars => ListInv'
  <1>. SUFFICES ASSUME TypeOK, TurnInv, ClientInv, ListInv, [Next]_vars PROVE ListInv'
    OBVIOUS
  <1>t. /\ pc \in [Handlers -> Places] /\ currentStatus \in [Handlers -> BOOLEAN]
        /\ initRun \in BOOLEAN /\ workerReplaceStatus \in BOOLEAN
        /\ deploymentList \subseteq Names /\ scaledDown \subseteq Deployments
    BY DEF TypeOK
  \* A step of the handler in turn that stays in turn: only its own part counts.
  <1>0. ASSUME NEW h \in Handlers, NEW to \in TurnSteps, InTurn(h), pc' = [pc EXCEPT ![h] = to],
               \A g \in Handlers \ {h} : currentStatus'[g] = currentStatus[g],
               /\ to \in {"lock", "get", "scale", "storage", "portworx"} => Clean'
               /\ currentStatus'[h] => Clean'
               /\ to \in {"scale", "cordon", "scaleUp", "restored"} => h \in Odf
               /\ to \in {"cordon", "scaleUp"} => Emptied(h)'
               /\ to \in {"list", "replace", "delete", "create", "find", "update"} =>
                     IF h \in Odf THEN Emptied(h)' ELSE Clean'
               /\ to = "restored" => DownListed(h)'
        PROVE  ListInv'
    <2>1. pc'[h] = to /\ InTurn(h)'
      BY <1>0, <1>t DEF InTurn
    <2>2. \A g \in Handlers \ {h} : ~InTurn(g) /\ pc'[g] = pc[g]
      BY <1>0, <1>t DEF TurnInv, TakeTurns
    <2>3. \A g \in Handlers \ {h} : ~InTurn(g)'
      BY <2>2 DEF InTurn
    <2>. QED
      BY <1>0, <2>1, <2>2, <2>3 DEF ListInv, InTurn, TurnSteps, Steps
  \* A step of a handler that is not in turn, before or after.
  <1>1. ASSUME NEW h \in Handlers, NEW to \in Places, ~InTurn(h), pc' = [pc EXCEPT ![h] = to],
               to \notin TurnSteps, Failed(h) => to \in Ended,
               UNCHANGED <<initRun, workerReplaceStatus, currentStatus, deploymentList, scaledDown>>
        PROVE  ListInv'
    <2>1. pc'[h] = to /\ \A g \in Handlers \ {h} : pc'[g] = pc[g]
      BY <1>1, <1>t
    <2>2. \A g \in Handlers : InTurn(g)' = InTurn(g) /\ (InTurn(g)' => pc'[g] = pc[g])
      BY <1>1, <2>1 DEF InTurn
    <2>3. \A g \in Handlers : Failed(g) => Failed(g)'
      BY <1>1, <2>1 DEF Failed
    <2>4. Clean' = Clean /\ \A g \in Handlers : Emptied(g)' = Emptied(g) /\ DownListed(g)' = DownListed(g)
      BY <1>1, StorageKept
    <2>5. \A g \in Handlers : pc'[g] \in TurnSteps => pc'[g] = pc[g]
      BY <2>2 DEF InTurn
    <2>. QED  BY <1>1, <2>2, <2>3, <2>4, <2>5 DEF ListInv, TurnSteps, Steps
  <1>2. CASE Service
    <2>1. UNCHANGED <<turnVars, pc, localVars, storageVars>>
      BY <1>2 DEF Service, NodeDeleted, NodeCreated, NodeReady, Resize
    <2>2. Clean' = Clean /\ \A g \in Handlers : Emptied(g)' = Emptied(g) /\ DownListed(g)' = DownListed(g)
      BY <2>1, StorageKept DEF storageVars
    <2>. QED  BY <2>1, <2>2 DEF ListInv, InTurn, Failed, turnVars, localVars
  <1>3. ASSUME NEW h \in Handlers, Destroy(h) PROVE ListInv'
    BY <1>1, <1>3 DEF Destroy, Goto, InTurn, TurnSteps, Steps, Ended, Places, turnVars, storageVars
  <1>4. ASSUME NEW h \in Handlers, Create(h) PROVE ListInv'
    <2>. USE DEF Goto, turnVars, storageVars, localVars
    <2>1. CASE Start(h) \/ StartFails(h) \/ Reject(h)
      BY <1>1, <2>1 DEF Start, StartFails, Reject, InTurn, Failed, TurnSteps, Steps, Ended, Places
    <2>2. CASE TakeTurn(h)
      \* Nobody is in turn, and the one before succeeded.
      <3>1. /\ pc[h] = "wait" /\ ~replaceInProgress /\ (initRun \/ workerReplaceStatus)
            /\ pc' = [pc EXCEPT ![h] = "lock"]
            /\ UNCHANGED <<currentStatus, deploymentList, scaledDown>>
        BY <2>2 DEF TakeTurn, TurnIsFree, MayTakeTurn
      <3>2. \A g \in Handlers : ~InTurn(g)
        BY <3>1 DEF TurnInv
      <3>3. Clean
        BY <3>1, <3>2 DEF ListInv
      <3>4. Clean'
        BY <3>1, <3>3, StorageKept
      <3>5. pc'[h] = "lock" /\ \A g \in Handlers \ {h} : pc'[g] = pc[g]
        BY <3>1, <1>t
      <3>6. InTurn(h)' /\ ~currentStatus'[h] /\ \A g \in Handlers \ {h} : ~InTurn(g)'
        BY <3>1, <3>2, <3>5 DEF InTurn, TurnSteps, TurnInv, Leaving, Ended
      <3>. QED  BY <3>4, <3>5, <3>6 DEF ListInv, InTurn, TurnSteps, Steps
    <2>3. CASE LockCreateMutex(h) \/ GetWorker(h) \/ StorageHealthy(h)
      <3>1. PICK to \in TurnSteps :
               /\ pc' = [pc EXCEPT ![h] = to]
               /\ \/ pc[h] = "lock" /\ to = "get"
                  \/ pc[h] = "get" /\ to = "scale" /\ h \in Odf
                  \/ pc[h] = "get" /\ to = "list" /\ h \notin Odf
                  \/ pc[h] = "storage" /\ to = "portworx"
        BY <2>3 DEF LockCreateMutex, GetWorker, StorageHealthy, TurnSteps, Steps
      <3>2. UNCHANGED <<currentStatus, deploymentList, scaledDown>> /\ InTurn(h)
        BY <2>3 DEF LockCreateMutex, GetWorker, StorageHealthy, InTurn, TurnSteps, Steps
      <3>3. Clean
        BY <3>1 DEF ListInv
      <3>4. Clean'
        BY <3>2, <3>3, StorageKept
      <3>. QED  BY <1>0, <3>1, <3>2, <3>3, <3>4
    <2>4. CASE ScaleDown(h)
      <3>1. pc[h] = "scale" /\ currentStatus' = currentStatus /\ h \in Odf /\ Clean /\ ~currentStatus[h] /\ InTurn(h)
        BY <2>4 DEF ScaleDown, ListInv, TurnInv, Leaving, Ended, InTurn, TurnSteps, Steps
      <3>2. \/ pc' = [pc EXCEPT ![h] = "unlock"]
            \/ /\ pc' = [pc EXCEPT ![h] = "cordon"]
               /\ \E done \in SUBSET OnNode(WorkerOf[h], clientSet) :
                     scaledDown' = scaledDown \cup done /\ deploymentList' = deploymentList \cup NamesOf(done)
        BY <2>4 DEF ScaleDown
      <3>3. ASSUME pc' = [pc EXCEPT ![h] = "cordon"], pc'[h] = "cordon" PROVE Emptied(h)'
        <4>1. PICK done \in SUBSET OnNode(WorkerOf[h], clientSet) :
                 scaledDown' = scaledDown \cup done /\ deploymentList' = NamesOf(done)
          BY <3>1, <3>2, <3>3, <1>t DEF Clean
        <4>2. done \subseteq Deployed(Cluster(h)) /\ \A d \in scaledDown : NameOf[d] \in CrashCollectors
          BY <3>1, <4>1 DEF ClientInv, NeedsKubeConfig, OnNode, Clean, NamesOf
        <4>3. \A name \in deploymentList' : \E d \in done : name = NameOf[d] /\ d \in Lookup(name, Cluster(h))
          BY <4>1, <4>2 DEF NamesOf, Lookup
        <4>4. \A d \in done : NameOf[d] \in deploymentList' /\ d \in Deployed(Cluster(h))
          BY <4>1, <4>2 DEF NamesOf
        <4>5. Deployed(Cluster(h))' = Deployed(Cluster(h)) /\ \A name : Lookup(name, Cluster(h))' = Lookup(name, Cluster(h))
          BY DEF Lookup, Deployed, Cluster
        <4>. QED  BY <4>1, <4>2, <4>3, <4>4, <4>5 DEF Emptied, DownListed
      <3>. QED  BY <1>0, <1>t, <3>1, <3>2, <3>3 DEF TurnSteps, Steps
    <2>5. CASE Cordon(h) \/ WaitForDelete(h) \/ WaitForNew(h) \/ FindNew(h) \/ Replace(h)
      <3>1. PICK to \in {"list", "create", "find", "update", "delete", "unlock"} :
               pc' = [pc EXCEPT ![h] = to]
        BY <2>5 DEF Cordon, WaitForDelete, WaitForNew, FindNew, Replace
      <3>2. /\ UNCHANGED <<currentStatus, deploymentList, scaledDown>>
            /\ pc[h] \in {"cordon", "delete", "create", "find", "replace"}
        BY <2>5 DEF Cordon, WaitForDelete, WaitForNew, FindNew, Replace
      <3>3. InTurn(h) /\ ~currentStatus[h] /\ IF h \in Odf THEN Emptied(h) ELSE Clean
        BY <3>2 DEF ListInv, TurnInv, Leaving, Ended, InTurn, TurnSteps, Steps
      <3>4. Emptied(h)' = Emptied(h) /\ Clean' = Clean
        BY <3>2, StorageKept
      <3>. QED  BY <1>0, <3>1, <3>2, <3>3, <3>4 DEF TurnSteps, Steps
    <2>6. CASE ListWorkers(h) \/ WaitForUpdate(h)
      <3>1. PICK to \in {"replace", "portworx", "scaleUp"} :
               /\ pc' = [pc EXCEPT ![h] = to]
               /\ to = "portworx" => h \notin Odf
               /\ to = "scaleUp" => h \in Odf
        BY <2>6 DEF ListWorkers, WaitForUpdate, NeedsKubeConfig
      <3>2. /\ UNCHANGED <<currentStatus, deploymentList, scaledDown>>
            /\ pc[h] \in {"list", "update"}
        BY <2>6 DEF ListWorkers, WaitForUpdate
      <3>3. InTurn(h) /\ ~currentStatus[h] /\ IF h \in Odf THEN Emptied(h) ELSE Clean
        BY <3>2 DEF ListInv, TurnInv, Leaving, Ended, InTurn, TurnSteps, Steps
      <3>4. Emptied(h)' = Emptied(h) /\ Clean' = Clean
        BY <3>2, StorageKept
      <3>. QED  BY <1>0, <3>1, <3>2, <3>3, <3>4 DEF TurnSteps, Steps
    <2>7. CASE ScaleUp(h)
      <3>1. PICK names \in SUBSET ToRestore, to \in {"restored", "unlock"} :
               /\ scaledDown' = scaledDown \ Found(names, clientSet) /\ deploymentList' = deploymentList
               /\ pc' = [pc EXCEPT ![h] = to]
        BY <2>7 DEF ScaleUp
      <3>2. /\ pc[h] = "scaleUp" /\ currentStatus' = currentStatus /\ ~currentStatus[h] /\ InTurn(h)
            /\ h \in Odf /\ DownListed(h)
        BY <2>7 DEF ScaleUp, ListInv, Emptied, TurnInv, Leaving, Ended, InTurn, TurnSteps, Steps
      <3>3. DownListed(h)'
        BY <3>1, <3>2 DEF DownListed, Deployed, Cluster
      <3>. QED  BY <1>0, <3>1, <3>2, <3>3 DEF TurnSteps, Steps
    <2>8. CASE ForgetList(h)
      <3>1. /\ pc[h] = "restored" /\ pc' = [pc EXCEPT ![h] = "storage"] /\ AllUp
            /\ deploymentList' = {} /\ scaledDown' = scaledDown /\ currentStatus' = currentStatus
        BY <2>8 DEF ForgetList
      <3>2. InTurn(h) /\ DownListed(h) /\ clientSet = Cluster(h) /\ ~currentStatus[h]
        BY <3>1 DEF ListInv, ClientInv, NeedsKubeConfig, TurnInv, Leaving, Ended, InTurn, TurnSteps, Steps
      \* The deployment that was found is the one that was scaled down.
      <3>3. ASSUME NEW d \in scaledDown, NameOf[d] \notin CrashCollectors PROVE FALSE
        <4>1. NameOf[d] \in ToRestore /\ d \in Deployed(clientSet)
          BY <3>2, <3>3 DEF DownListed, ToRestore
        <4>2. PICK e \in Lookup(NameOf[d], clientSet) : e \notin scaledDown
          BY <3>1, <4>1 DEF AllUp
        <4>. QED  BY <3>3, <4>1, <4>2, NamesAssumption DEF Lookup, Deployed
      <3>4. Clean'
        BY <3>1, <3>3 DEF Clean, NamesOf
      <3>. QED  BY <1>0, <3>1, <3>2, <3>4 DEF TurnSteps, Steps
    <2>9. CASE Succeed(h)
      <3>1. /\ pc[h] = "portworx" /\ pc' = [pc EXCEPT ![h] = "unlock"]
            /\ currentStatus' = [currentStatus EXCEPT ![h] = TRUE]
            /\ UNCHANGED <<deploymentList, scaledDown>>
        BY <2>9 DEF Succeed
      <3>2. Clean' /\ InTurn(h)
        BY <3>1, StorageKept DEF ListInv, InTurn, TurnSteps, Steps
      <3>. QED  BY <1>0, <1>t, <3>1, <3>2 DEF TurnSteps, Steps
    <2>10. CASE Fail(h) \/ Unlock(h)
      <3>1. PICK to \in {"unlock", "conclude"} : pc' = [pc EXCEPT ![h] = to]
        BY <2>10 DEF Fail, Unlock
      <3>2. UNCHANGED <<currentStatus, deploymentList, scaledDown>> /\ InTurn(h)
        BY <2>10 DEF Fail, Unlock, InTurn, TurnSteps
      <3>3. currentStatus'[h] => Clean'
        BY <3>2, StorageKept DEF ListInv
      <3>. QED  BY <1>0, <3>1, <3>2, <3>3 DEF TurnSteps, Steps
    <2>11. CASE Conclude(h)
      <3>1. /\ pc[h] \in {"conclude", "rejected"} /\ pc' = [pc EXCEPT ![h] = "returned"]
            /\ workerReplaceStatus' = currentStatus[h]
            /\ UNCHANGED <<initRun, currentStatus, deploymentList, scaledDown>>
        BY <2>11 DEF Conclude, StatusAfter
      <3>2. pc'[h] = "returned" /\ \A g \in Handlers \ {h} : pc'[g] = pc[g]
        BY <3>1, <1>t
      <3>3. \A g \in Handlers : ~InTurn(g)'
        BY <3>1, <3>2 DEF TurnInv, TakeTurns, InTurn, TurnSteps, Steps, Stopped
      <3>4. ~initRun /\ (pc[h] = "rejected" => ~currentStatus[h]) /\ (pc[h] = "conclude" => InTurn(h))
        BY <3>1 DEF TurnInv, InTurn, TurnSteps, Stopped, Leaving, Ended
      <3>5. workerReplaceStatus' => Clean'
        BY <3>1, <3>4, StorageKept DEF ListInv
      <3>6. ~workerReplaceStatus' => Failed(h)'
        BY <3>1, <3>2 DEF Failed, Ended
      <3>. QED  BY <3>1, <3>3, <3>4, <3>5, <3>6 DEF ListInv, InTurn, TurnSteps, Steps
    <2>. QED  BY <1>4, <2>1, <2>2, <2>3, <2>4, <2>5, <2>6, <2>7, <2>8, <2>9, <2>10, <2>11 DEF Create
  <1>5. CASE UNCHANGED vars
    <2>1. UNCHANGED <<turnVars, pc, localVars, storageVars>>
      BY <1>5 DEF vars
    <2>2. Clean' = Clean /\ \A g \in Handlers : Emptied(g)' = Emptied(g) /\ DownListed(g)' = DownListed(g)
      BY <2>1, StorageKept DEF storageVars
    <2>. QED  BY <2>1, <2>2 DEF ListInv, InTurn, Failed, turnVars, localVars
  <1>. QED  BY <1>2, <1>3, <1>4, <1>5 DEF Next

LEMMA ListInvariance ==
  ASSUME OneStorageCluster PROVE Spec => [](TypeOK /\ TurnInv /\ ClientInv /\ HomeInv /\ ListInv)
  BY InitType, StepType, InitTurn, StepTurn, InitClient, StepClient, InitList, StepList, PTL DEF Spec

\* If the blocks with storage are of one cluster, handlers that all succeeded
\* left every deployment up, crash collectors aside, and the names a handler
\* scales up are those of the deployments it scaled down.
THEOREM Restored ==
  ASSUME OneStorageCluster PROVE Spec => []StorageRestored
  <1>1. ListInv => StorageRestored
    BY DEF ListInv, Clean, Emptied, StorageRestored
  <1>. QED  BY <1>1, ListInvariance, PTL
-----------------------------------------------------------------------------
(* A node is drained before it is replaced *)

\* The pods on the worker of a handler are gone.
Scaled(h) == \A d \in Deployments : home[d] = WorkerOf[h] => d \in scaledDown

DrainInv ==
    \A h \in Odf :
        /\ pc[h] = "cordon" => Scaled(h)
        /\ pc[h] \in {"list", "replace"} \/ nodeState[WorkerOf[h]] # "normal"
              => WorkerOf[h] \in cordoned /\ Scaled(h)

LEMMA InitDrain == Init => DrainInv
  BY HandlersAssumption, NodesAssumption DEF Init, DrainInv

\* A step that touches neither storage nor the storage globals.
LEMMA DrainKept ==
  ASSUME DrainInv, UNCHANGED <<home, scaledDown, cordoned>>,
         \A h \in Odf : /\ pc'[h] # "cordon"  \/ pc[h] = "cordon"
                        /\ pc'[h] \in {"list", "replace"} => pc[h] \in {"list", "replace"},
         \A h \in Odf : nodeState'[WorkerOf[h]] # "normal" =>
                           nodeState[WorkerOf[h]] # "normal" \/ pc[h] = "replace"
  PROVE  DrainInv'
  <1>1. \A h \in Odf : Scaled(h)' = Scaled(h)
    BY DEF Scaled
  <1>. QED  BY <1>1 DEF DrainInv

LEMMA StepDrain ==
  ASSUME DistinctNames
  PROVE  TypeOK /\ TurnInv /\ ClientInv /\ HomeInv /\ ListInv /\ DrainInv /\ [Next]_vars => DrainInv'
  <1>. SUFFICES ASSUME TypeOK, TurnInv, ClientInv, HomeInv, ListInv, DrainInv, [Next]_vars PROVE DrainInv'
    OBVIOUS
  <1>t. /\ pc \in [Handlers -> Places]
        /\ nodeState \in [Nodes -> {"absent", "deploying", "normal", "deleting", "deleted"}]
        /\ home \in [Deployments -> Nodes] /\ scaledDown \subseteq Deployments
    BY DEF TypeOK
  <1>w. /\ WorkerOf \in [Handlers -> Nodes] /\ Odf \subseteq Handlers
        /\ \A g, h \in Handlers : WorkerOf[g] = WorkerOf[h] => g = h
    BY HandlersAssumption, NodesAssumption
  <1>1. CASE Service
    <2>1. UNCHANGED <<pc, home, scaledDown, cordoned>>
      BY <1>1 DEF Service, NodeDeleted, NodeCreated, NodeReady, Resize, storageVars
    <2>2. \A n \in Nodes : nodeState[n] = "normal" => nodeState'[n] = "normal"
      BY <1>1, <1>t DEF Service, NodeDeleted, NodeCreated, NodeReady, Resize
    <2>. QED  BY <2>1, <2>2, <1>w, DrainKept
  <1>2. ASSUME NEW h \in Handlers, Destroy(h) PROVE DrainInv'
    <2>1. /\ UNCHANGED <<home, scaledDown, cordoned, nodeState>>
          /\ pc[h] = "returned" /\ pc' = [pc EXCEPT ![h] = "destroyed"]
      BY <1>2 DEF Destroy, Goto, storageVars, nodeVars
    <2>. QED  BY <2>1, <1>t, DrainKept
  <1>3. ASSUME NEW h \in Handlers, Create(h) PROVE DrainInv'
    <2>. USE DEF Goto, storageVars, nodeVars
    \* A step of h that stays away from the storage.
    <2>0. ASSUME NEW to, pc' = [pc EXCEPT ![h] = to],
                 h \in Odf => /\ to # "cordon"
                              /\ to \in {"list", "replace"} => pc[h] \in {"list", "replace"},
                 UNCHANGED <<home, scaledDown, cordoned, nodeState>>
          PROVE  DrainInv'
      <3>1. pc'[h] = to /\ \A g \in Handlers \ {h} : pc'[g] = pc[g]
        BY <2>0, <1>t
      <3>. QED  BY <2>0, <3>1, <1>w, DrainKept
    <2>1. CASE Start(h) \/ StartFails(h)
      BY <2>0, <2>1 DEF Start, StartFails
    <2>3. CASE TakeTurn(h) \/ LockCreateMutex(h) \/ Reject(h) \/ GetWorker(h)
      BY <2>0, <2>3 DEF TakeTurn, LockCreateMutex, Reject, GetWorker
    <2>4. CASE ListWorkers(h) \/ WaitForDelete(h) \/ WaitForNew(h) \/ FindNew(h) \/ WaitForUpdate(h)
      BY <2>0, <2>4 DEF ListWorkers, WaitForDelete, WaitForNew, FindNew, WaitForUpdate
    <2>5. CASE ForgetList(h) \/ StorageHealthy(h) \/ Succeed(h)
      BY <2>0, <2>5 DEF ForgetList, StorageHealthy, Succeed
    <2>6. CASE Fail(h) \/ Unlock(h) \/ Conclude(h)
      BY <2>0, <2>6 DEF Fail, Unlock, Conclude, Steps
    <2>7. CASE Replace(h)
      <3>1. /\ pc[h] = "replace" /\ \E to \in {"delete", "unlock"} : pc' = [pc EXCEPT ![h] = to]
            /\ nodeState' = [nodeState EXCEPT ![WorkerOf[h]] = "deleting"]
            /\ UNCHANGED <<home, scaledDown, cordoned>>
        BY <2>7 DEF Replace
      <3>2. pc'[h] \in {"delete", "unlock"} /\ \A g \in Handlers \ {h} : pc'[g] = pc[g]
        BY <3>1, <1>t
      <3>3. \A g \in Handlers \ {h} : nodeState'[WorkerOf[g]] = nodeState[WorkerOf[g]]
        BY <3>1, <1>t, <1>w
      <3>. QED  BY <3>1, <3>2, <3>3, <1>w, DrainKept
    <2>8. ASSUME pc[h] \in Steps, NEW g \in Odf, g # h PROVE pc[g] \notin {"cordon", "list", "replace"}
      BY <2>8, <1>w DEF TurnInv, TakeTurns, InTurn, TurnSteps, Steps
    <2>9. CASE ScaleDown(h)
      <3>1. /\ pc[h] = "scale" /\ UNCHANGED <<clientSet, home, cordoned, nodeState>>
            /\ scaledDown \subseteq scaledDown'
            /\ \/ pc' = [pc EXCEPT ![h] = "unlock"]
               \/ /\ pc' = [pc EXCEPT ![h] = "cordon"]
                  /\ OnNode(WorkerOf[h], clientSet) \subseteq scaledDown'
        BY <2>9 DEF ScaleDown
      <3>2. pc'[h] \in {"unlock", "cordon"} /\ \A g \in Handlers \ {h} : pc'[g] = pc[g]
        BY <3>1, <1>t
      <3>3. pc'[h] = "cordon" => Scaled(h)'
        <4>1. h \in Odf /\ clientSet = Cluster(h)
          BY <3>1 DEF ListInv, ClientInv, NeedsKubeConfig
        <4>2. \A d \in Deployments : home[d] = WorkerOf[h] => d \in OnNode(WorkerOf[h], clientSet)
          BY <4>1 DEF OnNode, Deployed, Cluster, HomeInv
        <4>. QED  BY <3>1, <3>2, <4>2, <1>t DEF Scaled
      <3>4. \A g \in Odf : Scaled(g) => Scaled(g)'
        BY <3>1 DEF Scaled
      <3>. QED  BY <3>1, <3>2, <3>3, <3>4, <1>w DEF DrainInv
    <2>10. CASE Cordon(h)
      <3>1. PICK n \in Nodes :
               /\ ClusterOf[n] = clientSet /\ Ip[n] = Ip[WorkerOf[h]]
               /\ cordoned' = cordoned \cup {n}
        BY <2>10 DEF Cordon
      <3>2. /\ pc[h] = "cordon" /\ pc' = [pc EXCEPT ![h] = "list"]
            /\ UNCHANGED <<clientSet, home, scaledDown, nodeState>>
        BY <2>10 DEF Cordon
      <3>3. n = WorkerOf[h] /\ h \in Odf
        BY <3>1, <3>2, <1>w DEF DistinctNames, ListInv, ClientInv, NeedsKubeConfig, Cluster
      <3>4. pc'[h] = "list" /\ \A g \in Handlers \ {h} : pc'[g] = pc[g]
        BY <3>2, <1>t
      <3>5. \A g \in Odf : Scaled(g)' = Scaled(g)
        BY <3>2 DEF Scaled
      <3>. QED  BY <3>1, <3>2, <3>3, <3>4, <3>5, <1>w DEF DrainInv
    <2>11. CASE ScaleUp(h)
      \* Pods come up on normal nodes, never on one that is being replaced.
      <3>1. PICK names \in SUBSET ToRestore, to \in {"restored", "unlock"} :
               /\ scaledDown' = scaledDown \ Found(names, clientSet)
               /\ PlacedAnew(Found(names, clientSet) \cap scaledDown)
               /\ pc' = [pc EXCEPT ![h] = to]
        BY <2>11 DEF ScaleUp
      <3>2. pc[h] = "scaleUp" /\ UNCHANGED <<clientSet, cordoned, nodeState>>
        BY <2>11 DEF ScaleUp
      <3>3. pc'[h] \in {"restored", "unlock"} /\ \A g \in Handlers \ {h} : pc'[g] = pc[g]
        BY <3>1, <1>t
      <3>4. \A d \in Deployments : \/ d \in Found(names, clientSet) \cap scaledDown /\ nodeState[home'[d]] = "normal"
                                   \/ d \notin Found(names, clientSet) \cap scaledDown /\ home'[d] = home[d]
        BY <3>1 DEF PlacedAnew
      <3>5. \A g \in Odf : nodeState[WorkerOf[g]] # "normal" /\ Scaled(g) => Scaled(g)'
        BY <3>1, <3>4 DEF Scaled
      <3>6. \A g \in Odf : pc'[g] \notin {"cordon", "list", "replace"}
        BY <2>8, <3>2, <3>3, <1>w DEF Steps
      <3>. QED  BY <3>2, <3>3, <3>5, <3>6 DEF DrainInv
    <2>. QED  BY <1>3, <2>1, <2>3, <2>4, <2>5, <2>6, <2>7, <2>9, <2>10, <2>11 DEF Create
  <1>4. CASE UNCHANGED vars
    BY <1>4, DrainKept DEF vars, storageVars, nodeVars
  <1>. QED  BY <1>1, <1>2, <1>3, <1>4 DEF Next

\* A worker with software defined storage is replaced only when its pods are
\* gone and it is cordoned, if one cluster has such workers: the storage
\* globals are set before the turn, so a second cluster would redirect them.
THEOREM Drained ==
  ASSUME DistinctNames, OneStorageCluster PROVE Spec => []DrainedFirst
  <1>1. DrainInv => DrainedFirst
    BY HandlersAssumption DEF DrainInv, Scaled, DrainedFirst
  <1>2. TypeOK /\ TurnInv /\ ClientInv /\ HomeInv /\ ListInv /\ DrainInv /\ [Next]_vars => DrainInv'
    BY StepDrain
  <1>3. Spec => []DrainInv
    BY ListInvariance, InitDrain, <1>2, PTL DEF Spec
  <1>. QED  BY <1>1, <1>3, PTL
=============================================================================
