-------------------------- MODULE VpcWorkerReplace --------------------------
(***************************************************************************)
(* ibm_container_vpc_worker: replacing the workers of clusters one at a    *)
(* time.  A block names one worker; its Create handler asks the service to *)
(* replace it and waits for the new node.  Terraform calls the handlers of *)
(* all blocks concurrently, and the package's global variables make them   *)
(* take turns: the next one starts only when the previous one succeeded.   *)
(*                                                                         *)
(* One provider process.  Every step that calls the service or Kubernetes  *)
(* may fail, and every wait may time out.                                  *)
(***************************************************************************)
EXTENDS Naturals, FiniteSets

CONSTANTS
    Handlers,        \* the blocks, one Create handler each
    Clusters,
    Nodes,           \* worker nodes: the existing ones and those to come
    InitialNodes,    \* the workers that exist at the start
    ClusterOf,       \* Nodes -> Clusters
    Ip,              \* Nodes -> private address, the node's Kubernetes name
    WorkerOf,        \* Handlers -> InitialNodes: replace_worker
    Odf,             \* the blocks with sds = "ODF"
    Ptx,             \* the blocks with check_ptx_status
    Deployments,     \* storage deployments with pods on the nodes
    Home,            \* Deployments -> InitialNodes: where the pods run first
    Names,           \* names of deployments
    NameOf,          \* Deployments -> Names
    CrashCollectors, \* the names that are not scaled up again
    Resizes,         \* do worker pools grow during the run?
    None

ASSUME HandlersAssumption ==
    /\ WorkerOf \in [Handlers -> InitialNodes]
    /\ \A g, h \in Handlers : WorkerOf[g] = WorkerOf[h] => g = h
    /\ Odf \subseteq Handlers /\ Ptx \subseteq Handlers
    /\ None \notin Handlers
ASSUME NodesAssumption ==
    /\ InitialNodes \subseteq Nodes
    /\ ClusterOf \in [Nodes -> Clusters]
    /\ None \notin Nodes /\ None \notin Clusters
    /\ Home \in [Deployments -> InitialNodes]
    /\ NameOf \in [Deployments -> Names]
    /\ CrashCollectors \subseteq Names
    /\ Resizes \in BOOLEAN
\* A name is that of one deployment of a cluster; clusters have like names.
ASSUME NamesAssumption ==
    \A d, e \in Deployments : ClusterOf[Home[d]] = ClusterOf[Home[e]] /\ NameOf[d] = NameOf[e] => d = e

VARIABLES
    \* the package's globals
    workerReplaceStatus, \* did the last handler succeed?
    replaceInProgress,
    initRun,             \* initRun = 1: no handler has had a turn
    commonVarMutex,      \* its holder, or None
    createMutex,         \* its holder, or None
    clientSet,           \* the cluster the storage helpers talk to
    deploymentList,      \* the names of those PreWorkerReplace scaled down
    \* per handler
    pc,
    currentStatus,
    workersInfo,         \* the nodes listed before the replacement
    id,                  \* the resource's id
    \* the clusters
    nodeState,
    heir,                \* the node that took a replaced node's place
    home,                \* the node a deployment's pods run on
    scaledDown,          \* the deployments with no replicas
    cordoned

turnVars    == <<workerReplaceStatus, replaceInProgress, initRun, commonVarMutex, createMutex>>
storageVars == <<deploymentList, home, scaledDown, cordoned>>
nodeVars    == <<nodeState, heir>>
localVars   == <<currentStatus, workersInfo, id>>
vars == <<turnVars, clientSet, storageVars, pc, localVars, nodeVars>>

\* Fault: the name of the worker is taken for that of its cluster.
FaultyCluster(h) == WorkerOf[h]
Cluster(h) == ClusterOf[WorkerOf[h]]

\* Where a handler that holds createMutex can be.
Steps == {"get", "scale", "cordon", "list", "replace", "delete", "create", "find",
          "update", "scaleUp", "restored", "storage", "portworx"}
\* From the moment a handler takes the turn until it gives it up.
TurnSteps == {"lock"} \cup Steps \cup {"unlock", "conclude"}
Ended == {"returned", "destroyed"}
Places == {"idle", "invalid", "wait", "rejected"} \cup TurnSteps \cup Ended

InTurn(h) == pc[h] \in TurnSteps

Init ==
    /\ workerReplaceStatus = FALSE /\ replaceInProgress = FALSE /\ initRun = TRUE
    /\ commonVarMutex = None /\ createMutex = None
    /\ clientSet = None /\ deploymentList = {}
    /\ pc = [h \in Handlers |-> "idle"]
    /\ currentStatus = [h \in Handlers |-> FALSE]
    /\ workersInfo = [h \in Handlers |-> {}]
    /\ id = [h \in Handlers |-> None]
    /\ nodeState = [n \in Nodes |-> IF n \in InitialNodes THEN "normal" ELSE "absent"]
    /\ heir = [n \in Nodes |-> None]
    /\ home = Home /\ scaledDown = {} /\ cordoned = {}
-----------------------------------------------------------------------------
(* Taking turns *)

Goto(h, step) == pc' = [pc EXCEPT ![h] = step]

NeedsKubeConfig(h) == h \in Odf \cup Ptx

\* The kubeconfig is checked and the storage globals are set before the turn.
Start(h) ==
    /\ pc[h] = "idle"
    /\ Goto(h, "wait")
    /\ clientSet' = IF NeedsKubeConfig(h) THEN Cluster(h) ELSE clientSet
    /\ UNCHANGED <<turnVars, storageVars, localVars, nodeVars>>

\* An invalid kubeconfig: the handler returns without touching the globals.
StartFails(h) ==
    /\ pc[h] = "idle" /\ NeedsKubeConfig(h)
    /\ Goto(h, "invalid")
    /\ UNCHANGED <<turnVars, clientSet, storageVars, localVars, nodeVars>>

\* Fault: the status of the previous handler is not looked at.
FaultyMayTakeTurn == TRUE
MayTakeTurn == initRun \/ workerReplaceStatus

TurnIsFree == ~replaceInProgress

\* waitForPreviousResource keeps commonVarMutex while it locks createMutex.
TakeTurn(h) ==
    /\ pc[h] = "wait" /\ commonVarMutex = None /\ TurnIsFree
    /\ MayTakeTurn
    /\ initRun' = FALSE /\ replaceInProgress' = TRUE
    /\ commonVarMutex' = h
    /\ Goto(h, "lock")
    /\ UNCHANGED <<workerReplaceStatus, createMutex, clientSet, storageVars, localVars, nodeVars>>

LockCreateMutex(h) ==
    /\ pc[h] = "lock" /\ createMutex = None
    /\ createMutex' = h /\ commonVarMutex' = None
    /\ Goto(h, "get")
    /\ UNCHANGED <<workerReplaceStatus, replaceInProgress, initRun, clientSet, storageVars, localVars, nodeVars>>

\* "Previous worker replace failed"
Reject(h) ==
    /\ pc[h] = "wait" /\ commonVarMutex = None /\ TurnIsFree
    /\ ~MayTakeTurn
    /\ Goto(h, "rejected")
    /\ UNCHANGED <<turnVars, clientSet, storageVars, localVars, nodeVars>>

\* Fault: the mutex is not unlocked.
FaultyUnlock(h) ==
    /\ pc[h] = "unlock"
    /\ Goto(h, "conclude")
    /\ UNCHANGED <<turnVars, clientSet, storageVars, localVars, nodeVars>>
\* The deferred calls run last in, first out: createMutex is unlocked first.
Unlock(h) ==
    /\ pc[h] = "unlock"
    /\ createMutex' = None
    /\ Goto(h, "conclude")
    /\ UNCHANGED <<workerReplaceStatus, replaceInProgress, initRun, commonVarMutex, clientSet, storageVars,
                   localVars, nodeVars>>

\* Fault: a handler that failed leaves the status of the one before it.
FaultyStatusAfter(h) == currentStatus[h] \/ workerReplaceStatus
StatusAfter(h) == currentStatus[h]

Conclude(h) ==
    /\ pc[h] \in {"conclude", "rejected"} /\ commonVarMutex = None
    /\ workerReplaceStatus' = StatusAfter(h)
    /\ replaceInProgress' = FALSE
    /\ Goto(h, "returned")
    /\ UNCHANGED <<initRun, commonVarMutex, createMutex, clientSet, storageVars, localVars, nodeVars>>

\* A failed request or a wait that timed out: the handler returns the error.
Fail(h) ==
    /\ pc[h] \in Steps
    /\ Goto(h, "unlock")
    /\ UNCHANGED <<turnVars, clientSet, storageVars, localVars, nodeVars>>
-----------------------------------------------------------------------------
(* Software defined storage: before and after the replacement *)

Deployed(cluster) == {d \in Deployments : ClusterOf[Home[d]] = cluster}

\* What a request that names a deployment finds in a cluster: one or none.
Lookup(name, cluster) == {d \in Deployed(cluster) : NameOf[d] = name}
Found(names, cluster) == UNION {Lookup(name, cluster) : name \in names}

\* Fault: the crash collectors are left alone.
FaultyOnNode(n, cluster) ==
    {d \in Deployed(cluster) : Ip[home[d]] = Ip[n] /\ NameOf[d] \notin CrashCollectors}
\* The deployments with pods on a node of that name in a cluster.
OnNode(n, cluster) == {d \in Deployed(cluster) : Ip[home[d]] = Ip[n]}

\* Workers().Get, then PreWorkerReplace when sds is ODF.
GetWorker(h) ==
    /\ pc[h] = "get"
    /\ Goto(h, IF h \in Odf THEN "scale" ELSE "list")
    /\ UNCHANGED <<turnVars, clientSet, storageVars, localVars, nodeVars>>

NamesOf(deployments) == {NameOf[d] : d \in deployments}

\* scalePods records a deployment's name before it scales it, so when it fails
\* the list may name one more than was scaled down.
ScaleDown(h) ==
    /\ pc[h] = "scale"
    /\ \E done \in SUBSET OnNode(WorkerOf[h], clientSet) :
         /\ scaledDown' = scaledDown \cup done
         /\ \/ /\ done = OnNode(WorkerOf[h], clientSet)
               /\ deploymentList' = deploymentList \cup NamesOf(done)
               /\ Goto(h, "cordon")
            \/ /\ \E d \in OnNode(WorkerOf[h], clientSet) :
                    deploymentList' = deploymentList \cup NamesOf(done \cup {d})
               /\ Goto(h, "unlock")
    /\ UNCHANGED <<turnVars, clientSet, home, cordoned, localVars, nodeVars>>

\* The deployments of the list have no replicas: the node is cordoned and
\* drained.  They and the node are looked up in the cluster of clientSet.
Cordon(h) ==
    /\ pc[h] = "cordon"
    /\ \A name \in deploymentList : \E d \in Lookup(name, clientSet) : d \in scaledDown
    /\ \E n \in Nodes :
         /\ ClusterOf[n] = clientSet /\ Ip[n] = Ip[WorkerOf[h]] /\ nodeState[n] = "normal"
         /\ cordoned' = cordoned \cup {n}
    /\ Goto(h, "list")
    /\ UNCHANGED <<turnVars, clientSet, deploymentList, home, scaledDown, localVars, nodeVars>>

ToRestore == deploymentList \ CrashCollectors

\* The pods of deployments that are scaled up start on nodes of their cluster.
PlacedAnew(up) ==
    home' \in {f \in [Deployments -> Nodes] :
                 \A d \in Deployments : IF d \in up
                                        THEN ClusterOf[f[d]] = ClusterOf[Home[d]] /\ nodeState[f[d]] = "normal"
                                        ELSE f[d] = home[d]}

\* Each name is looked up in the cluster clientSet is for by now; a name that
\* is not found there is an error.
ScaleUp(h) ==
    /\ pc[h] = "scaleUp"
    /\ \E names \in SUBSET ToRestore :
         /\ \A name \in names : Lookup(name, clientSet) # {}
         /\ scaledDown' = scaledDown \ Found(names, clientSet)
         /\ PlacedAnew(Found(names, clientSet) \cap scaledDown)
         /\ Goto(h, IF names = ToRestore THEN "restored" ELSE "unlock")
    /\ UNCHANGED <<turnVars, clientSet, deploymentList, cordoned, localVars, nodeVars>>

\* waitForOdfDeploymentStatus finds every deployment, with a replica.
AllUp == \A name \in ToRestore : \E d \in Lookup(name, clientSet) : d \notin scaledDown

\* Fault: the list is kept after a success.
FaultyForgetList(h) ==
    /\ pc[h] = "restored" /\ AllUp
    /\ Goto(h, "storage")
    /\ UNCHANGED <<turnVars, clientSet, storageVars, localVars, nodeVars>>
\* The deployments have replicas again: deploymentList = nil.
ForgetList(h) ==
    /\ pc[h] = "restored" /\ AllUp
    /\ deploymentList' = {}
    /\ Goto(h, "storage")
    /\ UNCHANGED <<turnVars, clientSet, home, scaledDown, cordoned, localVars, nodeVars>>

\* The removal of failed OSDs and the wait for HEALTH_OK.
StorageHealthy(h) ==
    /\ pc[h] = "storage"
    /\ Goto(h, "portworx")
    /\ UNCHANGED <<turnVars, clientSet, storageVars, localVars, nodeVars>>

\* checkPortworxStatus when it is asked for; the handler has succeeded.
Succeed(h) ==
    /\ pc[h] = "portworx"
    /\ currentStatus' = [currentStatus EXCEPT ![h] = TRUE]
    /\ Goto(h, "unlock")
    /\ UNCHANGED <<turnVars, clientSet, storageVars, workersInfo, id, nodeVars>>
-----------------------------------------------------------------------------
(* Replacing the worker *)

Listed(cluster) == {n \in Nodes : ClusterOf[n] = cluster /\ nodeState[n] \notin {"absent", "deleted"}}

\* A block without storage checks leaves a worker alone that is up to date.
ListWorkers(h) ==
    /\ pc[h] = "list"
    /\ workersInfo' = [workersInfo EXCEPT ![h] = Listed(Cluster(h))]
    /\ \/ /\ Goto(h, "replace")
          /\ id' = id
       \/ /\ ~NeedsKubeConfig(h)
          /\ Goto(h, "portworx")
          /\ id' = [id EXCEPT ![h] = WorkerOf[h]]
    /\ UNCHANGED <<turnVars, clientSet, storageVars, currentStatus, nodeVars>>

\* ReplaceWokerNode: the service may accept it and the answer be an error.
Replace(h) ==
    /\ pc[h] = "replace"
    /\ nodeState[WorkerOf[h]] = "normal"
    /\ nodeState' = [nodeState EXCEPT ![WorkerOf[h]] = "deleting"]
    /\ \/ Goto(h, "delete")
       \/ Goto(h, "unlock")
    /\ UNCHANGED <<turnVars, clientSet, storageVars, localVars, heir>>

WaitForDelete(h) ==
    /\ pc[h] = "delete" /\ nodeState[WorkerOf[h]] = "deleted"
    /\ Goto(h, "create")
    /\ UNCHANGED <<turnVars, clientSet, storageVars, localVars, nodeVars>>

\* As many workers as before.
WaitForNew(h) ==
    /\ pc[h] = "create"
    /\ Cardinality(Listed(Cluster(h))) = Cardinality(workersInfo[h])
    /\ Goto(h, "find")
    /\ UNCHANGED <<turnVars, clientSet, storageVars, localVars, nodeVars>>

NewWorkers(h) == Listed(Cluster(h)) \ workersInfo[h]

\* getNewVpcWorkerID and SetId.
FindNew(h) ==
    /\ pc[h] = "find"
    /\ \E n \in NewWorkers(h) : id' = [id EXCEPT ![h] = n]
    /\ Goto(h, "update")
    /\ UNCHANGED <<turnVars, clientSet, storageVars, currentStatus, workersInfo, nodeVars>>

\* Fault: a node that is still deploying will do.
FaultyIsNormal(n) == nodeState[n] \in {"normal", "deploying"}
IsNormal(n) == nodeState[n] = "normal"

WaitForUpdate(h) ==
    /\ pc[h] = "update" /\ IsNormal(id[h])
    /\ Goto(h, IF h \in Odf THEN "scaleUp" ELSE "portworx")
    /\ UNCHANGED <<turnVars, clientSet, storageVars, localVars, nodeVars>>

\* The resource is removed from the state; the worker stays.
Destroy(h) ==
    /\ pc[h] = "returned"
    /\ id' = [id EXCEPT ![h] = None]
    /\ Goto(h, "destroyed")
    /\ UNCHANGED <<turnVars, clientSet, storageVars, currentStatus, workersInfo, nodeVars>>
-----------------------------------------------------------------------------
(* The service *)

NodeDeleted(n) ==
    /\ nodeState[n] = "deleting"
    /\ nodeState' = [nodeState EXCEPT ![n] = "deleted"]
    /\ UNCHANGED <<turnVars, clientSet, storageVars, pc, localVars, heir>>

\* A new node takes the place of one that is replaced.
NodeCreated(n, new) ==
    /\ nodeState[n] \in {"deleting", "deleted"} /\ heir[n] = None
    /\ nodeState[new] = "absent" /\ ClusterOf[new] = ClusterOf[n]
    /\ nodeState' = [nodeState EXCEPT ![new] = "deploying"]
    /\ heir' = [heir EXCEPT ![n] = new]
    /\ UNCHANGED <<turnVars, clientSet, storageVars, pc, localVars>>

NodeReady(n) ==
    /\ nodeState[n] = "deploying"
    /\ nodeState' = [nodeState EXCEPT ![n] = "normal"]
    /\ UNCHANGED <<turnVars, clientSet, storageVars, pc, localVars, heir>>

\* A worker pool of the cluster grows.
Resize(n) ==
    /\ Resizes
    /\ nodeState[n] = "absent"
    /\ nodeState' = [nodeState EXCEPT ![n] = "deploying"]
    /\ UNCHANGED <<turnVars, clientSet, storageVars, pc, localVars, heir>>
-----------------------------------------------------------------------------
Create(h) ==
    \/ Start(h) \/ StartFails(h) \/ TakeTurn(h) \/ LockCreateMutex(h) \/ Reject(h)
    \/ GetWorker(h) \/ ScaleDown(h) \/ Cordon(h) \/ ListWorkers(h) \/ Replace(h)
    \/ WaitForDelete(h) \/ WaitForNew(h) \/ FindNew(h) \/ WaitForUpdate(h)
    \/ ScaleUp(h) \/ ForgetList(h) \/ StorageHealthy(h) \/ Succeed(h)
    \/ Fail(h) \/ Unlock(h) \/ Conclude(h)

Service ==
    \/ \E n \in Nodes : NodeDeleted(n) \/ NodeReady(n) \/ Resize(n)
    \/ \E n, new \in Nodes : NodeCreated(n, new)

Next == Service \/ \E h \in Handlers : Create(h) \/ Destroy(h)

Spec == Init /\ [][Next]_vars

\* Every called handler keeps running: it polls for its turn, its requests are
\* answered or fail, and its waits end, in time or by their timeouts.
Fairness == \A h \in Handlers : WF_vars(pc[h] # "idle" /\ Create(h))
FairSpec == Spec /\ Fairness
-----------------------------------------------------------------------------
(* Properties *)

TypeOK ==
    /\ workerReplaceStatus \in BOOLEAN /\ replaceInProgress \in BOOLEAN /\ initRun \in BOOLEAN
    /\ commonVarMutex \in Handlers \cup {None} /\ createMutex \in Handlers \cup {None}
    /\ clientSet \in Clusters \cup {None}
    /\ deploymentList \subseteq Names /\ scaledDown \subseteq Deployments
    /\ home \in [Deployments -> Nodes]
    /\ cordoned \subseteq Nodes
    /\ pc \in [Handlers -> Places]
    /\ currentStatus \in [Handlers -> BOOLEAN]
    /\ workersInfo \in [Handlers -> SUBSET Nodes]
    /\ id \in [Handlers -> Nodes \cup {None}]
    /\ nodeState \in [Nodes -> {"absent", "deploying", "normal", "deleting", "deleted"}]
    /\ heir \in [Nodes -> Nodes \cup {None}]

\* A node that was replaced and whose place no working node has taken.
Down(n) ==
    /\ nodeState[n] \in {"deleting", "deleted"}
    /\ ~ (heir[n] # None /\ nodeState[heir[n]] = "normal")

\* A handler that had the turn, or was refused it, and returned an error.
Failed(h) == pc[h] \in Ended /\ ~currentStatus[h]

\* At most one worker is missing at any time, whatever fails: a replacement
\* is asked for only when the place of every earlier one has been taken.  With
\* the workers of several blocks replaced concurrently, or going on after a
\* failure, a cluster would lose its nodes one after the other.
AtMostOneDown == \A m, n \in Nodes : Down(m) /\ Down(n) => m = n

\* Handlers work in turns: two never hold it together, although the status and
\* the mutex of the turn are guarded by different mutexes.
TakeTurns == \A g, h \in Handlers : InTurn(g) /\ InTurn(h) => g = h

\* The handler that locks createMutex inside commonVarMutex never waits for it:
\* while it waited, no other handler could record its status and go on.
NeverWaitsTwice == \A h \in Handlers : pc[h] = "lock" => createMutex = None

\* Once a handler has failed, no worker is replaced any more: the handlers that
\* wait return errors, whatever is still going on.
FailureIsFinal ==
    [][\A n \in Nodes : nodeState[n] = "normal" /\ nodeState'[n] = "deleting"
                        => \A h \in Handlers : ~Failed(h)]_vars

\* A handler that succeeded names a working node: its worker, which was up to
\* date, or the node that took the worker's place.
SuccessIsTrue ==
    \A h \in Handlers : currentStatus[h] /\ pc[h] # "destroyed" =>
        /\ id[h] # None /\ nodeState[id[h]] = "normal"
        /\ id[h] \in {WorkerOf[h], heir[WorkerOf[h]]}

\* A worker whose block sets sds = "ODF" is replaced only when its storage pods
\* are gone and the node is cordoned.
DrainedFirst ==
    \A h \in Odf : nodeState[WorkerOf[h]] # "normal" =>
        /\ WorkerOf[h] \in cordoned
        /\ \A d \in Deployments : home[d] = WorkerOf[h] => d \in scaledDown

\* When no handler is at work and none failed, every deployment that was scaled
\* down for a replacement is up again, but for the crash collectors; and until a
\* handler scales deployments up, the names it will look up are of deployments
\* of its cluster that are down: the global list holds nothing of another
\* handler.
StorageRestored ==
    /\ (\A h \in Handlers : ~InTurn(h) /\ ~Failed(h)) => NamesOf(scaledDown) \subseteq CrashCollectors
    /\ \A h \in Handlers :
        pc[h] \in {"cordon", "list", "replace", "delete", "create", "find", "update", "scaleUp"}
            => \A name \in deploymentList :
                  h \in Odf /\ \E d \in Lookup(name, Cluster(h)) : d \in scaledDown

\* Every handler that was called returns, on every path and in every order of
\* turns: no one waits for a turn that is never given up.
HandlersReturn ==
    \A h \in Handlers : pc[h] \notin {"idle", "invalid"} ~> pc[h] \in Ended

\* A replacement that fails before its new node is found leaves no id, so
\* Terraform keeps no resource for it: the state loses sight of one replaced
\* worker at most, however many blocks are called.
Forgotten(h) == pc[h] = "returned" /\ nodeState[WorkerOf[h]] # "normal" /\ id[h] = None
AtMostOneForgotten == \A g, h \in Handlers : Forgotten(g) /\ Forgotten(h) => g = h
=============================================================================
