# A verification project for the IBM Cloud Terraform provider

This directory holds TLA+ models of the parts of the provider in which handlers
interact, TLC configurations that check them on small instances, and proofs,
checked by TLAPS, that some of what is checked holds for every value of the
constants.  `PROJECT.json` lists the components, the runs, the theorems, the
source lines each definition stands for, and the hazards of the code.

Contents: 1 the system, 2 the modules, 3 the runs, 4 the proofs,
5 where code and documentation disagree, 6 what is not modelled, 7 the plan.

## 1 The system

### 1.1 What the provider is

Terraform starts the provider as a plugin process and calls its handlers over
gRPC.  `main.go` serves two providers as one: the SDKv2 provider
(`ibm/provider/provider.go`, some hundreds of resources and data sources) and the
framework provider (`ibm/provider_framework/provider.go`).  Each resource is a set
of handlers (Create, Read, Update, Delete, Exists, a CustomizeDiff) over

 * the *configuration* of a block and its *Terraform state*, which Terraform hands
   to the handler and stores when the handler returns: the resource's id and its
   attributes;
 * the *remote objects* the service keeps, which change on their own (provisioning)
   and by the hands of others (another Terraform process, the console);
 * *process-wide variables* of the provider: locks, flags, clients.

Terraform walks its dependency graph and calls the handlers of blocks that do not
depend on each other concurrently, ten at a time by default.  An object whose
handler returns an error with an id set is stored (tainted after Create); without
an id nothing is stored.  The clients of the services resend requests, so a request
may take effect more than once, late, or without its answer being heard.

### 1.2 Components

State, operations and hard behaviour of the components.  The list with a status
per component, and the source files, is `components` in `PROJECT.json` (for a
package of many resources it names the package's largest resource as an example).

| component | state | operations | what is hard |
|---|---|---|---|
| plugin server, SDKv2 and framework provider | resource maps, validators behind a `sync.Once` | configure, dispatch | nothing of its own; it is why handlers run concurrently |
| `conns`: session and clients | one client per service, built once | configure, hand out | retries of the clients: late and repeated requests |
| `conns`: `MutexKV` | a mutex per key, created on demand | `Lock`, `Unlock` | keys held over waits of many minutes; conventions about keys |
| `flex`: tags | attached tags of a CRN, a lagging search index, `IC_ENV_TAGS` | attach, detach, read, wait, suppress a diff | eventual consistency, results per resource, counting instead of comparing |
| `flex`, `validate`: conversions | none | pure functions | breadth, not depth |
| context based restrictions: zones | the zone with its Etag, a lock per zone, ids of address blocks | handlers of `ibm_cbr_zone` and `ibm_cbr_zone_addresses` | several blocks own parts of one object the service only replaces as a whole |
| context based restrictions: rules | the rule | one request each | – |
| Kubernetes: worker replacement | package globals that make a turn; a worker per block; nodes of the cluster | `ibm_container_vpc_worker` | an order over all handlers, nested mutexes, failures that must stop the others |
| Kubernetes: software defined storage | `clientSet`, `deploymentList` (globals), deployments, cordons | before and after a replacement | globals set outside the turn, remainders of failures |
| Kubernetes: clusters, pools, ingress | an object each | request, wait | durations |
| VPC: parts of a load balancer | status of each part and of the load balancer, two keys in `MutexKV` | pools, members, listeners, policies, rules, security group targets | one change at a time, by concurrent handlers that wait for different things |
| VPC: load balancer | its Etag in the state | create, several patches, delete | Etag of the state used for a later patch; no lock |
| VPC: instances | status, a recovery goroutine, a channel | create, sections of an update that stop, patch and start, delete | a goroutine beside the wait, beyond the handler's return |
| VPC: bare metal servers | attachments, power, three flags that say "I stopped it" | an update of up to six sections, delete | an unsynchronised flag, failures between a stop and its start |
| VPC: other users of `MutexKV` | keys of instances, groups, VPCs, subnets | lock around requests | keys and their scopes |
| DNS services, catalog management, IAM preferences, classic networking | keys in `MutexKV` | lock around a request | the same |
| databases | tasks of an instance | several tasks in sequence, each waited for | partial failure of an update |
| Power Systems | status of an instance | stop, resize, start | failure in between |
| all other services | an object each | one request, perhaps a wait | nothing interacts |

### 1.3 How components interact

 * *Shared remote objects.*  Blocks that have nothing in common in the
   configuration write to one remote object: addresses of one zone, parts of one
   load balancer, workers of one cluster.
 * *Locks.*  A lock in the process protects blocks of one configuration from each
   other and nothing else: not from another process or the console.
 * *Waits.*  `StateChangeConf` polls a refresh function.  A state that is neither
   pending nor a target ends the wait with an error at once; a nil result ends it
   after 20 polls; a timeout ends it without undoing what was requested.
 * *The id.*  What a handler that fails leaves behind depends on whether it had set
   the id, and whether a Delete had cleared it.

### 1.4 What must be true

 * zones: every author's addresses are changed by that author only, whatever is
   late, repeated or concurrent; what was deleted stays deleted; blocks of one
   process never make each other fail; no addresses without an owner.
 * workers: one replacement at a time, none after a failure, a success only with a
   working node, storage drained before and restored after; everybody returns.
 * load balancers: a handler fails for a reason of its own, never because of
   another handler's change; a success means the change has been provisioned;
   nothing exists that the state does not name; an undisturbed apply succeeds.
 * load balancer itself: a refused request has a cause outside of the update or the
   one the code is known for; nobody else's subnets are overwritten unseen; applying
   again picks up what a partial failure left.
 * instances: a change that needs a stopped instance finds it stopped; a success
   means the instance is in the state the call asks for; a call returns without its
   timeout.
 * bare metal servers: the same, and the power state after an apply is the one before
   it unless something configured changes it.
 * tags: the resource has the configured tags and the environment's, and no others;
   plans become empty.

## 2 The modules

### 2.1 `ZoneRegisters` and `CbrZone`

`ZoneRegisters` is the abstract specification: a zone has a register for each
author of addresses (the `ibm_cbr_zone` block, whose addresses carry no id, and
each `ibm_cbr_zone_addresses` block, whose addresses carry a generated id), and a
step writes at most one register.

`CbrZone` is the detailed one.  Correspondence to the code:

| model | code |
|---|---|
| `zone[z]`: status, `etag`, `parts`, `settings` | the service's record of a zone; `parts[a]` are the addresses with id `a` |
| `mutex[p][z]` | `zoneMutexKV` of a provider process (`resource_ibm_cbr_zone.go:787`) |
| `tfstate[c]` | the id of a block: zone and, for addresses, the generated id |
| `pc`, `op`, `request` | a handler between its steps and the request it is waiting on |
| `Lock`, `GetZone`, `ZoneNotFound`, `GetZoneFails`, `ServeReplace`, `ReplaceSucceeds`, `ReplaceFails`, `GiveUp` | `resourceReplaceZoneAddresses`, `resourceIBMCbrZoneUpdate`: one action per place where the handler waits for the service or returns |
| `Merged`, `RequestFor` | `FilterAddressList`, `ResourceEncodeAddressList` and the options of the request |
| `CreateZone`, `DeleteZone`, `ReadZone`, `ReadAddresses` | handlers of a single request |
| `Resend`, `LateReplace` | the retries of the client: a request may be processed after its handler has gone on |
| `ConsoleEdit` | somebody else edits the zone |

A list of addresses is a model value, the empty one being special because a block
without addresses is gone.  `retired`, `doubtful` and `writer` are history
variables that the properties use and no action reads.

### 2.2 `VpcWorkerReplace`

The Create handlers of all `ibm_container_vpc_worker` blocks of a process.

| model | code (`resource_ibm_container_vpc_worker.go`) |
|---|---|
| `workerReplaceStatus`, `replaceInProgress`, `initRun` | the package variables of these names |
| `commonVarMutex`, `createMutex` | `commonVarMutex`, `resourceIBMContainerVpcWorkerCreateMutex` |
| `TakeTurn`, `LockCreateMutex`, `Reject` | `waitForPreviousResource`, which polls, and locks the second mutex under the first |
| `Unlock`, `Conclude` | the two deferred functions, in the reverse of their order |
| `GetWorker` ... `Succeed`, `Fail` | the body of Create between the two, one action per request or wait |
| `clientSet`, `deploymentList`, `ScaleDown`, `Cordon`, `ScaleUp`, `ForgetList` | the globals and functions of `utils/softwaredefinedstorage/odfWorkerReplace.go` |
| `nodeState`, `heir`, `NodeDeleted`, `NodeCreated`, `NodeReady`, `Resize` | the container service: a replaced worker is deleted and a new node takes its place, in any order |

The mutex `commonVarMutex` is a variable only where it is held over a step
(between `TakeTurn` and `LockCreateMutex`); sections without a blocking call inside
are one action.

`deploymentList` holds bare names (`NameOf`), as the code's does, and clusters may have
deployments of the same name: each use looks the names up (`Lookup`) in the cluster that
`clientSet` is for at that moment, whichever cluster they were scaled down in.  `ScaleUp`
scales whatever deployment it finds, and fails only at a name it does not find; `AllUp`,
the wait after it, is satisfied by any deployment of the name that is up.

### 2.3 `LoadBalancer`

The handlers of `ibm_is_lb_pool`, `ibm_is_lb_pool_member`, `ibm_is_lb_listener`,
`ibm_is_lb_listener_policy`, `ibm_is_lb_listener_policy_rule` and
`ibm_is_security_group_target` on one load balancer, during one apply.  A handler is
a *program*, a sequence of steps out of a small set; the seventeen programs are the
definitions `MemberCreate` ... `TargetDelete`, one per handler, and are where the
handlers differ.

| step | code |
|---|---|
| `lock`, `unlock` | `IbmMutexKV.Lock`; `Unlock` is deferred, in an inner function (`unlock` before the final read) or in the handler |
| `get`, `look`, `getLB` | a Get before the request; 404 ends a Delete with success; the policy's Delete ignores other errors |
| `waitLB` | `isWaitForLBAvailable` |
| `needLB` | `isWaitForLbAvailable` of policies and rules, for which a busy load balancer is an unexpected state |
| `waitPool` | `isWaitForLBPoolActive` for the pool of a member |
| `waitSelf` | the wait for the object itself, before or after a request |
| `send` | the request; Create sets the id right after it |
| `try` | the first request of a security group target: refused because the load balancer is busy, it is repeated once after a wait (`TryAgain`) |
| `waitGone` | the wait for a deletion; that of a rule gives up after 20 polls (`GiveUp`) |
| `read` | the Read at the end of Create and Update, which forgets an object that is gone |

`status` and `lb` are the `provisioning_status` of the objects and of the load
balancer; `lock` has the two keys, that of the load balancer and that of the security
group targets, which share the load balancer's id and exclude nothing of each other;
`plan` is what the apply does with each
object, chosen at the start among all plans that are consistent with the objects'
dependencies, so that every combination of operations is explored.  The service
(`Accepts`, `Take`, `Provisioned`) refuses what the waits before the requests guard
against: a change while the load balancer, the object or a member's pool is pending.

### 2.4 `LoadBalancerUpdate`

The resource `ibm_is_lb` itself, over any number of applies.

| model | code (`resource_ibm_is_lb.go`) |
|---|---|
| `lb`, `Settle` | the service's load balancer: its attributes and its status |
| `state`, `etag` | the Terraform state; whether the `version` in it is still the load balancer's |
| `PatchDns`, `PatchSubnets`, `PatchUnwaited`, `Skip` | the four patches of `lbUpdate`, in their order, each under its `HasChange`; only that of the subnets carries an If-Match, with the Etag *of the state* |
| `BeginGroups` ... `RemovesDone` | the loops over added and removed security groups |
| `Wait`, `WaitFails` | `isWaitForLBAvailable`, for which "failed" is done, too |
| `Create`, `Read`, `Delete`, `Deleted` | the other handlers; a creation that fails after the id was set is tainted, and the next apply replaces it |
| `FailUpdate` | the SDK stores the planned values when an update returns an error; the refresh of the next apply corrects them |
| `Refresh`, `Begin`, `Diff` | Terraform between the handlers |
| `Edit` | somebody else, the handlers of the load balancer's parts included: none of the requests here takes their key |

`cause` is a history variable: what the current apply has met that may have a
request refused.

### 2.5 `InstancePower`

The requests of `ibm_is_instance` that start, stop and reboot, the waits after them
and the goroutine `force_recovery_time` adds to each wait.  The sections of an update
are programs again (`Host`, `Action`, `Interface`, `SecureBoot`, `Profile`), put
together in the source's order by `Update`; Create ends with Update, whose section for
the dedicated host is entered on creation as well (`:7226`, where `&&` binds tighter
than `||`).  A goroutine of the current wait is `routine`; goroutines left behind by
earlier waits are in `left`: *told* when their channel was closed, and never told when
the wait ended otherwise.  A send of theirs blocks for ever, or panics on a closed
channel (`crashed`).  `isRestartStartAction`, the "restarter", waits for the stop it
asks for with a wait that has a stopper of its own (`:5571`), which nobody tells to end
(`NestedStopper`).  An action of the service is accepted (`asked`) before it is begun,
and an instance may hang in "starting" or "stopping", which is what
`force_recovery_time` is for.  `acted` is a history variable: a goroutine has asked the
service for an action.

### 2.6 `BareMetalUpdate`

Update and Delete of `ibm_is_bare_metal_server`, applied again until the plan is
empty.  `Program` is the handler as a list of steps, section by section; each section
keeps its own flag for "I have stopped the server" (`stopped`: that of the
initialization, that of the interfaces, and `isServerStopped`, shared by attachments and
options), and only the section's flag starts the server again.

| model | code (`resource_ibm_is_bare_metal_server.go`) |
|---|---|
| `RestartNeeded`, `CompareAttachments` | `findNetworkAttachmentDifferences`: two of three goroutines assign `serverRestartNeeded`, the last one decides |
| `StopServer`, `StopLost`, `Stopped`, `StopGivenUp` | `resourceStopServerIfRunning`, which ignores an error without a response and the result of its wait |
| `StartServer`, `ServerRuns`, `WaitFails` | `resourceStartServerIfStopped` and `isWaitForBareMetalServerAvailable` |
| `Reloaded` | `isWaitForBareMetalServerStoppedOnReload`, for which "stopped" is done, before the initialization begins as well |
| `DoAction`, `ActionDone`, `ActionGivenUp` | `isBareMetalServerStart`, `-Stop`, `-Restart`, whose errors nobody looks at |
| `Unread` | what Read does not set (user data, the action): after a failed update it counts as done |
| `cause` | history: what went wrong without ending the apply |

What the service needs a stopped server for (`NeedsStopped`) is external and follows the
documentation of the resource (website/docs/r/is_bare_metal_server.markdown).  The action is
one string attribute of the configuration (`isBareMetalServerAction`), hence `ActionAssumption`.

### 2.7 `ResourceTags`

The tags of one resource over any number of applies: `UpdateGlobalTagsUsingCRN` and the
older `UpdateTagsUsingCRN` (SDKv2) and the helpers of `flex/framework_tags.go`, with the
search index the tags are read from, which follows the truth with a delay, and with
`IC_ENV_TAGS`.  The entries of that variable are a list (`envList`), which may name a tag
twice; `env` is the set of its tags, which is what is attached.  `Suppressed` is
`ResourceTagsCustomizeDiff`, which *counts* the removed tags against the entries of the
list to decide that they are the environment's (`structures.go:3042`).  `clean` is a
history variable: the apply has read the truth, had no failed request and no company.

### 2.8 Instances for TLC

The modules `MC...` extend the modules, or the module with the proofs, and define what a
configuration file cannot write.  Definitions named `Faulty...` are used by no
specification; each states a plausible mistake in the definition that follows it, and
`mutants` in `PROJECT.json` pairs it with the property that would be violated.

## 3 The runs

| run | instance | what it shows |
|---|---|---|
| `cbr_zone` | one zone; an `ibm_cbr_zone` block and an addresses block in one process, an addresses block in a second one; 3 writes, 1 late copy | the safety properties of the zone and the refinement of `ZoneRegisters` |
| `cbr_zone_console` | one process, console edits, two settings; 2 writes | every handler returns |
| `cbr_zone_moved` | two zones | violated: `UpdateReachesZone` |
| `worker_replace` | three blocks, three workers and three successors, ODF and Portworx on one block each | at most one node down, no replacement after a failure, truthful success, one forgotten worker at most |
| `worker_storage` | two blocks of one cluster with ODF, a growing worker pool, three deployments | drained before, restored after, nothing left over for the next block; everybody returns |
| `worker_clusters` | two blocks of two clusters that share an address | violated: `DrainedFirst` |
| `lb_changes` | a pool, its member and a listener; a listener, its policy and a rule; two targets; a target beside a member; the destruction of a listener beside a member; every plan over these and every failure | causes of failures, truthful success, an owner of every change, no orphans; every handler returns, and an undisturbed apply whose handlers a key keeps apart succeeds |
| `lb_policies` | a listener, two policies, a rule; no failures | violated: `FailsOnTimeoutOnly` |
| `lb_update` | a load balancer with everything changed, or none; two security groups; 1 edit by somebody else, 1 fault | causes of refusals, truthful success, no orphans, no subnets overwritten unseen; applying again converges |
| `instance_power` | creation with and without a dedicated host, deletion, updates in every combination of sections, with and without recovery and failures; 1 hang | stopped when it must be, truthful outcomes, both up to the first action of a goroutine of the recovery and, for deletions and single changes, beyond; returns without a timeout |
| `bms_update` | every plan of up to three changes, or the deletion, of a server that runs or is stopped; 2 faults | causes of refusals and timeouts, the power state after a success; applying again converges |
| `tags` | three tags; an environment without tags, with one, with two, with one named twice; 1 change of the configuration, 1 edit, 1 fault | truthful success, vain waits have a cause, the tags converge and plans become empty |

Together the passing runs take every action and every disjunct of the next-state
relations.

### 3.1 Bounds

 * `MaxWrites` (`CbrZone`) bounds the operations and edits that write to zones.
   Three are enough for a create, a concurrent write and a delete, with late copies of
   any of them, which is what it takes to bring back deleted addresses or to undo
   another block's write.  `CreateZone` and the reads are not counted.
 * `MaxDelayed` bounds the late copies that exist at a time.  One suffices for each
   hazard: a late copy is dangerous by itself.
 * `Values` has two lists, the empty one and another: properties compare an
   author's list with what that author wrote or with empty.
 * Workers, successors and handlers are finite because blocks are: no bound is
   needed in `VpcWorkerReplace`.  Three handlers are the fewest with one that works,
   one that waits and one that failed; two clusters with one shared address suffice
   for the storage globals to be redirected.
 * `LoadBalancer` needs no bound: every handler is called at most once per apply, and
   its program is finite.  A pool, a member and a listener are the fewest objects
   with a dependency and an independent sibling; a target beside another one and beside
   a member are the two cases of its key.
 * `MaxEdits`, `MaxFaults` (`LoadBalancerUpdate`, `ResourceTags`, `BareMetalUpdate`)
   bound what others do and what fails.  One of each suffices for each cause by itself,
   since a cause is forgotten when the next apply begins; the liveness properties need
   them finite.  `BareMetalUpdate` has two faults: one that leaves the server in
   between, one that meets the next apply there.
 * `MaxPlans` (`ResourceTags`): the configuration or the environment changes once after
   the creation, from every configuration to every other.
 * `MaxHangs` (`InstancePower`): an instance that hangs once is freed by the next action
   or never.
 * Three changes at once (`BareMetalUpdate`) are those of two sections whose flags
   differ and of a third between or after them.

Bounds are parts of guards (`begun < MaxWrites`, `Cardinality(delayed) < MaxDelayed`)
and restrict no other action.  The runs of modules that end check no deadlock: an apply
ends, and then nothing need happen.  `lb_update` and `tags`, in which the user can always
apply again, do check it.

### 3.2 Symmetry

`cbr_zone` uses the symmetry of the generated ids, which are uuids and are only
compared for equality.  It checks invariants and a safety refinement; the run with a
liveness property uses none.

### 3.3 Fairness

 * `CbrZone!FairSpec`: a handler that waits for a zone's lock gets it if it is free
   again and again (`sync.Mutex` does not starve a waiter), and a handler inside
   goes on: its requests are answered or its context expires.  Nothing forces a block
   to be called, a late copy to arrive or a person to edit.
 * `VpcWorkerReplace!Fairness`: a handler that was called goes on; each of its waits
   ends in time or by its timeout, hence weak fairness of all its steps together.
   `HandlersReturn` asks nothing of the service: it holds even if nodes never come.
   That Terraform calls a handler is not assumed.  Handlers that poll for their turn
   need no strong fairness: each turn ends, and the polling handlers that are not
   chosen are tried again, of which there are finitely many.
 * `LoadBalancer!FairSpec` is weak fairness of the whole next-state relation: something
   that can happen does, be it a handler or the service.  No step can be repeated for
   ever, so nothing stronger is needed, and `Converges` and `HandlersReturn` hold of
   every order of handlers and provisioning.
 * `LoadBalancerUpdate!FairSpec`, `ResourceTags!FairSpec`, `BareMetalUpdate!FairSpec`:
   the user applies again as long as a plan shows a change, the handler goes on, the
   service settles (the index follows, an accepted action begins and ends).  These are
   the assumptions under which "apply again" is advice at all; edits, faults and changes
   of the configuration need not happen.
 * `InstancePower!Fairness`: a handler goes on; a refresh function that polls every ten
   seconds sees a state that keeps coming back before a goroutine whose ticker takes
   minutes (strong fairness of `Wait`), and likewise an instance that does not hang ends
   its transition between two ticks (`Begin`, `Progress`).  A goroutine that was told to
   end does, and one that waits to start an instance again does.  That a wait ever times
   out is not assumed, which is the point of `ReturnsUnaided`.

## 4 The proofs

TLAPS checks these modules with Z3, Zenon and LS4, from the assumptions on constants
that the modules themselves state and that TLC evaluates on every run.  Nothing else
is assumed, but for the four theorems whose hypothesis is part of their statement
(`OneDown`, `Truthful`, `Restored` and `Drained` of `VpcWorkerReplace_proofs`).

| module | obligations | assumptions on constants |
|---|---|---|
| `CbrZone_proofs`, `CbrZoneOwners_proofs` | 777, 871 | `ConstantsAssumption`: ids, blocks and addresses are told apart |
| `VpcWorkerReplace_proofs` | 1350 | `HandlersAssumption`, `NodesAssumption`, `NamesAssumption`: a block per worker, a home for each deployment, a name told apart within its cluster |
| `LoadBalancer_proofs` | 1136 | `ObjectsAssumption`, `FlagsAssumption`, `PlansAssumption`: parents are of the right kind |
| `LoadBalancerUpdate_proofs` | 826 | `WantedAssumption`, `BoundAssumption` |
| `InstancePower_proofs` | 1968 | `PlansAssumption`, `FlagsAssumption` |
| `BareMetalUpdate_proofs` | 3095 | `PlansAssumption`, `ActionAssumption`, `BoundAssumption` |
| `ResourceTags_proofs` | 222 | `KindAssumption`, `TagAssumption`, `BoundAssumption` |

Each rests on inductive invariants, whose parts are named below.  TLC agreed with each
of them on the instances of the runs; since they are proved, the runs list only the
properties a reader asks about.  The bounds of the runs (edits, faults, plans of three
changes) are no hypotheses: the theorems hold for every value of them.

### 4.1 `CbrZone_proofs` and `CbrZoneOwners_proofs`

| theorem | statement |
|---|---|
| `TypeCorrect` | `Spec => []TypeOK` |
| `Exclusion` | `Spec => []MutualExclusion` |
| `NoConflict` | `Spec => []NoConflictWithin` |
| `Refinement` | `Spec => RefinesRegisters` |
| `NoOrphans` | `Spec => []NoOrphanAddresses` |
| `Deletion` | `Spec => []DeletedStaysDeleted` |

The refinement is the heart: every step writes at most one author's register.  A
replacement writes the whole zone from what the handler read, so it must be known
that what the request carries for the other authors is still what the zone holds.
That is `Carries`: a request made from the version the zone is at carries over
everything its author does not own.  It holds for waiting requests and for delayed
copies alike, since a write moves the zone to a version from which no request has
been made (`NewVersion`); the service's check of the Etag does the rest.
`TypeOK` alone is not inductive: what a request carries as settings is read from the
zone, so `ZonesOK` (a zone that was created has settings) and `HandlersOK` (an
operation of the zone's own block carries settings) are needed.  `NoConflictWithin`
is inductive with `LockHeld`: the only writer inside the process holds the lock.

`NoOrphans` and `Deletion` are about who owns an id.  A generated id belongs to one
block and one zone until its addresses are deleted (`OwnerInv`, `UsedInv`); only a
request that was sent again may wait anywhere (`DoubtInv`).  After a deletion was
committed, nothing in a zone has the id, and whatever copy of a request of that id is
still under way was made from a version the zone has left (`QuietInv`), so the service
refuses it; a request of *another* author cannot bring the addresses back either, since
by `Carries` it holds of them what the zone holds, or is stale as well.

### 4.2 `VpcWorkerReplace_proofs`

| theorem | statement |
|---|---|
| `TypeCorrect` | `Spec => []TypeOK` |
| `Turns` | `Spec => []TakeTurns` |
| `LockNeverBlocks` | `Spec => []NeverWaitsTwice` |
| `Final` | `Spec => FailureIsFinal` |
| `OneDown` | `ASSUME ~Resizes PROVE Spec => []AtMostOneDown` |
| `Truthful` | `ASSUME ~Resizes PROVE Spec => []SuccessIsTrue` |
| `OneForgotten` | `Spec => []AtMostOneForgotten` |
| `Restored` | `ASSUME OneStorageCluster PROVE Spec => []StorageRestored` |
| `Drained` | `ASSUME DistinctNames, OneStorageCluster PROVE Spec => []DrainedFirst` |

`TurnInv` is the argument about the flags: a handler in its turn implies
`replaceInProgress`, a failed or rejected one implies that the flags admit nobody any
more (`Stopped`), which is stable because the only steps that change the flags need
a turn.  `NodeInv` ties the handlers to the nodes: a replaced node belongs to a handler
that is replacing it, has replaced it or has failed (`ReplacedInv`), and the only new
node that a handler can find between its snapshot and its search is the heir of its
worker (`SnapshotInv`).  The latter needs that nothing else adds nodes (`~Resizes`);
with a worker pool that grows at the wrong moment the handler takes an unrelated node
for the replacement and goes on, and `AtMostOneDown` and `SuccessIsTrue` fail.  The
code counts workers and compares a snapshot with a later list, so the assumption is
the code's own, and is stated instead of hidden.

`OneForgotten` needs no such assumption.  `NamesInv` says that a worker is untouched
until its handler asks for the replacement, that a handler past the search for the new
node has named one, and that at most one handler has asked for a replacement without
naming a node (`Unnamed`).  Only `Replace` can add one: the handler has the turn, so by
`TurnInv` no other is at work and none has failed, and one that succeeded names a node.

The storage theorems follow the package variable `deploymentList` from place to place
(`ListInv`).  Where no handler has the turn and none has failed it is empty and nothing
is down but crash collectors (`Clean`); between a handler's `ScaleDown` and its `ScaleUp`
it has the names of what is down of the handler's cluster and of nothing else
(`DownListed`, `Emptied`); a failure ends all turns, so a list that was not emptied meets
no other handler.  Both theorems need that the blocks with ODF or Portworx storage are of
one cluster (`OneStorageCluster`): the names are looked up in the cluster of the global
`clientSet`, which a handler sets *before* it waits for its turn.  Under the hypothesis
`clientSet` is the cluster of every handler that uses it (`ClientInv`), and pods stay in
their cluster (`HomeInv`).  Without it both are false: `Drained` as the run
`worker_clusters` shows, `Restored` with deployments of the same name in two clusters
(section 5.1).  `Drained` needs besides that in a cluster an address names one node
(`DistinctNames`), since nodes are found by their address.

### 4.3 `LoadBalancer_proofs`

| theorem | statement |
|---|---|
| `TypeCorrect` | `Spec => []TypeOK` |
| `Causes` | `Spec => []FailuresHaveACause` |
| `Truthful` | `Spec => []SuccessIsTrue` |
| `Owned` | `Spec => []BusyHasAnOwner` |
| `NoOrphans` | `Spec => []Recorded` |

What the seventeen programs have in common is one lemma (`ProgramShape`): which steps
precede which, that the lock is taken and given up once, that a request is sent
under the key (but for the creation of a pool) and never twice, and what is waited for
before and after it.  Every other proof
knows of a handler only the step it is at and the set of steps it has `Done`, so that the
theorems hold for any number of objects and every consistent plan.  `LockInv` identifies
the holder of a key with the handler between `lock` and `unlock`; `FamilyInv` orders
parents and children; `StatusInv` relates the status of an object to its own handler's
steps.  `WaitInv` is the hard part: *what a handler has waited for is still so when it
sends its request*, because whoever could make the load balancer busy in between needs
the key, or is one of the handlers that no key keeps apart (`NotKeptApart`, which is the
exception `FailuresHaveACause` states).  `BusyInv` says who made the load balancer busy
and has yet to wait for it, `CauseInv` keeps the reason of a failure after it.

### 4.4 `LoadBalancerUpdate_proofs`

| theorem | statement |
|---|---|
| `TypeCorrect` | `Spec => []TypeOK` |
| `Causes` | `Spec => []FailuresHaveACause` |
| `Truthful` | `Spec => []SuccessIsTrue` |
| `NoOrphans` | `Spec => []Recorded` |
| `NotBlind` | `Spec => NoBlindOverwrite` |

`NotBlind` is an action property: a patch of the subnets never replaces ones that
somebody else has put there since the refresh.  It follows from `VersionInv`, that a
version which is still the load balancer's belongs to the content in the state.  The
causes are `BusyInv` (where nobody has waited, a busy load balancer was met pending,
edited, being deleted or patched without a wait) and `StaleInv` (until the patch of the
subnets, the version of the refresh is current unless the patch of the dns or an edit
made it stale).  `ProgressInv` is the proof of `SuccessIsTrue`: as long as the apply is
alone, each position of the update says which attributes already have the wanted value
and which groups are still to be added or removed.

### 4.5 `InstancePower_proofs`

| theorem | statement |
|---|---|
| `TypeCorrect` | `Spec => []TypeOK` |
| `Outcome` | `Spec => []OutcomeIsTrue` |
| `Changed` | `Spec => []ChangesStopped` |

A handler is known by its place: the next step and the sections that remain after it
(`Rest(p, k)`).  `PlaceInv` says for each place what the instance may be doing, what was
asked of it and which goroutines there may be (`Quiet`, `Halting`, `Rising` and their
like), and each step leads to a place that allows what it leaves behind: this is where
one sees that each section leaves the instance as the waits of the next presume.
`Claimed(r)` restricts it to what the properties claim, and it is stated twice, because a
goroutine that one section leaves behind may act during the next.  With `r` FALSE it
does not look at the goroutines and holds for every plan without a reboot, recovery or
not, until one of them has asked for an action (`acted`); with `r` TRUE it says which
goroutines there may be as well, and holds for deletions and updates of a single
attribute for good.  The theorems except exactly the rest.  `Outcome` is about plans
without a reboot, and from the first action of a goroutine on about deletions only.
`Changed` is about plans without a reboot too, and from the first action of a goroutine
on neither about creations nor about updates of several attributes: those are the cases
in which the goroutine may start the instance between its stop and the change, and there
the properties are false of the code.  `TypeCorrect` is not for nothing: a handler
that looks at the instance decides about the step *after* the next one, so it must be
known that a look is never a program's last step (`Good`).

### 4.6 `BareMetalUpdate_proofs`

| theorem | statement |
|---|---|
| `TypeCorrect` | `Spec => []TypeOK` |
| `RefusalsAndTimeouts` | `Spec => []FailuresHaveACause` |
| `PowerAfterUpdate` | `Spec => []PowerIsKnown` |

The argument is that of 4.5 over the positions of one long program, for every set of
changes and not only the plans of up to three which the run explores.  As long as nothing has
gone wrong (`cause = {}`), `PlaceInv` says for each position what the server is doing and
which of the flags for "I have stopped the server" are set, in terms of the changes before
that position and of the state in which the apply found the server.  `WaitInv` holds
whatever has gone wrong: a wait for a running server that follows a start is not in
vain, so that only the primary interface's can be.  `ActionInv` is where
`ActionAssumption` comes in: a configuration has one action at most.

### 4.7 `ResourceTags_proofs`

| theorem | statement |
|---|---|
| `TypeCorrect` | `Spec => []TypeOK` |
| `Truthful` | `Spec => []SuccessIsTrue` |
| `TimeoutCause` | `Spec => TimesOutForACause` |

`TagInv` follows an apply that nothing disturbs through its requests: the state is what
the service has before the detaching one, what remains after it, and the configuration
with the environment's tags after the attaching one.  `BeginInv` is needed since an
update and a creation begin differently.  `TagAssumption` says that the tags are finitely
many and that an environment is a list of them; its entries are tags by `EnvTags`.

### 4.8 Model-checked only

 * Liveness: `HandlersReturn` (three modules), `Converges` (four modules),
   `Idempotent`, `ReturnsUnaided`.  Their proofs need fairness and ENABLED, which the
   provers do not have.
 * The properties that are expected to be violated (section 5): they are false, and
   `DrainedFirst` of `worker_clusters` is so without the hypothesis of `Drained` only.

Every invariant and every action property of a passing run is a theorem.

## 5 Where code and documentation disagree

Each is a run of its own that TLC is expected to find violated.

 * `cbr_zone_moved`: `zone_id` of `ibm_cbr_zone_addresses` can be changed in place,
   and the update goes to the old zone and reports success.
 * `worker_clusters`: the storage helpers are pointed at a cluster before the handler
   has its turn, so with blocks of two clusters the steps of one block go to the
   cluster of another.
 * `lb_policies`: the handler of a policy or a rule fails at once if the load balancer
   is busy, and the deletion of a rule waits for nothing at all, though both are
   documented to fail only after ten minutes without an answer.

### 5.1 Other disagreements the models show

These have no run of their own; the exception a property makes, or the hypothesis of a
theorem, names them.

 * Untainting a worker: the documentation (container_vpc_worker.html.markdown:57)
   advises to untaint a resource whose replacement failed.  One that fails before the
   new node is found has no id, so there is no resource to untaint; `AtMostOneForgotten`
   says how many workers can get lost that way.
 * Storage of two clusters: what `worker_clusters` shows of the node holds of the
   deployments too.  Let two clusters have a deployment of the same name, as any two with
   ODF do (`rook-ceph-osd-0`).  One block's handler scales its deployment down in its
   cluster, the handler of a block of the other cluster starts and redirects `clientSet`,
   and the first one's `ScaleUp` and the wait after it find the other cluster's deployment,
   which is up all along: the handler reports success, and its own deployment stays at no
   replicas.  `StorageRestored` is false then, which is why `Restored` assumes one storage
   cluster and `worker_storage` has one.
 * Tags: "The tags must not show up in the plan." (CONTRIBUTING.md:98) holds, for an SDKv2
   resource, while the environment's tags and the configured ones are disjoint *and*
   `IC_ENV_TAGS` names no tag twice, and for a framework resource while they are disjoint
   (`Counted` in `Idempotent`).  With a tag in both, an SDKv2 resource removes one tag less
   than the environment has entries and shows a change for ever (unless all of the
   environment's tags are configured), and a framework resource drops the tag from what
   it reads.  With `IC_ENV_TAGS="e,e"` one tag is removed and two entries are counted
   (`structures.go:3042`), so every plan of an SDKv2 resource shows a change.  Counting hides as many *other* tags that have to go (`Blind`).  An
   update detaches the environment's tags and attaches them again (`:2824`, `:2853`): if the
   second request fails they are lost without a plan that shows it.  `EnvTags` trims the
   tags of `IC_ENV_TAGS`, `structures.go:2807` does not.
 * `force_recovery_time` "is used to retry multiple times until timeout"
   (is_instance.html.markdown:768).  A goroutine that a wait leaves behind goes on
   after the handler has returned: the creation of an instance leaves stoppers nobody
   tells to end, which stop it every few minutes (`NestedStopper`), and the exceptions
   of `ChangesStopped` and `OutcomeIsTrue` for `acted` are what they do: once a goroutine has
   asked for an action, an update of several attributes or a creation may change an
   instance that runs, or report success of one that is about to stop.

### 5.2 Behaviour nothing documents the contrary of

 * Load balancer's parts: a member whose provisioning failed can be neither updated nor
   destroyed (the wait before the request takes "failed" for unexpected); the creation of
   a pool takes no lock and a target a key of its own, so a request beside them may be
   refused (`NotKeptApart` in `FailuresHaveACause`).
 * Load balancer: an update of dns and subnets always fails half done, because the dns
   patch makes the Etag of the state stale; the next apply completes it.  Nothing waits
   before the first request of an update, nor after the patches of the name and the
   logging, so the next request may meet a busy load balancer.  A lost answer to Create
   leaves a load balancer that Terraform does not know.
 * Instances: a creation with a dedicated host stops and starts the new instance; a
   reboot is reported done before it begins; the change of an interface of a stopped
   instance waits for it to run until the timeout (`Hopeless`); a change of the profile
   starts a stopped instance, that of secure boot does not; the request of a goroutine
   left behind may fail after its channel was closed, and then the provider panics.
 * Bare metal servers: besides the race of the comparing goroutines, a change of secure boot
   (or of the metadata service, or of the trusted platform module) together with the
   primary interface stops the server and waits for it to run until the timeout; a rename
   starts a stopped server; an action "stop" together with such a patch is undone by the
   same apply; a failed action is recorded as done; user data whose initialization failed
   are never tried again; a server that a failed apply left stopped is not started by
   the next one, which finds its flag unset.
 * ODF: the wait for the template instance that removes a failed OSD looks at the object
   its creation returned and never reads it again, so it can only end in an error.

## 6 What is not modelled

 * *Durations.*  Every wait may time out at any moment, or never; that a timeout uses
   the wrong setting (`resource_ibm_container_vpc_worker.go:688`) is invisible.
 * *Attributes.*  Names, addresses, weights and the like are not told apart, unless they
   take different paths through a handler; an Update that changes nothing of the object
   sends nothing and is no operation.
 * *The load balancer's own life* in `LoadBalancer`: it exists before and after the
   apply, and its status is never "failed" (which all waits take for available).
   `LoadBalancerUpdate` has both, and the parts as somebody else.
 * *Instances:* attributes whose update sends one request and waits for nothing; volumes,
   which wait for their attachment; Read.
 * *Bare metal servers:* creation (one request and one wait), the status "failed", the
   requests of modified attachments, and answers lost after a request was taken.
 * *Tags:* access tags and service tags (the same requests without an environment), the
   wait's duration, tags that are spelled differently and mean the same.  Blank entries of
   `IC_ENV_TAGS`: an SDKv2 plan counts them like a repeated entry, `EnvTags` trims and drops
   them, and what the service makes of a blank tag the code does not say.
 * *Storage details.*  The removal of failed OSDs and the wait for a healthy Ceph
   cluster are one step that succeeds or fails.  `ScaleDown` and `Cordon` send several
   requests and are one step each, so `clientSet` is not redirected in their middle
   (`ScaleUp` takes its client once, `odfWorkerReplace.go:128`).
 * *Other processes* are modelled for zones, where the Etag is there for them, for the
   load balancer itself and for tags, and not for workers and the parts of a load
   balancer, where the code has nothing against them.
 * *Services of single requests*, data sources, conversions and validators: see the
   notes in `PROJECT.json`.  Most of the provider is of this kind: about 1500 files in
   which a handler sends one request, perhaps waits, and reads, and shares nothing.

## 7 Plan

Done: `ZoneRegisters`, `CbrZone`, `VpcWorkerReplace`, `LoadBalancer` with the security
group targets, `LoadBalancerUpdate`, `InstancePower`, `BareMetalUpdate`,
`ResourceTags`.

### 7.1 Proofs

Every safety property that a run checks is a theorem.  What is left are statements no run
makes yet:

 1. Abstract specifications besides `ZoneRegisters`: the turns of `VpcWorkerReplace` as a
    lock that a failure breaks for good, the keys of `LoadBalancer` as mutexes; each a
    refinement that the invariants of section 4 (`TurnInv`, `LockInv`) nearly state.
 2. Action properties of `InstancePower` and `BareMetalUpdate`: which step may ask for
    an action of the service while another one is under way.

### 7.2 Models

 1. `KeyedLocks`: the other users of `MutexKV`, as one module over a table of handlers
    and keys: which handlers exclude each other, which hold two keys, in what order.
 2. `OsdRemoval`: the template instance and the secret of `odfWorkerReplace.go`.
 3. The tasks of a database update, and the resize of a Power Systems instance, which
    follow the patterns of `LoadBalancerUpdate` and `InstancePower`.
