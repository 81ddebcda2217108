---------------------- MODULE LoadBalancerUpdate_proofs ----------------------
(***************************************************************************)
(* Proofs about LoadBalancerUpdate: its invariants and that it never       *)
(* overwrites subnets blindly, for any security groups, any configurations *)
(* and any number of edits and faults.                                     *)
(***************************************************************************)
EXTENDS LoadBalancerUpdate, TLAPS

-----------------------------------------------------------------------------
(* The inductive invariant *)

\* Where the handler goes on: a wait belongs to the step after it.
Place == IF pc = "wait" THEN then ELSE pc
UpdatePoints == {"dns", "subnets", "name", "logging", "groups", "add", "remove"}
PlaceInv ==
    /\ pc = "wait" => then \in {"subnets", "name", "add", "remove", "read"}
    /\ Place \in UpdatePoints => want.there /\ state.id
    /\ Place \in {"create", "read"} => want.there

\* The requests of an update that nobody has waited before.
Unwaited == {"plan", "dns", "subnets", "name", "logging", "groups", "add", "remove", "delete"}
BusyInv ==
    pc \in Unwaited /\ Busy => cause \cap {"pending", "deleting", "edited", "unwaited"} # {}

\* Until the patch of the subnets the version of the refresh is the load
\* balancer's, or the update or somebody else has made another one.
StaleInv ==
    /\ \/ pc = "plan" /\ state.id
       \/ Place \in {"dns", "subnets"}
    /\ lb.there /\ ~etag
    => cause \cap {"edited", "dns"} # {}

\* Only a lost answer hides a load balancer from the state.
KnownInv == lb.there => state.id \/ "lost" \in cause

\* A version that is the load balancer's belongs to its content.
VersionInv == pc # "idle" /\ state.id /\ etag /\ lb.there => lb.content = state.content

\* Nobody else has been at it since the apply began.
Alone == cause \cap {"edited", "deleting"} = {}

\* A load balancer is not deleted behind the back of an update.
DeletingInv ==
    lb.status = "deleting" =>
        /\ lb.there
        /\ ~Alone \/ pc = "deleteWait" \/ (pc = "idle" /\ result = "fault")

\* What an update has patched so far.
Patched ==
    CASE Place = "dns"     -> {}
      [] Place = "subnets" -> {"dns"}
      [] Place = "name"    -> {"dns", "subnets"}
      [] Place = "logging" -> {"dns", "subnets", "name"}
      [] OTHER             -> Attributes

ProgressInv ==
    Alone =>
        /\ pc = "plan" /\ state.id => lb.there /\ lb.content = state.content
        /\ Place \in UpdatePoints \cup {"read"} =>
            /\ lb.there
            /\ \A a \in Attributes :
                lb.content.value[a] = IF a \in Patched THEN want.content.value[a] ELSE state.content.value[a]
        /\ Place \in UpdatePoints \ {"add", "remove"} => lb.content.groups = state.content.groups
        /\ Place = "add" => left \subseteq Added /\ lb.content.groups = state.content.groups \cup (Added \ left)
        /\ Place = "remove" =>
            left \subseteq Removed /\ lb.content.groups = (state.content.groups \cup Added) \ (Removed \ left)
        /\ Place = "read" => lb.content.groups = want.content.groups

IInv == /\ TypeOK /\ PlaceInv /\ BusyInv /\ StaleInv /\ KnownInv /\ VersionInv /\ DeletingInv /\ ProgressInv
        /\ FailuresHaveACause /\ SuccessIsTrue
-----------------------------------------------------------------------------
(* Types *)

\* The parts of the variables that are records.
LEMMA Parts ==
  ASSUME TypeOK
  PROVE  /\ lb.there \in BOOLEAN /\ lb.status \in {"active", "pending", "failed", "deleting"}
         /\ lb.content \in Content /\ lb.content.value \in [Attributes -> 0..2] /\ lb.content.groups \subseteq Groups
         /\ state.id \in BOOLEAN /\ state.tainted \in BOOLEAN /\ state.content \in Content
         /\ state.content.value \in [Attributes -> 0..2] /\ state.content.groups \subseteq Groups
         /\ want \in Plan /\ want.there \in BOOLEAN /\ want.content \in Content
         /\ want.content.value \in [Attributes -> 0..2] /\ want.content.groups \subseteq Groups
         /\ Absent.content \in Content
  <1>1. want \in Plan
    BY WantedAssumption DEF TypeOK
  <1>2. Absent.content \in Content
    BY DEF Absent, Content
  <1>. QED  BY <1>1, <1>2 DEF TypeOK, Content, Plan

\* Two contents with the same attributes and the same groups are the same.
LEMMA SameContent ==
  ASSUME NEW c \in Content, NEW d \in Content, c.groups = d.groups,
         \A a \in Attributes : c.value[a] = d.value[a]
  PROVE  c = d
  <1>1. c.value = d.value
    BY DEF Content
  <1>. QED  BY <1>1 DEF Content

\* What a request that is taken leaves of the load balancer.
LEMMA ChangedParts ==
  ASSUME TypeOK, NEW content \in Content, Changed(content, {"pending", lb.status})
  PROVE  /\ lb' \in [there : BOOLEAN, status : {"active", "pending", "failed", "deleting"}, content : Content]
         /\ lb'.there = lb.there /\ lb'.content = content /\ lb'.status \in {"pending", lb.status}
         /\ etag' \in BOOLEAN /\ (etag' => etag /\ content = lb.content)
  BY DEF TypeOK, Changed

\* The content with one attribute changed.
LEMMA WithParts ==
  ASSUME TypeOK, NEW a \in Attributes
  PROVE  /\ With(a) \in Content /\ With(a).groups = lb.content.groups
         /\ With(a).value[a] = want.content.value[a]
         /\ \A b \in Attributes \ {a} : With(a).value[b] = lb.content.value[b]
  <1>1. /\ lb.content \in Content /\ lb.content.value \in [Attributes -> 0..2]
        /\ want.content.value[a] \in 0..2
    BY Parts
  <1>2. With(a).value = [lb.content.value EXCEPT ![a] = want.content.value[a]]
    BY <1>1 DEF With, Content
  <1>3. With(a) \in Content
    BY <1>1 DEF With, Content
  <1>. QED  BY <1>1, <1>2, <1>3 DEF With, Content

\* The content with other groups.
LEMMA GroupParts ==
  ASSUME TypeOK, NEW groups \in SUBSET Groups
  PROVE  /\ [lb.content EXCEPT !.groups = groups] \in Content
         /\ [lb.content EXCEPT !.groups = groups].value = lb.content.value
         /\ [lb.content EXCEPT !.groups = groups].groups = groups
  BY Parts DEF Content

LEMMA InitInv == Init => IInv
  <1>. SUFFICES ASSUME Init PROVE IInv
    OBVIOUS
  <1>1. Absent.content \in Content
    BY DEF Absent, Content
  <1>2. TypeOK
    <2>1. lb \in [there : BOOLEAN, status : {"active", "pending", "failed", "deleting"}, content : Content]
      BY <1>1 DEF Init, Absent
    <2>2. state \in [id : BOOLEAN, tainted : BOOLEAN, content : Content]
      BY <1>1 DEF Init
    <2>3. /\ pc = "idle" /\ then = "idle" /\ left = {} /\ result = "none" /\ cause = {} /\ etag = FALSE
          /\ want \in Wanted /\ edits \in 0..MaxEdits /\ faults \in 0..MaxFaults
      BY BoundAssumption DEF Init
    <2>. QED  BY <2>1, <2>2, <2>3 DEF TypeOK, Points
  <1>3. ~lb.there /\ lb.status = "active" /\ pc = "idle" /\ result = "none" /\ Place = "idle" /\ ~state.id
    BY DEF Init, Absent, Place
  <1>4. PlaceInv /\ BusyInv /\ StaleInv /\ KnownInv /\ VersionInv /\ DeletingInv /\ ProgressInv
    BY <1>3 DEF PlaceInv, UpdatePoints, BusyInv, Unwaited, StaleInv, KnownInv, VersionInv, DeletingInv, ProgressInv
  <1>5. FailuresHaveACause /\ SuccessIsTrue
    BY <1>3 DEF FailuresHaveACause, SuccessIsTrue
  <1>. QED  BY <1>2, <1>4, <1>5 DEF IInv
-----------------------------------------------------------------------------
(* The steps that end an apply *)

\* A handler returns an error: it has a cause.
LEMMA FailStep ==
  ASSUME IInv, pc # "idle", NEW r \in {"busy", "stale", "fault"}, Return(r),
         lb' = lb, etag' = etag, want' = want, cause' = cause, edits' = edits, faults' \in 0..MaxFaults,
         state' = state \/ state' = [state EXCEPT !.content = want.content],
         r = "busy" => cause \cap {"pending", "deleting", "edited", "unwaited"} # {},
         r = "stale" => cause \cap {"edited", "dns"} # {},
         lb.status = "deleting" => ~Alone \/ r = "fault"
  PROVE  IInv'
  <1>. USE DEF IInv
  <1>1. pc' = "idle" /\ result' = r /\ then' = "idle" /\ left' = {} /\ Place' = "idle"
    BY DEF Return, Place
  <1>2. state' \in [id : BOOLEAN, tainted : BOOLEAN, content : Content] /\ state'.id = state.id
    BY Parts DEF TypeOK
  <1>3. TypeOK'
    BY <1>1, <1>2 DEF TypeOK, Points
  <1>4. PlaceInv' /\ BusyInv' /\ StaleInv' /\ VersionInv' /\ ProgressInv'
    BY <1>1 DEF PlaceInv, UpdatePoints, BusyInv, Unwaited, StaleInv, VersionInv, ProgressInv
  <1>5. KnownInv' /\ DeletingInv'
    BY <1>1, <1>2 DEF KnownInv, DeletingInv, Alone
  <1>6. FailuresHaveACause' /\ SuccessIsTrue'
    BY <1>1 DEF FailuresHaveACause, SuccessIsTrue
  <1>. QED  BY <1>3, <1>4, <1>5, <1>6

LEMMA Failures ==
  ASSUME IInv,
         \/ \E a \in Attributes : PatchBusy(a) \/ PatchAbsent(a) \/ PatchFails(a)
         \/ SubnetsStale \/ GroupBusy \/ GroupFails \/ WaitFails
         \/ CreateRefused \/ DeleteBusy \/ DeleteFails
  PROVE  IInv'
  <1>. USE DEF IInv
  <1>1. faults \in 0..MaxFaults /\ (Fault => faults' \in 0..MaxFaults)
    BY BoundAssumption DEF TypeOK, Fault
  <1>2. ASSUME NEW a \in Attributes, PatchBusy(a) PROVE IInv'
    <2>1. pc \in Unwaited /\ pc # "idle" /\ Busy /\ Refused("busy")
      BY <1>2 DEF PatchBusy, Attributes, Unwaited
    <2>2. lb.status = "deleting" => ~Alone
      BY <2>1 DEF DeletingInv, Unwaited
    <2>. QED  BY <1>1, <2>1, <2>2, FailStep DEF Refused, FailUpdate, BusyInv
  <1>3. ASSUME NEW a \in Attributes, PatchAbsent(a) \/ PatchFails(a) PROVE IInv'
    <2>1. pc # "idle" /\ FailUpdate("fault") /\ faults' \in 0..MaxFaults
      BY <1>1, <1>3 DEF PatchAbsent, PatchFails, Refused, Attributes
    <2>. QED  BY <2>1, FailStep DEF FailUpdate
  <1>4. CASE SubnetsStale
    <2>1. pc = "subnets" /\ FailUpdate("stale") /\ lb.there /\ ~etag /\ faults' = faults
      BY <1>4 DEF SubnetsStale, Refused
    <2>2. cause \cap {"edited", "dns"} # {}
      BY <2>1 DEF StaleInv, Place
    <2>3. lb.status = "deleting" => ~Alone
      BY <2>1 DEF DeletingInv
    <2>. QED  BY <1>1, <2>1, <2>2, <2>3, FailStep DEF FailUpdate
  <1>5. CASE GroupBusy
    <2>1. pc \in Unwaited /\ pc # "idle" /\ Busy /\ Refused("busy")
      BY <1>5 DEF GroupBusy, Unwaited
    <2>2. lb.status = "deleting" => ~Alone
      BY <2>1 DEF DeletingInv, Unwaited
    <2>. QED  BY <1>1, <2>1, <2>2, FailStep DEF Refused, FailUpdate, BusyInv
  <1>6. CASE GroupFails \/ WaitFails
    <2>1. pc # "idle" /\ FailUpdate("fault") /\ faults' \in 0..MaxFaults
      BY <1>1, <1>6 DEF GroupFails, WaitFails
    <2>. QED  BY <2>1, FailStep DEF FailUpdate
  <1>7. CASE CreateRefused \/ DeleteFails
    <2>1. pc # "idle" /\ Return("fault") /\ faults' \in 0..MaxFaults
      BY <1>1, <1>7 DEF CreateRefused, DeleteFails
    <2>. QED  BY <1>7, <2>1, FailStep DEF CreateRefused, DeleteFails
  <1>8. CASE DeleteBusy
    <2>1. pc = "delete" /\ Busy /\ Return("busy") /\ cause \cap {"pending", "deleting", "edited", "unwaited"} # {}
      BY <1>8 DEF DeleteBusy, BusyInv, Unwaited
    <2>2. lb.status = "deleting" => ~Alone
      BY <2>1 DEF DeletingInv
    <2>. QED  BY <1>1, <1>8, <2>1, <2>2, FailStep DEF DeleteBusy
  <1>. QED  BY <1>2, <1>3, <1>4, <1>5, <1>6, <1>7, <1>8
-----------------------------------------------------------------------------
(* The steps of a handler on its own *)

\* A handler goes on without a request.
LEMMA MoveStep ==
  ASSUME IInv, pc # "idle", pc' # "idle", pc' # "deleteWait",
         lb' = lb, state' = state, etag' = etag, want' = want, cause' = cause, result' = result,
         edits' = edits, faults' = faults,
         pc' \in Points, then' \in Points, left' \subseteq Groups,
         PlaceInv', BusyInv', StaleInv', ProgressInv', lb.status = "deleting" => ~Alone
  PROVE  IInv'
  <1>. USE DEF IInv
  <1>1. TypeOK'
    BY DEF TypeOK
  <1>2. KnownInv' /\ VersionInv' /\ DeletingInv'
    BY DEF KnownInv, VersionInv, DeletingInv, Alone
  <1>3. FailuresHaveACause' /\ SuccessIsTrue'
    BY DEF FailuresHaveACause, SuccessIsTrue
  <1>. QED  BY <1>1, <1>2, <1>3

LEMMA SkipStep ==
  ASSUME IInv, NEW a \in Attributes, Skip(a)
  PROVE  IInv'
  <1>. USE DEF IInv
  <1>1. /\ pc = a /\ pc' = Following[a] /\ then' = then /\ left' = left /\ result' = result
        /\ lb' = lb /\ state' = state /\ etag' = etag /\ want' = want /\ cause' = cause
        /\ edits' = edits /\ faults' = faults
        /\ state.content.value[a] = want.content.value[a]
    BY DEF Skip, Goto, HasChange
  <1>2. /\ pc' = CASE a = "dns" -> "subnets" [] a = "subnets" -> "name"
                   [] a = "name" -> "logging" [] a = "logging" -> "groups"
        /\ pc' \in {"subnets", "name", "logging", "groups"}
    BY <1>1 DEF Following, Attributes
  <1>3. Place = a /\ Place' = pc' /\ a \in UpdatePoints \ {"add", "remove"} /\ Place' \in UpdatePoints \ {"add", "remove"}
    BY <1>1, <1>2 DEF Place, Attributes, UpdatePoints
  <1>4. PlaceInv' /\ BusyInv'
    BY <1>1, <1>2, <1>3 DEF PlaceInv, BusyInv, Unwaited, Busy, Attributes
  <1>5. StaleInv'
    BY <1>1, <1>2, <1>3 DEF StaleInv, Attributes
  <1>6. ProgressInv'
    <2>1. \A b \in Attributes : b \in Patched' => b \in Patched \/ b = a
      BY <1>2, <1>3 DEF Patched, Attributes
    <2>2. \A b \in Attributes : b \in Patched => b \in Patched'
      BY <1>2, <1>3 DEF Patched, Attributes
    <2>. QED  BY <1>1, <1>2, <1>3, <2>1, <2>2 DEF ProgressInv, Alone
  <1>7. lb.status = "deleting" => ~Alone
    BY <1>1 DEF DeletingInv, Attributes
  <1>8. pc' \in Points /\ then' \in Points /\ left' \subseteq Groups
    BY <1>1, <1>2 DEF TypeOK, Points, Sections
  <1>. QED  BY <1>1, <1>2, <1>4, <1>5, <1>6, <1>7, <1>8, MoveStep DEF Attributes

\* The steps between the patches and the two loops over the security groups.
LEMMA LoopStep ==
  ASSUME IInv, BeginGroups \/ AddsDone \/ RemovesDone \/ \E g \in Groups : RemoveGone(g)
  PROVE  IInv'
  <1>. USE DEF IInv
  <1>1. /\ pc \in {"groups", "add", "remove"} /\ then' = then /\ result' = result
        /\ lb' = lb /\ state' = state /\ etag' = etag /\ want' = want /\ cause' = cause
        /\ edits' = edits /\ faults' = faults
        /\ pc' \in {"add", "remove", "read"} /\ left' \subseteq Groups
    BY Parts DEF BeginGroups, AddsDone, RemovesDone, RemoveGone, Goto, TypeOK, Added, Removed
  <1>2. Place = pc /\ Place' = pc' /\ want.there
    BY <1>1 DEF Place, PlaceInv, UpdatePoints
  <1>3. lb.status = "deleting" => ~Alone
    BY <1>1 DEF DeletingInv
  <1>4. PlaceInv' /\ BusyInv' /\ StaleInv'
    BY <1>1, <1>2 DEF PlaceInv, UpdatePoints, BusyInv, Unwaited, Busy, StaleInv
  <1>5. Patched = Attributes /\ Patched' = Attributes
    BY <1>1, <1>2 DEF Patched
  <1>6. Added' = Added /\ Removed' = Removed /\ Alone' = Alone
    BY <1>1 DEF Added, Removed, Alone
  <1>7. ProgressInv'
    <2>1. CASE BeginGroups
      BY <1>1, <1>2, <1>5, <1>6, <2>1 DEF BeginGroups, ProgressInv, UpdatePoints
    <2>2. CASE AddsDone
      BY <1>1, <1>2, <1>5, <1>6, <2>2 DEF AddsDone, ProgressInv, UpdatePoints
    <2>3. CASE RemovesDone
      <3>1. (state.content.groups \cup Added) \ Removed = want.content.groups
        BY DEF Added, Removed
      <3>. QED  BY <1>1, <1>2, <1>5, <1>6, <2>3, <3>1 DEF RemovesDone, Goto, ProgressInv, UpdatePoints
    <2>4. ASSUME NEW g \in Groups, RemoveGone(g) PROVE ProgressInv'
      <3>1. pc = "remove" /\ pc' = "remove" /\ g \in left /\ ~(lb.there /\ g \in lb.content.groups)
        BY <2>4 DEF RemoveGone
      <3>2. ~Alone
        BY <1>2, <3>1 DEF ProgressInv, UpdatePoints, Added, Removed
      <3>. QED  BY <1>6, <3>2 DEF ProgressInv
    <2>. QED  BY <2>1, <2>2, <2>3, <2>4
  <1>8. pc' \in Points /\ then' \in Points
    BY <1>1 DEF TypeOK, Points
  <1>. QED  BY <1>1, <1>3, <1>4, <1>7, <1>8, MoveStep

\* After a wait nobody keeps the load balancer busy.
LEMMA WaitStep ==
  ASSUME IInv, Wait
  PROVE  IInv'
  <1>. USE DEF IInv
  <1>1. /\ pc = "wait" /\ pc' = then /\ then' = then /\ left' = left /\ result' = result
        /\ lb' = lb /\ state' = state /\ etag' = etag /\ want' = want /\ cause' = cause
        /\ edits' = edits /\ faults' = faults /\ lb.status \in {"active", "failed"}
    BY DEF Wait, Goto, Settled
  <1>2. then \in {"subnets", "name", "add", "remove", "read"} /\ Place' = Place /\ Place = then
    BY <1>1 DEF PlaceInv, Place
  <1>3. PlaceInv' /\ BusyInv' /\ StaleInv'
    BY <1>1, <1>2 DEF PlaceInv, UpdatePoints, BusyInv, Busy, StaleInv
  <1>4. ProgressInv'
    BY <1>1, <1>2 DEF ProgressInv, Patched, Alone, Added, Removed
  <1>5. pc' \in Points /\ then' \in Points /\ left' \subseteq Groups
    BY <1>1, <1>2 DEF TypeOK
  <1>. QED  BY <1>1, <1>2, <1>3, <1>4, <1>5, MoveStep
-----------------------------------------------------------------------------
(* The requests of an update *)

\* A request that is taken: a new version, unless nothing has changed.
LEMMA RequestStep ==
  ASSUME IInv, pc \in UpdatePoints, lb.there, ~Busy, NEW content \in Content, Changed(content, {"pending", lb.status}),
         state' = state, want' = want, result' = result, edits' = edits, faults' = faults,
         cause \subseteq cause', cause' \subseteq cause \cup {"dns", "unwaited"},
         pc' \in Points \ {"idle"}, then' \in Points, left' \subseteq Groups,
         PlaceInv', BusyInv', StaleInv', ProgressInv'
  PROVE  IInv'
  <1>. USE DEF IInv
  <1>1. /\ lb' \in [there : BOOLEAN, status : {"active", "pending", "failed", "deleting"}, content : Content]
        /\ lb'.there = lb.there /\ lb'.content = content /\ lb'.status \in {"pending", lb.status}
        /\ etag' \in BOOLEAN /\ (etag' => etag /\ content = lb.content)
    BY ChangedParts
  <1>2. TypeOK'
    BY <1>1 DEF TypeOK
  <1>3. lb'.status # "deleting" /\ pc # "idle" /\ cause \subseteq cause'
    BY <1>1 DEF Busy, UpdatePoints
  <1>4. KnownInv' /\ VersionInv' /\ DeletingInv'
    BY <1>1, <1>3 DEF KnownInv, VersionInv, DeletingInv
  <1>5. FailuresHaveACause' /\ SuccessIsTrue'
    BY <1>3 DEF FailuresHaveACause, SuccessIsTrue
  <1>. QED  BY <1>2, <1>4, <1>5

LEMMA DnsStep ==
  ASSUME IInv, PatchDns
  PROVE  IInv'
  <1>. USE DEF IInv
  <1>1. /\ pc = "dns" /\ lb.there /\ ~Busy /\ Changed(With("dns"), {"pending", lb.status})
        /\ pc' = "wait" /\ then' = "subnets" /\ result' = result /\ left' = left
        /\ cause' = cause \cup {"dns"} /\ state' = state /\ want' = want /\ edits' = edits /\ faults' = faults
    BY DEF PatchDns, WaitThen
  <1>2. /\ With("dns") \in Content /\ With("dns").groups = lb.content.groups
        /\ With("dns").value["dns"] = want.content.value["dns"]
        /\ \A b \in Attributes \ {"dns"} : With("dns").value[b] = lb.content.value[b]
    BY WithParts DEF Attributes
  <1>3. lb'.there = lb.there /\ lb'.content = With("dns")
    BY <1>1, <1>2, ChangedParts
  <1>4. Place = "dns" /\ Place' = "subnets"
    BY <1>1 DEF Place
  <1>5. PlaceInv' /\ BusyInv' /\ StaleInv'
    BY <1>1, <1>4 DEF PlaceInv, UpdatePoints, BusyInv, Unwaited, StaleInv
  <1>6. ProgressInv'
    <2>1. Patched = {} /\ Patched' = {"dns"} /\ Alone' = Alone
      BY <1>1, <1>4 DEF Patched, Alone
    <2>. QED  BY <1>1, <1>2, <1>3, <1>4, <2>1 DEF ProgressInv, UpdatePoints
  <1>. QED  BY <1>1, <1>2, <1>5, <1>6, RequestStep DEF UpdatePoints, Points, Sections, TypeOK

LEMMA SubnetsStep ==
  ASSUME IInv, PatchSubnets
  PROVE  IInv'
  <1>. USE DEF IInv
  <1>1. /\ pc = "subnets" /\ lb.there /\ ~Busy /\ Changed(With("subnets"), {"pending", lb.status})
        /\ pc' = "wait" /\ then' = "name" /\ result' = result /\ left' = left
        /\ cause' = cause /\ state' = state /\ want' = want /\ edits' = edits /\ faults' = faults
    BY DEF PatchSubnets, WaitThen
  <1>2. /\ With("subnets") \in Content /\ With("subnets").groups = lb.content.groups
        /\ With("subnets").value["subnets"] = want.content.value["subnets"]
        /\ \A b \in Attributes \ {"subnets"} : With("subnets").value[b] = lb.content.value[b]
    BY WithParts DEF Attributes
  <1>3. lb'.there = lb.there /\ lb'.content = With("subnets")
    BY <1>1, <1>2, ChangedParts
  <1>4. Place = "subnets" /\ Place' = "name"
    BY <1>1 DEF Place
  <1>5. PlaceInv' /\ BusyInv' /\ StaleInv'
    BY <1>1, <1>4 DEF PlaceInv, UpdatePoints, BusyInv, Unwaited, StaleInv
  <1>6. ProgressInv'
    <2>1. Patched = {"dns"} /\ Patched' = {"dns", "subnets"} /\ Alone' = Alone
      BY <1>1, <1>4 DEF Patched, Alone
    <2>. QED  BY <1>1, <1>2, <1>3, <1>4, <2>1 DEF ProgressInv, UpdatePoints
  <1>. QED  BY <1>1, <1>2, <1>5, <1>6, RequestStep DEF UpdatePoints, Points, Sections, TypeOK

LEMMA UnwaitedStep ==
  ASSUME IInv, NEW a \in {"name", "logging"}, PatchUnwaited(a)
  PROVE  IInv'
  <1>. USE DEF IInv
  <1>1. /\ pc = a /\ lb.there /\ ~Busy /\ Changed(With(a), {"pending", lb.status})
        /\ pc' = (IF a = "name" THEN "logging" ELSE "groups")
        /\ then' = then /\ result' = result /\ left' = left
        /\ cause' = cause \cup {"unwaited"} /\ state' = state /\ want' = want /\ edits' = edits /\ faults' = faults
    BY DEF PatchUnwaited, Goto, Following
  <1>2. /\ With(a) \in Content /\ With(a).groups = lb.content.groups
        /\ With(a).value[a] = want.content.value[a]
        /\ \A b \in Attributes \ {a} : With(a).value[b] = lb.content.value[b]
    BY WithParts DEF Attributes
  <1>3. lb'.there = lb.there /\ lb'.content = With(a)
    BY <1>1, <1>2, ChangedParts
  <1>4. Place = a /\ Place' = pc' /\ pc' \in {"logging", "groups"}
    BY <1>1 DEF Place
  <1>5. PlaceInv' /\ BusyInv' /\ StaleInv'
    BY <1>1, <1>4 DEF PlaceInv, UpdatePoints, BusyInv, Unwaited, StaleInv
  <1>6. ProgressInv'
    <2>1. Patched' = Patched \cup {a} /\ Alone' = Alone
      BY <1>1, <1>4 DEF Patched, Alone, Attributes
    <2>. QED  BY <1>1, <1>2, <1>3, <1>4, <2>1 DEF ProgressInv, UpdatePoints
  <1>. QED  BY <1>1, <1>2, <1>5, <1>6, RequestStep DEF UpdatePoints, Points, Sections, TypeOK

LEMMA GroupStep ==
  ASSUME IInv, NEW g \in Groups, Add(g) \/ Remove(g)
  PROVE  IInv'
  <1>. USE DEF IInv
  <1>0. PICK groups \in SUBSET Groups :
            /\ Changed([lb.content EXCEPT !.groups = groups], {"pending", lb.status})
            /\ pc = "add" => groups = lb.content.groups \cup {g}
            /\ pc = "remove" => groups = lb.content.groups \ {g}
    <2>1. lb.content.groups \cup {g} \in SUBSET Groups /\ lb.content.groups \ {g} \in SUBSET Groups
      BY Parts
    <2>2. CASE Add(g)
      BY <2>1, <2>2 DEF Add
    <2>3. CASE Remove(g)
      BY <2>1, <2>3 DEF Remove
    <2>. QED  BY <2>2, <2>3
  <1>1. /\ pc \in {"add", "remove"} /\ lb.there /\ ~Busy /\ g \in left
        /\ pc' = "wait" /\ then' = pc /\ result' = result /\ left' = left \ {g}
        /\ cause' = cause /\ state' = state /\ want' = want /\ edits' = edits /\ faults' = faults
    BY DEF Add, Remove, WaitThen
  <1>. DEFINE content == [lb.content EXCEPT !.groups = groups]
  <1>2. content \in Content /\ content.value = lb.content.value /\ content.groups = groups
    BY GroupParts
  <1>3. lb'.there = lb.there /\ lb'.content.value = lb.content.value /\ lb'.content.groups = groups
    BY <1>0, <1>2, ChangedParts
  <1>4. Place = pc /\ Place' = pc
    BY <1>1 DEF Place
  <1>5. PlaceInv' /\ BusyInv' /\ StaleInv'
    BY <1>1, <1>4 DEF PlaceInv, UpdatePoints, BusyInv, Unwaited, StaleInv
  <1>6. ProgressInv'
    <2>1. Patched' = Patched /\ Alone' = Alone /\ Added' = Added /\ Removed' = Removed
      BY <1>1, <1>4 DEF Patched, Alone, Added, Removed
    <2>2. CASE pc = "add"
      BY <1>0, <1>1, <1>3, <1>4, <2>1, <2>2 DEF ProgressInv, UpdatePoints
    <2>3. CASE pc = "remove"
      <3>1. Alone => \A x : x \in groups <=> x \in (state.content.groups \cup Added) \ (Removed \ left')
        BY <1>0, <1>1, <1>4, <2>3 DEF ProgressInv, UpdatePoints, Added, Removed
      <3>2. Alone => groups = (state.content.groups \cup Added) \ (Removed \ left')
        BY <3>1
      <3>. QED  BY <1>1, <1>3, <1>4, <2>1, <2>3, <3>2 DEF ProgressInv, UpdatePoints
    <2>. QED  BY <1>1, <2>2, <2>3
  <1>7. pc \in UpdatePoints /\ pc' \in Points \ {"idle"} /\ then' \in Points /\ left' \subseteq Groups
    BY <1>1 DEF UpdatePoints, Points, TypeOK
  <1>. HIDE DEF content
  <1>. QED  BY <1>0, <1>1, <1>2, <1>5, <1>6, <1>7, RequestStep DEF content
-----------------------------------------------------------------------------
(* Beginning, creation, the final read and deletion *)

LEMMA StartStep ==
  ASSUME IInv, Refresh \/ Begin
  PROVE  IInv'
  <1>. USE DEF IInv
  <1>1. /\ pc' = "plan" /\ result' = "none" /\ want' \in Wanted /\ lb' = lb /\ then' = then /\ left' = left
        /\ edits' = edits /\ faults' = faults
        /\ cause' = (cause \cap {"lost"}) \cup (IF Busy THEN {lb.status} ELSE {})
    BY DEF Refresh, Begin, Start
  <1>2. /\ state' \in [id : BOOLEAN, tainted : BOOLEAN, content : Content] /\ etag' \in BOOLEAN
        /\ state'.id = (state.id /\ lb.there)
        /\ state'.id => etag' /\ state'.content = lb.content
    BY Parts DEF Refresh, Begin, Get, TypeOK
  <1>3. TypeOK'
    BY <1>1, <1>2 DEF TypeOK, Busy, Points
  <1>4. Place' = "plan"
    BY <1>1 DEF Place
  <1>5. PlaceInv' /\ BusyInv' /\ StaleInv'
    BY <1>1, <1>2, <1>4 DEF PlaceInv, UpdatePoints, BusyInv, Busy, StaleInv
  <1>6. KnownInv' /\ VersionInv' /\ DeletingInv'
    BY <1>1, <1>2 DEF KnownInv, VersionInv, DeletingInv, Busy, Alone
  <1>7. ProgressInv'
    BY <1>1, <1>2, <1>4 DEF ProgressInv, UpdatePoints
  <1>8. FailuresHaveACause' /\ SuccessIsTrue'
    BY <1>1 DEF FailuresHaveACause, SuccessIsTrue
  <1>. QED  BY <1>3, <1>5, <1>6, <1>7, <1>8

LEMMA DiffStep ==
  ASSUME IInv, Diff
  PROVE  IInv'
  <1>. USE DEF IInv
  <1>1. /\ pc = "plan" /\ lb' = lb /\ state' = state /\ etag' = etag /\ want' = want /\ cause' = cause
        /\ edits' = edits /\ faults' = faults
    BY DEF Diff
  <1>2. lb.status = "deleting" => ~Alone
    BY <1>1 DEF DeletingInv
  <1>3. CASE Return("ok")
    <2>1. pc' = "idle" /\ result' = "ok" /\ then' = "idle" /\ left' = {} /\ Place' = "idle"
      BY <1>3 DEF Return, Place
    <2>2. want.there => state.id /\ state.content = want.content
      BY <1>3 DEF Diff, Return, Goto
    <2>3. ~want.there => ~state.id
      BY <1>3 DEF Diff, Return, Goto
    <2>4. TypeOK'
      BY <1>1, <2>1 DEF TypeOK, Points
    <2>5. PlaceInv' /\ BusyInv' /\ StaleInv' /\ VersionInv' /\ ProgressInv'
      BY <2>1 DEF PlaceInv, UpdatePoints, BusyInv, Unwaited, StaleInv, VersionInv, ProgressInv
    <2>6. KnownInv' /\ DeletingInv'
      BY <1>1, <1>2 DEF KnownInv, DeletingInv, Alone
    <2>7. SuccessIsTrue'
      BY <1>1, <2>2, <2>3, Parts DEF SuccessIsTrue, ProgressInv, KnownInv, Alone
    <2>8. FailuresHaveACause'
      BY <2>1 DEF FailuresHaveACause
    <2>. QED  BY <2>4, <2>5, <2>6, <2>7, <2>8
  <1>4. CASE ~Return("ok")
    <2>1. /\ pc' \in {"create", "delete", "dns"} /\ then' = then /\ left' = left /\ result' = result
          /\ pc' = "create" => want.there
          /\ pc' = "dns" => want.there /\ state.id
      BY <1>4 DEF Diff, Goto
    <2>2. Place = "plan" /\ Place' = pc'
      BY <1>1, <2>1 DEF Place
    <2>3. PlaceInv' /\ BusyInv' /\ StaleInv'
      BY <1>1, <2>1, <2>2 DEF PlaceInv, UpdatePoints, BusyInv, Unwaited, Busy, StaleInv
    <2>4. ProgressInv'
      BY <1>1, <2>1, <2>2 DEF ProgressInv, Patched, UpdatePoints, Alone
    <2>5. pc' \in Points /\ then' \in Points /\ left' \subseteq Groups
      BY <2>1 DEF TypeOK, Points, Sections
    <2>. QED  BY <1>1, <1>2, <2>1, <2>3, <2>4, <2>5, MoveStep
  <1>. QED  BY <1>3, <1>4

LEMMA CreateStep ==
  ASSUME IInv, Create
  PROVE  IInv'
  <1>. USE DEF IInv
  <1>1. /\ pc = "create" /\ lb' = Made /\ etag' = FALSE /\ pc' = "wait" /\ then' = "read" /\ result' = result
        /\ state' = [id |-> TRUE, tainted |-> TRUE, content |-> want.content]
        /\ want' = want /\ left' = left /\ cause' = cause /\ edits' = edits /\ faults' = faults
    BY DEF Create, WaitThen
  <1>2. lb' \in [there : BOOLEAN, status : {"active", "pending", "failed", "deleting"}, content : Content]
    BY <1>1, Parts DEF Made
  <1>3. state' \in [id : BOOLEAN, tainted : BOOLEAN, content : Content]
    BY <1>1, Parts
  <1>4. lb'.there /\ lb'.status = "pending" /\ lb'.content = want.content
    BY <1>1 DEF Made
  <1>5. TypeOK'
    BY <1>1, <1>2, <1>3 DEF TypeOK, Points
  <1>6. Place' = "read" /\ want.there
    BY <1>1 DEF Place, PlaceInv
  <1>7. PlaceInv' /\ BusyInv' /\ StaleInv'
    BY <1>1, <1>6 DEF PlaceInv, UpdatePoints, BusyInv, Unwaited, StaleInv
  <1>8. KnownInv' /\ VersionInv' /\ DeletingInv'
    BY <1>1, <1>4 DEF KnownInv, VersionInv, DeletingInv
  <1>9. ProgressInv'
    BY <1>1, <1>4, <1>6 DEF ProgressInv, UpdatePoints, Patched
  <1>10. FailuresHaveACause' /\ SuccessIsTrue'
    BY <1>1 DEF FailuresHaveACause, SuccessIsTrue
  <1>. QED  BY <1>5, <1>7, <1>8, <1>9, <1>10

LEMMA CreateLostStep ==
  ASSUME IInv, CreateLost
  PROVE  IInv'
  <1>. USE DEF IInv
  <1>1. /\ lb' = Made /\ pc' = "idle" /\ result' = "fault" /\ then' = "idle" /\ left' = {}
        /\ cause' = cause \cup {"lost"} /\ faults' \in 0..MaxFaults
        /\ state' = state /\ etag' = etag /\ want' = want /\ edits' = edits
    BY BoundAssumption DEF CreateLost, Return, Fault, TypeOK
  <1>2. lb' \in [there : BOOLEAN, status : {"active", "pending", "failed", "deleting"}, content : Content]
    BY <1>1, Parts DEF Made
  <1>3. TypeOK'
    BY <1>1, <1>2 DEF TypeOK, Points
  <1>4. Place' = "idle" /\ lb'.status = "pending"
    BY <1>1 DEF Place, Made
  <1>5. PlaceInv' /\ BusyInv' /\ StaleInv' /\ VersionInv' /\ ProgressInv' /\ KnownInv' /\ DeletingInv'
    BY <1>1, <1>4
    DEF PlaceInv, UpdatePoints, BusyInv, Unwaited, StaleInv, VersionInv, ProgressInv, KnownInv, DeletingInv
  <1>6. FailuresHaveACause' /\ SuccessIsTrue'
    BY <1>1 DEF FailuresHaveACause, SuccessIsTrue
  <1>. QED  BY <1>3, <1>5, <1>6

LEMMA ReadStep ==
  ASSUME IInv, Read
  PROVE  IInv'
  <1>. USE DEF IInv
  <1>1. /\ pc = "read" /\ pc' = "idle" /\ result' = "ok" /\ then' = "idle" /\ left' = {} /\ etag' = lb.there
        /\ state' = [id |-> lb.there, tainted |-> FALSE,
                     content |-> IF lb.there THEN lb.content ELSE state.content]
        /\ lb' = lb /\ want' = want /\ cause' = cause /\ edits' = edits /\ faults' = faults
    BY DEF Read, Return
  <1>2. state' \in [id : BOOLEAN, tainted : BOOLEAN, content : Content] /\ state'.id = lb.there
    BY <1>1, Parts
  <1>3. TypeOK'
    BY <1>1, <1>2, Parts DEF TypeOK, Points
  <1>4. Place = "read" /\ Place' = "idle" /\ want.there
    BY <1>1 DEF Place, PlaceInv
  <1>5. PlaceInv' /\ BusyInv' /\ StaleInv' /\ VersionInv' /\ ProgressInv' /\ KnownInv'
    BY <1>1, <1>2, <1>4 DEF PlaceInv, UpdatePoints, BusyInv, Unwaited, StaleInv, VersionInv, ProgressInv, KnownInv
  <1>6. DeletingInv'
    BY <1>1 DEF DeletingInv, Alone
  <1>7. Alone => lb.there /\ lb.content = want.content
    <2>1. SUFFICES ASSUME Alone PROVE lb.there /\ lb.content = want.content
      OBVIOUS
    <2>2. /\ lb.there /\ lb.content.groups = want.content.groups
          /\ \A a \in Attributes : lb.content.value[a] = want.content.value[a]
      BY <1>4, <2>1 DEF ProgressInv, Patched
    <2>. QED  BY <2>2, SameContent, Parts
  <1>8. SuccessIsTrue'
    BY <1>1, <1>4, <1>7 DEF SuccessIsTrue, Alone
  <1>9. FailuresHaveACause'
    BY <1>1 DEF FailuresHaveACause
  <1>. QED  BY <1>3, <1>5, <1>6, <1>8, <1>9

LEMMA DeleteStep ==
  ASSUME IInv, Delete
  PROVE  IInv'
  <1>. USE DEF IInv
  <1>1. /\ pc = "delete" /\ lb.there /\ lb' = [lb EXCEPT !.status = "deleting"] /\ pc' = "deleteWait"
        /\ then' = then /\ left' = left /\ result' = result
        /\ state' = state /\ etag' = etag /\ want' = want /\ cause' = cause /\ edits' = edits /\ faults' = faults
    BY DEF Delete, Goto
  <1>2. /\ lb' \in [there : BOOLEAN, status : {"active", "pending", "failed", "deleting"}, content : Content]
        /\ lb'.there = lb.there /\ lb'.content = lb.content
    BY <1>1 DEF TypeOK
  <1>3. TypeOK'
    BY <1>1, <1>2 DEF TypeOK, Points
  <1>4. Place' = "deleteWait"
    BY <1>1 DEF Place
  <1>5. PlaceInv' /\ BusyInv' /\ StaleInv' /\ ProgressInv' /\ DeletingInv'
    BY <1>1, <1>4 DEF PlaceInv, UpdatePoints, BusyInv, Unwaited, StaleInv, ProgressInv, DeletingInv
  <1>6. KnownInv' /\ VersionInv'
    BY <1>1, <1>2 DEF KnownInv, VersionInv
  <1>7. FailuresHaveACause' /\ SuccessIsTrue'
    BY <1>1 DEF FailuresHaveACause, SuccessIsTrue
  <1>. QED  BY <1>3, <1>5, <1>6, <1>7

LEMMA DeletedStep ==
  ASSUME IInv, Deleted
  PROVE  IInv'
  <1>. USE DEF IInv
  <1>1. /\ pc \in {"delete", "deleteWait"} /\ ~lb.there /\ state' = [state EXCEPT !.id = FALSE, !.tainted = FALSE]
        /\ lb' = lb /\ etag' = etag /\ want' = want /\ cause' = cause /\ edits' = edits /\ faults' = faults
        /\ left' \subseteq Groups /\ then' \in Points
        /\ \/ want.there /\ pc' = "create" /\ result' = result
           \/ ~want.there /\ pc' = "idle" /\ result' = "ok"
    BY DEF Deleted, Return, Goto, TypeOK, Points
  <1>2. state' \in [id : BOOLEAN, tainted : BOOLEAN, content : Content] /\ ~state'.id
    BY <1>1 DEF TypeOK
  <1>3. TypeOK'
    BY <1>1, <1>2 DEF TypeOK, Points
  <1>4. Place' = pc'
    BY <1>1 DEF Place
  <1>5. PlaceInv' /\ BusyInv' /\ StaleInv' /\ ProgressInv' /\ KnownInv' /\ VersionInv'
    BY <1>1, <1>2, <1>4 DEF PlaceInv, UpdatePoints, BusyInv, Unwaited, StaleInv, ProgressInv, KnownInv, VersionInv
  <1>6. DeletingInv'
    BY <1>1 DEF DeletingInv
  <1>7. FailuresHaveACause' /\ SuccessIsTrue'
    BY <1>1, Parts DEF FailuresHaveACause, SuccessIsTrue
  <1>. QED  BY <1>3, <1>5, <1>6, <1>7
-----------------------------------------------------------------------------
(* The service and somebody else *)

LEMMA SettleStep ==
  ASSUME IInv, Settle
  PROVE  IInv'
  <1>. USE DEF IInv
  <1>1. /\ lb.there /\ Busy
        /\ state' = state /\ etag' = etag /\ want' = want /\ pc' = pc /\ then' = then /\ left' = left
        /\ result' = result /\ cause' = cause /\ edits' = edits /\ faults' = faults
        /\ Place' = Place /\ Patched' = Patched /\ Alone' = Alone /\ Added' = Added /\ Removed' = Removed
    BY DEF Settle, Place, Patched, Alone, Added, Removed
  <1>2. /\ lb' \in [there : BOOLEAN, status : {"active", "pending", "failed", "deleting"}, content : Content]
        /\ lb'.status \in {"active", "failed"}
        /\ lb.status = "deleting" => ~lb'.there
        /\ lb.status # "deleting" => lb'.there = lb.there /\ lb'.content = lb.content
    <2>1. CASE lb.status = "deleting"
      <3>1. lb' = Absent /\ Absent.content \in Content
        BY <2>1, Parts DEF Settle
      <3>. QED  BY <2>1, <3>1 DEF Absent
    <2>2. CASE lb.status # "deleting"
      BY <2>2 DEF Settle, TypeOK
    <2>. QED  BY <2>1, <2>2
  <1>3. TypeOK'
    BY <1>1, <1>2 DEF TypeOK
  <1>4. PlaceInv' /\ BusyInv' /\ StaleInv' /\ KnownInv' /\ VersionInv' /\ DeletingInv'
    BY <1>1, <1>2 DEF PlaceInv, BusyInv, Busy, StaleInv, KnownInv, VersionInv, DeletingInv
  <1>5. ProgressInv'
    <2>1. CASE lb.status # "deleting"
      BY <1>1, <1>2, <2>1 DEF ProgressInv
    <2>2. CASE lb.status = "deleting"
      BY <1>1, <2>2 DEF ProgressInv, DeletingInv, Place, UpdatePoints
    <2>. QED  BY <2>1, <2>2
  <1>6. FailuresHaveACause'
    BY <1>1 DEF FailuresHaveACause
  <1>7. SuccessIsTrue'
    BY <1>1, <1>2 DEF SuccessIsTrue, DeletingInv, Alone
  <1>. QED  BY <1>3, <1>4, <1>5, <1>6, <1>7

LEMMA EditStep ==
  ASSUME IInv, Edit
  PROVE  IInv'
  <1>. USE DEF IInv
  <1>1. /\ lb.there /\ etag' = FALSE /\ cause' = cause \cup {"edited"} /\ edits' \in 0..MaxEdits
        /\ state' = state /\ want' = want /\ pc' = pc /\ then' = then /\ left' = left
        /\ result' = result /\ faults' = faults
    <2>1. edits' = edits + 1 /\ edits < MaxEdits
      BY DEF Edit
    <2>2. edits \in 0..MaxEdits
      BY DEF TypeOK
    <2>3. edits' \in 0..MaxEdits
      BY <2>1, <2>2, BoundAssumption
    <2>. QED  BY <2>3 DEF Edit
  <1>2. \E c \in Content, s \in {"pending", "deleting", lb.status} : lb' = [lb EXCEPT !.content = c, !.status = s]
    <2>1. ASSUME NEW a \in Attributes, NEW s \in {"pending", lb.status},
                 lb' = [lb EXCEPT !.content.value[a] = 2, !.status = s]
          PROVE  \E c \in Content : lb' = [lb EXCEPT !.content = c, !.status = s]
      <3>1. [lb.content EXCEPT !.value[a] = 2] \in Content
        BY Parts DEF Content
      <3>. QED  BY <2>1, <3>1 DEF TypeOK
    <2>2. ASSUME NEW g \in Groups,
                 lb' = [lb EXCEPT !.content.groups = (@ \cup {g}) \ (@ \cap {g}), !.status = "pending"]
          PROVE  \E c \in Content : lb' = [lb EXCEPT !.content = c, !.status = "pending"]
      <3>. DEFINE groups == (lb.content.groups \cup {g}) \ (lb.content.groups \cap {g})
      <3>1. groups \in SUBSET Groups
        BY Parts
      <3>2. [lb.content EXCEPT !.groups = groups] \in Content
        BY <3>1, GroupParts
      <3>. QED  BY <2>2, <3>2 DEF TypeOK
    <2>3. lb' = [lb EXCEPT !.status = "deleting"] => lb' = [lb EXCEPT !.content = lb.content, !.status = "deleting"]
      BY DEF TypeOK
    <2>. QED  BY <2>1, <2>2, <2>3, Parts DEF Edit
  <1>3. /\ lb' \in [there : BOOLEAN, status : {"active", "pending", "failed", "deleting"}, content : Content]
        /\ lb'.there
    BY <1>1, <1>2 DEF TypeOK
  <1>4. TypeOK'
    BY <1>1, <1>3 DEF TypeOK
  <1>5. ~Alone' /\ Place' = Place
    BY <1>1 DEF Alone, Place
  <1>6. PlaceInv' /\ BusyInv' /\ StaleInv' /\ KnownInv' /\ VersionInv' /\ DeletingInv' /\ ProgressInv'
    BY <1>1, <1>3, <1>5 DEF PlaceInv, BusyInv, StaleInv, KnownInv, VersionInv, DeletingInv, ProgressInv
  <1>7. FailuresHaveACause' /\ SuccessIsTrue'
    BY <1>1 DEF FailuresHaveACause, SuccessIsTrue
  <1>. QED  BY <1>4, <1>6, <1>7
-----------------------------------------------------------------------------
(* The theorems *)

LEMMA StepInv == IInv /\ [Next]_vars => IInv'
  <1>. SUFFICES ASSUME IInv, [Next]_vars PROVE IInv'
    OBVIOUS
  <1>1. CASE Handler
    <2>1. ASSUME NEW a \in Attributes, Patches(a) PROVE IInv'
      BY <2>1, SkipStep, Failures DEF Patches
    <2>. QED
      BY <1>1, <2>1, StartStep, DiffStep, CreateStep, CreateLostStep, DnsStep, SubnetsStep, UnwaitedStep,
         LoopStep, GroupStep, WaitStep, ReadStep, DeleteStep, DeletedStep, Failures
      DEF Handler
  <1>2. CASE UNCHANGED vars
    <2>1. /\ lb' = lb /\ state' = state /\ etag' = etag /\ want' = want /\ pc' = pc /\ then' = then
          /\ left' = left /\ result' = result /\ cause' = cause /\ edits' = edits /\ faults' = faults
      BY <1>2 DEF vars
    <2>2. Place' = Place /\ Patched' = Patched /\ Alone' = Alone /\ Added' = Added /\ Removed' = Removed
      BY <2>1 DEF Place, Patched, Alone, Added, Removed
    <2>. QED
      BY <2>1, <2>2
      DEF IInv, TypeOK, PlaceInv, BusyInv, Busy, StaleInv, KnownInv, VersionInv, DeletingInv, ProgressInv,
          FailuresHaveACause, SuccessIsTrue
  <1>. QED  BY <1>1, <1>2, SettleStep, EditStep DEF Next

LEMMA Invariant == Spec => []IInv
  BY InitInv, StepInv, PTL DEF Spec

\* The variables keep their types.
THEOREM TypeCorrect == Spec => []TypeOK
  <1>1. IInv => TypeOK
    BY DEF IInv
  <1>. QED  BY Invariant, <1>1, PTL

\* A refused request has a cause: as busy only a load balancer that was busy as
\* the apply began, was edited, or was patched without a wait; as stale only one
\* that was edited, or whose dns the same update has patched.
THEOREM Causes == Spec => []FailuresHaveACause
  <1>1. IInv => FailuresHaveACause
    BY DEF IInv
  <1>. QED  BY Invariant, <1>1, PTL

\* An apply that succeeds leaves the service and the state as configured,
\* unless somebody else was at it.
THEOREM Truthful == Spec => []SuccessIsTrue
  <1>1. IInv => SuccessIsTrue
    BY DEF IInv
  <1>. QED  BY Invariant, <1>1, PTL

\* A load balancer the state does not know of comes from a lost answer only.
THEOREM NoOrphans == Spec => []Recorded
  <1>1. IInv => Recorded
    BY DEF IInv, KnownInv, Recorded
  <1>. QED  BY Invariant, <1>1, PTL

\* The version that guards the patch of the subnets belongs to the subnets in
\* the state, so those that somebody else changed are not overwritten.
THEOREM NotBlind == Spec => NoBlindOverwrite
  <1>. DEFINE A == Handler /\ lb.there /\ lb'.content.value["subnets"] # lb.content.value["subnets"]
                     => lb.content.value["subnets"] = state.content.value["subnets"]
  <1>1. ASSUME IInv, Handler, lb.there, lb'.content.value["subnets"] # lb.content.value["subnets"]
        PROVE  lb.content.value["subnets"] = state.content.value["subnets"]
    <2>. USE <1>1 DEF IInv
    <2>1. lb' # lb /\ ~Create /\ ~CreateLost
      BY <1>1 DEF Create, CreateLost
    <2>2. CASE PatchSubnets
      <3>1. pc = "subnets" /\ etag /\ state.id
        BY <2>2 DEF PatchSubnets, PlaceInv, Place, UpdatePoints
      <3>. QED  BY <3>1 DEF VersionInv
    <2>3. ASSUME NEW a \in {"dns", "name", "logging"}, Changed(With(a), {"pending", lb.status}) PROVE FALSE
      <3>1. With(a) \in Content /\ With(a).value["subnets"] = lb.content.value["subnets"]
        BY WithParts DEF Attributes
      <3>2. lb'.content = With(a)
        BY <2>3, <3>1, ChangedParts
      <3>. QED  BY <3>1, <3>2
    <2>4. ~PatchDns /\ \A a \in {"name", "logging"} : ~PatchUnwaited(a)
      BY <2>3 DEF PatchDns, PatchUnwaited
    <2>5. ASSUME NEW g \in Groups, Add(g) PROVE FALSE
      <3>1. lb.content.groups \cup {g} \in SUBSET Groups
        BY Parts
      <3>. QED  BY <2>5, <3>1, ChangedParts, GroupParts, ZenonT(40) DEF Add
    <2>6. ASSUME NEW g \in Groups, Remove(g) PROVE FALSE
      <3>1. lb.content.groups \ {g} \in SUBSET Groups
        BY Parts
      <3>. QED  BY <2>6, <3>1, ChangedParts, GroupParts, ZenonT(40) DEF Remove
    <2>7. ~Delete
      BY DEF Delete, TypeOK
    <2>8. ASSUME NEW a \in Attributes, Patches(a) PROVE FALSE
      BY <2>1, <2>8 DEF Patches, Skip, PatchBusy, PatchAbsent, PatchFails, Refused, FailUpdate
    <2>9. ~(Refresh \/ Begin \/ Diff \/ CreateRefused \/ SubnetsStale \/ BeginGroups \/ AddsDone \/ RemovesDone)
      BY <2>1 DEF Refresh, Begin, Start, Diff, CreateRefused, SubnetsStale, Refused, FailUpdate, BeginGroups,
                  AddsDone, RemovesDone
    <2>10. ~(GroupBusy \/ GroupFails \/ Wait \/ WaitFails \/ Read \/ Deleted \/ DeleteBusy \/ DeleteFails)
      BY <2>1 DEF GroupBusy, GroupFails, Refused, FailUpdate, Wait, WaitFails, Read, Deleted, DeleteBusy, DeleteFails
    <2>11. \A g \in Groups : ~RemoveGone(g)
      BY <2>1 DEF RemoveGone
    <2>. QED  BY <2>1, <2>2, <2>4, <2>5, <2>6, <2>7, <2>8, <2>9, <2>10, <2>11 DEF Handler
  <1>2. IInv /\ [Next]_vars => [A]_vars
    BY <1>1
  <1>. QED  BY Invariant, <1>2, PTL DEF Spec, NoBlindOverwrite
=============================================================================
