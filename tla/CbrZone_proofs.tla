-------------------------- MODULE CbrZone_proofs ---------------------------
(***************************************************************************)
(* Proofs about CbrZone: its type invariant, the exclusion and the absence *)
(* of conflicts that the lock provides, and the refinement of the          *)
(* independent registers, for every number of zones, blocks and processes. *)
(***************************************************************************)
EXTENDS CbrZone, TLAPS

-----------------------------------------------------------------------------
(* The inductive invariant. *)

\* What a running handler has at hand.
HandlersOK ==
    \A c \in Clients :
        /\ pc[c] # "idle" => op[c] \in Operations
        /\ (pc[c] # "idle" /\ op[c].author = Default) => op[c].settings \in Settings
        /\ pc[c] = "put" => /\ request[c] \in Requests
                            /\ request[c].zone = op[c].zone
        /\ (c \in Blocks /\ pc[c] # "idle") => op[c].author \in Ids
        /\ (c \in Blocks /\ tfstate[c] # None) => tfstate[c].author \in Ids

\* A zone that has been created has settings.
ZonesOK == \A z \in Zones : zone[z].status # "unborn" => zone[z].settings \in Settings

\* The lock names the handler that is past Lock.
LockHeld == \A c \in Clients : Holds(c) => mutex[ProcOf[c]][op[c].zone] = c

\* A request made from the version a zone is at carries over, unchanged, all
\* that its author does not own.
Carries(r) ==
    /\ zone[r.zone].status # "unborn"
    /\ r.ifMatch <= zone[r.zone].etag
    /\ r.ifMatch = zone[r.zone].etag =>
          /\ \A a \in Authors \ {r.author} : r.parts[a] = zone[r.zone].parts[a]
          /\ r.author # Default => r.settings = zone[r.zone].settings

RequestsOK == /\ \A c \in Clients : pc[c] = "put" => Carries(request[c])
              /\ \A r \in delayed : Carries(r)

IInv == TypeOK /\ HandlersOK /\ ZonesOK /\ LockHeld /\ RequestsOK /\ NoConflictWithin
-----------------------------------------------------------------------------
(* Lemmas about the pieces the actions are made of. *)

\* A request is made of the operation and of the zone it was read from.
LEMMA RequestForType ==
    ASSUME NEW o \in Operations, NEW z \in ZoneRecords, z.settings \in Settings,
           o.author = Default => o.settings \in Settings
    PROVE  /\ RequestFor(o, z) \in Requests
           /\ RequestFor(o, z).zone = o.zone
           /\ RequestFor(o, z).ifMatch = z.etag
           /\ \A a \in Authors \ {RequestFor(o, z).author} :
                 RequestFor(o, z).parts[a] = z.parts[a]
           /\ RequestFor(o, z).author # Default => RequestFor(o, z).settings = z.settings
<1>1. Merged(z.parts, o) \in [Authors -> Values]
  BY DEF Merged, Operations, ZoneRecords
<1>2. o.zone \in Zones /\ o.author \in Authors
  BY DEF Operations
<1>3. z.etag \in Nat
  BY DEF ZoneRecords
<1>4. (IF o.author = Default THEN o.settings ELSE z.settings) \in Settings
  OBVIOUS
<1>5. RequestFor(o, z) \in Requests
  BY <1>1, <1>2, <1>3, <1>4 DEF RequestFor, Requests
<1>6. \A a \in Authors \ {o.author} : Merged(z.parts, o)[a] = z.parts[a]
  BY DEF Merged
<1> QED
  BY <1>5, <1>6 DEF RequestFor

\* A write moves a zone to a version no request has been made from, so what the
\* pending requests carry is not disturbed by it.
LEMMA NewVersion ==
    ASSUME TypeOK, ZonesOK, NEW z \in Zones, zone[z].status # "unborn",
           NEW rec \in ZoneRecords, rec.status # "unborn", rec.settings \in Settings,
           rec.etag = zone[z].etag + 1, zone' = [zone EXCEPT ![z] = rec]
    PROVE  /\ zone' \in [Zones -> ZoneRecords]
           /\ ZonesOK'
           /\ \A r \in Requests : Carries(r) => Carries(r)'
<1>1. /\ zone' \in [Zones -> ZoneRecords]
      /\ zone'[z] = rec
      /\ \A y \in Zones \ {z} : zone'[y] = zone[y]
  BY DEF TypeOK
<1>2. ZonesOK'
  BY <1>1 DEF ZonesOK
<1>3. ASSUME NEW r \in Requests, Carries(r) PROVE Carries(r)'
  <2>1. r.zone \in Zones /\ r.ifMatch \in Nat
    BY DEF Requests
  <2>2. zone[z].etag \in Nat
    BY DEF TypeOK, ZoneRecords
  <2>3. CASE r.zone = z
    BY <1>1, <1>3, <2>1, <2>2, <2>3 DEF Carries
  <2>4. CASE r.zone # z
    BY <1>1, <1>3, <2>1, <2>4 DEF Carries
  <2> QED BY <2>3, <2>4
<1> QED BY <1>1, <1>2, <1>3

\* What a write makes of the zone.
LEMMA ReplaceEffect ==
    ASSUME TypeOK, ZonesOK, NEW z \in Zones, Live(z), NEW parts \in [Authors -> Values],
           NEW settings \in Settings, NEW by, Replace(z, parts, settings, by)
    PROVE  /\ zone' \in [Zones -> ZoneRecords]
           /\ ZonesOK'
           /\ \A q \in Requests : Carries(q) => Carries(q)'
           /\ \A y \in Zones : \/ y = z /\ writer'[y] = by
                               \/ y # z /\ writer'[y] = writer[y] /\ zone'[y] = zone[y]
<1> DEFINE rec == [status |-> "live", etag |-> zone[z].etag + 1,
                   parts |-> parts, settings |-> settings]
<1>1. zone[z].etag \in Nat
  BY DEF TypeOK, ZoneRecords
<1>2. rec \in ZoneRecords
  BY <1>1 DEF ZoneRecords
<1>3. zone' = [zone EXCEPT ![z] = rec]
  BY DEF Replace, TypeOK
<1>4. zone[z].status # "unborn"
  BY DEF Live
<1>5. /\ zone' \in [Zones -> ZoneRecords]
      /\ ZonesOK'
      /\ \A q \in Requests : Carries(q) => Carries(q)'
  BY <1>2, <1>3, <1>4, NewVersion
<1>6. \A y \in Zones : \/ y = z /\ writer'[y] = by
                       \/ y # z /\ writer'[y] = writer[y] /\ zone'[y] = zone[y]
  BY <1>3 DEF Replace, TypeOK
<1> QED BY <1>5, <1>6

\* An operation begins.
LEMMA BeginStep ==
    ASSUME IInv, NEW c \in Clients, NEW o \in Operations,
           o.author = Default => o.settings \in Settings,
           c \in Blocks => o.author \in Ids,
           Begin(c, o), issued' \subseteq Ids
    PROVE  IInv'
<1> USE DEF IInv, Begin
<1>1. pc' = [pc EXCEPT ![c] = "lock"] /\ op' = [op EXCEPT ![c] = o] /\ pc[c] = "idle"
  OBVIOUS
<1>2. TypeOK'
  BY ConstantsAssumption DEF TypeOK
<1>3. HandlersOK'
  BY <1>1 DEF HandlersOK, TypeOK
<1>4. ZonesOK'
  BY DEF ZonesOK
<1>5. LockHeld'
  BY <1>1 DEF LockHeld, Holds, TypeOK
<1>6. RequestsOK'
  BY <1>1 DEF RequestsOK, Carries, TypeOK
<1>7. NoConflictWithin'
  BY <1>1 DEF NoConflictWithin, TypeOK
<1> QED BY <1>2, <1>3, <1>4, <1>5, <1>6, <1>7

\* A handler returns, and gives its lock back.
LEMMA ReturnStep ==
    ASSUME IInv, NEW c \in Clients, Holds(c), NEW place \in Places \cup {None},
           (c \in Blocks /\ place # None) => place.author \in Ids,
           Return(c, place), UNCHANGED <<zone, delayed, begun, issued, writer>>,
           retired' \subseteq Authors, doubtful' \subseteq Authors
    PROVE  IInv'
<1> USE DEF IInv, Return
<1>1. TypeOK'
  BY ConstantsAssumption DEF TypeOK, Holds, HandlersOK, Operations
<1>2. HandlersOK'
  BY DEF HandlersOK, TypeOK
<1>3. ZonesOK'
  BY DEF ZonesOK
<1>4. LockHeld'
  <2> SUFFICES ASSUME NEW d \in Clients, Holds(d)'
               PROVE  (mutex[ProcOf[d]][op[d].zone] = d)'
    BY DEF LockHeld
  <2>1. d # c /\ Holds(d) /\ op'[d] = op[d]
    BY DEF Holds, TypeOK
  <2>2. op[d].zone \in Zones /\ op[c].zone \in Zones
    BY <2>1 DEF HandlersOK, Holds, Operations
  <2>3. mutex[ProcOf[d]][op[d].zone] = d /\ mutex[ProcOf[c]][op[c].zone] = c
    BY <2>1 DEF LockHeld
  <2>4. mutex'[ProcOf[d]][op[d].zone] = mutex[ProcOf[d]][op[d].zone]
    BY <2>1, <2>2, <2>3, ConstantsAssumption DEF TypeOK
  <2> QED BY <2>1, <2>3, <2>4
<1>5. RequestsOK'
  BY DEF RequestsOK, Carries, TypeOK
<1>6. NoConflictWithin'
  BY DEF NoConflictWithin, TypeOK
<1> QED BY <1>1, <1>2, <1>3, <1>4, <1>5, <1>6

-----------------------------------------------------------------------------
(* One lemma per action that is not a beginning or a return. *)

LEMMA LockStep == ASSUME IInv, NEW c \in Clients, Lock(c) PROVE IInv'
<1> USE DEF IInv, Lock
<1>0. op[c].zone \in Zones /\ ProcOf[c] \in Procs
  BY ConstantsAssumption DEF HandlersOK, Operations
<1>1. TypeOK'
  BY <1>0 DEF TypeOK
<1>2. HandlersOK'
  BY DEF HandlersOK, TypeOK
<1>3. ZonesOK'
  BY DEF ZonesOK
<1>4. LockHeld'
  <2> SUFFICES ASSUME NEW d \in Clients, Holds(d)'
               PROVE  (mutex[ProcOf[d]][op[d].zone] = d)'
    BY DEF LockHeld
  <2>1. CASE d = c
    BY <1>0, <2>1 DEF TypeOK
  <2>2. CASE d # c
    <3>1. Holds(d) /\ mutex[ProcOf[d]][op[d].zone] = d /\ d # None
      BY <2>2, ConstantsAssumption DEF Holds, LockHeld, TypeOK
    <3>2. op[d].zone \in Zones /\ ProcOf[d] \in Procs
      BY <3>1, ConstantsAssumption DEF HandlersOK, Holds, Operations
    <3>3. mutex'[ProcOf[d]][op[d].zone] = mutex[ProcOf[d]][op[d].zone]
      BY <1>0, <3>1, <3>2 DEF TypeOK
    <3> QED BY <3>1, <3>3
  <2> QED BY <2>1, <2>2
<1>5. RequestsOK'
  BY DEF RequestsOK, Carries, TypeOK
<1>6. NoConflictWithin'
  BY DEF NoConflictWithin, TypeOK
<1> QED BY <1>1, <1>2, <1>3, <1>4, <1>5, <1>6

LEMMA GetZoneStep == ASSUME IInv, NEW c \in Clients, GetZone(c) PROVE IInv'
<1> USE DEF IInv, GetZone
<1> DEFINE o == op[c]
           z == zone[op[c].zone]
<1>1. o \in Operations /\ o.zone \in Zones /\ (o.author = Default => o.settings \in Settings)
  BY DEF HandlersOK, Operations
<1>2. z \in ZoneRecords /\ z.settings \in Settings
  BY <1>1 DEF ZonesOK, TypeOK, Live
<1>3. /\ RequestFor(o, z) \in Requests
      /\ RequestFor(o, z).zone = o.zone
      /\ RequestFor(o, z).ifMatch = z.etag
      /\ \A a \in Authors \ {RequestFor(o, z).author} :
            RequestFor(o, z).parts[a] = z.parts[a]
      /\ RequestFor(o, z).author # Default => RequestFor(o, z).settings = z.settings
  BY <1>1, <1>2, RequestForType
<1> HIDE DEF o, z
<1>4. request' = [request EXCEPT ![c] = RequestFor(o, z)]
  BY DEF o, z
<1>5. TypeOK'
  BY <1>3, <1>4 DEF TypeOK
<1>6. HandlersOK'
  BY <1>3, <1>4 DEF HandlersOK, TypeOK, o
<1>7. ZonesOK'
  BY DEF ZonesOK
<1>8. LockHeld'
  BY DEF LockHeld, Holds, TypeOK
<1>9. RequestsOK'
  <2>1. Carries(RequestFor(o, z))
    <3>1. zone[RequestFor(o, z).zone] = z
      BY <1>3 DEF o, z
    <3>2. z.status # "unborn" /\ z.etag \in Nat
      BY <1>2 DEF z, Live, ZoneRecords
    <3> QED BY <1>3, <3>1, <3>2 DEF Carries
  <2>2. zone' = zone /\ delayed' = delayed
    OBVIOUS
  <2>3. \A r : Carries(r) => Carries(r)'
    BY <2>2 DEF Carries
  <2>4. \A d \in Clients : pc'[d] = "put" => Carries(request'[d])
    <3>1. TAKE d \in Clients
    <3>2. CASE d = c
      BY <1>4, <2>1, <3>2 DEF TypeOK
    <3>3. CASE d # c
      BY <1>4, <3>3 DEF RequestsOK, TypeOK
    <3> QED BY <3>2, <3>3
  <2>5. \A r \in delayed' : Carries(r)
    BY <2>2 DEF RequestsOK
  <2> QED BY <2>2, <2>3, <2>4, <2>5 DEF RequestsOK
<1>10. NoConflictWithin'
  BY <1>3, <1>4 DEF NoConflictWithin, TypeOK, o, z
<1> QED BY <1>5, <1>6, <1>7, <1>8, <1>9, <1>10

LEMMA ServeReplaceStep == ASSUME IInv, NEW c \in Clients, ServeReplace(c) PROVE IInv'
<1> USE DEF IInv
<1> DEFINE r == request[c]
<1>1. /\ pc[c] = "put" /\ r \in Requests /\ r.zone = op[c].zone
      /\ r.zone \in Zones /\ op[c] \in Operations
      /\ Holds(c) /\ mutex[ProcOf[c]][op[c].zone] = c
  BY DEF ServeReplace, HandlersOK, Requests, LockHeld, Holds
<1>2. CASE ~Accepts(r)
  <2> USE <1>2 DEF ServeReplace
  <2>1. TypeOK' /\ HandlersOK' /\ ZonesOK'
    BY DEF TypeOK, HandlersOK, ZonesOK
  <2>2. LockHeld'
    BY DEF LockHeld, Holds, TypeOK
  <2>3. RequestsOK' /\ NoConflictWithin'
    BY DEF RequestsOK, Carries, NoConflictWithin, TypeOK
  <2> QED BY <2>1, <2>2, <2>3
<1>3. CASE Accepts(r)
  <2>1. /\ ReplaceZone(r, c)
        /\ pc' = [pc EXCEPT ![c] = "committed"]
        /\ UNCHANGED <<mutex, tfstate, op, request, delayed, begun, issued, retired,
                       doubtful>>
    BY <1>3 DEF ServeReplace
  <2> Live(r.zone) /\ r.parts \in [Authors -> Values] /\ r.settings \in Settings
    BY <1>1, <1>3 DEF Accepts, Requests
  <2>2. /\ zone' \in [Zones -> ZoneRecords]
        /\ ZonesOK'
        /\ \A q \in Requests : Carries(q) => Carries(q)'
        /\ \A y \in Zones : \/ y = r.zone /\ writer'[y] = c
                            \/ y # r.zone /\ writer'[y] = writer[y] /\ zone'[y] = zone[y]
    BY <1>1, <2>1, ReplaceEffect DEF ReplaceZone
  <2>3. TypeOK'
    BY <1>1, <2>1, <2>2 DEF TypeOK, ReplaceZone, Replace
  <2>4. HandlersOK'
    BY <1>1, <2>1 DEF HandlersOK, TypeOK
  <2>5. LockHeld'
    BY <1>1, <2>1 DEF LockHeld, Holds, TypeOK
  <2>6. RequestsOK'
    BY <2>1, <2>2 DEF RequestsOK, HandlersOK, TypeOK
  <2>7. NoConflictWithin'
    <3> SUFFICES ASSUME NEW d \in Clients, (pc[d] = "put")',
                        (zone[op[d].zone].etag # request[d].ifMatch)'
                 PROVE  writer'[op[d].zone] \notin {e \in Clients : ProcOf[e] = ProcOf[d]}
      BY <2>1 DEF NoConflictWithin
    <3>1. d # c /\ pc[d] = "put"
      BY <2>1 DEF TypeOK
    <3>2. op[d].zone \in Zones /\ mutex[ProcOf[d]][op[d].zone] = d
      BY <3>1 DEF HandlersOK, Operations, LockHeld, Holds
    <3>3. CASE op[d].zone = r.zone
      <4>1. ProcOf[c] # ProcOf[d]
        BY <1>1, <3>1, <3>2, <3>3
      <4>2. writer'[op[d].zone] = c
        BY <2>2, <3>2, <3>3
      <4> QED BY <4>1, <4>2
    <3>4. CASE op[d].zone # r.zone
      <4>1. /\ zone'[op[d].zone] = zone[op[d].zone]
            /\ writer'[op[d].zone] = writer[op[d].zone]
        BY <2>2, <3>2, <3>4
      <4> QED BY <2>1, <3>1, <4>1 DEF NoConflictWithin
    <3> QED BY <3>3, <3>4
  <2> QED BY <2>2, <2>3, <2>4, <2>5, <2>6, <2>7
<1> QED BY <1>2, <1>3 DEF ServeReplace

LEMMA ResendStep == ASSUME IInv, NEW c \in Clients, Resend(c) PROVE IInv'
<1> USE DEF IInv, Resend
<1>1. request[c] \in Requests /\ op[c].author \in Authors
  BY DEF HandlersOK, Operations
<1>2. TypeOK'
  BY <1>1 DEF TypeOK
<1>3. HandlersOK' /\ ZonesOK' /\ NoConflictWithin'
  BY DEF HandlersOK, ZonesOK, NoConflictWithin
<1>4. LockHeld'
  BY DEF LockHeld, Holds
<1>5. RequestsOK'
  BY DEF RequestsOK, Carries
<1> QED BY <1>2, <1>3, <1>4, <1>5

LEMMA LateReplaceStep == ASSUME IInv, LateReplace PROVE IInv'
<1> USE DEF IInv
<1>1. PICK r \in delayed :
         /\ delayed' = delayed \ {r}
         /\ \/ Accepts(r) /\ ReplaceZone(r, None)
            \/ UNCHANGED <<zone, writer>>
         /\ UNCHANGED <<mutex, tfstate, pc, op, request, begun, issued, retired, doubtful>>
  BY DEF LateReplace
<1>2. r \in Requests /\ r.zone \in Zones
  BY DEF TypeOK, Requests
<1>3. HandlersOK'
  BY <1>1 DEF HandlersOK
<1>4. LockHeld'
  BY <1>1 DEF LockHeld, Holds
<1>5. CASE Accepts(r) /\ ReplaceZone(r, None)
  <2> Live(r.zone) /\ r.parts \in [Authors -> Values] /\ r.settings \in Settings
    BY <1>2, <1>5 DEF Accepts, Requests
  <2>1. /\ zone' \in [Zones -> ZoneRecords]
        /\ ZonesOK'
        /\ \A q \in Requests : Carries(q) => Carries(q)'
        /\ \A y \in Zones : \/ y = r.zone /\ writer'[y] = None
                            \/ y # r.zone /\ writer'[y] = writer[y] /\ zone'[y] = zone[y]
    BY <1>2, <1>5, ReplaceEffect DEF ReplaceZone
  <2>2. TypeOK'
    BY <1>1, <1>5, <2>1 DEF TypeOK, ReplaceZone, Replace
  <2>3. RequestsOK'
    BY <1>1, <2>1 DEF RequestsOK, HandlersOK, TypeOK
  <2>4. NoConflictWithin'
    BY <1>1, <2>1, ConstantsAssumption DEF NoConflictWithin, HandlersOK, Operations
  <2> QED BY <1>3, <1>4, <2>1, <2>2, <2>3, <2>4
<1>6. CASE UNCHANGED <<zone, writer>>
  <2>1. TypeOK' /\ ZonesOK' /\ NoConflictWithin'
    BY <1>1, <1>6 DEF TypeOK, ZonesOK, NoConflictWithin
  <2>2. RequestsOK'
    BY <1>1, <1>6 DEF RequestsOK, Carries
  <2> QED BY <1>3, <1>4, <2>1, <2>2
<1> QED BY <1>1, <1>5, <1>6

LEMMA CreateZoneStep == ASSUME IInv, NEW c \in ZoneBlocks, CreateZone(c) PROVE IInv'
<1> USE DEF IInv
<1>1. PICK z \in Zones, v \in Values, s \in Settings, answered \in BOOLEAN :
         /\ zone[z].status = "unborn"
         /\ zone' = [zone EXCEPT ![z] = [status |-> "live", etag |-> 1,
                                         parts |-> [@.parts EXCEPT ![Default] = v],
                                         settings |-> s]]
         /\ writer' = [writer EXCEPT ![z] = c]
         /\ tfstate' = [tfstate EXCEPT ![c] = IF answered
                             THEN [zone |-> z, author |-> Default] ELSE None]
  BY DEF CreateZone
<1>2. UNCHANGED <<mutex, pc, op, request, delayed, begun, issued, retired, doubtful>>
  BY DEF CreateZone
<1> DEFINE rec == [status |-> "live", etag |-> 1,
                   parts |-> [zone[z].parts EXCEPT ![Default] = v], settings |-> s]
<1>3. rec \in ZoneRecords
  BY DEF TypeOK, ZoneRecords
<1>4. zone' = [zone EXCEPT ![z] = rec]
  BY <1>1 DEF TypeOK
<1>5. TypeOK'
  <2>1. [zone |-> z, author |-> Default] \in Places
    BY DEF Places, Authors
  <2> QED BY <1>1, <1>2, <1>3, <1>4, <2>1 DEF TypeOK, Clients
<1>6. HandlersOK' /\ LockHeld'
  BY <1>1, <1>2, ConstantsAssumption DEF HandlersOK, LockHeld, Holds, TypeOK
<1>7. ZonesOK'
  BY <1>4 DEF ZonesOK, TypeOK
<1>8. \A r \in Requests : Carries(r) => r.zone # z
  BY <1>1 DEF Carries
<1>9. \A r \in Requests : Carries(r) => Carries(r)' /\ zone'[r.zone] = zone[r.zone]
  BY <1>4, <1>8 DEF Carries, TypeOK, Requests
<1>10. RequestsOK'
  BY <1>2, <1>9 DEF RequestsOK, HandlersOK, TypeOK
<1>11. NoConflictWithin'
  <2> SUFFICES ASSUME NEW d \in Clients, pc[d] = "put",
                      (zone[op[d].zone].etag # request[d].ifMatch)'
               PROVE  writer'[op[d].zone] \notin {e \in Clients : ProcOf[e] = ProcOf[d]}
    BY <1>2 DEF NoConflictWithin
  <2>1. /\ request[d] \in Requests /\ request[d].zone = op[d].zone
        /\ Carries(request[d]) /\ op[d].zone \in Zones
    BY DEF HandlersOK, RequestsOK, Operations
  <2>2. op[d].zone # z /\ zone'[op[d].zone] = zone[op[d].zone]
    BY <1>8, <1>9, <2>1
  <2>3. writer'[op[d].zone] = writer[op[d].zone]
    BY <1>1, <2>1, <2>2 DEF TypeOK
  <2> QED BY <1>2, <2>2, <2>3 DEF NoConflictWithin
<1> QED BY <1>5, <1>6, <1>7, <1>10, <1>11

LEMMA DeleteZoneStep == ASSUME IInv, NEW c \in ZoneBlocks, DeleteZone(c) PROVE IInv'
<1> USE DEF IInv
<1> DEFINE y == tfstate[c].zone
           rec == [zone[y] EXCEPT !.status = "gone"]
<1>1. /\ c \in Clients /\ y \in Zones
      /\ \/ Live(y) /\ zone' = [zone EXCEPT ![y].status = "gone"]
         \/ zone' = zone
      /\ \/ tfstate' = [tfstate EXCEPT ![c] = None]
         \/ tfstate' = tfstate
      /\ UNCHANGED <<mutex, pc, op, request, delayed, begun, issued, retired,
                     doubtful, writer>>
  BY DEF DeleteZone, TypeOK, Places, Clients
<1>2. /\ zone' \in [Zones -> ZoneRecords]
      /\ \A z \in Zones : /\ zone'[z].etag = zone[z].etag
                          /\ zone'[z].parts = zone[z].parts
                          /\ zone'[z].settings = zone[z].settings
                          /\ zone[z].status # "unborn" <=> zone'[z].status # "unborn"
  <2>1. zone[y] \in ZoneRecords
    BY <1>1 DEF TypeOK
  <2>2. rec \in ZoneRecords /\ rec.etag = zone[y].etag /\ rec.parts = zone[y].parts
        /\ rec.settings = zone[y].settings /\ rec.status = "gone"
    BY <2>1 DEF ZoneRecords
  <2>3. CASE Live(y) /\ zone' = [zone EXCEPT ![y].status = "gone"]
    <3>1. zone' = [zone EXCEPT ![y] = rec]
      BY <1>1, <2>3 DEF TypeOK
    <3> HIDE DEF rec
    <3> QED BY <1>1, <2>2, <2>3, <3>1 DEF TypeOK, Live
  <2> QED BY <1>1, <2>3 DEF TypeOK
<1> HIDE DEF y, rec
<1>4. TypeOK'
  BY <1>1, <1>2 DEF TypeOK
<1>5. HandlersOK' /\ LockHeld'
  BY <1>1, ConstantsAssumption DEF HandlersOK, LockHeld, Holds, TypeOK
<1>6. \A r \in Requests : Carries(r) => Carries(r)'
  BY <1>2 DEF Carries, Requests
<1>7. RequestsOK'
  BY <1>1, <1>6 DEF RequestsOK, HandlersOK, TypeOK
<1>8. NoConflictWithin' /\ ZonesOK'
  BY <1>1, <1>2 DEF NoConflictWithin, HandlersOK, Operations, ZonesOK
<1> QED BY <1>4, <1>5, <1>7, <1>8

LEMMA ConsoleEditStep == ASSUME IInv, ConsoleEdit PROVE IInv'
<1> USE DEF IInv
<1>1. UNCHANGED <<mutex, tfstate, pc, op, request, delayed, issued, retired, doubtful>>
  BY DEF ConsoleEdit
<1>2. PICK z \in Zones, parts \in [Authors -> Values], settings \in Settings :
         Live(z) /\ Replace(z, parts, settings, None)
  <2>1. PICK z \in Zones :
           /\ Live(z)
           /\ \/ \E v \in Values, s \in Settings :
                    Replace(z, [zone[z].parts EXCEPT ![Default] = v], s, None)
              \/ \E id \in Ids :
                    Replace(z, [zone[z].parts EXCEPT ![id] = Empty], zone[z].settings, None)
    BY DEF ConsoleEdit
  <2>2. zone[z].parts \in [Authors -> Values] /\ zone[z].settings \in Settings
    BY <2>1 DEF TypeOK, ZoneRecords, Live, ZonesOK
  <2>3. \A a \in Authors, v \in Values :
           [zone[z].parts EXCEPT ![a] = v] \in [Authors -> Values]
    BY <2>2
  <2> QED BY <2>1, <2>2, <2>3, ConstantsAssumption DEF Authors
<1>3. /\ zone' \in [Zones -> ZoneRecords]
      /\ ZonesOK'
      /\ \A r \in Requests : Carries(r) => Carries(r)'
      /\ \A y \in Zones : \/ y = z /\ writer'[y] = None
                          \/ y # z /\ writer'[y] = writer[y] /\ zone'[y] = zone[y]
  BY <1>2, ReplaceEffect
<1>4. TypeOK'
  BY <1>1, <1>2, <1>3, ConstantsAssumption DEF ConsoleEdit, TypeOK, Replace
<1>5. HandlersOK' /\ LockHeld'
  BY <1>1 DEF HandlersOK, LockHeld, Holds
<1>6. RequestsOK'
  BY <1>1, <1>3 DEF RequestsOK, HandlersOK, TypeOK
<1>7. NoConflictWithin'
  BY <1>1, <1>3, ConstantsAssumption DEF NoConflictWithin, HandlersOK, Operations
<1> QED BY <1>3, <1>4, <1>5, <1>6, <1>7

\* ReadAddresses and ReadZone touch the Terraform state only.
LEMMA ForgetStep ==
    ASSUME IInv, NEW c \in Clients, tfstate' = [tfstate EXCEPT ![c] = None],
           UNCHANGED <<zone, mutex, pc, op, request, delayed, begun, issued, retired,
                       doubtful, writer>>
    PROVE  IInv'
<1> USE DEF IInv
<1>1. TypeOK'
  BY DEF TypeOK
<1>2. HandlersOK' /\ ZonesOK' /\ LockHeld' /\ NoConflictWithin'
  BY DEF HandlersOK, ZonesOK, LockHeld, Holds, NoConflictWithin
<1>3. RequestsOK'
  BY DEF RequestsOK, Carries
<1> QED BY <1>1, <1>2, <1>3

-----------------------------------------------------------------------------
(* The invariant holds. *)

LEMMA InitIInv == Init => IInv
<1> SUFFICES ASSUME Init PROVE IInv
  OBVIOUS
<1> USE DEF Init, IInv
<1>1. TypeOK
  BY ConstantsAssumption DEF TypeOK, ZoneRecords
<1>2. HandlersOK /\ ZonesOK /\ LockHeld /\ RequestsOK /\ NoConflictWithin
  BY DEF HandlersOK, ZonesOK, LockHeld, Holds, RequestsOK, NoConflictWithin
<1> QED BY <1>1, <1>2

LEMMA NextIInv == IInv /\ [Next]_vars => IInv'
<1> SUFFICES ASSUME IInv, [Next]_vars PROVE IInv'
  OBVIOUS
<1> USE DEF Clients
<1>0. ASSUME NEW c \in Clients, tfstate[c] # None
      PROVE  /\ tfstate[c].zone \in Zones /\ tfstate[c].author \in Authors
             /\ c \in Blocks => tfstate[c].author \in Ids
  BY <1>0 DEF IInv, TypeOK, HandlersOK, Places
<1>1. ASSUME NEW b \in Blocks, CreateAddresses(b) PROVE IInv'
  <2>1. PICK z \in Zones, id \in Ids \ issued, v \in Values :
           /\ issued' = issued \cup {id}
           /\ Begin(b, [kind |-> "create", zone |-> z, target |-> z, author |-> id,
                        want |-> v, settings |-> None])
    BY <1>1 DEF CreateAddresses
  <2>2. /\ [kind |-> "create", zone |-> z, target |-> z, author |-> id,
            want |-> v, settings |-> None] \in Operations
        /\ id # Default
    BY ConstantsAssumption DEF Operations, Authors
  <2>3. issued' \subseteq Ids
    BY <2>1 DEF IInv, TypeOK
  <2> QED BY <2>1, <2>2, <2>3, BeginStep
<1>2. ASSUME NEW b \in Blocks, UpdateAddresses(b) PROVE IInv'
  <2>1. PICK z \in Zones, v \in Values :
           Begin(b, [kind |-> "update", zone |-> tfstate[b].zone, target |-> z,
                     author |-> tfstate[b].author, want |-> v, settings |-> None])
    BY <1>2 DEF UpdateAddresses
  <2>2. /\ [kind |-> "update", zone |-> tfstate[b].zone, target |-> z,
            author |-> tfstate[b].author, want |-> v, settings |-> None] \in Operations
        /\ tfstate[b].author \in Ids /\ tfstate[b].author # Default
    BY <1>0, <1>2, ConstantsAssumption DEF UpdateAddresses, Operations
  <2>3. issued' \subseteq Ids
    BY <1>2 DEF UpdateAddresses, IInv, TypeOK
  <2> QED BY <2>1, <2>2, <2>3, BeginStep
<1>3. ASSUME NEW b \in Blocks, DeleteAddresses(b) PROVE IInv'
  <2>1. Begin(b, [kind |-> "delete", zone |-> tfstate[b].zone,
                  target |-> tfstate[b].zone, author |-> tfstate[b].author,
                  want |-> Empty, settings |-> None])
    BY <1>3 DEF DeleteAddresses
  <2>2. /\ [kind |-> "delete", zone |-> tfstate[b].zone,
            target |-> tfstate[b].zone, author |-> tfstate[b].author,
            want |-> Empty, settings |-> None] \in Operations
        /\ tfstate[b].author \in Ids /\ tfstate[b].author # Default
    BY <1>0, <1>3, ConstantsAssumption DEF DeleteAddresses, Operations
  <2>3. issued' \subseteq Ids
    BY <1>3 DEF DeleteAddresses, IInv, TypeOK
  <2> QED BY <2>1, <2>2, <2>3, BeginStep
<1>4. ASSUME NEW c \in ZoneBlocks, UpdateZone(c) PROVE IInv'
  <2>1. PICK v \in Values, s \in Settings :
           Begin(c, [kind |-> "update", zone |-> tfstate[c].zone,
                     target |-> tfstate[c].zone, author |-> Default,
                     want |-> v, settings |-> s])
    BY <1>4 DEF UpdateZone
  <2>2. [kind |-> "update", zone |-> tfstate[c].zone, target |-> tfstate[c].zone,
         author |-> Default, want |-> v, settings |-> s] \in Operations
    BY <1>0, <1>4 DEF UpdateZone, Operations, Authors
  <2>3. issued' \subseteq Ids /\ c \notin Blocks
    BY <1>4, ConstantsAssumption DEF UpdateZone, IInv, TypeOK
  <2> QED BY <2>1, <2>2, <2>3, BeginStep
<1>5. ASSUME NEW b \in Blocks, ReadAddresses(b) PROVE IInv'
  BY <1>5, ForgetStep DEF ReadAddresses
<1>6. ASSUME NEW c \in ZoneBlocks, ReadZone(c) PROVE IInv'
  BY <1>6, ForgetStep DEF ReadZone
<1>7. ASSUME NEW c \in Clients, GetZone(c) \/ ServeReplace(c) \/ Lock(c) \/ Resend(c)
      PROVE  IInv'
  BY <1>7, GetZoneStep, ServeReplaceStep, LockStep, ResendStep
<1>8. ASSUME NEW c \in Clients,
             \/ ZoneNotFound(c) \/ GetZoneFails(c) \/ ReplaceSucceeds(c)
             \/ ReplaceFails(c) \/ GiveUp(c)
      PROVE  IInv'
  <2>1. /\ Holds(c)
        /\ UNCHANGED <<zone, delayed, begun, issued, writer>>
    BY <1>8 DEF Holds, ZoneNotFound, GetZoneFails, ReplaceSucceeds, ReplaceFails, GiveUp
  <2>2. /\ op[c] \in Operations /\ op[c].author \in Authors /\ op[c].zone \in Zones
        /\ c \in Blocks => op[c].author \in Ids
        /\ tfstate[c] \in Places \cup {None}
    BY <2>1 DEF Holds, IInv, TypeOK, HandlersOK, Operations
  <2>3. [zone |-> op[c].zone, author |-> op[c].author] \in Places
    BY <2>2 DEF Places
  <2>4. CASE ReplaceSucceeds(c)
    <3>1. Return(c, PlaceAfter(c))
      BY <2>4 DEF ReplaceSucceeds
    <3>2. /\ PlaceAfter(c) \in Places \cup {None}
          /\ (c \in Blocks /\ PlaceAfter(c) # None) => PlaceAfter(c).author \in Ids
      BY <1>0, <2>2, <2>3 DEF PlaceAfter, Operations
    <3>3. doubtful' \subseteq Authors
      BY <2>4 DEF ReplaceSucceeds, IInv, TypeOK
    <3>4. retired' \subseteq Authors
      BY <2>2, <2>4 DEF ReplaceSucceeds, IInv, TypeOK, Authors
    <3> QED BY <2>1, <3>1, <3>2, <3>3, <3>4, ReturnStep
  <2>5. CASE ~ReplaceSucceeds(c)
    <3>1. Return(c, None) \/ Return(c, tfstate[c])
      BY <1>8, <2>5 DEF ZoneNotFound, GetZoneFails, ReplaceFails, GiveUp
    <3>2. doubtful' \subseteq Authors /\ retired' \subseteq Authors
      BY <1>8, <2>2, <2>5 DEF ZoneNotFound, GetZoneFails, ReplaceFails, GiveUp, IInv,
         TypeOK, Authors
    <3> QED BY <1>0, <2>1, <2>2, <3>1, <3>2, ReturnStep
  <2> QED BY <2>4, <2>5
<1>9. ASSUME NEW c \in ZoneBlocks, CreateZone(c) \/ DeleteZone(c) PROVE IInv'
  BY <1>9, CreateZoneStep, DeleteZoneStep
<1>10. CASE LateReplace \/ ConsoleEdit
  BY <1>10, LateReplaceStep, ConsoleEditStep
<1>11. CASE UNCHANGED vars
  BY <1>11 DEF vars, IInv, TypeOK, HandlersOK, ZonesOK, LockHeld, Holds, RequestsOK,
     Carries, NoConflictWithin
<1> QED
  BY <1>1, <1>2, <1>3, <1>4, <1>5, <1>6, <1>7, <1>8, <1>9, <1>10, <1>11 DEF Next, Handle

THEOREM Invariance == Spec => []IInv
BY InitIInv, NextIInv, PTL DEF Spec

\* Whatever the configuration, every variable keeps its type: in particular no
\* request ever carries settings that were never read or configured.
THEOREM TypeCorrect == Spec => []TypeOK
<1>1. IInv => TypeOK
  BY DEF IInv
<1> QED BY <1>1, Invariance, PTL

\* Handlers of one process exclude each other on a zone.
THEOREM Exclusion == Spec => []MutualExclusion
<1>1. IInv => MutualExclusion
  BY DEF IInv, LockHeld, MutualExclusion
<1> QED BY <1>1, Invariance, PTL

\* A request is refused for its Etag only after a write from outside the lock.
THEOREM NoConflict == Spec => []NoConflictWithin
<1>1. IInv => NoConflictWithin
  BY DEF IInv
<1> QED BY <1>1, Invariance, PTL

-----------------------------------------------------------------------------
(* The zone is a set of independent registers. *)

LEMMA InitRegisters == Init => Registers!Init
BY DEF Init, Registers!Init, Registers!Authors, Authors

\* One author's addresses change in one zone.
LEMMA PartsEffect ==
    ASSUME NEW z \in Zones, NEW a \in Authors, NEW v,
           \A y \in Zones : zone'[y].parts = IF y = z
                                THEN [zone[z].parts EXCEPT ![a] = v] ELSE zone[y].parts
    PROVE  [y \in Zones |-> zone[y].parts]'
               = [[y \in Zones |-> zone[y].parts] EXCEPT ![z][a] = v]
<1> DEFINE pa == [y \in Zones |-> zone[y].parts]
<1>1. pa' = [pa EXCEPT ![z] = [zone[z].parts EXCEPT ![a] = v]]
  OBVIOUS
<1>2. pa[z] = zone[z].parts
  OBVIOUS
<1> QED BY <1>1, <1>2

\* One zone's settings change.
LEMMA SettingsEffect ==
    ASSUME NEW z \in Zones, NEW s,
           \A y \in Zones : zone'[y].settings = IF y = z THEN s ELSE zone[y].settings
    PROVE  [y \in Zones |-> zone[y].settings]'
               = [[y \in Zones |-> zone[y].settings] EXCEPT ![z] = s]
OBVIOUS

\* One zone's status changes.
LEMMA StatusEffect ==
    ASSUME NEW z \in Zones, NEW s,
           \A y \in Zones : zone'[y].status = IF y = z THEN s ELSE zone[y].status
    PROVE  [y \in Zones |-> zone[y].status]'
               = [[y \in Zones |-> zone[y].status] EXCEPT ![z] = s]
OBVIOUS

\* A write that carries over what its author does not own writes one register.
LEMMA ReplaceRegisters ==
    ASSUME IInv, NEW r \in Requests, Carries(r), Accepts(r), NEW by, ReplaceZone(r, by)
    PROVE  Registers!Next
<1> USE DEF IInv
<1>1. /\ r.zone \in Zones /\ r.author \in Authors /\ r.settings \in Settings
      /\ r.parts \in [Authors -> Values]
  BY DEF Requests
<1>2. /\ zone[r.zone] \in ZoneRecords /\ zone[r.zone].status = "live"
      /\ zone[r.zone].parts \in [Authors -> Values]
  BY <1>1 DEF TypeOK, Accepts, Live, ZoneRecords
<1>3. /\ \A a \in Authors \ {r.author} : r.parts[a] = zone[r.zone].parts[a]
      /\ r.author # Default => r.settings = zone[r.zone].settings
  BY DEF Carries, Accepts
<1>4. \A z \in Zones :
         /\ zone'[z].status = zone[z].status
         /\ zone'[z].parts = IF z = r.zone THEN r.parts ELSE zone[z].parts
         /\ zone'[z].settings = IF z = r.zone THEN r.settings ELSE zone[z].settings
  BY <1>1, <1>2 DEF ReplaceZone, Replace, TypeOK
<1>5. r.parts = [zone[r.zone].parts EXCEPT ![r.author] = r.parts[r.author]]
  BY <1>1, <1>2, <1>3
<1>6. r.parts[r.author] \in Values
  BY <1>1
<1> DEFINE st == [z \in Zones |-> zone[z].status]
           pa == [z \in Zones |-> zone[z].parts]
           se == [z \in Zones |-> zone[z].settings]
<1>7. st' = st /\ st[r.zone] = "live"
  BY <1>1, <1>2, <1>4
<1>8. se' = [se EXCEPT ![r.zone] = r.settings]
  BY <1>1, <1>4
<1>9. pa' = [pa EXCEPT ![r.zone][r.author] = r.parts[r.author]]
  BY <1>1, <1>4, <1>5, PartsEffect
<1>10. CASE r.author = Default
  <2>1. /\ st[r.zone] = "live"
        /\ \E v \in Values, s \in Settings : /\ pa' = [pa EXCEPT ![r.zone][Default] = v]
                                             /\ se' = [se EXCEPT ![r.zone] = s]
        /\ UNCHANGED st
    <3> HIDE DEF st, pa, se
    <3> QED BY <1>1, <1>6, <1>7, <1>8, <1>9, <1>10
  <2>2. Registers!WriteBase(r.zone)
    BY <2>1 DEF Registers!WriteBase
  <2> QED BY <1>1, <2>2 DEF Registers!Next
<1>11. CASE r.author # Default
  <2>1. r.author \in Ids
    BY <1>1, <1>11 DEF Authors
  <2>2. se' = se
    BY <1>1, <1>3, <1>4, <1>11
  <2>3. /\ st[r.zone] = "live"
        /\ \E v \in Values : pa' = [pa EXCEPT ![r.zone][r.author] = v]
        /\ UNCHANGED <<st, se>>
    <3> HIDE DEF st, pa, se
    <3> QED BY <1>6, <1>7, <1>9, <2>2
  <2>4. Registers!WriteAddresses(r.zone, r.author)
    BY <2>3 DEF Registers!WriteAddresses
  <2> QED BY <1>1, <2>1, <2>4 DEF Registers!Next
<1> QED BY <1>10, <1>11


LEMMA StepRegisters == IInv /\ [Next]_vars => [Registers!Next]_(Registers!vars)
<1> SUFFICES ASSUME IInv, [Next]_vars PROVE [Registers!Next]_(Registers!vars)
  OBVIOUS
<1> DEFINE st == [z \in Zones |-> zone[z].status]
           pa == [z \in Zones |-> zone[z].parts]
           se == [z \in Zones |-> zone[z].settings]
<1>1. zone' = zone => UNCHANGED Registers!vars
  BY DEF Registers!vars
<1>2. ASSUME NEW c \in Clients, ServeReplace(c) PROVE [Registers!Next]_(Registers!vars)
  BY <1>1, <1>2, ReplaceRegisters DEF ServeReplace, IInv, HandlersOK, RequestsOK
<1>3. CASE LateReplace
  BY <1>1, <1>3, ReplaceRegisters DEF LateReplace, IInv, TypeOK, RequestsOK
<1>4. ASSUME NEW c \in ZoneBlocks, CreateZone(c) PROVE Registers!Next
  <2>1. PICK z \in Zones, v \in Values, s \in Settings :
           /\ zone[z].status = "unborn"
           /\ zone' = [zone EXCEPT ![z] = [status |-> "live", etag |-> 1,
                                           parts |-> [@.parts EXCEPT ![Default] = v],
                                           settings |-> s]]
    BY <1>4 DEF CreateZone
  <2>2. \A y \in Zones :
           /\ zone'[y].status = IF y = z THEN "live" ELSE zone[y].status
           /\ zone'[y].parts = IF y = z THEN [zone[z].parts EXCEPT ![Default] = v]
                                        ELSE zone[y].parts
           /\ zone'[y].settings = IF y = z THEN s ELSE zone[y].settings
    BY <2>1 DEF IInv, TypeOK
  <2>3. Registers!Open(z)
    <3>1. st[z] = "unborn" /\ st' = [st EXCEPT ![z] = "live"]
      BY <2>1, <2>2, StatusEffect
    <3>2. pa' = [pa EXCEPT ![z][Default] = v]
      BY <2>2, PartsEffect DEF Authors
    <3>3. se' = [se EXCEPT ![z] = s]
      BY <2>2, SettingsEffect
    <3> QED BY <3>1, <3>2, <3>3 DEF Registers!Open
  <2> QED BY <2>3 DEF Registers!Next
<1>5. ASSUME NEW c \in ZoneBlocks, DeleteZone(c) PROVE [Registers!Next]_(Registers!vars)
  <2>0. PICK y \in Zones : y = tfstate[c].zone
    BY <1>5 DEF DeleteZone, IInv, TypeOK, Places, Clients
  <2>1. CASE Live(y)
    <3>1. zone[y].status = "live" /\ zone[y] \in ZoneRecords
      BY <2>1 DEF IInv, TypeOK, Live
    <3>2. zone' = [zone EXCEPT ![y].status = "gone"]
      BY <1>5, <2>0, <2>1 DEF DeleteZone
    <3>3. \A z \in Zones :
             /\ zone'[z].status = IF z = y THEN "gone" ELSE zone[z].status
             /\ zone'[z].parts = zone[z].parts
             /\ zone'[z].settings = zone[z].settings
      BY <3>1, <3>2 DEF IInv, TypeOK, ZoneRecords
    <3>4. Registers!Close(y)
      <4>1. st[y] = "live" /\ st' = [st EXCEPT ![y] = "gone"]
        BY <3>1, <3>3, StatusEffect
      <4>2. pa' = pa /\ se' = se
        BY <3>3
      <4> QED BY <4>1, <4>2 DEF Registers!Close
    <3> QED BY <3>4 DEF Registers!Next
  <2>2. CASE ~Live(y)
    BY <1>1, <1>5, <2>0, <2>2 DEF DeleteZone
  <2> QED BY <2>1, <2>2
<1>6. CASE ConsoleEdit
  <2>1. CASE \E z \in Zones : Live(z) /\ \E v \in Values, s \in Settings :
                Replace(z, [zone[z].parts EXCEPT ![Default] = v], s, None)
    <3>1. PICK z \in Zones, v \in Values, s \in Settings :
             Live(z) /\ Replace(z, [zone[z].parts EXCEPT ![Default] = v], s, None)
      BY <2>1
    <3>2. \A y \in Zones :
             /\ zone'[y].status = zone[y].status
             /\ zone'[y].parts = IF y = z THEN [zone[z].parts EXCEPT ![Default] = v]
                                          ELSE zone[y].parts
             /\ zone'[y].settings = IF y = z THEN s ELSE zone[y].settings
      BY <3>1 DEF Replace, Live, IInv, TypeOK
    <3>3. Registers!WriteBase(z)
      <4>1. st[z] = "live" /\ st' = st
        BY <3>1, <3>2 DEF Live
      <4>2. pa' = [pa EXCEPT ![z][Default] = v]
        BY <3>2, PartsEffect DEF Authors
      <4>3. se' = [se EXCEPT ![z] = s]
        BY <3>2, SettingsEffect
      <4> QED BY <4>1, <4>2, <4>3 DEF Registers!WriteBase
    <3> QED BY <3>3 DEF Registers!Next
  <2>2. CASE \E z \in Zones : Live(z) /\ \E id \in Ids :
                Replace(z, [zone[z].parts EXCEPT ![id] = Empty], zone[z].settings, None)
    <3>1. PICK z \in Zones, id \in Ids :
             Live(z) /\ Replace(z, [zone[z].parts EXCEPT ![id] = Empty], zone[z].settings, None)
      BY <2>2
    <3>2. \A y \in Zones :
             /\ zone'[y].status = zone[y].status
             /\ zone'[y].parts = IF y = z THEN [zone[z].parts EXCEPT ![id] = Empty]
                                          ELSE zone[y].parts
             /\ zone'[y].settings = zone[y].settings
      BY <3>1 DEF Replace, Live, IInv, TypeOK
    <3>3. Registers!WriteAddresses(z, id)
      <4>1. st[z] = "live" /\ st' = st /\ se' = se
        BY <3>1, <3>2 DEF Live
      <4>2. pa' = [pa EXCEPT ![z][id] = Empty]
        BY <3>2, PartsEffect DEF Authors
      <4> QED BY <4>1, <4>2, ConstantsAssumption DEF Registers!WriteAddresses
    <3> QED BY <3>1, <3>3 DEF Registers!Next
  <2> QED BY <1>6, <2>1, <2>2 DEF ConsoleEdit
<1>7. CASE zone' = zone
  BY <1>1, <1>7
<1> QED
  BY <1>2, <1>3, <1>4, <1>5, <1>6, <1>7
  DEF Next, vars, Handle, CreateAddresses, UpdateAddresses, DeleteAddresses, UpdateZone,
      Begin, ReadAddresses, ReadZone, Lock, GetZone, ZoneNotFound, GetZoneFails,
      ReplaceSucceeds, ReplaceFails, GiveUp, Resend

\* The zone is a set of independent registers, one per author, although every
\* write replaces the whole zone.
THEOREM Refinement == Spec => RefinesRegisters
<1>1. Spec => Registers!Init /\ [][Registers!Next]_(Registers!vars)
  BY Invariance, InitRegisters, StepRegisters, PTL DEF Spec
<1> QED BY <1>1 DEF RefinesRegisters, Registers!Spec


=============================================================================
