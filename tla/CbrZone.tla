------------------------------ MODULE CbrZone ------------------------------
(***************************************************************************)
(* ibm/service/contextbasedrestrictions: the handlers of ibm_cbr_zone and  *)
(* ibm_cbr_zone_addresses, which write to the same network zone.           *)
(*                                                                         *)
(* The service has one write, ReplaceZone, that replaces the whole zone.   *)
(* A handler that owns some of the zone's addresses reads the zone, keeps  *)
(* what others own, puts its own in, and replaces the zone under an        *)
(* If-Match with the Etag it read.  A lock per zone id, local to the       *)
(* provider process, covers the read and the replacement.                  *)
(*                                                                         *)
(* Terraform runs the handlers of different blocks concurrently; another   *)
(* Terraform process, or a person at the console, may write to the zone as *)
(* well.  A request may be answered late, resent by the client's retries,  *)
(* or not be answered at all.                                              *)
(***************************************************************************)
EXTENDS Naturals, FiniteSets

CONSTANTS Zones,       \* zone ids the service may hand out
          Blocks,      \* ibm_cbr_zone_addresses blocks
          ZoneBlocks,  \* ibm_cbr_zone blocks
          Procs,       \* provider processes
          ProcOf,      \* the process that runs the handlers of a block
          Ids,         \* the "TF-<uuid>" ids that will be generated
          Default,     \* cbrZoneAddressIdDefault: the id of addresses without one
          Values,      \* address lists
          Empty,       \* the empty list
          Settings,    \* name, description and excluded addresses, as one value
          ConsoleEdits,\* does anybody edit zones outside Terraform?
          MaxWrites,   \* bound: operations and console edits that write to zones
          MaxDelayed,  \* bound: resent requests that wait at the same time
          None

Clients == Blocks \cup ZoneBlocks
Authors == Ids \cup {Default}

ASSUME ConstantsAssumption ==
    /\ Blocks \cap ZoneBlocks = {}
    /\ ProcOf \in [Clients -> Procs]
    /\ Default \notin Ids
    /\ Empty \in Values
    /\ ConsoleEdits \in BOOLEAN
    /\ MaxWrites \in Nat
    /\ MaxDelayed \in Nat
    /\ None \notin Clients \cup Settings \cup [zone : Zones, author : Authors]

VARIABLES
    zone,     \* the service's record of each zone
    mutex,    \* zoneMutexKV of each process: the client that holds a zone's lock
    tfstate,  \* the Terraform state of each block: the zone and id it names
    pc,       \* how far the handler of each block has got
    op,       \* what the running handler of a block was called to do
    request,  \* the ReplaceZone request a handler waits on
    delayed,  \* copies of requests that are still on their way
    begun,    \* how many operations and console edits have begun
    issued,   \* uuids that have been generated
    retired,  \* ids whose addresses were deleted and reported as deleted
    doubtful, \* ids with a request whose fate the provider did not learn
    writer    \* the client whose answered write last changed each zone

vars == <<zone, mutex, tfstate, pc, op, request, delayed, begun, issued,
          retired, doubtful, writer>>

Requests == [zone : Zones, ifMatch : Nat, author : Authors,
             parts : [Authors -> Values], settings : Settings]
Operations == [kind : {"create", "update", "delete"}, zone : Zones,
               target : Zones, author : Authors, want : Values,
               settings : Settings \cup {None}]
Places == [zone : Zones, author : Authors]

ZoneRecords == [status : {"unborn", "live", "gone"}, etag : Nat,
                parts : [Authors -> Values], settings : Settings \cup {None}]

TypeOK ==
    /\ zone \in [Zones -> ZoneRecords]
    /\ mutex \in [Procs -> [Zones -> Clients \cup {None}]]
    /\ tfstate \in [Clients -> Places \cup {None}]
    /\ pc \in [Clients -> {"idle", "lock", "get", "put", "committed", "refused"}]
    /\ op \in [Clients -> Operations \cup {None}]
    /\ request \in [Clients -> Requests \cup {None}]
    /\ delayed \subseteq Requests
    /\ begun \in 0 .. MaxWrites
    /\ issued \subseteq Ids
    /\ retired \subseteq Authors
    /\ doubtful \subseteq Authors
    /\ writer \in [Zones -> Clients \cup {None}]

Init ==
    /\ zone = [z \in Zones |-> [status |-> "unborn", etag |-> 0,
                                parts |-> [a \in Authors |-> Empty],
                                settings |-> None]]
    /\ mutex = [p \in Procs |-> [z \in Zones |-> None]]
    /\ tfstate = [c \in Clients |-> None]
    /\ pc = [c \in Clients |-> "idle"]
    /\ op = [c \in Clients |-> None]
    /\ request = [c \in Clients |-> None]
    /\ delayed = {}
    /\ begun = 0
    /\ issued = {}
    /\ retired = {}
    /\ doubtful = {}
    /\ writer = [z \in Zones |-> None]

-----------------------------------------------------------------------------
(* The service. *)

Live(z) == zone[z].status = "live"

\* Fault: no If-Match, so that any version is replaced.
FaultyAccepts(r) == Live(r.zone)

\* ReplaceZone accepts a request made from the version the zone is at.
Accepts(r) == Live(r.zone) /\ r.ifMatch = zone[r.zone].etag

Replace(z, parts, settings, by) ==
    /\ zone' = [zone EXCEPT ![z] = [status |-> "live", etag |-> @.etag + 1,
                                    parts |-> parts, settings |-> settings]]
    /\ writer' = [writer EXCEPT ![z] = by]

ReplaceZone(r, by) == Replace(r.zone, r.parts, r.settings, by)

-----------------------------------------------------------------------------
(* What a handler makes of the zone it read. *)

\* Fault: the other authors' addresses are not carried over.
FaultyMerged(current, o) == [a \in Authors |-> IF a = o.author THEN o.want ELSE Empty]

\* FilterAddressList keeps the addresses of the other authors, and
\* ResourceEncodeAddressList gives the wanted ones the author's id.
Merged(current, o) == [a \in Authors |-> IF a = o.author THEN o.want ELSE current[a]]

\* Fault: the addresses handler sends the settings of its own block, which has none.
FaultyRequestFor(o, z) == [zone     |-> o.zone,
                           ifMatch  |-> z.etag,
                           author   |-> o.author,
                           parts    |-> Merged(z.parts, o),
                           settings |-> o.settings]

\* The addresses handler passes on the settings it read; the zone handler
\* sends its own.
RequestFor(o, z) == [zone     |-> o.zone,
                     ifMatch  |-> z.etag,
                     author   |-> o.author,
                     parts    |-> Merged(z.parts, o),
                     settings |-> IF o.author = Default THEN o.settings ELSE z.settings]

-----------------------------------------------------------------------------
(* Beginning an operation.  A block has at most one operation at a time. *)

Begin(c, o) ==
    /\ pc[c] = "idle"
    /\ begun < MaxWrites
    /\ begun' = begun + 1
    /\ pc' = [pc EXCEPT ![c] = "lock"]
    /\ op' = [op EXCEPT ![c] = o]
    /\ UNCHANGED <<zone, mutex, tfstate, request, delayed, retired, doubtful, writer>>

CreateAddresses(b) ==
    /\ tfstate[b] = None
    /\ \E z \in Zones, id \in Ids \ issued, v \in Values :
          /\ issued' = issued \cup {id}
          /\ Begin(b, [kind |-> "create", zone |-> z, target |-> z, author |-> id,
                       want |-> v, settings |-> None])

\* The zone is the one in the resource's id, whatever zone_id says now.
UpdateAddresses(b) ==
    /\ tfstate[b] # None
    /\ \E z \in Zones, v \in Values :
          Begin(b, [kind |-> "update", zone |-> tfstate[b].zone, target |-> z,
                    author |-> tfstate[b].author, want |-> v, settings |-> None])
    /\ UNCHANGED issued

DeleteAddresses(b) ==
    /\ tfstate[b] # None
    /\ Begin(b, [kind |-> "delete", zone |-> tfstate[b].zone,
                 target |-> tfstate[b].zone, author |-> tfstate[b].author,
                 want |-> Empty, settings |-> None])
    /\ UNCHANGED issued

UpdateZone(c) ==
    /\ tfstate[c] # None
    /\ \E v \in Values, s \in Settings :
          Begin(c, [kind |-> "update", zone |-> tfstate[c].zone,
                    target |-> tfstate[c].zone, author |-> Default,
                    want |-> v, settings |-> s])
    /\ UNCHANGED issued

-----------------------------------------------------------------------------
(* The handlers, from the lock on. *)

Holds(c) == pc[c] \in {"get", "put", "committed", "refused"}

Lock(c) ==
    /\ pc[c] = "lock"
    /\ mutex[ProcOf[c]][op[c].zone] = None
    /\ mutex' = [mutex EXCEPT ![ProcOf[c]][op[c].zone] = c]
    /\ pc' = [pc EXCEPT ![c] = "get"]
    /\ UNCHANGED <<zone, tfstate, op, request, delayed, begun, issued, retired,
                   doubtful, writer>>

\* Every return runs the deferred Unlock.
Return(c, place) ==
    /\ pc' = [pc EXCEPT ![c] = "idle"]
    /\ mutex' = [mutex EXCEPT ![ProcOf[c]][op[c].zone] = None]
    /\ op' = [op EXCEPT ![c] = None]
    /\ request' = [request EXCEPT ![c] = None]
    /\ tfstate' = [tfstate EXCEPT ![c] = place]

\* Fault: the lock is released when the zone has been read.
FaultyGetZone(c) ==
    /\ pc[c] = "get"
    /\ Live(op[c].zone)
    /\ request' = [request EXCEPT ![c] = RequestFor(op[c], zone[op[c].zone])]
    /\ mutex' = [mutex EXCEPT ![ProcOf[c]][op[c].zone] = None]
    /\ pc' = [pc EXCEPT ![c] = "put"]
    /\ UNCHANGED <<zone, tfstate, op, delayed, begun, issued, retired, doubtful,
                   writer>>

GetZone(c) ==
    /\ pc[c] = "get"
    /\ Live(op[c].zone)
    /\ request' = [request EXCEPT ![c] = RequestFor(op[c], zone[op[c].zone])]
    /\ pc' = [pc EXCEPT ![c] = "put"]
    /\ UNCHANGED <<zone, mutex, tfstate, op, delayed, begun, issued, retired,
                   doubtful, writer>>

\* Fault: this return path does not unlock.
FaultyZoneNotFound(c) ==
    /\ pc[c] = "get"
    /\ ~Live(op[c].zone)
    /\ pc' = [pc EXCEPT ![c] = "idle"]
    /\ op' = [op EXCEPT ![c] = None]
    /\ tfstate' = [tfstate EXCEPT ![c] = None]
    /\ UNCHANGED <<zone, mutex, request, delayed, begun, issued, retired, doubtful,
                   writer>>

\* 404: the id is cleared.  To create or to change addresses in a zone that is
\* not there is an error; to delete them, or to update the zone itself, is not.
ZoneNotFound(c) ==
    /\ pc[c] = "get"
    /\ ~Live(op[c].zone)
    /\ Return(c, None)
    /\ UNCHANGED <<zone, delayed, begun, issued, retired, doubtful, writer>>

GetZoneFails(c) ==
    /\ pc[c] = "get"
    /\ Return(c, tfstate[c])
    /\ UNCHANGED <<zone, delayed, begun, issued, retired, doubtful, writer>>

\* The service answers the request.
ServeReplace(c) ==
    /\ pc[c] = "put"
    /\ IF Accepts(request[c])
          THEN ReplaceZone(request[c], c) /\ pc' = [pc EXCEPT ![c] = "committed"]
          ELSE UNCHANGED <<zone, writer>> /\ pc' = [pc EXCEPT ![c] = "refused"]
    /\ UNCHANGED <<mutex, tfstate, op, request, delayed, begun, issued, retired,
                   doubtful>>

\* The client's retries: the request was sent, no answer was heard, and it is
\* sent again; the first copy may still arrive.
Resend(c) ==
    /\ pc[c] = "put"
    /\ Cardinality(delayed) < MaxDelayed
    /\ delayed' = delayed \cup {request[c]}
    /\ doubtful' = doubtful \cup {op[c].author}
    /\ UNCHANGED <<zone, mutex, tfstate, pc, op, request, begun, issued, retired,
                   writer>>

\* What the handler leaves in the Terraform state when the replacement succeeded.
PlaceAfter(c) == CASE op[c].kind = "create" -> [zone   |-> op[c].zone,
                                                author |-> op[c].author]
                   [] op[c].kind = "update" -> tfstate[c]
                   [] op[c].kind = "delete" -> None

ReplaceSucceeds(c) ==
    /\ pc[c] = "committed"
    /\ Return(c, PlaceAfter(c))
    /\ retired' = IF op[c].kind = "delete" THEN retired \cup {op[c].author} ELSE retired
    /\ UNCHANGED <<zone, delayed, begun, issued, doubtful, writer>>

\* Fault: a delete clears the id before it looks at the error.
FaultyReplaceFails(c) ==
    /\ pc[c] = "refused"
    /\ Return(c, IF op[c].kind = "delete" THEN None ELSE tfstate[c])
    /\ UNCHANGED <<zone, delayed, begun, issued, retired, doubtful, writer>>

ReplaceFails(c) ==
    /\ pc[c] = "refused"
    /\ Return(c, tfstate[c])
    /\ UNCHANGED <<zone, delayed, begun, issued, retired, doubtful, writer>>

\* No answer came before the context's deadline.
GiveUp(c) ==
    /\ pc[c] \in {"put", "committed"}
    /\ Return(c, tfstate[c])
    /\ doubtful' = doubtful \cup {op[c].author}
    /\ UNCHANGED <<zone, delayed, begun, issued, retired, writer>>

-----------------------------------------------------------------------------
(* Handlers of a single request, which take no lock. *)

\* A block whose addresses are gone from the zone leaves the state.
ReadAddresses(b) ==
    /\ pc[b] = "idle"
    /\ tfstate[b] # None
    /\ \/ ~Live(tfstate[b].zone)
       \/ zone[tfstate[b].zone].parts[tfstate[b].author] = Empty
    /\ tfstate' = [tfstate EXCEPT ![b] = None]
    /\ UNCHANGED <<zone, mutex, pc, op, request, delayed, begun, issued, retired,
                   doubtful, writer>>

ReadZone(c) ==
    /\ pc[c] = "idle"
    /\ tfstate[c] # None
    /\ ~Live(tfstate[c].zone)
    /\ tfstate' = [tfstate EXCEPT ![c] = None]
    /\ UNCHANGED <<zone, mutex, pc, op, request, delayed, begun, issued, retired,
                   doubtful, writer>>

\* CreateZone; the answer may be lost, and then the id is not recorded.
CreateZone(c) ==
    /\ pc[c] = "idle"
    /\ tfstate[c] = None
    /\ \E z \in Zones, v \in Values, s \in Settings, answered \in BOOLEAN :
          /\ zone[z].status = "unborn"
          /\ zone' = [zone EXCEPT ![z] = [status |-> "live", etag |-> 1,
                                          parts |-> [@.parts EXCEPT ![Default] = v],
                                          settings |-> s]]
          /\ writer' = [writer EXCEPT ![z] = c]
          /\ tfstate' = [tfstate EXCEPT ![c] = IF answered
                              THEN [zone |-> z, author |-> Default] ELSE None]
    /\ UNCHANGED <<mutex, pc, op, request, delayed, begun, issued, retired, doubtful>>

\* DeleteZone sends no Etag and takes no lock.  Whatever the service does, an
\* error, the answer for a zone that is not there among them, keeps the state.
DeleteZone(c) ==
    /\ pc[c] = "idle"
    /\ tfstate[c] # None
    /\ \E answered \in BOOLEAN :
          /\ zone' = IF Live(tfstate[c].zone)
                        THEN [zone EXCEPT ![tfstate[c].zone].status = "gone"] ELSE zone
          /\ tfstate' = [tfstate EXCEPT ![c] =
                            IF answered /\ Live(@.zone) THEN None ELSE @]
    /\ UNCHANGED <<mutex, pc, op, request, delayed, begun, issued, retired, doubtful, writer>>

-----------------------------------------------------------------------------
(* Around the handlers. *)

\* A copy of a request arrives late, or is lost.
LateReplace ==
    \E r \in delayed :
        /\ delayed' = delayed \ {r}
        /\ \/ Accepts(r) /\ ReplaceZone(r, None)
           \/ UNCHANGED <<zone, writer>>
        /\ UNCHANGED <<mutex, tfstate, pc, op, request, begun, issued, retired,
                       doubtful>>

\* A person edits the base of a zone, or takes a block's addresses out of it.
ConsoleEdit ==
    /\ ConsoleEdits
    /\ begun < MaxWrites
    /\ begun' = begun + 1
    /\ \E z \in Zones :
          /\ Live(z)
          /\ \/ \E v \in Values, s \in Settings :
                   Replace(z, [zone[z].parts EXCEPT ![Default] = v], s, None)
             \/ \E id \in Ids :
                   Replace(z, [zone[z].parts EXCEPT ![id] = Empty], zone[z].settings, None)
    /\ UNCHANGED <<mutex, tfstate, pc, op, request, delayed, issued, retired, doubtful>>

-----------------------------------------------------------------------------
Handle(c) == \/ GetZone(c) \/ ZoneNotFound(c) \/ GetZoneFails(c)
             \/ ServeReplace(c) \/ ReplaceSucceeds(c) \/ ReplaceFails(c) \/ GiveUp(c)

Next ==
    \/ \E b \in Blocks : \/ CreateAddresses(b) \/ UpdateAddresses(b)
                         \/ DeleteAddresses(b) \/ ReadAddresses(b)
    \/ \E c \in ZoneBlocks : CreateZone(c) \/ UpdateZone(c) \/ DeleteZone(c) \/ ReadZone(c)
    \/ \E c \in Clients : Lock(c) \/ Handle(c) \/ Resend(c)
    \/ LateReplace
    \/ ConsoleEdit

Spec == Init /\ [][Next]_vars

\* Every request ends, with an answer or at its deadline, and sync.Mutex does
\* not starve a waiter.
FairSpec == Spec /\ \A c \in Clients : SF_vars(Lock(c)) /\ WF_vars(Handle(c))

-----------------------------------------------------------------------------
(* Properties. *)

\* The zone is a set of independent registers: no handler, and no request that
\* arrives late, changes addresses or settings it does not own, although each
\* of them replaces the whole zone.
Registers == INSTANCE ZoneRegisters WITH
    status   <- [z \in Zones |-> zone[z].status],
    parts    <- [z \in Zones |-> zone[z].parts],
    settings <- [z \in Zones |-> zone[z].settings]

RefinesRegisters == Registers!Spec

\* Two handlers of one process are never between Lock and Unlock of the same
\* zone, the base handler and the addresses handlers included.
MutualExclusion ==
    \A c, d \in Clients :
        (c # d /\ Holds(c) /\ Holds(d) /\ ProcOf[c] = ProcOf[d])
            => op[c].zone # op[d].zone

\* The lock is what keeps blocks of one configuration from failing each other:
\* when a request is about to be refused for its Etag, the last write came from
\* another process, from the console or from a copy that arrived late, never
\* from a handler of the same process.
NoConflictWithin ==
    \A c \in Clients :
        (pc[c] = "put" /\ zone[op[c].zone].etag # request[c].ifMatch)
            => writer[op[c].zone] \notin {d \in Clients : ProcOf[d] = ProcOf[c]}

\* Addresses in a live zone belong to a block whose state names them, or to a
\* handler that is about to record them; the exceptions are ids one of whose
\* requests went unanswered.
NoOrphanAddresses ==
    \A z \in Zones, id \in Ids :
        (Live(z) /\ zone[z].parts[id] # Empty)
            => \/ \E b \in Blocks : tfstate[b] = [zone |-> z, author |-> id]
               \/ \E b \in Blocks : pc[b] = "committed" /\ op[b].author = id
               \/ id \in doubtful

\* Addresses reported as deleted never come back, whatever requests of theirs,
\* or snapshots of other handlers that still hold them, are on their way.
DeletedStaysDeleted ==
    \A z \in Zones, id \in retired : Live(z) => zone[z].parts[id] = Empty

\* A handler that has been called returns: no path keeps the zone's lock.
HandlersReturn == \A c \in Clients : pc[c] = "lock" ~> pc[c] = "idle"

\* zone_id is "The id of the zone in which to include the addresses": an update
\* that succeeds leaves the wanted addresses in that zone, if there is one.
UpdateReachesZone ==
    [][\A b \in Blocks : (ReplaceSucceeds(b) /\ op[b].kind = "update" /\ Live(op[b].target))
          => zone[op[b].target].parts[op[b].author] = op[b].want]_vars
=============================================================================
