------------------------ MODULE CbrZoneOwners_proofs ------------------------
(***************************************************************************)
(* Further proofs about CbrZone: no addresses without an owner, and none   *)
(* that come back after their deletion, for every number of zones, blocks, *)
(* processes and delayed requests.                                         *)
(***************************************************************************)
EXTENDS CbrZone_proofs

-----------------------------------------------------------------------------
(* The inductive invariant *)

\* What an operation of a block has to do with the block's state.
PlaceInv ==
    /\ \A b \in Blocks : pc[b] # "idle" =>
        /\ op[b].kind = "create" => tfstate[b] = None
        /\ op[b].kind # "create" => tfstate[b] = [zone |-> op[b].zone, author |-> op[b].author]
        /\ op[b].kind = "delete" => op[b].want = Empty
    /\ \A c \in ZoneBlocks : pc[c] # "idle" => op[c].author = Default /\ op[c].kind = "update"

\* A request is its operation's.
RequestInv ==
    \A c \in Clients : pc[c] = "put" =>
        request[c].author = op[c].author /\ request[c].parts[op[c].author] = op[c].want

\* Block b has, or is about to have, addresses with this id in zone z.
Has(b, z, id) ==
    \/ pc[b] # "idle" /\ op[b].zone = z /\ op[b].author = id
    \/ tfstate[b] = [zone |-> z, author |-> id]

\* An id is one block's, until its addresses have been deleted.
OwnerInv ==
    /\ retired \subseteq Ids
    /\ \A b \in Blocks, z \in Zones, id \in Ids : Has(b, z, id) => id \notin retired
    /\ \A b, d \in Blocks, z, y \in Zones, id \in Ids : Has(b, z, id) /\ Has(d, y, id) => b = d

\* Addresses, requests and blocks with an id are all in the same zone, and the
\* id has been generated.
Used(z, id) ==
    \/ zone[z].parts[id] # Empty
    \/ \E r \in delayed : r.zone = z /\ r.author = id
    \/ \E b \in Blocks : Has(b, z, id)
UsedInv ==
    /\ \A z \in Zones, id \in Ids : Used(z, id) => id \in issued
    /\ \A z, y \in Zones, id \in Ids : Used(z, id) /\ Used(y, id) => z = y
    /\ retired \subseteq issued

\* A request that waits somewhere was sent again.
DoubtInv == \A r \in delayed : r.author \in doubtful

UnbornInv == \A z \in Zones, id \in Ids : zone[z].status = "unborn" => zone[z].parts[id] = Empty

\* The deletion of an id's addresses has been written.
Deleted(id) ==
    \/ id \in retired
    \/ \E b \in Blocks : pc[b] = "committed" /\ op[b].kind = "delete" /\ op[b].author = id

\* No addresses with this id, and no request that could bring them back: what
\* waits was made from a version that is gone.
Quiet(id) ==
    /\ \A z \in Zones : zone[z].parts[id] = Empty
    /\ \A r \in delayed : r.author = id => r.ifMatch < zone[r.zone].etag
QuietInv == \A id \in Ids : Deleted(id) => Quiet(id)

OInv == /\ PlaceInv /\ RequestInv /\ OwnerInv /\ UsedInv /\ DoubtInv /\ UnbornInv /\ QuietInv
        /\ NoOrphanAddresses

-----------------------------------------------------------------------------
(* Lemmas about the pieces the actions are made of *)

LEMMA InitOInv == Init => OInv
<1> SUFFICES ASSUME Init PROVE OInv
  OBVIOUS
<1>1. /\ \A b \in Blocks : pc[b] = "idle" /\ tfstate[b] = None
      /\ \A c \in Clients : pc[c] = "idle"
      /\ delayed = {} /\ retired = {}
      /\ \A z \in Zones : zone[z].status = "unborn"
      /\ \A z \in Zones, id \in Ids : zone[z].parts[id] = Empty
  BY DEF Init, Clients, Authors
<1>2. \A b \in Blocks, z \in Zones, id \in Ids : ~Has(b, z, id)
  BY <1>1, ConstantsAssumption DEF Has, Authors
<1>3. PlaceInv /\ RequestInv
  BY <1>1 DEF PlaceInv, RequestInv, Clients
<1>4. OwnerInv /\ UsedInv
  BY <1>1, <1>2 DEF OwnerInv, UsedInv, Used
<1>5. DoubtInv /\ UnbornInv /\ NoOrphanAddresses
  BY <1>1 DEF DoubtInv, UnbornInv, NoOrphanAddresses
<1>6. QuietInv
  BY <1>1 DEF QuietInv, Deleted
<1> QED BY <1>3, <1>4, <1>5, <1>6 DEF OInv

\* What a step that writes no zone and no request leaves as it was.
LEMMA ZonesKept ==
    ASSUME OInv, zone' = zone, delayed' = delayed, issued' = issued,
           retired' \subseteq issued, doubtful \subseteq doubtful',
           \A b \in Blocks, z \in Zones, id \in Ids : Has(b, z, id)' => Has(b, z, id),
           \A id \in Ids : Deleted(id)' => Deleted(id)
    PROVE  UsedInv' /\ DoubtInv' /\ UnbornInv' /\ QuietInv'
<1>1. \A z \in Zones, id \in Ids : Used(z, id)' => Used(z, id)
  BY DEF Used
<1>2. UsedInv'
  BY <1>1 DEF OInv, UsedInv
<1>3. DoubtInv' /\ UnbornInv'
  BY DEF OInv, DoubtInv, UnbornInv
<1>4. \A id \in Ids : Quiet(id) => Quiet(id)'
  BY DEF Quiet
<1>5. QuietInv'
  BY <1>4 DEF OInv, QuietInv
<1> QED BY <1>2, <1>3, <1>5

\* No block gains an id, and none is retired.
LEMMA OwnersKept ==
    ASSUME OwnerInv, retired' = retired,
           \A b \in Blocks, z \in Zones, id \in Ids : Has(b, z, id)' => Has(b, z, id)
    PROVE  OwnerInv'
BY DEF OwnerInv

\* A handler past its beginning: its operation is in a zone, and a block's has
\* an id of its own, which has not been deleted.
LEMMA RunningHandler ==
    ASSUME IInv, OInv, NEW c \in Clients, pc[c] # "idle"
    PROVE  /\ op[c] \in Operations /\ op[c].zone \in Zones /\ op[c].author \in Authors
           /\ op[c].author \in Ids => /\ c \in Blocks
                                      /\ Has(c, op[c].zone, op[c].author)
                                      /\ Used(op[c].zone, op[c].author)
                                      /\ op[c].author \notin retired
           /\ pc[c] = "put" /\ op[c].author \in Ids => ~Deleted(op[c].author)
<1>1. op[c] \in Operations /\ op[c].zone \in Zones /\ op[c].author \in Authors
  BY DEF IInv, HandlersOK, Operations
<1>2. ASSUME op[c].author \in Ids
      PROVE  /\ c \in Blocks
             /\ Has(c, op[c].zone, op[c].author)
             /\ Used(op[c].zone, op[c].author)
             /\ op[c].author \notin retired
  <2>1. c \in Blocks
    BY <1>2, ConstantsAssumption DEF OInv, PlaceInv, Clients
  <2>2. Has(c, op[c].zone, op[c].author)
    BY DEF Has
  <2> QED BY <1>1, <1>2, <2>1, <2>2 DEF OInv, OwnerInv, Used
<1>3. ASSUME pc[c] = "put", op[c].author \in Ids, Deleted(op[c].author) PROVE FALSE
  <2>1. PICK b \in Blocks : pc[b] = "committed" /\ op[b].author = op[c].author
    BY <1>2, <1>3 DEF Deleted
  <2>2. op[b].zone \in Zones
    BY <2>1 DEF IInv, HandlersOK, Operations, Clients
  <2>3. Has(b, op[b].zone, op[c].author)
    BY <2>1 DEF Has
  <2>4. b = c
    BY <1>1, <1>2, <1>3, <2>2, <2>3 DEF OInv, OwnerInv
  <2> QED BY <1>3, <2>1, <2>4
<1> QED BY <1>1, <1>2, <1>3

\* An accepted request changes its author's addresses in its zone, and no
\* other's, and moves the zone to a new version.
LEMMA WriteEffect ==
    ASSUME IInv, NEW r \in Requests, Carries(r), Accepts(r), NEW by, ReplaceZone(r, by)
    PROVE  \A z \in Zones :
              /\ zone'[z].status = zone[z].status
              /\ zone[z].etag \in Nat
              /\ zone'[z].etag = IF z = r.zone THEN zone[z].etag + 1 ELSE zone[z].etag
              /\ \A a \in Authors :
                    zone'[z].parts[a] = IF z = r.zone /\ a = r.author
                                           THEN r.parts[a] ELSE zone[z].parts[a]
<1>1. r.zone \in Zones /\ r.parts \in [Authors -> Values]
  BY DEF Requests
<1>2. \A z \in Zones : zone[z].etag \in Nat
  BY DEF IInv, TypeOK, ZoneRecords
<1>3. \A a \in Authors \ {r.author} : r.parts[a] = zone[r.zone].parts[a]
  BY DEF Carries, Accepts
<1>4. zone[r.zone].status = "live"
  BY DEF Accepts, Live
<1>5. /\ zone'[r.zone] = [status |-> "live", etag |-> zone[r.zone].etag + 1,
                          parts |-> r.parts, settings |-> r.settings]
      /\ \A z \in Zones \ {r.zone} : zone'[z] = zone[z]
  BY <1>1 DEF ReplaceZone, Replace, IInv, TypeOK
<1>6. \A z \in Zones \ {r.zone} : zone'[z] = zone[z]
  BY <1>5
<1>7. /\ zone'[r.zone].status = "live" /\ zone'[r.zone].parts = r.parts
      /\ zone'[r.zone].etag = zone[r.zone].etag + 1
  BY <1>5
<1>8. \A a \in Authors : zone'[r.zone].parts[a] = IF a = r.author
                             THEN r.parts[a] ELSE zone[r.zone].parts[a]
  BY <1>3, <1>7
<1> QED BY <1>1, <1>2, <1>4, <1>6, <1>7, <1>8

\* The requests that wait keep waiting, or leave; zones move to later versions.
LEMMA QuietKept ==
    ASSUME IInv, NEW id \in Ids, Quiet(id), delayed' \subseteq delayed,
           \A z \in Zones : zone'[z].parts[id] = Empty,
           \A z \in Zones : /\ zone[z].status # "unborn" => zone'[z].etag >= zone[z].etag
                            /\ zone'[z].etag \in Nat
    PROVE  Quiet(id)'
<1>1. \A r \in delayed : /\ r.zone \in Zones /\ r.ifMatch \in Nat /\ zone[r.zone].etag \in Nat
                         /\ zone[r.zone].status # "unborn"
  BY DEF IInv, TypeOK, Requests, ZoneRecords, RequestsOK, Carries
<1> QED BY <1>1 DEF Quiet

-----------------------------------------------------------------------------
(* One lemma per action, or per group of actions *)

\* A new id is nobody's yet.
LEMMA CreateAddressesOwners == ASSUME IInv, OInv, NEW b \in Blocks, CreateAddresses(b) PROVE OInv'
<1>1. PICK z \in Zones, id \in Ids \ issued, v \in Values :
         /\ issued' = issued \cup {id}
         /\ Begin(b, [kind |-> "create", zone |-> z, target |-> z, author |-> id,
                      want |-> v, settings |-> None])
  BY DEF CreateAddresses
<1> DEFINE o == [kind |-> "create", zone |-> z, target |-> z, author |-> id,
                 want |-> v, settings |-> None]
<1>2. /\ tfstate[b] = None /\ pc[b] = "idle" /\ b \in Clients
      /\ issued' = issued \cup {id}
      /\ pc' = [pc EXCEPT ![b] = "lock"] /\ op' = [op EXCEPT ![b] = o]
      /\ UNCHANGED <<zone, tfstate, request, delayed, retired, doubtful>>
  BY <1>1 DEF CreateAddresses, Begin, Clients
<1>3. /\ \A c \in Clients \ {b} : pc'[c] = pc[c] /\ op'[c] = op[c]
      /\ pc'[b] = "lock" /\ op'[b] = o
      /\ o.kind = "create" /\ o.zone = z /\ o.author = id
  BY <1>2 DEF IInv, TypeOK
<1> HIDE DEF o
<1>4. \A d \in Blocks, y \in Zones, i \in Ids :
         Has(d, y, i)' => Has(d, y, i) \/ (d = b /\ y = z /\ i = id)
  BY <1>2, <1>3 DEF Has, Clients
<1>5. \A d \in Blocks, y \in Zones : ~Has(d, y, id) /\ ~Used(y, id)
  BY DEF OInv, UsedInv, Used
<1>6. PlaceInv'
  BY <1>2, <1>3, ConstantsAssumption DEF OInv, PlaceInv, Clients
<1>7. RequestInv'
  BY <1>2, <1>3 DEF OInv, RequestInv
<1>8. OwnerInv'
  <2>1. id \notin retired
    BY DEF OInv, UsedInv
  <2> QED BY <1>2, <1>4, <1>5, <2>1 DEF OInv, OwnerInv
<1>9. UsedInv'
  <2>1. \A y \in Zones, i \in Ids : Used(y, i)' => Used(y, i) \/ (y = z /\ i = id)
    BY <1>2, <1>4 DEF Used
  <2> QED BY <1>2, <1>5, <2>1 DEF OInv, UsedInv
<1>10. DoubtInv' /\ UnbornInv'
  BY <1>2 DEF OInv, DoubtInv, UnbornInv
<1>11. QuietInv'
  <2>1. \A i \in Ids : Deleted(i)' => Deleted(i)
    BY <1>2, <1>3 DEF Deleted, Clients
  <2> QED BY <1>2, <2>1 DEF OInv, QuietInv, Quiet
<1>12. NoOrphanAddresses'
  BY <1>2, <1>3 DEF OInv, NoOrphanAddresses, Live, Clients
<1> QED BY <1>6, <1>7, <1>8, <1>9, <1>10, <1>11, <1>12 DEF OInv

\* An operation on what the state names gains no id.
LEMMA BeginOwners ==
    ASSUME IInv, OInv, NEW c \in Clients, NEW o, Begin(c, o), issued' = issued,
           c \in Blocks => /\ o.kind # "create"
                           /\ tfstate[c] = [zone |-> o.zone, author |-> o.author]
                           /\ o.kind = "delete" => o.want = Empty,
           c \in ZoneBlocks => o.author = Default /\ o.kind = "update"
    PROVE  OInv'
<1>1. /\ pc[c] = "idle"
      /\ pc' = [pc EXCEPT ![c] = "lock"] /\ op' = [op EXCEPT ![c] = o]
      /\ UNCHANGED <<zone, tfstate, request, delayed, retired, doubtful>>
  BY DEF Begin
<1>2. /\ \A d \in Clients \ {c} : pc'[d] = pc[d] /\ op'[d] = op[d]
      /\ pc'[c] = "lock" /\ op'[c] = o
  BY <1>1 DEF IInv, TypeOK
<1>3. \A d \in Blocks, y \in Zones, i \in Ids : Has(d, y, i)' => Has(d, y, i)
  BY <1>1, <1>2 DEF Has, Clients
<1>4. \A i \in Ids : Deleted(i)' => Deleted(i)
  BY <1>1, <1>2 DEF Deleted, Clients
<1>5. PlaceInv'
  BY <1>1, <1>2, ConstantsAssumption DEF OInv, PlaceInv, Clients
<1>6. RequestInv'
  BY <1>1, <1>2 DEF OInv, RequestInv
<1>7. OwnerInv'
  BY <1>1, <1>3, OwnersKept DEF OInv
<1>8. UsedInv' /\ DoubtInv' /\ UnbornInv' /\ QuietInv'
  BY <1>1, <1>3, <1>4, ZonesKept DEF OInv, UsedInv
<1>9. NoOrphanAddresses'
  BY <1>1, <1>2 DEF OInv, NoOrphanAddresses, Live, Clients
<1> QED BY <1>5, <1>6, <1>7, <1>8, <1>9 DEF OInv

\* A handler takes the lock, or reads the zone.
LEMMA LockGetOwners ==
    ASSUME IInv, OInv, NEW c \in Clients, Lock(c) \/ GetZone(c) PROVE OInv'
<1>1. /\ pc[c] \in {"lock", "get"} /\ pc'[c] \in {"get", "put"}
      /\ \A d \in Clients \ {c} : pc'[d] = pc[d] /\ request'[d] = request[d]
      /\ UNCHANGED <<zone, tfstate, op, delayed, issued, retired, doubtful>>
  BY DEF Lock, GetZone, IInv, TypeOK
<1>2. pc[c] \notin {"idle", "put", "committed"} /\ pc'[c] \notin {"idle", "committed"}
  BY <1>1
<1>3. \A d \in Blocks, y \in Zones, i \in Ids : Has(d, y, i)' => Has(d, y, i)
  BY <1>1, <1>2 DEF Has, Clients
<1>4. \A i \in Ids : Deleted(i)' => Deleted(i)
  BY <1>1, <1>2 DEF Deleted, Clients
<1>5. PlaceInv'
  BY <1>1, <1>2 DEF OInv, PlaceInv, Clients
<1>6. pc'[c] = "put" => /\ request'[c].author = op[c].author
                        /\ request'[c].parts[op[c].author] = op[c].want
  <2>1. CASE Lock(c)
    BY <2>1 DEF Lock, IInv, TypeOK
  <2>2. CASE GetZone(c)
    <3>1. request'[c] = RequestFor(op[c], zone[op[c].zone])
      BY <2>2 DEF GetZone, IInv, TypeOK
    <3>2. op[c].author \in Authors
      BY <1>2, RunningHandler
    <3> QED BY <3>1, <3>2 DEF RequestFor, Merged
  <2> QED BY <2>1, <2>2
<1>7. RequestInv'
  BY <1>1, <1>6 DEF OInv, RequestInv
<1>8. OwnerInv'
  BY <1>1, <1>3, OwnersKept DEF OInv
<1>9. UsedInv' /\ DoubtInv' /\ UnbornInv' /\ QuietInv'
  BY <1>1, <1>3, <1>4, ZonesKept DEF OInv, UsedInv
<1>10. NoOrphanAddresses'
  BY <1>1, <1>2 DEF OInv, NoOrphanAddresses, Live, Clients
<1> QED BY <1>5, <1>7, <1>8, <1>9, <1>10 DEF OInv

\* What a return does to the handler and to the other blocks.
LEMMA ReturnEffect ==
    ASSUME IInv, OInv, NEW c \in Clients, pc[c] # "idle", NEW place, Return(c, place),
           place \in {None, tfstate[c], [zone |-> op[c].zone, author |-> op[c].author]}
    PROVE  /\ pc'[c] = "idle" /\ tfstate'[c] = place
           /\ \A d \in Clients \ {c} : /\ pc'[d] = pc[d] /\ op'[d] = op[d]
                                       /\ request'[d] = request[d] /\ tfstate'[d] = tfstate[d]
           /\ \A d \in Blocks, y \in Zones, i \in Ids : Has(d, y, i)' => Has(d, y, i)
           /\ PlaceInv' /\ RequestInv'
           /\ retired' = retired => \A i \in Ids : Deleted(i)' => Deleted(i)
<1>1. /\ pc'[c] = "idle" /\ tfstate'[c] = place
      /\ \A d \in Clients \ {c} : /\ pc'[d] = pc[d] /\ op'[d] = op[d]
                                  /\ request'[d] = request[d] /\ tfstate'[d] = tfstate[d]
  BY DEF Return, IInv, TypeOK
<1>2. \A y \in Zones, i \in Ids : None # [zone |-> y, author |-> i]
  BY ConstantsAssumption DEF Authors
<1>3. \A y \in Zones, i \in Ids : (place = [zone |-> y, author |-> i])
         => \/ tfstate[c] = [zone |-> y, author |-> i]
            \/ op[c].zone = y /\ op[c].author = i
  BY <1>2
<1>4. \A d \in Blocks, y \in Zones, i \in Ids : Has(d, y, i)' => Has(d, y, i)
  BY <1>1, <1>3 DEF Has, Clients
<1>5. PlaceInv'
  BY <1>1 DEF OInv, PlaceInv, Clients
<1>6. RequestInv'
  BY <1>1 DEF OInv, RequestInv
<1>7. retired' = retired => \A i \in Ids : Deleted(i)' => Deleted(i)
  BY <1>1 DEF Deleted, Clients
<1> QED BY <1>1, <1>4, <1>5, <1>6, <1>7

\* A handler returns without a success of its replacement.
LEMMA ReturnOwners ==
    ASSUME IInv, OInv, NEW c \in Clients,
           ZoneNotFound(c) \/ GetZoneFails(c) \/ ReplaceFails(c) \/ GiveUp(c)
    PROVE  OInv'
<1>1. /\ pc[c] # "idle"
      /\ UNCHANGED <<zone, delayed, issued, retired>> /\ doubtful \subseteq doubtful'
      /\ pc[c] = "committed" => op[c].author \in doubtful'
  BY DEF ZoneNotFound, GetZoneFails, ReplaceFails, GiveUp
<1>2. PICK place \in {None, tfstate[c]} :
         /\ Return(c, place)
         /\ place = tfstate[c] \/ (pc[c] = "get" /\ ~Live(op[c].zone))
  BY DEF ZoneNotFound, GetZoneFails, ReplaceFails, GiveUp
<1>3. /\ pc'[c] = "idle" /\ tfstate'[c] = place
      /\ \A d \in Clients \ {c} : /\ pc'[d] = pc[d] /\ op'[d] = op[d]
                                  /\ request'[d] = request[d] /\ tfstate'[d] = tfstate[d]
      /\ \A d \in Blocks, y \in Zones, i \in Ids : Has(d, y, i)' => Has(d, y, i)
      /\ PlaceInv' /\ RequestInv'
      /\ \A i \in Ids : Deleted(i)' => Deleted(i)
  BY <1>1, <1>2, ReturnEffect
<1>4. OwnerInv'
  BY <1>1, <1>3, OwnersKept DEF OInv
<1>5. UsedInv' /\ DoubtInv' /\ UnbornInv' /\ QuietInv'
  BY <1>1, <1>3, ZonesKept DEF OInv, UsedInv
<1>6. NoOrphanAddresses'
  <2> SUFFICES ASSUME NEW z \in Zones, NEW id \in Ids, Live(z), zone[z].parts[id] # Empty
               PROVE  \/ \E b \in Blocks : tfstate'[b] = [zone |-> z, author |-> id]
                      \/ \E b \in Blocks : pc'[b] = "committed" /\ op'[b].author = id
                      \/ id \in doubtful'
    BY <1>1 DEF NoOrphanAddresses, Live
  <2>1. CASE \E b \in Blocks : tfstate[b] = [zone |-> z, author |-> id]
    <3>1. PICK b \in Blocks : tfstate[b] = [zone |-> z, author |-> id]
      BY <2>1
    <3>2. CASE b # c
      BY <1>3, <3>1, <3>2 DEF Clients
    <3>3. CASE b = c
      <4>1. tfstate[c] = [zone |-> op[c].zone, author |-> op[c].author]
        BY <1>1, <3>1, <3>3, ConstantsAssumption DEF OInv, PlaceInv, Authors
      <4>2. z = op[c].zone
        BY <3>1, <3>3, <4>1
      <4>3. tfstate'[c] = tfstate[c]
        BY <1>2, <1>3, <4>2
      <4> QED BY <3>1, <3>3, <4>3
    <3> QED BY <3>2, <3>3
  <2>2. CASE \E b \in Blocks : pc[b] = "committed" /\ op[b].author = id
    BY <1>1, <1>3, <2>2 DEF Clients
  <2>3. CASE id \in doubtful
    BY <1>1, <2>3
  <2> QED BY <2>1, <2>2, <2>3 DEF OInv, NoOrphanAddresses
<1> QED BY <1>3, <1>4, <1>5, <1>6 DEF OInv

\* What a success records is what was written; after a delete nothing is left.
LEMMA SucceedsOwners == ASSUME IInv, OInv, NEW c \in Clients, ReplaceSucceeds(c) PROVE OInv'
<1>1. /\ pc[c] = "committed"
      /\ Return(c, PlaceAfter(c))
      /\ retired' = IF op[c].kind = "delete" THEN retired \cup {op[c].author} ELSE retired
      /\ UNCHANGED <<zone, delayed, issued, doubtful>>
  BY DEF ReplaceSucceeds
<1>2. /\ op[c] \in Operations /\ op[c].zone \in Zones /\ op[c].author \in Authors
      /\ op[c].author \in Ids => /\ c \in Blocks
                                 /\ Has(c, op[c].zone, op[c].author)
                                 /\ Used(op[c].zone, op[c].author)
  BY <1>1, RunningHandler
<1>3. /\ op[c].kind = "create" => PlaceAfter(c) = [zone |-> op[c].zone, author |-> op[c].author]
      /\ op[c].kind = "update" => PlaceAfter(c) = tfstate[c]
      /\ op[c].kind = "delete" => PlaceAfter(c) = None
      /\ op[c].kind \in {"create", "update", "delete"}
  BY <1>2 DEF PlaceAfter, Operations
<1>4. /\ pc'[c] = "idle" /\ tfstate'[c] = PlaceAfter(c)
      /\ \A d \in Clients \ {c} : /\ pc'[d] = pc[d] /\ op'[d] = op[d]
                                  /\ request'[d] = request[d] /\ tfstate'[d] = tfstate[d]
      /\ \A d \in Blocks, y \in Zones, i \in Ids : Has(d, y, i)' => Has(d, y, i)
      /\ PlaceInv' /\ RequestInv'
  BY <1>1, <1>3, ReturnEffect
<1>5. op[c].kind = "delete" => c \in Blocks /\ op[c].author \in Ids
  BY <1>1, <1>2, ConstantsAssumption DEF OInv, PlaceInv, IInv, HandlersOK, Clients
<1>6. \A i \in Ids : Deleted(i)' => Deleted(i)
  <2>1. \A i \in Ids : i \in retired' => Deleted(i)
    BY <1>1, <1>5 DEF Deleted
  <2>2. \A i \in Ids, b \in Blocks :
           pc'[b] = "committed" /\ op'[b].kind = "delete" /\ op'[b].author = i => Deleted(i)
    BY <1>4 DEF Deleted, Clients
  <2> QED BY <2>1, <2>2 DEF Deleted
<1>7. OwnerInv'
  <2>1. retired' \subseteq Ids
    BY <1>1, <1>5 DEF OInv, OwnerInv
  <2>2. ASSUME NEW b \in Blocks, NEW z \in Zones, NEW id \in Ids, Has(b, z, id)', id \in retired'
        PROVE  FALSE
    <3>1. Has(b, z, id)
      BY <1>4, <2>2
    <3>2. id = op[c].author /\ op[c].kind = "delete"
      BY <1>1, <2>2, <3>1 DEF OInv, OwnerInv
    <3>3. b = c
      BY <1>2, <2>2, <3>1, <3>2 DEF OInv, OwnerInv
    <3>4. tfstate'[b] = None /\ pc'[b] = "idle"
      BY <1>3, <1>4, <3>2, <3>3
    <3> QED BY <2>2, <3>4, ConstantsAssumption DEF Has, Authors
  <2> QED BY <1>4, <2>1, <2>2 DEF OInv, OwnerInv
<1>8. UsedInv' /\ DoubtInv' /\ UnbornInv' /\ QuietInv'
  <2>1. retired' \subseteq issued
    BY <1>1, <1>2, <1>5 DEF OInv, UsedInv
  <2> QED BY <1>1, <1>4, <1>6, <2>1, ZonesKept
<1>9. NoOrphanAddresses'
  <2> SUFFICES ASSUME NEW z \in Zones, NEW id \in Ids, Live(z), zone[z].parts[id] # Empty
               PROVE  \/ \E b \in Blocks : tfstate'[b] = [zone |-> z, author |-> id]
                      \/ \E b \in Blocks : pc'[b] = "committed" /\ op'[b].author = id
                      \/ id \in doubtful'
    BY <1>1 DEF NoOrphanAddresses, Live
  <2>1. CASE c \in Blocks /\ op[c].author = id
    <3>1. z = op[c].zone
      BY <1>2, <2>1 DEF OInv, UsedInv, Used
    <3>2. op[c].kind # "delete"
      BY <1>1, <2>1 DEF OInv, QuietInv, Deleted, Quiet
    <3>3. op[c].kind # "create" => tfstate[c] = [zone |-> z, author |-> id]
      BY <1>1, <2>1, <3>1 DEF OInv, PlaceInv
    <3>4. tfstate'[c] = [zone |-> z, author |-> id]
      BY <1>3, <1>4, <2>1, <3>1, <3>2, <3>3
    <3> QED BY <2>1, <3>4
  <2>2. CASE ~(c \in Blocks /\ op[c].author = id)
    <3>1. CASE \E b \in Blocks : tfstate[b] = [zone |-> z, author |-> id]
      <4>1. PICK b \in Blocks : tfstate[b] = [zone |-> z, author |-> id]
        BY <3>1
      <4>2. b # c
        <5> SUFFICES ASSUME b = c PROVE FALSE
          OBVIOUS
        <5>1. op[c].kind # "create" => tfstate[c] = [zone |-> op[c].zone, author |-> op[c].author]
          BY <1>1, <4>1 DEF OInv, PlaceInv
        <5>2. tfstate[c] = None
          BY <1>1, <2>2, <4>1, <5>1 DEF OInv, PlaceInv
        <5> QED BY <4>1, <5>2, ConstantsAssumption DEF Authors
      <4> QED BY <1>4, <4>1, <4>2 DEF Clients
    <3>2. CASE \E b \in Blocks : pc[b] = "committed" /\ op[b].author = id
      BY <1>4, <2>2, <3>2 DEF Clients
    <3>3. CASE id \in doubtful
      BY <1>1, <3>3
    <3> QED BY <3>1, <3>2, <3>3 DEF OInv, NoOrphanAddresses
  <2> QED BY <2>1, <2>2
<1> QED BY <1>4, <1>7, <1>8, <1>9 DEF OInv

\* The service writes a handler's addresses, or refuses the request.
LEMMA ServeReplaceOwners == ASSUME IInv, OInv, NEW c \in Clients, ServeReplace(c) PROVE OInv'
<1> DEFINE r == request[c]
<1>1. /\ pc[c] = "put" /\ pc'[c] \in {"committed", "refused"}
      /\ \A d \in Clients \ {c} : pc'[d] = pc[d]
      /\ UNCHANGED <<tfstate, op, request, delayed, issued, retired, doubtful>>
  BY DEF ServeReplace, IInv, TypeOK
<1>2. /\ op[c] \in Operations /\ op[c].zone \in Zones /\ op[c].author \in Authors
      /\ op[c].author \in Ids => /\ c \in Blocks
                                 /\ Has(c, op[c].zone, op[c].author)
                                 /\ Used(op[c].zone, op[c].author)
                                 /\ ~Deleted(op[c].author)
  BY <1>1, RunningHandler
<1>3. /\ r \in Requests /\ Carries(r) /\ r.zone = op[c].zone
      /\ r.author = op[c].author /\ r.parts[op[c].author] = op[c].want
  BY <1>1 DEF IInv, HandlersOK, RequestsOK, OInv, RequestInv
<1> HIDE DEF r
<1>4. \A d \in Blocks, y \in Zones, i \in Ids : Has(d, y, i)' => Has(d, y, i)
  BY <1>1 DEF Has, Clients
<1>5. PlaceInv' /\ RequestInv'
  BY <1>1 DEF OInv, PlaceInv, RequestInv, Clients
<1>6. OwnerInv'
  BY <1>1, <1>4, OwnersKept DEF OInv
<1>7. DoubtInv'
  BY <1>1 DEF OInv, DoubtInv
<1>8. CASE ~Accepts(r)
  <2>1. pc'[c] = "refused" /\ zone' = zone
    BY <1>1, <1>8 DEF ServeReplace, IInv, TypeOK, r
  <2>2. \A i \in Ids : Deleted(i)' => Deleted(i)
    BY <1>1, <2>1 DEF Deleted, Clients
  <2>3. UsedInv' /\ UnbornInv' /\ QuietInv'
    BY <1>1, <1>4, <2>1, <2>2, ZonesKept DEF OInv, UsedInv
  <2>4. NoOrphanAddresses'
    BY <1>1, <2>1 DEF OInv, NoOrphanAddresses, Live, Clients
  <2> QED BY <1>5, <1>6, <1>7, <2>3, <2>4 DEF OInv
<1>9. CASE Accepts(r)
  <2>1. pc'[c] = "committed" /\ ReplaceZone(r, c)
    BY <1>1, <1>9 DEF ServeReplace, IInv, TypeOK, r
  <2>2. \A z \in Zones :
           /\ zone'[z].status = zone[z].status
           /\ zone[z].etag \in Nat
           /\ zone'[z].etag = IF z = r.zone THEN zone[z].etag + 1 ELSE zone[z].etag
           /\ \A a \in Authors :
                 zone'[z].parts[a] = IF z = r.zone /\ a = r.author
                                        THEN r.parts[a] ELSE zone[z].parts[a]
    BY <1>3, <1>9, <2>1, WriteEffect
  <2>3. \A z \in Zones : zone'[z].etag >= zone[z].etag /\ zone'[z].etag \in Nat
    BY <2>2
  <2>4. \A z \in Zones, id \in Ids : Used(z, id)' => Used(z, id)
    <3>1. \A z \in Zones, id \in Ids : zone'[z].parts[id] # Empty => Used(z, id)
      BY <1>2, <1>3, <2>2 DEF Used, Authors
    <3> QED BY <1>1, <1>4, <3>1 DEF Used
  <2>5. UsedInv'
    BY <1>1, <2>4 DEF OInv, UsedInv
  <2>6. UnbornInv'
    BY <1>3, <1>9, <2>2 DEF OInv, UnbornInv, Accepts, Live, Authors
  <2>7. QuietInv'
    <3> SUFFICES ASSUME NEW id \in Ids, Deleted(id)' PROVE Quiet(id)'
      BY DEF QuietInv
    <3>1. CASE id # op[c].author
      <4>1. Deleted(id)
        BY <1>1, <3>1 DEF Deleted, Clients
      <4>2. Quiet(id)
        BY <4>1 DEF OInv, QuietInv
      <4>3. \A z \in Zones : zone'[z].parts[id] = Empty
        BY <1>3, <2>2, <3>1, <4>2 DEF Quiet, Authors
      <4> QED BY <1>1, <2>3, <4>2, <4>3, QuietKept
    <3>2. CASE id = op[c].author
      <4>1. op[c].kind = "delete"
        <5>1. ~Deleted(id)
          BY <1>2, <3>2
        <5> QED BY <1>1, <3>2, <5>1 DEF Deleted, Clients
      <4>2. op[c].want = Empty
        BY <1>1, <1>2, <3>2, <4>1 DEF OInv, PlaceInv
      <4>3. \A z \in Zones \ {r.zone} : zone[z].parts[id] = Empty
        BY <1>2, <1>3, <3>2 DEF OInv, UsedInv, Used
      <4>4. \A z \in Zones : zone'[z].parts[id] = Empty
        BY <1>2, <1>3, <2>2, <3>2, <4>2, <4>3
      <4>5. ASSUME NEW q \in delayed, q.author = id PROVE q.ifMatch < zone'[q.zone].etag
        <5>1. q \in Requests /\ q.zone \in Zones /\ q.ifMatch \in Nat /\ Carries(q)
          BY DEF IInv, TypeOK, RequestsOK, Requests
        <5>2. q.zone = r.zone
          BY <1>2, <1>3, <3>2, <4>5, <5>1 DEF OInv, UsedInv, Used
        <5>3. q.ifMatch <= zone[q.zone].etag
          BY <5>1 DEF Carries
        <5> QED BY <2>2, <5>1, <5>2, <5>3
      <4> QED BY <1>1, <4>4, <4>5 DEF Quiet
    <3> QED BY <3>1, <3>2
  <2>8. NoOrphanAddresses'
    <3> SUFFICES ASSUME NEW z \in Zones, NEW id \in Ids, Live(z)', zone'[z].parts[id] # Empty
                 PROVE  \/ \E b \in Blocks : tfstate'[b] = [zone |-> z, author |-> id]
                        \/ \E b \in Blocks : pc'[b] = "committed" /\ op'[b].author = id
                        \/ id \in doubtful'
      BY DEF NoOrphanAddresses
    <3>1. CASE id = op[c].author
      BY <1>1, <1>2, <2>1, <3>1
    <3>2. CASE id # op[c].author
      <4>1. Live(z) /\ zone[z].parts[id] # Empty
        BY <1>3, <2>2, <3>2 DEF Live, Authors
      <4>2. \A b \in Blocks : pc[b] = "committed" => pc'[b] = "committed"
        BY <1>1, <2>1 DEF Clients
      <4> QED BY <1>1, <4>1, <4>2 DEF OInv, NoOrphanAddresses
    <3> QED BY <3>1, <3>2
  <2> QED BY <1>5, <1>6, <1>7, <2>5, <2>6, <2>7, <2>8 DEF OInv
<1> QED BY <1>8, <1>9

\* A request that is sent again has an id that is not deleted.
LEMMA ResendOwners == ASSUME IInv, OInv, NEW c \in Clients, Resend(c) PROVE OInv'
<1>1. /\ pc[c] = "put"
      /\ delayed' = delayed \cup {request[c]} /\ doubtful' = doubtful \cup {op[c].author}
      /\ UNCHANGED <<zone, tfstate, pc, op, request, issued, retired>>
  BY DEF Resend
<1>2. op[c].author \in Ids => Used(op[c].zone, op[c].author) /\ ~Deleted(op[c].author)
  BY <1>1, RunningHandler
<1>3. request[c].zone = op[c].zone /\ request[c].author = op[c].author
  BY <1>1 DEF IInv, HandlersOK, OInv, RequestInv
<1>4. PlaceInv' /\ RequestInv' /\ OwnerInv' /\ UnbornInv'
  BY <1>1 DEF OInv, PlaceInv, RequestInv, OwnerInv, UnbornInv, Has
<1>5. DoubtInv'
  BY <1>1, <1>3 DEF OInv, DoubtInv
<1>6. UsedInv'
  <2>1. \A z \in Zones, id \in Ids : Used(z, id)' => Used(z, id)
    BY <1>1, <1>2, <1>3 DEF Used, Has
  <2> QED BY <1>1, <2>1 DEF OInv, UsedInv
<1>7. QuietInv'
  <2>1. \A id \in Ids : Deleted(id)' => Deleted(id)
    BY <1>1 DEF Deleted
  <2>2. \A id \in Ids : Deleted(id) => id # request[c].author
    BY <1>2, <1>3
  <2> QED BY <1>1, <2>1, <2>2 DEF OInv, QuietInv, Quiet
<1>8. NoOrphanAddresses'
  BY <1>1 DEF OInv, NoOrphanAddresses, Live
<1> QED BY <1>4, <1>5, <1>6, <1>7, <1>8 DEF OInv

\* A step around the handlers: addresses with an id stay, go, or are written by
\* a request that waited.
LEMMA AroundOwners ==
    ASSUME IInv, OInv, UNCHANGED <<pc, op, request, issued, retired, doubtful>>,
           \A b \in Blocks : tfstate'[b] = tfstate[b], delayed' \subseteq delayed,
           \A z \in Zones : /\ zone[z].status # "unborn" => zone'[z].etag >= zone[z].etag
                            /\ zone'[z].etag \in Nat
                            /\ zone'[z].status = "unborn" => zone[z].status = "unborn",
           \A z \in Zones, id \in Ids :
              \/ zone'[z].parts[id] = Empty
              \/ Live(z) /\ zone'[z].parts[id] = zone[z].parts[id]
              \/ ~Live(z)' /\ zone'[z].parts[id] = zone[z].parts[id]
              \/ Live(z) /\ \E r \in delayed : /\ r.zone = z /\ r.author = id
                                               /\ r.ifMatch = zone[z].etag
    PROVE  OInv'
<1>1. \A b \in Blocks, z \in Zones, id \in Ids : Has(b, z, id)' => Has(b, z, id)
  BY DEF Has
<1>2. PlaceInv' /\ RequestInv' /\ OwnerInv' /\ DoubtInv'
  BY <1>1, OwnersKept DEF OInv, PlaceInv, RequestInv, DoubtInv
<1>3. UsedInv'
  <2>1. \A z \in Zones, id \in Ids : Used(z, id)' => Used(z, id)
    BY <1>1 DEF Used
  <2> QED BY <2>1 DEF OInv, UsedInv
<1>4. UnbornInv'
  BY DEF OInv, UnbornInv, Live
<1>5. QuietInv'
  <2> SUFFICES ASSUME NEW id \in Ids, Deleted(id)' PROVE Quiet(id)'
    BY DEF QuietInv
  <2>1. Quiet(id)
    BY DEF Deleted, OInv, QuietInv
  <2>2. \A r \in delayed : r.author = id => r.ifMatch \in Nat /\ r.ifMatch # zone[r.zone].etag
    BY <2>1 DEF Quiet, IInv, TypeOK, Requests, ZoneRecords
  <2>3. \A z \in Zones : zone'[z].parts[id] = Empty
    BY <2>1, <2>2 DEF Quiet
  <2> QED BY <2>1, <2>3, QuietKept
<1>6. NoOrphanAddresses'
  <2> SUFFICES ASSUME NEW z \in Zones, NEW id \in Ids, Live(z)', zone'[z].parts[id] # Empty
               PROVE  \/ \E b \in Blocks : tfstate[b] = [zone |-> z, author |-> id]
                      \/ \E b \in Blocks : pc[b] = "committed" /\ op[b].author = id
                      \/ id \in doubtful
    BY DEF NoOrphanAddresses
  <2>1. CASE \E r \in delayed : r.author = id
    BY <2>1 DEF OInv, DoubtInv
  <2>2. CASE Live(z) /\ zone[z].parts[id] # Empty
    BY <2>2 DEF OInv, NoOrphanAddresses
  <2> QED BY <2>1, <2>2
<1> QED BY <1>2, <1>3, <1>4, <1>5, <1>6 DEF OInv

LEMMA LateReplaceOwners == ASSUME IInv, OInv, LateReplace PROVE OInv'
<1>1. PICK r \in delayed :
         /\ delayed' = delayed \ {r}
         /\ \/ Accepts(r) /\ ReplaceZone(r, None)
            \/ UNCHANGED <<zone, writer>>
         /\ UNCHANGED <<mutex, tfstate, pc, op, request, begun, issued, retired, doubtful>>
  BY DEF LateReplace
<1>2. r \in Requests /\ Carries(r)
  BY DEF IInv, TypeOK, RequestsOK
<1>3. \A z \in Zones : zone[z].etag \in Nat
  BY DEF IInv, TypeOK, ZoneRecords
<1>4. CASE Accepts(r) /\ ReplaceZone(r, None)
  <2>1. \A z \in Zones :
           /\ zone'[z].status = zone[z].status
           /\ zone'[z].etag = IF z = r.zone THEN zone[z].etag + 1 ELSE zone[z].etag
           /\ \A a \in Authors :
                 zone'[z].parts[a] = IF z = r.zone /\ a = r.author
                                        THEN r.parts[a] ELSE zone[z].parts[a]
    BY <1>2, <1>4, WriteEffect
  <2>2. \A z \in Zones : zone'[z].etag >= zone[z].etag /\ zone'[z].etag \in Nat
    BY <1>3, <2>1
  <2>3. \A z \in Zones, id \in Ids :
           \/ zone'[z].parts[id] = zone[z].parts[id] /\ (Live(z) \/ ~Live(z)')
           \/ /\ Live(z) /\ r.zone = z /\ r.author = id /\ r.ifMatch = zone[z].etag
    BY <1>4, <2>1 DEF Accepts, Live, Authors
  <2> QED BY <1>1, <2>1, <2>2, <2>3, AroundOwners
<1>5. CASE UNCHANGED <<zone, writer>>
  <2>1. \A z \in Zones : zone'[z].etag >= zone[z].etag /\ zone'[z].etag \in Nat
    BY <1>3, <1>5
  <2>2. \A z \in Zones : Live(z) \/ ~Live(z)'
    BY <1>5 DEF Live
  <2> QED BY <1>1, <1>5, <2>1, <2>2, AroundOwners
<1> QED BY <1>1, <1>4, <1>5

LEMMA ConsoleEditOwners == ASSUME IInv, OInv, ConsoleEdit PROVE OInv'
<1>1. UNCHANGED <<tfstate, pc, op, request, delayed, issued, retired, doubtful>>
  BY DEF ConsoleEdit
<1>2. PICK z \in Zones, parts \in [Authors -> Values], settings \in Settings \cup {None} :
         /\ Live(z)
         /\ Replace(z, parts, settings, None)
         /\ \A id \in Ids : parts[id] = Empty \/ parts[id] = zone[z].parts[id]
  <2>1. PICK z \in Zones :
          /\ Live(z)
          /\ \/ \E v \in Values, s \in Settings :
                   Replace(z, [zone[z].parts EXCEPT ![Default] = v], s, None)
             \/ \E id \in Ids :
                   Replace(z, [zone[z].parts EXCEPT ![id] = Empty], zone[z].settings, None)
    BY DEF ConsoleEdit
  <2>2. zone[z].parts \in [Authors -> Values] /\ zone[z].settings \in Settings \cup {None}
    BY DEF IInv, TypeOK, ZoneRecords
  <2>3. CASE \E v \in Values, s \in Settings :
                Replace(z, [zone[z].parts EXCEPT ![Default] = v], s, None)
    <3>1. PICK v \in Values, s \in Settings :
             Replace(z, [zone[z].parts EXCEPT ![Default] = v], s, None)
      BY <2>3
    <3>2. /\ [zone[z].parts EXCEPT ![Default] = v] \in [Authors -> Values]
          /\ \A id \in Ids : [zone[z].parts EXCEPT ![Default] = v][id] = zone[z].parts[id]
      BY <2>2, ConstantsAssumption DEF Authors
    <3> QED BY <2>1, <3>1, <3>2
  <2>4. CASE \E id \in Ids :
                Replace(z, [zone[z].parts EXCEPT ![id] = Empty], zone[z].settings, None)
    <3>1. PICK i \in Ids :
             Replace(z, [zone[z].parts EXCEPT ![i] = Empty], zone[z].settings, None)
      BY <2>4
    <3>2. /\ [zone[z].parts EXCEPT ![i] = Empty] \in [Authors -> Values]
          /\ \A id \in Ids : \/ [zone[z].parts EXCEPT ![i] = Empty][id] = Empty
                             \/ [zone[z].parts EXCEPT ![i] = Empty][id] = zone[z].parts[id]
      BY <2>2, ConstantsAssumption DEF Authors
    <3> QED BY <2>1, <2>2, <3>1, <3>2
  <2> QED BY <2>1, <2>3, <2>4
<1>3. \A y \in Zones : zone[y].etag \in Nat
  BY DEF IInv, TypeOK, ZoneRecords
<1>4. /\ zone'[z] = [status |-> "live", etag |-> zone[z].etag + 1,
                     parts |-> parts, settings |-> settings]
      /\ \A y \in Zones \ {z} : zone'[y] = zone[y]
  BY <1>2 DEF Replace, IInv, TypeOK
<1>5. /\ zone'[z].status = "live" /\ zone'[z].etag = zone[z].etag + 1
      /\ zone'[z].parts = parts
  BY <1>4
<1>6. \A y \in Zones : /\ zone'[y].etag >= zone[y].etag /\ zone'[y].etag \in Nat
                       /\ zone'[y].status = zone[y].status
  BY <1>2, <1>3, <1>4, <1>5 DEF Live
<1>7. \A y \in Zones, id \in Ids :
         \/ zone'[y].parts[id] = Empty
         \/ zone'[y].parts[id] = zone[y].parts[id] /\ (Live(y) \/ ~Live(y)')
  BY <1>2, <1>4, <1>5, <1>6 DEF Live
<1> QED BY <1>1, <1>6, <1>7, AroundOwners

\* A zone begins empty of other authors' addresses.
LEMMA CreateZoneOwners == ASSUME IInv, OInv, NEW c \in ZoneBlocks, CreateZone(c) PROVE OInv'
<1>1. PICK z \in Zones, v \in Values, s \in Settings :
         /\ zone[z].status = "unborn"
         /\ zone' = [zone EXCEPT ![z] = [status |-> "live", etag |-> 1,
                                         parts |-> [@.parts EXCEPT ![Default] = v],
                                         settings |-> s]]
  BY DEF CreateZone
<1>2. /\ UNCHANGED <<pc, op, request, delayed, issued, retired, doubtful>>
      /\ \A b \in Blocks : tfstate'[b] = tfstate[b]
  BY ConstantsAssumption DEF CreateZone, IInv, TypeOK, Clients
<1>3. /\ zone'[z] = [status |-> "live", etag |-> 1, settings |-> s,
                     parts |-> [zone[z].parts EXCEPT ![Default] = v]]
      /\ \A y \in Zones \ {z} : zone'[y] = zone[y]
  BY <1>1 DEF IInv, TypeOK
<1>4. /\ zone'[z].status = "live" /\ zone'[z].etag = 1
      /\ zone'[z].parts = [zone[z].parts EXCEPT ![Default] = v]
  BY <1>3
<1>5. \A id \in Ids : zone'[z].parts[id] = zone[z].parts[id] /\ zone[z].parts[id] = Empty
  BY <1>1, <1>4, ConstantsAssumption DEF OInv, UnbornInv, IInv, TypeOK, ZoneRecords, Authors
<1>6. \A y \in Zones : /\ zone[y].etag \in Nat
                       /\ zone[y].status # "unborn" => zone'[y].etag >= zone[y].etag
                       /\ zone'[y].etag \in Nat
                       /\ zone'[y].status = "unborn" => zone[y].status = "unborn"
  BY <1>1, <1>3, <1>4 DEF IInv, TypeOK, ZoneRecords
<1>7. \A y \in Zones, id \in Ids :
         \/ zone'[y].parts[id] = Empty
         \/ zone'[y].parts[id] = zone[y].parts[id] /\ (Live(y) \/ ~Live(y)')
  BY <1>3, <1>5 DEF Live
<1> QED BY <1>2, <1>6, <1>7, AroundOwners

LEMMA DeleteZoneOwners == ASSUME IInv, OInv, NEW c \in ZoneBlocks, DeleteZone(c) PROVE OInv'
<1>1. /\ UNCHANGED <<pc, op, request, delayed, issued, retired, doubtful>>
      /\ \A b \in Blocks : tfstate'[b] = tfstate[b]
  BY ConstantsAssumption DEF DeleteZone, IInv, TypeOK, Clients
<1>2. PICK z \in Zones : z = tfstate[c].zone
  BY DEF DeleteZone, IInv, TypeOK, Places, Clients
<1>3. zone' = IF Live(z) THEN [zone EXCEPT ![z].status = "gone"] ELSE zone
  BY <1>2 DEF DeleteZone
<1>4. \A y \in Zones :
         /\ zone'[y].etag = zone[y].etag /\ zone'[y].parts = zone[y].parts
         /\ zone'[y].status = zone[y].status \/ zone'[y].status = "gone"
         /\ zone[y].etag \in Nat
  BY <1>3 DEF IInv, TypeOK, ZoneRecords
<1>5. \A y \in Zones : Live(y) \/ ~Live(y)'
  BY <1>4 DEF Live
<1> QED BY <1>1, <1>4, <1>5, AroundOwners

\* Addresses that a block gives up are not there, or their zone is not.
LEMMA ReadAddressesOwners == ASSUME IInv, OInv, NEW b \in Blocks, ReadAddresses(b) PROVE OInv'
<1>1. /\ pc[b] = "idle" /\ tfstate[b] # None
      /\ ~Live(tfstate[b].zone) \/ zone[tfstate[b].zone].parts[tfstate[b].author] = Empty
      /\ tfstate'[b] = None /\ \A d \in Clients \ {b} : tfstate'[d] = tfstate[d]
      /\ UNCHANGED <<zone, pc, op, request, delayed, issued, retired, doubtful>>
  BY DEF ReadAddresses, IInv, TypeOK, Clients
<1>2. \A d \in Blocks, y \in Zones, i \in Ids : Has(d, y, i)' => Has(d, y, i)
  BY <1>1, ConstantsAssumption DEF Has, Clients, Authors
<1>3. \A i \in Ids : Deleted(i)' => Deleted(i)
  BY <1>1 DEF Deleted
<1>4. PlaceInv' /\ RequestInv'
  BY <1>1 DEF OInv, PlaceInv, RequestInv, Clients
<1>5. OwnerInv'
  BY <1>1, <1>2, OwnersKept DEF OInv
<1>6. UsedInv' /\ DoubtInv' /\ UnbornInv' /\ QuietInv'
  BY <1>1, <1>2, <1>3, ZonesKept DEF OInv, UsedInv
<1>7. NoOrphanAddresses'
  <2> SUFFICES ASSUME NEW z \in Zones, NEW id \in Ids, Live(z), zone[z].parts[id] # Empty
               PROVE  \/ \E d \in Blocks : tfstate'[d] = [zone |-> z, author |-> id]
                      \/ \E d \in Blocks : pc[d] = "committed" /\ op[d].author = id
                      \/ id \in doubtful
    BY <1>1 DEF NoOrphanAddresses, Live
  <2>1. tfstate[b] # [zone |-> z, author |-> id]
    BY <1>1
  <2>2. \A d \in Blocks : tfstate[d] = [zone |-> z, author |-> id]
                            => tfstate'[d] = [zone |-> z, author |-> id]
    BY <1>1, <2>1 DEF Clients
  <2> QED BY <2>2 DEF OInv, NoOrphanAddresses
<1> QED BY <1>4, <1>5, <1>6, <1>7 DEF OInv

LEMMA ReadZoneOwners == ASSUME IInv, OInv, NEW c \in ZoneBlocks, ReadZone(c) PROVE OInv'
<1>1. /\ \A d \in Blocks : tfstate'[d] = tfstate[d]
      /\ UNCHANGED <<zone, pc, op, request, delayed, issued, retired, doubtful>>
  BY ConstantsAssumption DEF ReadZone, IInv, TypeOK, Clients
<1>2. \A z \in Zones : zone[z].etag \in Nat /\ (Live(z) \/ ~Live(z)')
  BY <1>1 DEF Live, IInv, TypeOK, ZoneRecords
<1> QED BY <1>1, <1>2, AroundOwners

-----------------------------------------------------------------------------
(* The theorems *)

LEMMA NextOInv == IInv /\ OInv /\ [Next]_vars => OInv'
<1> SUFFICES ASSUME IInv, OInv, [Next]_vars PROVE OInv'
  OBVIOUS
<1>1. ASSUME NEW b \in Blocks, CreateAddresses(b) \/ ReadAddresses(b) PROVE OInv'
  BY <1>1, CreateAddressesOwners, ReadAddressesOwners
<1>2. ASSUME NEW b \in Blocks, UpdateAddresses(b) PROVE OInv'
  <2>1. PICK z \in Zones, v \in Values :
           Begin(b, [kind |-> "update", zone |-> tfstate[b].zone, target |-> z,
                     author |-> tfstate[b].author, want |-> v, settings |-> None])
    BY <1>2 DEF UpdateAddresses
  <2>2. tfstate[b] = [zone |-> tfstate[b].zone, author |-> tfstate[b].author]
    BY <1>2 DEF UpdateAddresses, IInv, TypeOK, Places, Clients
  <2>3. b \in Clients /\ b \notin ZoneBlocks /\ issued' = issued
    BY <1>2, ConstantsAssumption DEF UpdateAddresses, Clients
  <2> QED BY <2>1, <2>2, <2>3, BeginOwners
<1>3. ASSUME NEW b \in Blocks, DeleteAddresses(b) PROVE OInv'
  <2>1. Begin(b, [kind |-> "delete", zone |-> tfstate[b].zone,
                  target |-> tfstate[b].zone, author |-> tfstate[b].author,
                  want |-> Empty, settings |-> None])
    BY <1>3 DEF DeleteAddresses
  <2>2. tfstate[b] = [zone |-> tfstate[b].zone, author |-> tfstate[b].author]
    BY <1>3 DEF DeleteAddresses, IInv, TypeOK, Places, Clients
  <2>3. b \in Clients /\ b \notin ZoneBlocks /\ issued' = issued
    BY <1>3, ConstantsAssumption DEF DeleteAddresses, Clients
  <2> QED BY <2>1, <2>2, <2>3, BeginOwners
<1>4. ASSUME NEW c \in ZoneBlocks, UpdateZone(c) PROVE OInv'
  <2>1. PICK v \in Values, s \in Settings :
           Begin(c, [kind |-> "update", zone |-> tfstate[c].zone,
                     target |-> tfstate[c].zone, author |-> Default,
                     want |-> v, settings |-> s])
    BY <1>4 DEF UpdateZone
  <2>2. c \in Clients /\ c \notin Blocks /\ issued' = issued
    BY <1>4, ConstantsAssumption DEF UpdateZone, Clients
  <2> QED BY <2>1, <2>2, BeginOwners
<1>5. ASSUME NEW c \in ZoneBlocks, CreateZone(c) \/ DeleteZone(c) \/ ReadZone(c) PROVE OInv'
  BY <1>5, CreateZoneOwners, DeleteZoneOwners, ReadZoneOwners
<1>6. ASSUME NEW c \in Clients, Lock(c) \/ Handle(c) \/ Resend(c) PROVE OInv'
  BY <1>6, LockGetOwners, ReturnOwners, ServeReplaceOwners, SucceedsOwners, ResendOwners
     DEF Handle
<1>7. CASE LateReplace \/ ConsoleEdit
  BY <1>7, LateReplaceOwners, ConsoleEditOwners
<1>8. CASE UNCHANGED vars
  BY <1>8 DEF vars, OInv, PlaceInv, RequestInv, OwnerInv, UsedInv, Used, Has, DoubtInv,
     UnbornInv, QuietInv, Deleted, Quiet, NoOrphanAddresses, Live
<1> QED BY <1>1, <1>2, <1>3, <1>4, <1>5, <1>6, <1>7, <1>8 DEF Next

THEOREM OwnersInvariance == Spec => [](IInv /\ OInv)
BY InitIInv, NextIInv, InitOInv, NextOInv, PTL DEF Spec

\* Every address of a live zone is named by some block's state, or is about to
\* be: what no state names belongs to an id whose request was never answered.
THEOREM NoOrphans == Spec => []NoOrphanAddresses
<1>1. OInv => NoOrphanAddresses
  BY DEF OInv
<1> QED BY <1>1, OwnersInvariance, PTL

\* What was reported as deleted stays deleted, whatever copies of requests and
\* snapshots of zones are on their way: the Etag makes all of them stale.
THEOREM Deletion == Spec => []DeletedStaysDeleted
<1>1. OInv => DeletedStaysDeleted
  BY DEF OInv, OwnerInv, QuietInv, Deleted, Quiet, DeletedStaysDeleted
<1> QED BY <1>1, OwnersInvariance, PTL
=============================================================================
