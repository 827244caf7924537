--------------------------- MODULE DhcpReservations ---------------------------
(***************************************************************************)
(* network/dhcp/index.py: the commands that change DHCP reservations and   *)
(* the boundary between reserved addresses and the dynamic pool.  Each is  *)
(* a process of its own that reads the configuration several times, edits  *)
(* the copy it read first and hands it whole to update-kea-dhcp.sh (module *)
(* KeaUpdate, of which Update keeps the three outcomes a caller sees).     *)
(*                                                                         *)
(* Addresses are offsets from the network address.  One subnet is          *)
(* modelled; pools keep the end that update_pool_boundary gives them.      *)
(***************************************************************************)
EXTENDS Integers, FiniteSets

CONSTANTS
  Client,               \* processes that run a command
  Mac,                  \* hardware addresses
  Limit,                \* 249 in the code: reservations at most
  DefaultBoundary,      \* 48 in the code: what it takes an unreadable pool for
  Broadcast,            \* 255 in a /24: the last offset of the subnet
  Overlap,              \* whether two commands may be under way at once
  Actions               \* the commands of a run

ASSUME DhcpConstants ==
  /\ Limit \in Nat /\ Broadcast \in Nat /\ Limit + 1 < Broadcast
  /\ DefaultBoundary \in 0 .. Limit
  /\ Mac \cap Int = {}
  /\ Overlap \in BOOLEAN
  /\ Actions \subseteq {"add", "remove", "readdress", "boundary"}

VARIABLES
  config,               \* kea-dhcp4.conf: reservations, start of the pool
  stage, request,       \* of each client: where it is, what it was asked
  draft,                \* the configuration it read first and edits
  existing,             \* the reservations it read after that
  answer,               \* "ok" or "error", when the command has ended
  held                  \* reservations some client was told it has

dhcpVars == <<config, stage, request, draft, existing, answer, held>>

Offset == 0 .. Broadcast
Reservation == [mac : Mac, ip : Offset]
NoPool == 0
Unreadable == Broadcast     \* a pool that Kea takes and " - " does not split
Configuration == [pool : Offset, res : SUBSET Reservation]
NothingRead == [pool |-> NoPool, res |-> {}]
NoRequest == [op |-> "none"]

PoolEnd == Broadcast - 5
Pools == {NoPool, Unreadable} \cup 1 .. PoolEnd
InPool(c, ip) == c.pool # NoPool /\ ip \in c.pool .. PoolEnd

Clamped(n) == IF n > Limit THEN Limit ELSE IF n < 0 THEN 0 ELSE n

\* get_current_boundary: how many addresses are reserved, of the pool's start.
Boundary(c) ==
  CASE c.pool = NoPool -> Limit
    [] c.pool = Unreadable -> DefaultBoundary
    [] OTHER -> Clamped(c.pool - 2)

\* _get_reserved_range
Reserved(c) == {ip \in 2 .. Boundary(c) + 1 : ip < Broadcast}

Used(c) == {r.ip : r \in c.res}
Named(c, id) == {r \in c.res : r.mac = id \/ r.ip = id}

\* What kea-dhcp4 -t accepts: no address and no MAC twice, a pool in the subnet.
Distinct(res) == \A r, s \in res : r # s => r.mac # s.mac /\ r.ip # s.ip
Accepted(c) == Distinct(c.res) /\ c.pool \in Pools

Requests ==
  UNION {
    \* ip 0: none given; dashed: the MAC is spelled with dashes.
    [mac : Mac, ip : Offset, op : {"add"} \cap Actions, dashed : BOOLEAN],
    [op : {"remove"} \cap Actions, id : Mac \cup Offset],
    [ip : Offset, op : {"readdress"} \cap Actions, id : Mac \cup Offset],
    [op : {"boundary"} \cap Actions, max : 0 .. Limit]}

DhcpInit ==
  /\ config \in {c \in [pool : Pools, res : SUBSET [mac : Mac, ip : 2 .. Limit + 1]] :
                   Accepted(c) /\ Used(c) \subseteq Reserved(c)}
  /\ stage = [p \in Client |-> "idle"]
  /\ request = [p \in Client |-> NoRequest]
  /\ draft = [p \in Client |-> NothingRead]
  /\ existing = [p \in Client |-> {}]
  /\ answer = [p \in Client |-> "ok"]
  /\ held = {}

------------------------------------------------------------------------------

\* The command ends; what its process had read is gone.
End(p, a) ==
  /\ stage' = [stage EXCEPT ![p] = "idle"]
  /\ answer' = [answer EXCEPT ![p] = a]
  /\ request' = [request EXCEPT ![p] = NoRequest]
  /\ draft' = [draft EXCEPT ![p] = NothingRead]
  /\ existing' = [existing EXCEPT ![p] = {}]

Error(p) == End(p, "error") /\ UNCHANGED held

Continue(p, label) ==
  stage' = [stage EXCEPT ![p] = label] /\ UNCHANGED <<request, answer, held>>

Start(p) ==
  /\ stage[p] = "idle"
  /\ Overlap \/ \A q \in Client : stage[q] = "idle"
  /\ \E r \in Requests :
       /\ request' = [request EXCEPT ![p] = r]
       /\ stage' = [stage EXCEPT ![p] = IF r.op = "readdress" THEN "range" ELSE "config"]
  /\ UNCHANGED <<config, draft, existing, answer, held>>

\* update_reservation_ip asks for the reserved range before anything else.
CheckRange(p) ==
  /\ stage[p] = "range"
  /\ IF request[p].ip \in Reserved(config)
     THEN Continue(p, "config") /\ UNCHANGED <<draft, existing>>
     ELSE Error(p)
  /\ UNCHANGED config

\* update_reservation_ip: the loop that looks for the target and for the address.
MayMove(c, id, ip) ==
  /\ Named(c, id) # {}
  /\ \A r \in c.res \ Named(c, id) : r.ip # ip

Moved(c, id, ip) ==
  [c EXCEPT !.res = (@ \ Named(c, id)) \cup {[r EXCEPT !.ip = ip] : r \in Named(c, id)}]

ReadConfig(p) ==
  /\ stage[p] = "config"
  /\ LET r == request[p]
         Edit(new) == /\ draft' = [draft EXCEPT ![p] = new]
                      /\ UNCHANGED existing
     IN \/ /\ r.op \in {"add", "boundary"}
           /\ Edit(config) /\ Continue(p, "existing")
        \/ /\ r.op = "remove" /\ Named(config, r.id) # {}
           /\ Edit([config EXCEPT !.res = @ \ Named(config, r.id)])
           /\ Continue(p, "update")
        \/ /\ r.op = "remove" /\ Named(config, r.id) = {}
           /\ End(p, "ok") /\ UNCHANGED held
        \/ /\ r.op = "readdress" /\ MayMove(config, r.id, r.ip)
           /\ Edit(Moved(config, r.id, r.ip)) /\ Continue(p, "update")
        \/ /\ r.op = "readdress" /\ ~MayMove(config, r.id, r.ip)
           /\ Error(p)
  /\ UNCHANGED config

\* update_pool_boundary: a boundary of 249 leaves no pool at all.
PoolFrom(max) == IF max = Limit THEN NoPool ELSE max + 2

\* Mutant: a reservation above the boundary is not noticed.
MayBoundUnchecked(res, leases, max) ==
  max >= Cardinality(res) /\ max <= Limit - leases

\* leases: the active ones of devices without a reservation.
MayBound(res, leases, max) ==
  /\ max >= Cardinality(res)
  /\ max <= Limit - leases
  /\ \A r \in res : r.ip <= max + 1

\* A MAC with dashes is compared as it was given and so equals no stored one.
ReadExisting(p) ==
  /\ stage[p] = "existing"
  /\ existing' = [existing EXCEPT ![p] = config.res]
  /\ LET r == request[p] IN
       \/ /\ r.op = "add"
          /\ r.dashed \/ \A s \in config.res : s.mac # r.mac
          /\ Continue(p, "choose") /\ UNCHANGED draft
       \/ /\ r.op = "boundary"
          /\ \E leases \in 0 .. Limit : MayBound(config.res, leases, r.max)
          /\ draft' = [draft EXCEPT ![p].pool = PoolFrom(r.max)]
          /\ Continue(p, "update")
  /\ UNCHANGED config

RefuseExisting(p) ==
  /\ stage[p] = "existing"
  /\ LET r == request[p] IN
       \/ r.op = "add" /\ ~r.dashed /\ \E s \in config.res : s.mac = r.mac
       \/ r.op = "boundary"
            /\ \E leases \in 0 .. Limit : ~MayBound(config.res, leases, r.max)
  /\ Error(p)
  /\ UNCHANGED config

Free(c) == Reserved(c) \ Used(c)

\* The address for a new reservation: the one asked for, unless none was or it
\* is the pool's; then the first reserved address that is free.
Chosen(c, ip) ==
  IF ip = 0 \/ InPool(c, ip)
  THEN {a \in Free(c) : \A b \in Free(c) : a <= b}
  ELSE {ip} \cap Reserved(c)

\* Mutant: the subnet's reservations become the new one alone.
AppendedAlone(res, r) == {r}

Appended(res, r) == res \cup {r}

\* add_reservation reads the configuration anew to choose, and then looks for
\* the address among the reservations that it read before.
Choose(p) ==
  /\ stage[p] = "choose"
  /\ \E ip \in Chosen(config, request[p].ip) :
       /\ \A r \in existing[p] : r.ip # ip
       /\ draft' = [draft EXCEPT ![p].res =
                      Appended(@, [mac |-> request[p].mac, ip |-> ip])]
  /\ Continue(p, "update") /\ UNCHANGED <<config, existing>>

RefuseChosen(p) ==
  /\ stage[p] = "choose"
  /\ \A ip \in Chosen(config, request[p].ip) : \E r \in existing[p] : r.ip = ip
  /\ Error(p)
  /\ UNCHANGED config

\* What the command asked for and, with status 0, is told to have.
Gained(p) ==
  CASE request[p].op = "add" ->
         {r \in draft[p].res : r.mac = request[p].mac /\ r.ip \notin {s.ip : s \in existing[p]}}
    [] request[p].op = "readdress" ->
         {r \in draft[p].res : r.ip = request[p].ip}
    [] OTHER -> {}

\* Of the reservations held, those that the command was about.
Touched(p) ==
  IF request[p].op \in {"remove", "readdress"} THEN Named([res |-> held], request[p].id)
  ELSE {}

\* update_config.  Status 0; a refusal that changed nothing; or an error after
\* the file was moved into place: a failed restart, or the timeout of 30 s.
Update(p) ==
  /\ stage[p] = "update"
  /\ \/ /\ Accepted(draft[p]) /\ config' = draft[p]
        /\ held' = (held \ Touched(p)) \cup Gained(p)
        /\ End(p, "ok")
     \/ /\ UNCHANGED <<config, held>> /\ End(p, "error")
     \/ /\ Accepted(draft[p]) /\ config' = draft[p]
        /\ held' = held \ Touched(p)
        /\ End(p, "error")

DhcpNext ==
  \E p \in Client :
    \/ Start(p) \/ CheckRange(p) \/ ReadConfig(p)
    \/ ReadExisting(p) \/ RefuseExisting(p) \/ Choose(p) \/ RefuseChosen(p)
    \/ Update(p)

DhcpSpec == DhcpInit /\ [][DhcpNext]_dhcpVars

------------------------------------------------------------------------------
(* Properties *)

\* Kea never finds a reserved address in its pool: every reservation lies in
\* the reserved range, whatever is added, moved and bounded.
ReservedBelowPool == Used(config) \subseteq Reserved(config)

\* A reservation that a client was told it has is in the file until a command
\* names it: no other command loses it.
AcknowledgedStands == held \subseteq config.res
==============================================================================
