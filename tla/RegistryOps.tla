---------------------------- MODULE RegistryOps -----------------------------
(***************************************************************************)
(* The functions of dvb/networks.c, dvb/services.c, dvb/multiplexes.c and  *)
(* dvb/platforms.c.  Each file keeps an array of pointers that only grows; *)
(* an entry is found by its name and its address never changes, so other   *)
(* entries point to it.  Here a pointer is an index into the array, 0 is   *)
(* the null pointer, and a function takes the four arrays to what it       *)
(* leaves of them.                                                         *)
(***************************************************************************)
EXTENDS Integers, Sequences

(* Names.  Formatting an identifier as four hexadecimal digits tells 16-bit *)
(* numbers apart; the prefix is kept because the functions do not agree on *)
(* the one of a network.                                                   *)
AddedAs(id) == <<"nid", id>>     \* network_add_dvb
LocatedAs(id) == <<"nit", id>>   \* network_locate_dvb, network_locate_add_dvb

(* The names of a service, a multiplex and a platform share their prefix.  *)
PlatformOf(mux) == mux[1]
MuxOf(service) == <<service[1], service[2]>>

NoEntries == [platforms |-> <<>>, multiplexes |-> <<>>, services |-> <<>>, networks |-> <<>>]

-----------------------------------------------------------------------------
First(S) == CHOOSE i \in S : \A j \in S : i <= j

(* Mutant: the search stops before the last entry.                          *)
FindShort(entries, uri) ==
  LET found == {i \in 1..(Len(entries) - 1) : entries[i].uri = uri}
  IN  IF found = {} THEN 0 ELSE First(found)

(* xxx_locate(): the first entry of that name, or the null pointer.        *)
Find(entries, uri) ==
  LET found == {i \in DOMAIN entries : entries[i].uri = uri}
  IN  IF found = {} THEN 0 ELSE First(found)

(* xxx_locate_add(): xxx_alloc() appends an entry if there is none of that *)
(* name, and one that exists is left as it is.                             *)
Ensure(entries, fresh) ==
  IF Find(entries, fresh.uri) # 0 THEN entries ELSE Append(entries, fresh)

FreshPlatform(p) == [uri |-> p]
FreshMux(m) == [uri |-> m, platform |-> 0, data |-> FALSE]
FreshService(s) == [uri |-> s, mux |-> 0, type |-> "reserved"]
FreshNetwork(n) == [uri |-> n, version |-> -1, mux |-> <<>>, service |-> <<>>]

MuxLocate(r, m) == Find(r.multiplexes, m)
ServiceLocate(r, s) == Find(r.services, s)
NetworkLocate(r, n) == Find(r.networks, n)

PlatformLocateAdd(r, p) == [r EXCEPT !.platforms = Ensure(@, FreshPlatform(p))]

-----------------------------------------------------------------------------
(* Multiplexes.  mux_reset() keeps the name and the data.                   *)
MuxReset(m) == [FreshMux(m.uri) EXCEPT !.data = m.data]

MuxLocateAdd(r, m) == [r EXCEPT !.multiplexes = Ensure(@, FreshMux(m))]

MuxAdd(r, m) ==
  LET added == MuxLocateAdd(r, m)
  IN  [added EXCEPT !.multiplexes[MuxLocate(added, m)] = MuxReset(@)]

MuxSetPlatform(r, i, p) == [r EXCEPT !.multiplexes[i].platform = p]

MuxSetData(r, i) == [r EXCEPT !.multiplexes[i].data = TRUE]

-----------------------------------------------------------------------------
(* Services.                                                                *)

(* Mutant: the name is not copied back.                                     *)
ServiceResetBlank(s) == FreshService(<<0, 0, 0>>)

ServiceReset(s) == FreshService(s.uri)

ServiceLocateAdd(r, s) == [r EXCEPT !.services = Ensure(@, FreshService(s))]

ServiceAdd(r, s) ==
  LET added == ServiceLocateAdd(r, s)
  IN  [added EXCEPT !.services[ServiceLocate(added, s)] = ServiceReset(@)]

ServiceSetMux(r, i, m) == [r EXCEPT !.services[i].mux = m]

ServiceSetType(r, i, t) == [r EXCEPT !.services[i].type = t]

-----------------------------------------------------------------------------
(* Networks.                                                                *)

NetworkReset(n) == FreshNetwork(n.uri)

NetworkLocateAdd(r, n) == [r EXCEPT !.networks = Ensure(@, FreshNetwork(n))]

NetworkAdd(r, n) ==
  LET added == NetworkLocateAdd(r, n)
  IN  [added EXCEPT !.networks[NetworkLocate(added, n)] = NetworkReset(@)]

NetworkSetVersion(r, i, version) == [r EXCEPT !.networks[i].version = version]

NetworkAddMux(r, i, m) ==
  LET listed == r.networks[i].mux
  IN  IF \E k \in DOMAIN listed : listed[k] = m THEN r
      ELSE [r EXCEPT !.networks[i].mux = Append(@, m)]

NoSlot == [lcn |-> -1, service |-> 0]

(* Mutant: a slot of the same number is not looked for.                     *)
NetworkSetServiceAppend(r, i, s, lcn) ==
  [r EXCEPT !.networks[i].service = Append(@, [lcn |-> lcn, service |-> s])]

(* network_set_service(): the slot of that number is replaced, or emptied  *)
(* if the service is null; without one a slot is appended, even for null.  *)
(* An emptied slot is not used again.                                      *)
NetworkSetService(r, i, s, lcn) ==
  LET slots == r.networks[i].service
      slot  == [lcn |-> lcn, service |-> s]
      same  == {k \in DOMAIN slots : slots[k].lcn = lcn}
  IN  [r EXCEPT !.networks[i].service =
         IF same = {} THEN Append(slots, slot)
         ELSE [slots EXCEPT ![First(same)] = IF s # 0 THEN slot ELSE NoSlot]]
=============================================================================
