------------------------------ MODULE Registry ------------------------------
(***************************************************************************)
(* The registries of the library under any client: the functions of        *)
(* RegistryOps called in any order, a multiplex or a service linked to the *)
(* entry of its own name as the table parsers link them.                   *)
(***************************************************************************)
EXTENDS RegistryOps, FiniteSets, Folds

CONSTANTS
  NetworkId,    \* network_id of a NIT
  MuxUri,       \* <<original_network_id, transport_stream_id>>
  ServiceUri,   \* <<original_network_id, transport_stream_id, service_id>>
  Lcn,          \* logical channel numbers
  MaxSlots      \* bound: the service slots of all networks together

ASSUME RegistryAssumption ==
  /\ MuxUri \subseteq Nat \X Nat /\ ServiceUri \subseteq Nat \X Nat \X Nat
  /\ \A s \in ServiceUri : MuxOf(s) \in MuxUri
  /\ Lcn \subseteq Nat /\ MaxSlots \in Nat

VARIABLE reg

Init == reg = NoEntries

(* platform_locate_add_dvb(), mux_locate_add_dvb(), mux_set_platform()     *)
LinkMux(m) ==
  LET added == MuxLocateAdd(PlatformLocateAdd(reg, PlatformOf(m)), m)
  IN  reg' = MuxSetPlatform(added, MuxLocate(added, m), Find(added.platforms, PlatformOf(m)))

ResetMux(m) == reg' = MuxAdd(reg, m)

MarkMux(m) ==
  /\ MuxLocate(reg, m) # 0
  /\ reg' = MuxSetData(reg, MuxLocate(reg, m))

ResetService(s) == reg' = ServiceAdd(reg, s)

(* Mutant: the last multiplex that was added is taken for the service's.    *)
LinkServiceToLast(s) ==
  LET added == MuxLocateAdd(ServiceLocateAdd(reg, s), MuxOf(s))
  IN  reg' = ServiceSetMux(added, ServiceLocate(added, s), Len(added.multiplexes))

(* service_locate_add_dvb(), mux_locate_add_dvb(), service_set_mux()       *)
LinkService(s) ==
  LET added == MuxLocateAdd(ServiceLocateAdd(reg, s), MuxOf(s))
  IN  reg' = ServiceSetMux(added, ServiceLocate(added, s), MuxLocate(added, MuxOf(s)))

ResetNetwork(id) == reg' = NetworkAdd(reg, AddedAs(id))

LocateNetwork(id) == reg' = NetworkLocateAdd(reg, LocatedAs(id))

ListMux(n, m) ==
  /\ n \in DOMAIN reg.networks /\ m \in DOMAIN reg.multiplexes
  /\ reg' = NetworkAddMux(reg, n, m)

Slots(entries) ==
  MapThenFoldSet(+, 0, LAMBDA i : Len(entries[i].service), LAMBDA S : CHOOSE i \in S : TRUE,
                 DOMAIN entries)

SetService(n, s, lcn) ==
  /\ n \in DOMAIN reg.networks /\ s \in DOMAIN reg.services \cup {0}
  /\ reg' = NetworkSetService(reg, n, s, lcn)
  /\ Slots(reg'.networks) <= MaxSlots

Next ==
  \/ \E m \in MuxUri : LinkMux(m) \/ ResetMux(m) \/ MarkMux(m)
  \/ \E s \in ServiceUri : ResetService(s) \/ LinkService(s)
  \/ \E id \in NetworkId : ResetNetwork(id) \/ LocateNetwork(id)
  \/ \E n \in 1..(2 * Cardinality(NetworkId)) :
       \/ \E m \in 1..Cardinality(MuxUri) : ListMux(n, m)
       \/ \E s \in 0..Cardinality(ServiceUri), lcn \in Lcn : SetService(n, s, lcn)

Spec == Init /\ [][Next]_reg

-----------------------------------------------------------------------------
NetworkUri == {AddedAs(id) : id \in NetworkId} \cup {LocatedAs(id) : id \in NetworkId}

Platform == [uri: Nat]
Mux == [uri: MuxUri, platform: Nat, data: BOOLEAN]
Service == [uri: ServiceUri, mux: Nat, type: {"reserved"}]
Slot == [lcn: Int, service: Nat]
Network == [uri: NetworkUri, version: Int, mux: Seq(Nat), service: Seq(Slot)]

Shape ==
  /\ reg.platforms \in Seq(Platform) /\ reg.multiplexes \in Seq(Mux)
  /\ reg.services \in Seq(Service) /\ reg.networks \in Seq(Network)
  /\ reg = [platforms |-> reg.platforms, multiplexes |-> reg.multiplexes,
            services |-> reg.services, networks |-> reg.networks]

(* Every pointer is null or an index of an entry; a network lists no null  *)
(* multiplex.                                                              *)
PlatformsThere(ms, ps) == \A i \in DOMAIN ms : ms[i].platform <= Len(ps)
MuxesThere(ss, ms) == \A i \in DOMAIN ss : ss[i].mux <= Len(ms)
ListedThere(ns, ms, ss) ==
  \A k \in DOMAIN ns :
    /\ \A i \in DOMAIN ns[k].mux : ns[k].mux[i] \in 1..Len(ms)
    /\ \A i \in DOMAIN ns[k].service : ns[k].service[i].service <= Len(ss)

InRange ==
  /\ PlatformsThere(reg.multiplexes, reg.platforms)
  /\ MuxesThere(reg.services, reg.multiplexes)
  /\ ListedThere(reg.networks, reg.multiplexes, reg.services)

TypeOK == Shape /\ InRange

(***************************************************************************)
(* A name stands for one entry in each registry, whatever is added, located*)
(* and reset: networks.c:52, services.c:54, multiplexes.c:49.              *)
(***************************************************************************)
OneEntry(entries) ==
  \A i, j \in DOMAIN entries : entries[i].uri = entries[j].uri => i = j

UniqueNames ==
  OneEntry(reg.platforms) /\ OneEntry(reg.multiplexes) /\ OneEntry(reg.services) /\ OneEntry(reg.networks)

(***************************************************************************)
(* A network has at most one live service under a logical channel number   *)
(* and lists a multiplex once (networks.c:183-193, 216-236), although      *)
(* slots are emptied, refilled and appended in any order.                  *)
(***************************************************************************)
ChannelNumbersUnique ==
  \A k \in DOMAIN reg.networks : LET n == reg.networks[k] IN
    /\ \A i, j \in DOMAIN n.service :
         (n.service[i].lcn = n.service[j].lcn /\ n.service[i].lcn # -1) => i = j
    /\ \A i, j \in DOMAIN n.mux : n.mux[i] = n.mux[j] => i = j

(***************************************************************************)
(* An entry never moves and never changes its name: what a network or a    *)
(* service points to stays what it pointed to, through every reset         *)
(* (networks.c:76-87, services.c:75-86, multiplexes.c:70-79).              *)
(***************************************************************************)
Keeps(old, new) ==
  /\ Len(old) <= Len(new)
  /\ \A i \in DOMAIN old : new[i].uri = old[i].uri

PointersStable ==
  [][/\ Keeps(reg.platforms, reg'.platforms) /\ Keeps(reg.multiplexes, reg'.multiplexes)
     /\ Keeps(reg.services, reg'.services) /\ Keeps(reg.networks, reg'.networks)]_reg

(***************************************************************************)
(* What a service points to is the multiplex of its own name, and what a   *)
(* multiplex points to is the platform of its network (services.c:142-160, *)
(* multiplexes.c:146-154), or nothing yet.                                 *)
(***************************************************************************)
PointersAgree ==
  /\ \A i \in DOMAIN reg.services : reg.services[i].mux # 0 =>
       reg.multiplexes[reg.services[i].mux].uri = MuxOf(reg.services[i].uri)
  /\ \A i \in DOMAIN reg.multiplexes : reg.multiplexes[i].platform # 0 =>
       reg.platforms[reg.multiplexes[i].platform].uri = PlatformOf(reg.multiplexes[i].uri)
=============================================================================
