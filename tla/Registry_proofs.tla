--------------------------- MODULE Registry_proofs ---------------------------
(***************************************************************************)
(* The registries keep their types and their invariants under any calls,   *)
(* for any identifiers.  An array changes in two ways only: an entry is    *)
(* appended under a new name (Ensure), and an entry is overwritten by one  *)
(* of the same name; each has its lemmas, and each action is reduced to    *)
(* them first.                                                             *)
(***************************************************************************)
EXTENDS Registry, WellFoundedInduction, TLAPS

-----------------------------------------------------------------------------
(* Searching and adding.                                                    *)
LEMMA FirstIsThere ==
  ASSUME NEW S \in SUBSET Nat, S # {}
  PROVE  First(S) \in S
<1>1. PICK x \in S : \A y \in S : <<y, x>> \notin OpToRel(<, Nat)
  BY NatLessThanWellFounded, WFMin
<1>2. \A y \in S : x <= y
  <2> SUFFICES ASSUME NEW y \in S, ~(x <= y)
               PROVE  FALSE
    OBVIOUS
  <2>1. <<y, x>> \in OpToRel(<, Nat)
    BY DEF OpToRel
  <2>2. QED
    BY <1>1, <2>1
<1>3. QED
  BY <1>2 DEF First

LEMMA Found ==
  ASSUME NEW E, NEW e \in Seq(E), NEW uri
  PROVE  /\ Find(e, uri) \in 0..Len(e)
         /\ Find(e, uri) # 0 => Find(e, uri) \in DOMAIN e /\ e[Find(e, uri)].uri = uri
         /\ Find(e, uri) = 0 => \A i \in DOMAIN e : e[i].uri # uri
<1> DEFINE found == {i \in DOMAIN e : e[i].uri = uri}
<1>1. found \in SUBSET Nat /\ DOMAIN e = 1..Len(e) /\ Len(e) \in Nat
  OBVIOUS
<1>2. CASE found = {}
  BY <1>1, <1>2 DEF Find
<1>3. CASE found # {}
  <2>1. First(found) \in found
    BY <1>1, <1>3, FirstIsThere
  <2>2. Find(e, uri) = First(found)
    BY <1>3 DEF Find
  <2>3. QED
    BY <1>1, <2>1, <2>2
<1>4. QED
  BY <1>2, <1>3

LEMMA Ensured ==
  ASSUME NEW E, NEW e \in Seq(E), NEW fresh \in E, NEW f, f = Ensure(e, fresh)
  PROVE  /\ f \in Seq(E)
         /\ Len(e) <= Len(f)
         /\ \A i \in DOMAIN e : i \in DOMAIN f /\ f[i] = e[i]
         /\ \A i \in DOMAIN f : i \in DOMAIN e \/ (f[i] = fresh /\ i = Find(f, fresh.uri))
         /\ Find(f, fresh.uri) \in DOMAIN f
         /\ f[Find(f, fresh.uri)].uri = fresh.uri
         /\ OneEntry(e) => OneEntry(f)
<1>1. CASE Find(e, fresh.uri) # 0
  <2>1. f = e
    BY <1>1 DEF Ensure
  <2>2. QED
    BY <1>1, <2>1, Found
<1>2. CASE Find(e, fresh.uri) = 0
  <2>1. f = Append(e, fresh)
    BY <1>2 DEF Ensure
  <2>2. \A i \in DOMAIN e : e[i].uri # fresh.uri
    BY <1>2, Found
  <2>3. /\ f \in Seq(E) /\ Len(f) = Len(e) + 1 /\ DOMAIN f = 1..(Len(e) + 1)
        /\ DOMAIN e = 1..Len(e) /\ Len(e) \in Nat
        /\ \A i \in DOMAIN e : f[i] = e[i]
        /\ f[Len(e) + 1] = fresh
    BY <2>1
  <2>4. Find(f, fresh.uri) # 0
    <3>1. Find(f, fresh.uri) = 0 => \A i \in DOMAIN f : f[i].uri # fresh.uri
      BY <2>3, Found
    <3>2. QED
      BY <2>3, <3>1
  <2>5. OneEntry(e) => OneEntry(f)
    BY <2>2, <2>3 DEF OneEntry
  <2>6. Find(f, fresh.uri) \in DOMAIN f /\ f[Find(f, fresh.uri)].uri = fresh.uri
    BY <2>3, <2>4, Found
  <2>7. Find(f, fresh.uri) = Len(e) + 1
    BY <2>2, <2>3, <2>6
  <2>8. QED
    BY <2>1, <2>3, <2>5, <2>6, <2>7
<1>3. QED
  BY <1>1, <1>2

LEMMA EnsuredEntry ==
  ASSUME NEW E, NEW e \in Seq(E), NEW fresh \in E, NEW f, f = Ensure(e, fresh),
         NEW k, k = Find(f, fresh.uri)
  PROVE  k \in DOMAIN f /\ f[k].uri = fresh.uri
<1>1. f \in Seq(E) /\ Find(f, fresh.uri) \in DOMAIN f
  BY Ensured
<1>2. Find(f, fresh.uri) # 0
  BY <1>1
<1>3. QED
  BY <1>1, <1>2, Found

LEMMA EnsuredEntries ==
  ASSUME NEW E, NEW e \in Seq(E), NEW fresh \in E
  PROVE  LET f == Ensure(e, fresh) IN
         \A i \in DOMAIN f : f[i] = fresh \/ (i \in DOMAIN e /\ f[i] = e[i])
<1> DEFINE f == Ensure(e, fresh)
<1> SUFFICES ASSUME NEW i \in DOMAIN f
             PROVE  f[i] = fresh \/ (i \in DOMAIN e /\ f[i] = e[i])
  OBVIOUS
<1>1. f = Ensure(e, fresh)
  OBVIOUS
<1> HIDE DEF f
<1>2. i \in DOMAIN e \/ f[i] = fresh
  BY <1>1, Ensured
<1>3. i \in DOMAIN e => f[i] = e[i]
  BY <1>1, Ensured
<1>4. QED
  BY <1>2, <1>3

(* An entry is overwritten by one of its own name.                         *)
LEMMA Overwritten ==
  ASSUME NEW E, NEW e \in Seq(E), NEW k \in DOMAIN e, NEW x \in E, x.uri = e[k].uri
  PROVE  LET f == [e EXCEPT ![k] = x] IN
         /\ f \in Seq(E)
         /\ Len(f) = Len(e) /\ DOMAIN f = DOMAIN e
         /\ f[k] = x /\ \A i \in DOMAIN e : i # k => f[i] = e[i]
         /\ \A i \in DOMAIN e : f[i].uri = e[i].uri
         /\ OneEntry(e) => OneEntry(f)
<1> DEFINE f == [e EXCEPT ![k] = x]
<1>1. /\ f \in Seq(E) /\ Len(f) = Len(e) /\ DOMAIN f = DOMAIN e
      /\ f[k] = x /\ \A i \in DOMAIN e : i # k => f[i] = e[i]
  OBVIOUS
<1>2. \A i \in DOMAIN e : f[i].uri = e[i].uri
  BY <1>1
<1>3. OneEntry(e) => OneEntry(f)
  BY <1>1, <1>2 DEF OneEntry
<1> HIDE DEF f
<1>4. QED
  BY <1>1, <1>2, <1>3 DEF f

-----------------------------------------------------------------------------
(* What each call makes of the four arrays.                                 *)
LEMMA LinkMuxEffect ==
  ASSUME Shape, NEW m \in MuxUri, LinkMux(m)
  PROVE  LET ps == Ensure(reg.platforms, FreshPlatform(PlatformOf(m)))
             ms == Ensure(reg.multiplexes, FreshMux(m))
         IN  reg' = [platforms |-> ps,
                     multiplexes |-> [ms EXCEPT ![Find(ms, m)].platform = Find(ps, PlatformOf(m))],
                     services |-> reg.services, networks |-> reg.networks]
BY DEF Shape, LinkMux, PlatformLocateAdd, MuxLocateAdd, MuxLocate, MuxSetPlatform

LEMMA ResetMuxEffect ==
  ASSUME Shape, NEW m \in MuxUri, ResetMux(m)
  PROVE  LET ms == Ensure(reg.multiplexes, FreshMux(m))
         IN  reg' = [platforms |-> reg.platforms,
                     multiplexes |-> [ms EXCEPT ![Find(ms, m)] = MuxReset(ms[Find(ms, m)])],
                     services |-> reg.services, networks |-> reg.networks]
BY DEF Shape, ResetMux, MuxAdd, MuxLocateAdd, MuxLocate

LEMMA MarkMuxEffect ==
  ASSUME Shape, NEW m \in MuxUri, MarkMux(m)
  PROVE  LET k == Find(reg.multiplexes, m)
         IN  /\ k # 0
             /\ reg' = [platforms |-> reg.platforms,
                        multiplexes |-> [reg.multiplexes EXCEPT ![k].data = TRUE],
                        services |-> reg.services, networks |-> reg.networks]
BY DEF Shape, MarkMux, MuxSetData, MuxLocate

LEMMA ResetServiceEffect ==
  ASSUME Shape, NEW s \in ServiceUri, ResetService(s)
  PROVE  LET ss == Ensure(reg.services, FreshService(s))
         IN  reg' = [platforms |-> reg.platforms, multiplexes |-> reg.multiplexes,
                     services |-> [ss EXCEPT ![Find(ss, s)] = ServiceReset(ss[Find(ss, s)])],
                     networks |-> reg.networks]
BY DEF Shape, ResetService, ServiceAdd, ServiceLocateAdd, ServiceLocate

LEMMA LinkServiceEffect ==
  ASSUME Shape, NEW s \in ServiceUri, LinkService(s)
  PROVE  LET ss == Ensure(reg.services, FreshService(s))
             ms == Ensure(reg.multiplexes, FreshMux(MuxOf(s)))
         IN  reg' = [platforms |-> reg.platforms, multiplexes |-> ms,
                     services |-> [ss EXCEPT ![Find(ss, s)].mux = Find(ms, MuxOf(s))],
                     networks |-> reg.networks]
BY DEF Shape, LinkService, ServiceLocateAdd, ServiceLocate, MuxLocateAdd, MuxLocate, ServiceSetMux

LEMMA ResetNetworkEffect ==
  ASSUME Shape, NEW id \in NetworkId, ResetNetwork(id)
  PROVE  LET ns == Ensure(reg.networks, FreshNetwork(AddedAs(id)))
             k  == Find(ns, AddedAs(id))
         IN  reg' = [platforms |-> reg.platforms, multiplexes |-> reg.multiplexes,
                     services |-> reg.services,
                     networks |-> [ns EXCEPT ![k] = NetworkReset(ns[k])]]
BY DEF Shape, ResetNetwork, NetworkAdd, NetworkLocateAdd, NetworkLocate

LEMMA LocateNetworkEffect ==
  ASSUME Shape, NEW id \in NetworkId, LocateNetwork(id)
  PROVE  reg' = [platforms |-> reg.platforms, multiplexes |-> reg.multiplexes,
                 services |-> reg.services,
                 networks |-> Ensure(reg.networks, FreshNetwork(LocatedAs(id)))]
BY DEF Shape, LocateNetwork, NetworkLocateAdd

(* The lists of one network, after network_add_mux() and after             *)
(* network_set_service().                                                  *)
MuxesWith(n, m) == IF \E k \in DOMAIN n.mux : n.mux[k] = m THEN n.mux ELSE Append(n.mux, m)

SlotsWith(n, s, lcn) ==
  LET slot == [lcn |-> lcn, service |-> s]
      same == {k \in DOMAIN n.service : n.service[k].lcn = lcn}
  IN  IF same = {} THEN Append(n.service, slot)
      ELSE [n.service EXCEPT ![First(same)] = IF s # 0 THEN slot ELSE NoSlot]

LEMMA ListMuxEffect ==
  ASSUME Shape, NEW n, NEW m, ListMux(n, m)
  PROVE  /\ n \in DOMAIN reg.networks /\ m \in DOMAIN reg.multiplexes
         /\ reg' = [platforms |-> reg.platforms, multiplexes |-> reg.multiplexes,
                    services |-> reg.services,
                    networks |-> [reg.networks EXCEPT ![n].mux = MuxesWith(reg.networks[n], m)]]
<1> DEFINE e == reg.networks
<1>1. /\ n \in DOMAIN e /\ m \in DOMAIN reg.multiplexes
      /\ reg' = NetworkAddMux(reg, n, m)
  BY DEF ListMux
<1>2. CASE \E k \in DOMAIN e[n].mux : e[n].mux[k] = m
  <2>1. MuxesWith(e[n], m) = e[n].mux /\ reg' = reg
    BY <1>1, <1>2 DEF MuxesWith, NetworkAddMux
  <2>2. e \in Seq(Network) /\ e[n] \in Network
    BY <1>1 DEF Shape
  <2>3. [e[n] EXCEPT !.mux = e[n].mux] = e[n]
    BY <2>2 DEF Network
  <2>4. [e EXCEPT ![n] = e[n]] = e
    BY <2>2
  <2>5. [e EXCEPT ![n].mux = e[n].mux] = e
    BY <2>3, <2>4
  <2>6. QED
    BY <1>1, <2>1, <2>5 DEF Shape
<1>3. CASE ~\E k \in DOMAIN e[n].mux : e[n].mux[k] = m
  BY <1>1, <1>3 DEF Shape, NetworkAddMux, MuxesWith
<1>4. QED
  BY <1>2, <1>3

LEMMA SetServiceEffect ==
  ASSUME Shape, NEW n, NEW s, NEW lcn, SetService(n, s, lcn)
  PROVE  /\ n \in DOMAIN reg.networks /\ s \in DOMAIN reg.services \cup {0}
         /\ reg' = [platforms |-> reg.platforms, multiplexes |-> reg.multiplexes,
                    services |-> reg.services,
                    networks |-> [reg.networks EXCEPT ![n].service =
                                    SlotsWith(reg.networks[n], s, lcn)]]
BY DEF Shape, SetService, NetworkSetService, SlotsWith

-----------------------------------------------------------------------------
(* Types and names.                                                         *)
LEMMA FreshTyped ==
  /\ \A m \in MuxUri : /\ PlatformOf(m) \in Nat /\ FreshPlatform(PlatformOf(m)) \in Platform
                       /\ FreshPlatform(PlatformOf(m)).uri = PlatformOf(m)
                       /\ FreshMux(m) \in Mux /\ FreshMux(m).uri = m /\ FreshMux(m).platform = 0
  /\ \A s \in ServiceUri : /\ FreshService(s) \in Service /\ FreshService(s).uri = s
                           /\ FreshService(s).mux = 0 /\ MuxOf(s) \in MuxUri
  /\ \A u \in NetworkUri : /\ FreshNetwork(u) \in Network /\ FreshNetwork(u).uri = u
                           /\ FreshNetwork(u).mux = <<>> /\ FreshNetwork(u).service = <<>>
  /\ \A id \in NetworkId : AddedAs(id) \in NetworkUri /\ LocatedAs(id) \in NetworkUri
<1>1. \A m \in MuxUri : PlatformOf(m) \in Nat
  BY RegistryAssumption DEF PlatformOf
<1>2. \A u \in NetworkUri : FreshNetwork(u) \in Network
  BY DEF FreshNetwork, Network
<1>3. QED
  BY <1>1, <1>2, RegistryAssumption
  DEF FreshPlatform, Platform, FreshMux, Mux, FreshService, Service, FreshNetwork, NetworkUri

(* What becomes of one array: nothing moves, nothing changes its name, and *)
(* no name comes twice.                                                     *)
Evolves(E, e, f) ==
  f \in Seq(E) /\ Keeps(e, f) /\ (OneEntry(e) => OneEntry(f))

LEMMA EvolvesSame ==
  ASSUME NEW E, NEW e \in Seq(E)
  PROVE  Evolves(E, e, e)
BY DEF Evolves, Keeps

LEMMA EvolvesAdd ==
  ASSUME NEW E, NEW e \in Seq(E), NEW fresh \in E
  PROVE  Evolves(E, e, Ensure(e, fresh))
<1> DEFINE f == Ensure(e, fresh)
<1>1. f = Ensure(e, fresh)
  OBVIOUS
<1> HIDE DEF f
<1>2. /\ f \in Seq(E) /\ Len(e) <= Len(f)
      /\ \A i \in DOMAIN e : i \in DOMAIN f /\ f[i] = e[i]
  BY <1>1, Ensured
<1>5. OneEntry(e) => OneEntry(f)
  BY <1>1, Ensured
<1>3. Keeps(e, f)
  BY <1>2 DEF Keeps
<1>4. QED
  BY <1>1, <1>2, <1>3, <1>5 DEF Evolves

LEMMA EvolvesSet ==
  ASSUME NEW E, NEW e \in Seq(E), NEW k \in DOMAIN e, NEW x \in E, x.uri = e[k].uri
  PROVE  Evolves(E, e, [e EXCEPT ![k] = x])
BY Overwritten DEF Evolves, Keeps

(* xxx_locate_add() followed by a change to the entry it returned.          *)
LEMMA EvolvesAddSet ==
  ASSUME NEW E, NEW e \in Seq(E), NEW fresh \in E, NEW x \in E, x.uri = fresh.uri
  PROVE  LET f == Ensure(e, fresh)
             k == Find(f, fresh.uri)
             g == [f EXCEPT ![k] = x]
         IN  /\ Evolves(E, e, g)
             /\ k \in DOMAIN g /\ DOMAIN g = DOMAIN f
             /\ \A i \in DOMAIN g : g[i] = x \/ (i \in DOMAIN e /\ g[i] = e[i])
<1> DEFINE f == Ensure(e, fresh)
           k == Find(f, fresh.uri)
           g == [f EXCEPT ![k] = x]
<1>0. f = Ensure(e, fresh) /\ k = Find(f, fresh.uri)
  OBVIOUS
<1> HIDE DEF f, k
<1>8. /\ f \in Seq(E) /\ Len(e) <= Len(f)
      /\ \A i \in DOMAIN e : i \in DOMAIN f /\ f[i] = e[i]
  BY <1>0, Ensured
<1>9. k \in DOMAIN f /\ f[k].uri = fresh.uri
  BY <1>0, EnsuredEntry
<1>10. \A i \in DOMAIN f : i \in DOMAIN e \/ (f[i] = fresh /\ i = k)
  BY <1>0, Ensured
<1>1. /\ f \in Seq(E) /\ Len(e) <= Len(f)
      /\ \A i \in DOMAIN e : i \in DOMAIN f /\ f[i] = e[i]
      /\ \A i \in DOMAIN f : i \in DOMAIN e \/ (f[i] = fresh /\ i = k)
      /\ k \in DOMAIN f /\ f[k].uri = fresh.uri
  BY <1>8, <1>9, <1>10
<1>7. OneEntry(e) => OneEntry(f)
  BY <1>0, Ensured
<1>2. /\ g \in Seq(E) /\ Len(g) = Len(f) /\ DOMAIN g = DOMAIN f
      /\ g[k] = x /\ \A i \in DOMAIN f : i # k => g[i] = f[i]
      /\ \A i \in DOMAIN f : g[i].uri = f[i].uri
      /\ OneEntry(f) => OneEntry(g)
  BY <1>1, Overwritten
<1> HIDE DEF g
<1>3. Keeps(e, g)
  BY <1>1, <1>2 DEF Keeps
<1>4. Evolves(E, e, g)
  BY <1>1, <1>2, <1>3, <1>7 DEF Evolves
<1>5. \A i \in DOMAIN g : g[i] = x \/ (i \in DOMAIN e /\ g[i] = e[i])
  BY <1>1, <1>2
<1>6. QED
  BY <1>1, <1>2, <1>4, <1>5 DEF f, k, g

(* The pointers of the multiplexes, the services and the networks: they    *)
(* stay in range while the arrays they point into grow.                    *)
LEMMA PlatformsStay ==
  ASSUME NEW ps \in Seq(Platform), NEW qs \in Seq(Platform), Len(ps) <= Len(qs),
         NEW ms \in Seq(Mux), NEW ns \in Seq(Mux), PlatformsThere(ms, ps),
         \A i \in DOMAIN ns : \/ ns[i].platform \in 0..Len(qs)
                              \/ i \in DOMAIN ms /\ ns[i].platform = ms[i].platform
  PROVE  PlatformsThere(ns, qs)
<1> SUFFICES ASSUME NEW i \in DOMAIN ns
             PROVE  ns[i].platform <= Len(qs)
  BY DEF PlatformsThere
<1>1. CASE ns[i].platform \in 0..Len(qs)
  BY <1>1
<1>2. CASE i \in DOMAIN ms /\ ns[i].platform = ms[i].platform
  <2>1. ms[i] \in Mux /\ ms[i].platform <= Len(ps)
    BY <1>2 DEF PlatformsThere
  <2>2. ms[i].platform \in Nat /\ Len(ps) \in Nat /\ Len(qs) \in Nat
    BY <2>1 DEF Mux
  <2>3. QED
    BY <1>2, <2>1, <2>2
<1>3. QED
  BY <1>1, <1>2

LEMMA MuxesStay ==
  ASSUME NEW ms \in Seq(Mux), NEW ns \in Seq(Mux), Len(ms) <= Len(ns),
         NEW ss \in Seq(Service), NEW ts \in Seq(Service), MuxesThere(ss, ms),
         \A i \in DOMAIN ts : \/ ts[i].mux \in 0..Len(ns)
                              \/ i \in DOMAIN ss /\ ts[i].mux = ss[i].mux
  PROVE  MuxesThere(ts, ns)
<1> SUFFICES ASSUME NEW i \in DOMAIN ts
             PROVE  ts[i].mux <= Len(ns)
  BY DEF MuxesThere
<1>1. CASE ts[i].mux \in 0..Len(ns)
  BY <1>1
<1>2. CASE i \in DOMAIN ss /\ ts[i].mux = ss[i].mux
  <2>1. ss[i] \in Service /\ ss[i].mux <= Len(ms)
    BY <1>2 DEF MuxesThere
  <2>2. ss[i].mux \in Nat /\ Len(ms) \in Nat /\ Len(ns) \in Nat
    BY <2>1 DEF Service
  <2>3. QED
    BY <1>2, <2>1, <2>2
<1>3. QED
  BY <1>1, <1>2

(* The two lists of one network.                                            *)
Lists(n, ms, ss) ==
  /\ \A i \in DOMAIN n.mux : n.mux[i] \in 1..Len(ms)
  /\ \A i \in DOMAIN n.service : n.service[i].service <= Len(ss)

LEMMA ListedStay ==
  ASSUME NEW ms \in Seq(Mux), NEW os \in Seq(Mux), Len(ms) <= Len(os),
         NEW ss \in Seq(Service), NEW ts \in Seq(Service), Len(ss) <= Len(ts),
         NEW ns \in Seq(Network), NEW xs \in Seq(Network), ListedThere(ns, ms, ss),
         \A k \in DOMAIN xs : \/ Lists(xs[k], os, ts)
                              \/ k \in DOMAIN ns /\ xs[k] = ns[k]
  PROVE  ListedThere(xs, os, ts)
<1> SUFFICES ASSUME NEW k \in DOMAIN xs
             PROVE  Lists(xs[k], os, ts)
  BY DEF ListedThere, Lists
<1>1. CASE Lists(xs[k], os, ts)
  BY <1>1
<1>2. CASE k \in DOMAIN ns /\ xs[k] = ns[k]
  <2>1. /\ \A i \in DOMAIN ns[k].mux : ns[k].mux[i] \in 1..Len(ms)
        /\ \A i \in DOMAIN ns[k].service : ns[k].service[i].service <= Len(ss)
    BY <1>2 DEF ListedThere
  <2>2. ns[k] \in Network
    BY <1>2
  <2>3. ns[k].service \in Seq(Slot)
    BY <2>2 DEF Network
  <2>4. \A i \in DOMAIN ns[k].service : ns[k].service[i].service \in Nat
    <3>1. \A i \in DOMAIN ns[k].service : ns[k].service[i] \in Slot
      BY <2>3
    <3>2. QED
      BY <3>1 DEF Slot
  <2>5. /\ Len(ms) \in Nat /\ Len(os) \in Nat /\ Len(ss) \in Nat /\ Len(ts) \in Nat
    OBVIOUS
  <2>6. \A i \in DOMAIN ns[k].mux : ns[k].mux[i] \in 1..Len(os)
    BY <2>1, <2>5
  <2>7. \A i \in DOMAIN ns[k].service : ns[k].service[i].service <= Len(ts)
    BY <2>1, <2>4, <2>5
  <2>8. QED
    BY <1>2, <2>6, <2>7 DEF Lists
<1>3. QED
  BY <1>1, <1>2

(* All that a step may do, and why that is enough.                          *)
Step(ps, ms, ss, ns) ==
  /\ reg' = [platforms |-> ps, multiplexes |-> ms, services |-> ss, networks |-> ns]
  /\ Evolves(Platform, reg.platforms, ps) /\ Evolves(Mux, reg.multiplexes, ms)
  /\ Evolves(Service, reg.services, ss) /\ Evolves(Network, reg.networks, ns)
  /\ PlatformsThere(ms, ps) /\ MuxesThere(ss, ms) /\ ListedThere(ns, ms, ss)

Stable ==
  /\ Keeps(reg.platforms, reg'.platforms) /\ Keeps(reg.multiplexes, reg'.multiplexes)
  /\ Keeps(reg.services, reg'.services) /\ Keeps(reg.networks, reg'.networks)

Kept ==
  /\ TypeOK' /\ Stable
  /\ UniqueNames => UniqueNames'
  /\ PointersAgree => PointersAgree'
  /\ ChannelNumbersUnique => ChannelNumbersUnique'

LEMMA StepKeeps ==
  ASSUME NEW ps, NEW ms, NEW ss, NEW ns, Step(ps, ms, ss, ns)
  PROVE  TypeOK' /\ Stable /\ (UniqueNames => UniqueNames')
<1>1. /\ reg'.platforms = ps /\ reg'.multiplexes = ms
      /\ reg'.services = ss /\ reg'.networks = ns
      /\ reg' = [platforms |-> ps, multiplexes |-> ms, services |-> ss, networks |-> ns]
  BY DEF Step
<1>2. TypeOK'
  BY <1>1 DEF Step, Evolves, TypeOK, Shape, InRange
<1>3. Stable
  BY <1>1 DEF Step, Evolves, Stable
<1>4. UniqueNames => UniqueNames'
  BY <1>1 DEF Step, Evolves, UniqueNames
<1>5. QED
  BY <1>2, <1>3, <1>4

(* A multiplex and its platform, a service and its multiplex: there, and of *)
(* the right name, or null.                                                 *)
MuxLinked(m, ps) ==
  m.platform \in 0..Len(ps) /\ (m.platform # 0 => ps[m.platform].uri = PlatformOf(m.uri))

ServiceLinked(s, ms) ==
  s.mux \in 0..Len(ms) /\ (s.mux # 0 => ms[s.mux].uri = MuxOf(s.uri))

(* The calls that leave the networks alone.                                 *)
LEMMA NetworksLeft ==
  ASSUME TypeOK, NEW ps, NEW ms, NEW ss,
         reg' = [platforms |-> ps, multiplexes |-> ms, services |-> ss, networks |-> reg.networks],
         Evolves(Platform, reg.platforms, ps), Evolves(Mux, reg.multiplexes, ms),
         Evolves(Service, reg.services, ss),
         \A i \in DOMAIN ms : \/ MuxLinked(ms[i], ps)
                              \/ /\ i \in DOMAIN reg.multiplexes
                                 /\ ms[i].platform = reg.multiplexes[i].platform,
         \A i \in DOMAIN ss : \/ ServiceLinked(ss[i], ms)
                              \/ i \in DOMAIN reg.services /\ ss[i].mux = reg.services[i].mux
  PROVE  Kept
<1>1. /\ reg.platforms \in Seq(Platform) /\ reg.multiplexes \in Seq(Mux)
      /\ reg.services \in Seq(Service) /\ reg.networks \in Seq(Network)
  BY DEF TypeOK, Shape
<1>2. /\ ps \in Seq(Platform) /\ Len(reg.platforms) <= Len(ps)
      /\ ms \in Seq(Mux) /\ Len(reg.multiplexes) <= Len(ms)
      /\ ss \in Seq(Service) /\ Len(reg.services) <= Len(ss)
  BY DEF Evolves, Keeps
<1>3. PlatformsThere(ms, ps)
  <2>1. \A i \in DOMAIN ms : \/ ms[i].platform \in 0..Len(ps)
                             \/ /\ i \in DOMAIN reg.multiplexes
                                /\ ms[i].platform = reg.multiplexes[i].platform
    BY DEF MuxLinked
  <2>2. QED
    BY <1>1, <1>2, <2>1, PlatformsStay DEF TypeOK, InRange
<1>4. MuxesThere(ss, ms)
  <2>1. \A i \in DOMAIN ss : \/ ss[i].mux \in 0..Len(ms)
                             \/ i \in DOMAIN reg.services /\ ss[i].mux = reg.services[i].mux
    BY DEF ServiceLinked
  <2>2. QED
    BY <1>1, <1>2, <2>1, MuxesStay DEF TypeOK, InRange
<1>5. ListedThere(reg.networks, ms, ss)
  BY <1>1, <1>2, ListedStay DEF TypeOK, InRange
<1>6. Evolves(Network, reg.networks, reg.networks)
  BY <1>1, EvolvesSame
<1>7. Step(ps, ms, ss, reg.networks)
  BY <1>3, <1>4, <1>5, <1>6 DEF Step
<1>8. /\ reg'.platforms = ps /\ reg'.multiplexes = ms
      /\ reg'.services = ss /\ reg'.networks = reg.networks
  OBVIOUS
<1>9. ASSUME PointersAgree
      PROVE  \A i \in DOMAIN ss : ss[i].mux # 0 => ms[ss[i].mux].uri = MuxOf(ss[i].uri)
  <2> SUFFICES ASSUME NEW i \in DOMAIN ss, ss[i].mux # 0
               PROVE  ms[ss[i].mux].uri = MuxOf(ss[i].uri)
    OBVIOUS
  <2>1. CASE ServiceLinked(ss[i], ms)
    BY <2>1 DEF ServiceLinked
  <2>2. CASE i \in DOMAIN reg.services /\ ss[i].mux = reg.services[i].mux
    <3> DEFINE k == reg.services[i].mux
    <3>1. reg.multiplexes[k].uri = MuxOf(reg.services[i].uri)
      BY <1>9, <2>2 DEF PointersAgree
    <3>2. ss[i].uri = reg.services[i].uri
      BY <2>2 DEF Evolves, Keeps
    <3>3. reg.services[i] \in Service /\ k <= Len(reg.multiplexes)
      BY <1>1, <2>2 DEF TypeOK, InRange, MuxesThere
    <3>4. k \in Nat
      BY <3>3 DEF Service
    <3>5. k \in DOMAIN reg.multiplexes
      BY <1>1, <2>2, <3>3, <3>4
    <3>6. ms[k].uri = reg.multiplexes[k].uri
      BY <3>5 DEF Evolves, Keeps
    <3>7. QED
      BY <2>2, <3>1, <3>2, <3>6
  <2>3. QED
    BY <2>1, <2>2
<1>10. ASSUME PointersAgree
       PROVE  \A i \in DOMAIN ms :
                ms[i].platform # 0 => ps[ms[i].platform].uri = PlatformOf(ms[i].uri)
  <2> SUFFICES ASSUME NEW i \in DOMAIN ms, ms[i].platform # 0
               PROVE  ps[ms[i].platform].uri = PlatformOf(ms[i].uri)
    OBVIOUS
  <2>1. CASE MuxLinked(ms[i], ps)
    BY <2>1 DEF MuxLinked
  <2>2. CASE i \in DOMAIN reg.multiplexes /\ ms[i].platform = reg.multiplexes[i].platform
    <3> DEFINE k == reg.multiplexes[i].platform
    <3>1. reg.platforms[k].uri = PlatformOf(reg.multiplexes[i].uri)
      BY <1>10, <2>2 DEF PointersAgree
    <3>2. ms[i].uri = reg.multiplexes[i].uri
      BY <2>2 DEF Evolves, Keeps
    <3>3. reg.multiplexes[i] \in Mux /\ k <= Len(reg.platforms)
      BY <1>1, <2>2 DEF TypeOK, InRange, PlatformsThere
    <3>4. k \in Nat
      BY <3>3 DEF Mux
    <3>5. k \in DOMAIN reg.platforms
      BY <1>1, <2>2, <3>3, <3>4
    <3>6. ps[k].uri = reg.platforms[k].uri
      BY <3>5 DEF Evolves, Keeps
    <3>7. QED
      BY <2>2, <3>1, <3>2, <3>6
  <2>3. QED
    BY <2>1, <2>2
<1>11. PointersAgree => PointersAgree'
  BY <1>8, <1>9, <1>10 DEF PointersAgree
<1>12. ChannelNumbersUnique => ChannelNumbersUnique'
  BY <1>8 DEF ChannelNumbersUnique
<1>13. QED
  BY <1>7, <1>11, <1>12, StepKeeps DEF Kept

(* A network lists nothing twice.                                           *)
ListsOnce(n) ==
  /\ \A i, j \in DOMAIN n.service :
       (n.service[i].lcn = n.service[j].lcn /\ n.service[i].lcn # -1) => i = j
  /\ \A i, j \in DOMAIN n.mux : n.mux[i] = n.mux[j] => i = j

(* The calls that change one network only, or add one.                      *)
LEMMA NetworksChange ==
  ASSUME TypeOK, NEW ns,
         reg' = [platforms |-> reg.platforms, multiplexes |-> reg.multiplexes,
                 services |-> reg.services, networks |-> ns],
         Evolves(Network, reg.networks, ns),
         \A k \in DOMAIN ns :
           \/ /\ Lists(ns[k], reg.multiplexes, reg.services)
              /\ ChannelNumbersUnique => ListsOnce(ns[k])
           \/ k \in DOMAIN reg.networks /\ ns[k] = reg.networks[k]
  PROVE  Kept
<1>1. /\ reg.platforms \in Seq(Platform) /\ reg.multiplexes \in Seq(Mux)
      /\ reg.services \in Seq(Service) /\ reg.networks \in Seq(Network)
  BY DEF TypeOK, Shape
<1>2. ns \in Seq(Network)
  BY DEF Evolves
<1>3. /\ PlatformsThere(reg.multiplexes, reg.platforms)
      /\ MuxesThere(reg.services, reg.multiplexes)
      /\ ListedThere(reg.networks, reg.multiplexes, reg.services)
  BY DEF TypeOK, InRange
<1>4. ListedThere(ns, reg.multiplexes, reg.services)
  <2>1. /\ Len(reg.multiplexes) <= Len(reg.multiplexes)
        /\ Len(reg.services) <= Len(reg.services)
    BY <1>1
  <2>2. QED
    BY <1>1, <1>2, <1>3, <2>1, ListedStay
<1>5. /\ Evolves(Platform, reg.platforms, reg.platforms)
      /\ Evolves(Mux, reg.multiplexes, reg.multiplexes)
      /\ Evolves(Service, reg.services, reg.services)
  BY <1>1, EvolvesSame
<1>6. Step(reg.platforms, reg.multiplexes, reg.services, ns)
  BY <1>3, <1>4, <1>5 DEF Step
<1>7. /\ reg'.platforms = reg.platforms /\ reg'.multiplexes = reg.multiplexes
      /\ reg'.services = reg.services /\ reg'.networks = ns
  OBVIOUS
<1>8. PointersAgree => PointersAgree'
  BY <1>7 DEF PointersAgree
<1>9. ASSUME ChannelNumbersUnique
      PROVE  ChannelNumbersUnique'
  <2>1. \A k \in DOMAIN reg.networks : ListsOnce(reg.networks[k])
    BY <1>9 DEF ChannelNumbersUnique, ListsOnce
  <2>2. \A k \in DOMAIN ns : ListsOnce(ns[k])
    BY <1>9, <2>1
  <2>3. QED
    BY <1>7, <2>2 DEF ChannelNumbersUnique, ListsOnce
<1>10. QED
  BY <1>6, <1>8, <1>9, StepKeeps DEF Kept

-----------------------------------------------------------------------------
(* The steps.                                                               *)
LEMMA LinkMuxStep ==
  ASSUME TypeOK, NEW m \in MuxUri, LinkMux(m)
  PROVE  Kept
<1> DEFINE ps == Ensure(reg.platforms, FreshPlatform(PlatformOf(m)))
           p  == Find(ps, PlatformOf(m))
           ms == Ensure(reg.multiplexes, FreshMux(m))
           k  == Find(ms, m)
           x  == [ms[k] EXCEPT !.platform = p]
           xs == [ms EXCEPT ![k] = x]
<1>1. reg' = [platforms |-> ps, multiplexes |-> xs,
              services |-> reg.services, networks |-> reg.networks]
  BY LinkMuxEffect DEF TypeOK
<1>2. reg.platforms \in Seq(Platform) /\ reg.multiplexes \in Seq(Mux)
      /\ reg.services \in Seq(Service) /\ reg.networks \in Seq(Network)
  BY DEF TypeOK, Shape
<1>3. /\ FreshPlatform(PlatformOf(m)) \in Platform
      /\ FreshPlatform(PlatformOf(m)).uri = PlatformOf(m)
      /\ FreshMux(m) \in Mux /\ FreshMux(m).uri = m
  BY FreshTyped
<1>4. Evolves(Platform, reg.platforms, ps)
  BY <1>2, <1>3, EvolvesAdd
<1>5. p \in DOMAIN ps /\ ps[p].uri = PlatformOf(m)
  BY <1>2, <1>3, EnsuredEntry
<1>6. k \in DOMAIN ms /\ ms[k].uri = m
  BY <1>2, <1>3, EnsuredEntry
<1>7. ms \in Seq(Mux)
  BY <1>2, <1>3, Ensured
<1>8. ps \in Seq(Platform) /\ Len(reg.platforms) <= Len(ps)
  BY <1>4 DEF Evolves, Keeps
<1>9. p \in Nat /\ p \in 0..Len(ps)
  <2> HIDE DEF p, ps
  <2>1. QED
    BY <1>5, <1>8
<1>10. x \in Mux /\ x.uri = FreshMux(m).uri /\ x.platform = p
  <2>1. ms[k] \in Mux
    BY <1>6, <1>7
  <2> HIDE DEF p, ms, k
  <2>2. QED
    BY <1>3, <1>6, <1>9, <2>1 DEF Mux
<1>11. /\ Evolves(Mux, reg.multiplexes, xs)
       /\ \A i \in DOMAIN xs :
            xs[i] = x \/ (i \in DOMAIN reg.multiplexes /\ xs[i] = reg.multiplexes[i])
  <2> HIDE DEF x
  <2>1. QED
    BY <1>2, <1>3, <1>10, EvolvesAddSet
<1>12. \A i \in DOMAIN xs :
         \/ MuxLinked(xs[i], ps)
         \/ i \in DOMAIN reg.multiplexes /\ xs[i].platform = reg.multiplexes[i].platform
  <2> HIDE DEF ps, xs, x, p
  <2>1. MuxLinked(x, ps)
    BY <1>3, <1>5, <1>9, <1>10 DEF MuxLinked
  <2>2. QED
    BY <1>11, <2>1
<1>13. Evolves(Service, reg.services, reg.services)
  BY <1>2, EvolvesSame
<1> HIDE DEF ps, xs
<1>14. QED
  BY <1>1, <1>4, <1>11, <1>12, <1>13, NetworksLeft

LEMMA ResetMuxStep ==
  ASSUME TypeOK, NEW m \in MuxUri, ResetMux(m)
  PROVE  Kept
<1> DEFINE ms == Ensure(reg.multiplexes, FreshMux(m))
           k  == Find(ms, m)
           x  == MuxReset(ms[k])
           xs == [ms EXCEPT ![k] = x]
<1>1. reg' = [platforms |-> reg.platforms, multiplexes |-> xs,
              services |-> reg.services, networks |-> reg.networks]
  BY ResetMuxEffect DEF TypeOK
<1>2. reg.platforms \in Seq(Platform) /\ reg.multiplexes \in Seq(Mux)
      /\ reg.services \in Seq(Service)
  BY DEF TypeOK, Shape
<1>3. FreshMux(m) \in Mux /\ FreshMux(m).uri = m
  BY FreshTyped
<1>4. k \in DOMAIN ms /\ ms[k].uri = m
  BY <1>2, <1>3, EnsuredEntry
<1>5. ms \in Seq(Mux)
  BY <1>2, <1>3, Ensured
<1>6. x \in Mux /\ x.uri = FreshMux(m).uri /\ x.platform = 0
  <2>1. ms[k] \in Mux
    BY <1>4, <1>5
  <2> HIDE DEF ms, k
  <2>2. QED
    BY <1>3, <1>4, <2>1 DEF Mux, MuxReset, FreshMux
<1>7. /\ Evolves(Mux, reg.multiplexes, xs)
      /\ \A i \in DOMAIN xs :
           xs[i] = x \/ (i \in DOMAIN reg.multiplexes /\ xs[i] = reg.multiplexes[i])
  <2> HIDE DEF x
  <2>1. QED
    BY <1>2, <1>3, <1>6, EvolvesAddSet
<1>8. \A i \in DOMAIN xs :
        \/ MuxLinked(xs[i], reg.platforms)
        \/ i \in DOMAIN reg.multiplexes /\ xs[i].platform = reg.multiplexes[i].platform
  <2> HIDE DEF xs, x
  <2>1. MuxLinked(x, reg.platforms)
    BY <1>2, <1>6 DEF MuxLinked
  <2>2. QED
    BY <1>7, <2>1
<1>9. /\ Evolves(Platform, reg.platforms, reg.platforms)
      /\ Evolves(Service, reg.services, reg.services)
  BY <1>2, EvolvesSame
<1> HIDE DEF xs
<1>10. QED
  BY <1>1, <1>7, <1>8, <1>9, NetworksLeft

LEMMA MarkMuxStep ==
  ASSUME TypeOK, NEW m \in MuxUri, MarkMux(m)
  PROVE  Kept
<1> DEFINE ms == reg.multiplexes
           k  == Find(ms, m)
           x  == [ms[k] EXCEPT !.data = TRUE]
           xs == [ms EXCEPT ![k] = x]
<1>1. /\ k # 0
      /\ reg' = [platforms |-> reg.platforms, multiplexes |-> xs,
                 services |-> reg.services, networks |-> reg.networks]
  BY MarkMuxEffect DEF TypeOK
<1>2. reg.platforms \in Seq(Platform) /\ reg.multiplexes \in Seq(Mux)
      /\ reg.services \in Seq(Service)
  BY DEF TypeOK, Shape
<1>3. k \in DOMAIN ms
  BY <1>1, <1>2, Found
<1>4. x \in Mux /\ x.uri = ms[k].uri /\ x.platform = ms[k].platform
  <2>1. ms[k] \in Mux
    BY <1>2, <1>3
  <2> HIDE DEF ms, k
  <2>2. QED
    BY <2>1 DEF Mux
<1>5. /\ Evolves(Mux, ms, xs)
      /\ DOMAIN xs = DOMAIN ms /\ xs[k] = x /\ \A i \in DOMAIN ms : i # k => xs[i] = ms[i]
  <2> HIDE DEF k, x
  <2>1. Evolves(Mux, ms, xs)
    BY <1>2, <1>3, <1>4, EvolvesSet
  <2>2. QED
    BY <1>2, <1>3, <1>4, <2>1, Overwritten
<1>6. \A i \in DOMAIN xs :
        \/ MuxLinked(xs[i], reg.platforms)
        \/ i \in DOMAIN ms /\ xs[i].platform = ms[i].platform
  <2> HIDE DEF xs, x, k
  <2>1. QED
    BY <1>4, <1>5
<1>7. /\ Evolves(Platform, reg.platforms, reg.platforms)
      /\ Evolves(Service, reg.services, reg.services)
  BY <1>2, EvolvesSame
<1> HIDE DEF xs
<1>8. QED
  BY <1>1, <1>5, <1>6, <1>7, NetworksLeft

LEMMA ResetServiceStep ==
  ASSUME TypeOK, NEW s \in ServiceUri, ResetService(s)
  PROVE  Kept
<1> DEFINE ss == Ensure(reg.services, FreshService(s))
           k  == Find(ss, s)
           x  == ServiceReset(ss[k])
           xs == [ss EXCEPT ![k] = x]
<1>1. reg' = [platforms |-> reg.platforms, multiplexes |-> reg.multiplexes,
              services |-> xs, networks |-> reg.networks]
  BY ResetServiceEffect DEF TypeOK
<1>2. reg.platforms \in Seq(Platform) /\ reg.multiplexes \in Seq(Mux)
      /\ reg.services \in Seq(Service)
  BY DEF TypeOK, Shape
<1>3. FreshService(s) \in Service /\ FreshService(s).uri = s
  BY FreshTyped
<1>4. k \in DOMAIN ss /\ ss[k].uri = s
  BY <1>2, <1>3, EnsuredEntry
<1>5. x \in Service /\ x.uri = FreshService(s).uri /\ x.mux = 0
  <2> HIDE DEF ss, k
  <2>1. QED
    BY <1>3, <1>4, FreshTyped DEF ServiceReset
<1>6. /\ Evolves(Service, reg.services, xs)
      /\ \A i \in DOMAIN xs :
           xs[i] = x \/ (i \in DOMAIN reg.services /\ xs[i] = reg.services[i])
  <2> HIDE DEF x
  <2>1. QED
    BY <1>2, <1>3, <1>5, EvolvesAddSet
<1>7. \A i \in DOMAIN xs :
        \/ ServiceLinked(xs[i], reg.multiplexes)
        \/ i \in DOMAIN reg.services /\ xs[i].mux = reg.services[i].mux
  <2> HIDE DEF xs, x
  <2>1. ServiceLinked(x, reg.multiplexes)
    BY <1>2, <1>5 DEF ServiceLinked
  <2>2. QED
    BY <1>6, <2>1
<1>8. /\ Evolves(Platform, reg.platforms, reg.platforms)
      /\ Evolves(Mux, reg.multiplexes, reg.multiplexes)
  BY <1>2, EvolvesSame
<1> HIDE DEF xs
<1>9. QED
  BY <1>1, <1>6, <1>7, <1>8, NetworksLeft

LEMMA LinkServiceStep ==
  ASSUME TypeOK, NEW s \in ServiceUri, LinkService(s)
  PROVE  Kept
<1> DEFINE ss == Ensure(reg.services, FreshService(s))
           ms == Ensure(reg.multiplexes, FreshMux(MuxOf(s)))
           k  == Find(ss, s)
           m  == Find(ms, MuxOf(s))
           x  == [ss[k] EXCEPT !.mux = m]
           xs == [ss EXCEPT ![k] = x]
<1>1. reg' = [platforms |-> reg.platforms, multiplexes |-> ms,
              services |-> xs, networks |-> reg.networks]
  BY LinkServiceEffect DEF TypeOK
<1>2. reg.platforms \in Seq(Platform) /\ reg.multiplexes \in Seq(Mux)
      /\ reg.services \in Seq(Service)
  BY DEF TypeOK, Shape
<1>3. /\ FreshService(s) \in Service /\ FreshService(s).uri = s
      /\ MuxOf(s) \in MuxUri
      /\ FreshMux(MuxOf(s)) \in Mux /\ FreshMux(MuxOf(s)).uri = MuxOf(s)
      /\ FreshMux(MuxOf(s)).platform = 0
  BY FreshTyped
<1>4. /\ Evolves(Mux, reg.multiplexes, ms)
      /\ \A i \in DOMAIN ms : \/ ms[i] = FreshMux(MuxOf(s))
                              \/ i \in DOMAIN reg.multiplexes /\ ms[i] = reg.multiplexes[i]
  <2>1. Evolves(Mux, reg.multiplexes, ms)
    BY <1>2, <1>3, EvolvesAdd
  <2>2. \A i \in DOMAIN ms : \/ ms[i] = FreshMux(MuxOf(s))
                             \/ i \in DOMAIN reg.multiplexes /\ ms[i] = reg.multiplexes[i]
    BY <1>2, <1>3, EnsuredEntries
  <2>3. QED
    BY <2>1, <2>2
<1>5. m \in DOMAIN ms /\ ms[m].uri = MuxOf(s)
  BY <1>2, <1>3, EnsuredEntry
<1>6. k \in DOMAIN ss /\ ss[k].uri = s
  BY <1>2, <1>3, EnsuredEntry
<1>7. ss \in Seq(Service)
  BY <1>2, <1>3, Ensured
<1>8. ms \in Seq(Mux)
  BY <1>4 DEF Evolves
<1>9. m \in Nat /\ m \in 0..Len(ms)
  <2> HIDE DEF m, ms
  <2>1. QED
    BY <1>5, <1>8
<1>10. x \in Service /\ x.uri = FreshService(s).uri /\ x.mux = m
  <2>1. ss[k] \in Service
    BY <1>6, <1>7
  <2> HIDE DEF ss, ms, k, m
  <2>2. QED
    BY <1>3, <1>6, <1>9, <2>1 DEF Service
<1>11. /\ Evolves(Service, reg.services, xs)
       /\ \A i \in DOMAIN xs :
            xs[i] = x \/ (i \in DOMAIN reg.services /\ xs[i] = reg.services[i])
  <2> HIDE DEF x
  <2>1. QED
    BY <1>2, <1>3, <1>10, EvolvesAddSet
<1>12. \A i \in DOMAIN xs :
         \/ ServiceLinked(xs[i], ms)
         \/ i \in DOMAIN reg.services /\ xs[i].mux = reg.services[i].mux
  <2> HIDE DEF ms, xs, x, m
  <2>1. ServiceLinked(x, ms)
    BY <1>3, <1>5, <1>9, <1>10 DEF ServiceLinked
  <2>2. QED
    BY <1>11, <2>1
<1>13. \A i \in DOMAIN ms :
         \/ MuxLinked(ms[i], reg.platforms)
         \/ i \in DOMAIN reg.multiplexes /\ ms[i].platform = reg.multiplexes[i].platform
  <2> HIDE DEF ms
  <2>1. MuxLinked(FreshMux(MuxOf(s)), reg.platforms)
    BY <1>2, <1>3 DEF MuxLinked
  <2>2. QED
    BY <1>4, <2>1
<1>14. Evolves(Platform, reg.platforms, reg.platforms)
  BY <1>2, EvolvesSame
<1> HIDE DEF ms, xs
<1>15. QED
  BY <1>1, <1>4, <1>11, <1>12, <1>13, <1>14, NetworksLeft

LEMMA FreshLists ==
  ASSUME NEW u, NEW ms, NEW ss
  PROVE  Lists(FreshNetwork(u), ms, ss) /\ ListsOnce(FreshNetwork(u))
BY DEF FreshNetwork, Lists, ListsOnce

LEMMA ResetNetworkStep ==
  ASSUME TypeOK, NEW id \in NetworkId, ResetNetwork(id)
  PROVE  Kept
<1> DEFINE u  == AddedAs(id)
           ns == Ensure(reg.networks, FreshNetwork(u))
           k  == Find(ns, u)
           x  == NetworkReset(ns[k])
           xs == [ns EXCEPT ![k] = x]
<1>1. reg' = [platforms |-> reg.platforms, multiplexes |-> reg.multiplexes,
              services |-> reg.services, networks |-> xs]
  BY ResetNetworkEffect DEF TypeOK
<1>2. reg.networks \in Seq(Network)
  BY DEF TypeOK, Shape
<1>3. u \in NetworkUri /\ FreshNetwork(u) \in Network /\ FreshNetwork(u).uri = u
  BY FreshTyped
<1>4. k \in DOMAIN ns /\ ns[k].uri = u
  <2> HIDE DEF u
  <2>1. QED
    BY <1>2, <1>3, EnsuredEntry
<1>5. x = FreshNetwork(u)
  <2> HIDE DEF u, ns, k
  <2>1. QED
    BY <1>4 DEF NetworkReset
<1>6. /\ Evolves(Network, reg.networks, xs)
      /\ \A i \in DOMAIN xs :
           xs[i] = x \/ (i \in DOMAIN reg.networks /\ xs[i] = reg.networks[i])
  <2> HIDE DEF x, u
  <2>1. QED
    BY <1>2, <1>3, <1>5, EvolvesAddSet
<1>7. Lists(x, reg.multiplexes, reg.services) /\ ListsOnce(x)
  BY <1>5, FreshLists
<1> HIDE DEF x, xs
<1>8. QED
  BY <1>1, <1>6, <1>7, NetworksChange

LEMMA LocateNetworkStep ==
  ASSUME TypeOK, NEW id \in NetworkId, LocateNetwork(id)
  PROVE  Kept
<1> DEFINE u  == LocatedAs(id)
           xs == Ensure(reg.networks, FreshNetwork(u))
<1>1. reg' = [platforms |-> reg.platforms, multiplexes |-> reg.multiplexes,
              services |-> reg.services, networks |-> xs]
  BY LocateNetworkEffect DEF TypeOK
<1>2. reg.networks \in Seq(Network)
  BY DEF TypeOK, Shape
<1>3. FreshNetwork(u) \in Network
  BY FreshTyped
<1>4. Evolves(Network, reg.networks, xs)
  BY <1>2, <1>3, EvolvesAdd
<1>5. \A i \in DOMAIN xs : \/ xs[i] = FreshNetwork(u)
                           \/ i \in DOMAIN reg.networks /\ xs[i] = reg.networks[i]
  <2> HIDE DEF u
  <2>1. QED
    BY <1>2, <1>3, EnsuredEntries
<1>6. Lists(FreshNetwork(u), reg.multiplexes, reg.services) /\ ListsOnce(FreshNetwork(u))
  BY FreshLists
<1> HIDE DEF u, xs
<1>7. QED
  BY <1>1, <1>4, <1>5, <1>6, NetworksChange

(* One network is replaced by one of its own name.                          *)
LEMMA NetworkReplaced ==
  ASSUME TypeOK, NEW n \in DOMAIN reg.networks, NEW x \in Network,
         x.uri = reg.networks[n].uri,
         reg' = [platforms |-> reg.platforms, multiplexes |-> reg.multiplexes,
                 services |-> reg.services, networks |-> [reg.networks EXCEPT ![n] = x]],
         Lists(x, reg.multiplexes, reg.services),
         ChannelNumbersUnique => ListsOnce(x)
  PROVE  Kept
<1> DEFINE xs == [reg.networks EXCEPT ![n] = x]
<1>1. reg.networks \in Seq(Network)
  BY DEF TypeOK, Shape
<1>2. Evolves(Network, reg.networks, xs)
  BY <1>1, EvolvesSet
<1>3. \A i \in DOMAIN xs : xs[i] = x \/ (i \in DOMAIN reg.networks /\ xs[i] = reg.networks[i])
  BY <1>1
<1> HIDE DEF xs
<1>4. QED
  BY <1>2, <1>3, NetworksChange DEF xs

LEMMA ListMuxStep ==
  ASSUME TypeOK, NEW n, NEW m, ListMux(n, m)
  PROVE  Kept
<1> DEFINE e == reg.networks[n]
           l == MuxesWith(e, m)
           x == [e EXCEPT !.mux = l]
<1>1. /\ n \in DOMAIN reg.networks /\ m \in DOMAIN reg.multiplexes
      /\ reg' = [platforms |-> reg.platforms, multiplexes |-> reg.multiplexes,
                 services |-> reg.services, networks |-> [reg.networks EXCEPT ![n] = x]]
  BY ListMuxEffect DEF TypeOK
<1>2. reg.multiplexes \in Seq(Mux) /\ e \in Network
  BY <1>1 DEF TypeOK, Shape
<1>3. /\ e.mux \in Seq(Nat) /\ e.service \in Seq(Slot)
      /\ m \in Nat /\ m \in 1..Len(reg.multiplexes)
  BY <1>1, <1>2 DEF Network
<1>4. Lists(e, reg.multiplexes, reg.services)
  BY <1>1 DEF TypeOK, InRange, ListedThere, Lists
<1>5. ChannelNumbersUnique => ListsOnce(e)
  BY <1>1 DEF ChannelNumbersUnique, ListsOnce
<1> HIDE DEF e
<1>6. /\ l \in Seq(Nat)
      /\ \A i \in DOMAIN l : l[i] \in 1..Len(reg.multiplexes)
      /\ ListsOnce(e) => \A i, j \in DOMAIN l : l[i] = l[j] => i = j
  <2>1. CASE \E k \in DOMAIN e.mux : e.mux[k] = m
    <3>1. l = e.mux
      BY <2>1 DEF MuxesWith
    <3>2. QED
      BY <1>3, <1>4, <3>1 DEF Lists, ListsOnce
  <2>2. CASE ~\E k \in DOMAIN e.mux : e.mux[k] = m
    <3>1. l = Append(e.mux, m)
      BY <2>2 DEF MuxesWith
    <3> HIDE DEF l
    <3>2. /\ l \in Seq(Nat) /\ DOMAIN l = 1..(Len(e.mux) + 1) /\ Len(e.mux) \in Nat
          /\ DOMAIN e.mux = 1..Len(e.mux)
          /\ \A i \in DOMAIN e.mux : l[i] = e.mux[i]
          /\ l[Len(e.mux) + 1] = m
      BY <1>3, <3>1
    <3>3. \A i \in DOMAIN l : l[i] \in 1..Len(reg.multiplexes)
      <4> SUFFICES ASSUME NEW i \in DOMAIN l
                   PROVE  l[i] \in 1..Len(reg.multiplexes)
        OBVIOUS
      <4>1. i \in DOMAIN e.mux \/ i = Len(e.mux) + 1
        BY <3>2
      <4>2. QED
        BY <1>3, <1>4, <3>2, <4>1 DEF Lists
    <3>4. ASSUME ListsOnce(e), NEW i \in DOMAIN l, NEW j \in DOMAIN l, l[i] = l[j]
          PROVE  i = j
      <4>1. /\ i \in DOMAIN e.mux \/ i = Len(e.mux) + 1
            /\ j \in DOMAIN e.mux \/ j = Len(e.mux) + 1
        BY <3>2
      <4>2. CASE i \in DOMAIN e.mux /\ j \in DOMAIN e.mux
        <5>1. e.mux[i] = e.mux[j]
          BY <3>2, <3>4, <4>2
        <5>2. QED
          BY <3>4, <4>2, <5>1 DEF ListsOnce
      <4>3. CASE i = Len(e.mux) + 1 /\ j \in DOMAIN e.mux
        BY <2>2, <3>2, <3>4, <4>3
      <4>4. CASE i \in DOMAIN e.mux /\ j = Len(e.mux) + 1
        BY <2>2, <3>2, <3>4, <4>4
      <4>5. QED
        BY <4>1, <4>2, <4>3, <4>4
    <3>5. QED
      BY <3>2, <3>3, <3>4
  <2>3. QED
    BY <2>1, <2>2
<1> HIDE DEF l
<1>7. /\ x \in Network /\ x.uri = e.uri /\ x.mux = l /\ x.service = e.service
  BY <1>2, <1>6 DEF Network
<1> HIDE DEF x
<1>8. Lists(x, reg.multiplexes, reg.services)
  BY <1>4, <1>6, <1>7 DEF Lists
<1>9. ChannelNumbersUnique => ListsOnce(x)
  BY <1>5, <1>6, <1>7 DEF ListsOnce
<1>10. QED
  BY <1>1, <1>7, <1>8, <1>9, NetworkReplaced DEF e

LEMMA SetServiceStep ==
  ASSUME TypeOK, NEW n, NEW s, NEW lcn \in Lcn, SetService(n, s, lcn)
  PROVE  Kept
<1> DEFINE e == reg.networks[n]
           l == SlotsWith(e, s, lcn)
           x == [e EXCEPT !.service = l]
<1>1. /\ n \in DOMAIN reg.networks /\ s \in DOMAIN reg.services \cup {0}
      /\ reg' = [platforms |-> reg.platforms, multiplexes |-> reg.multiplexes,
                 services |-> reg.services, networks |-> [reg.networks EXCEPT ![n] = x]]
  BY SetServiceEffect DEF TypeOK
<1>2. reg.services \in Seq(Service) /\ e \in Network
  BY <1>1 DEF TypeOK, Shape
<1>3. /\ e.service \in Seq(Slot)
      /\ s \in Nat /\ s <= Len(reg.services) /\ Len(reg.services) \in Nat
      /\ lcn \in Nat
  BY <1>1, <1>2, RegistryAssumption DEF Network
<1>4. Lists(e, reg.multiplexes, reg.services)
  BY <1>1 DEF TypeOK, InRange, ListedThere, Lists
<1>5. ChannelNumbersUnique => ListsOnce(e)
  BY <1>1 DEF ChannelNumbersUnique, ListsOnce
<1> HIDE DEF e
<1> DEFINE slots == e.service
           slot  == [lcn |-> lcn, service |-> s]
           same  == {k \in DOMAIN slots : slots[k].lcn = lcn}
<1>6. /\ slots \in Seq(Slot) /\ Len(slots) \in Nat /\ DOMAIN slots = 1..Len(slots)
      /\ \A i \in DOMAIN slots : slots[i].service <= Len(reg.services)
      /\ ListsOnce(e) => \A i, j \in DOMAIN slots :
                           (slots[i].lcn = slots[j].lcn /\ slots[i].lcn # -1) => i = j
  BY <1>3, <1>4 DEF Lists, ListsOnce
<1>7. /\ slot \in Slot /\ slot.service <= Len(reg.services) /\ slot.lcn = lcn
      /\ NoSlot \in Slot /\ NoSlot.service <= Len(reg.services) /\ NoSlot.lcn = -1
  BY <1>3 DEF Slot, NoSlot
<1>8. l = IF same = {} THEN Append(slots, slot)
          ELSE [slots EXCEPT ![First(same)] = IF s # 0 THEN slot ELSE NoSlot]
  BY DEF SlotsWith
<1> HIDE DEF l, slots, slot
<1>9. /\ l \in Seq(Slot)
      /\ \A i \in DOMAIN l : l[i].service <= Len(reg.services)
      /\ ListsOnce(e) => \A i, j \in DOMAIN l :
                           (l[i].lcn = l[j].lcn /\ l[i].lcn # -1) => i = j
  <2>1. CASE same = {}
    <3>1. /\ l \in Seq(Slot) /\ DOMAIN l = 1..(Len(slots) + 1)
          /\ \A i \in DOMAIN slots : l[i] = slots[i]
          /\ l[Len(slots) + 1] = slot
      BY <1>6, <1>7, <1>8, <2>1
    <3>2. \A i \in DOMAIN l : i \in DOMAIN slots \/ i = Len(slots) + 1
      BY <1>6, <3>1
    <3>3. \A i \in DOMAIN slots : slots[i].lcn # lcn
      BY <2>1
    <3>4. \A i \in DOMAIN l : l[i].service <= Len(reg.services)
      BY <1>6, <1>7, <3>1, <3>2
    <3>5. ListsOnce(e) => \A i, j \in DOMAIN l :
                            (l[i].lcn = l[j].lcn /\ l[i].lcn # -1) => i = j
      BY <1>6, <1>7, <3>1, <3>2, <3>3
    <3>6. QED
      BY <3>1, <3>4, <3>5
  <2>2. CASE same # {}
    <3> DEFINE k == First(same)
               y == IF s # 0 THEN slot ELSE NoSlot
    <3>1. k \in DOMAIN slots /\ slots[k].lcn = lcn
      <4>1. same \in SUBSET Nat
        BY <1>6
      <4>2. k \in same
        BY <2>2, <4>1, FirstIsThere
      <4>3. QED
        BY <4>2
    <3>2. /\ y \in Slot /\ y.service <= Len(reg.services)
          /\ y.lcn = lcn \/ y.lcn = -1
      BY <1>7
    <3>3. l = [slots EXCEPT ![k] = y]
      BY <1>8, <2>2
    <3> HIDE DEF k, y, same
    <3>4. /\ l \in Seq(Slot) /\ DOMAIN l = DOMAIN slots
          /\ l[k] = y /\ \A i \in DOMAIN slots : i # k => l[i] = slots[i]
      BY <1>6, <3>1, <3>2, <3>3
    <3>5. \A i \in DOMAIN l : l[i].service <= Len(reg.services)
      BY <1>6, <3>2, <3>4
    <3>6. ASSUME ListsOnce(e), NEW i \in DOMAIN l, NEW j \in DOMAIN l,
                 l[i].lcn = l[j].lcn, l[i].lcn # -1
          PROVE  i = j
      <4>1. \A a \in DOMAIN l : l[a].lcn # -1 => l[a].lcn = slots[a].lcn
        BY <3>1, <3>2, <3>4
      <4>2. slots[i].lcn = slots[j].lcn /\ slots[i].lcn # -1
        BY <3>6, <4>1
      <4>3. QED
        BY <1>6, <3>4, <3>6, <4>2
    <3>7. QED
      BY <3>4, <3>5, <3>6
  <2>3. QED
    BY <2>1, <2>2
<1>10. x \in Network /\ x.uri = e.uri /\ x.service = l /\ x.mux = e.mux
  BY <1>2, <1>9 DEF Network
<1> HIDE DEF x
<1>11. Lists(x, reg.multiplexes, reg.services)
  BY <1>4, <1>9, <1>10 DEF Lists
<1>12. ChannelNumbersUnique => ListsOnce(x)
  BY <1>5, <1>9, <1>10 DEF ListsOnce
<1>13. QED
  BY <1>1, <1>10, <1>11, <1>12, NetworkReplaced DEF e

-----------------------------------------------------------------------------
(* The theorems.                                                            *)
LEMMA InitOK == Init => TypeOK /\ UniqueNames /\ PointersAgree /\ ChannelNumbersUnique
<1> SUFFICES ASSUME Init
             PROVE  TypeOK /\ UniqueNames /\ PointersAgree /\ ChannelNumbersUnique
  OBVIOUS
<1>1. /\ reg.platforms = <<>> /\ reg.multiplexes = <<>>
      /\ reg.services = <<>> /\ reg.networks = <<>>
      /\ reg = [platforms |-> <<>>, multiplexes |-> <<>>, services |-> <<>>, networks |-> <<>>]
  BY DEF Init, NoEntries
<1>2. TypeOK
  BY <1>1 DEF TypeOK, Shape, InRange, PlatformsThere, MuxesThere, ListedThere
<1>3. UniqueNames /\ PointersAgree /\ ChannelNumbersUnique
  BY <1>1 DEF UniqueNames, OneEntry, PointersAgree, ChannelNumbersUnique
<1>4. QED
  BY <1>2, <1>3

LEMMA NextKept == TypeOK /\ Next => Kept
<1> SUFFICES ASSUME TypeOK, Next
             PROVE  Kept
  OBVIOUS
<1>1. CASE \E m \in MuxUri : LinkMux(m) \/ ResetMux(m) \/ MarkMux(m)
  BY <1>1, LinkMuxStep, ResetMuxStep, MarkMuxStep
<1>2. CASE \E s \in ServiceUri : ResetService(s) \/ LinkService(s)
  BY <1>2, ResetServiceStep, LinkServiceStep
<1>3. CASE \E id \in NetworkId : ResetNetwork(id) \/ LocateNetwork(id)
  BY <1>3, ResetNetworkStep, LocateNetworkStep
<1>4. CASE \E n \in 1..(2 * Cardinality(NetworkId)) :
             \/ \E m \in 1..Cardinality(MuxUri) : ListMux(n, m)
             \/ \E s \in 0..Cardinality(ServiceUri), lcn \in Lcn : SetService(n, s, lcn)
  BY <1>4, ListMuxStep, SetServiceStep
<1>5. QED
  BY <1>1, <1>2, <1>3, <1>4 DEF Next

(* Every pointer the registries hold is null or points to an entry that is *)
(* there, whatever is added, located, linked and reset in any order.        *)
THEOREM TypeCorrect == Spec => []TypeOK
<1>1. TypeOK /\ [Next]_reg => TypeOK'
  <2>1. TypeOK /\ UNCHANGED reg => TypeOK'
    BY DEF TypeOK, Shape, InRange
  <2>2. QED
    BY <2>1, NextKept DEF Kept
<1>2. QED
  BY <1>1, InitOK, PTL DEF Spec

(* One entry per name in each of the four arrays.                           *)
THEOREM NamesUnique == Spec => []UniqueNames
<1>1. TypeOK /\ UniqueNames /\ [Next]_reg => UniqueNames'
  <2>1. UniqueNames /\ UNCHANGED reg => UniqueNames'
    BY DEF UniqueNames
  <2>2. QED
    BY <2>1, NextKept DEF Kept
<1>2. QED
  BY <1>1, InitOK, TypeCorrect, PTL DEF Spec

(* A service points to the multiplex of its own name, a multiplex to the   *)
(* platform of its network.                                                 *)
THEOREM PointersRight == Spec => []PointersAgree
<1>1. TypeOK /\ PointersAgree /\ [Next]_reg => PointersAgree'
  <2>1. PointersAgree /\ UNCHANGED reg => PointersAgree'
    BY DEF PointersAgree
  <2>2. QED
    BY <2>1, NextKept DEF Kept
<1>2. QED
  BY <1>1, InitOK, TypeCorrect, PTL DEF Spec

(* No network holds two live slots of one channel number or lists a        *)
(* multiplex twice.                                                         *)
THEOREM ChannelsOnce == Spec => []ChannelNumbersUnique
<1>1. TypeOK /\ ChannelNumbersUnique /\ [Next]_reg => ChannelNumbersUnique'
  <2>1. ChannelNumbersUnique /\ UNCHANGED reg => ChannelNumbersUnique'
    BY DEF ChannelNumbersUnique
  <2>2. QED
    BY <2>1, NextKept DEF Kept
<1>2. QED
  BY <1>1, InitOK, TypeCorrect, PTL DEF Spec

(* No step moves or renames an entry.                                       *)
THEOREM EntriesStay == Spec => PointersStable
<1>1. TypeOK /\ [Next]_reg => [Stable]_reg
  BY NextKept DEF Kept
<1>2. QED
  BY <1>1, TypeCorrect, PTL DEF Spec, PointersStable, Stable
=============================================================================
