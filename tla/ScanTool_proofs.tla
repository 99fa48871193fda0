--------------------------- MODULE ScanTool_proofs ---------------------------
(***************************************************************************)
(* Both passes of the scan tools, for every carousel and every service     *)
(* scan time.  The parsers work through a table entry by entry; what one   *)
(* entry does is a lemma, and the loops follow by induction on the entries *)
(* that were done (Induction), which needs first that the loop, written as *)
(* a recursive function, is the function its equation says (the Loop       *)
(* lemmas).                                                                *)
(***************************************************************************)
EXTENDS ScanTool, WellFoundedInduction, TLAPS

-----------------------------------------------------------------------------
(* Induction on the entries that were done.                                 *)
LEMMA Induction ==
  ASSUME NEW n \in Nat, NEW T, 0 \in T, \A i \in 0..(n - 1) : i \in T => i + 1 \in T
  PROVE  n \in T
<1> DEFINE U == (0..n) \ T
<1> SUFFICES ASSUME U # {} PROVE FALSE
  OBVIOUS
<1>1. U \subseteq Nat
  OBVIOUS
<1>2. PICK x \in U : \A y \in U : ~(<<y, x>> \in OpToRel(<, Nat))
  BY <1>1, NatLessThanWellFounded, WFMin
<1>3. \A y \in U : ~(y < x)
  BY <1>1, <1>2 DEF OpToRel
<1>4. x - 1 \notin U /\ x # 0
  BY <1>3
<1>5. x - 1 \in 0..(n - 1) /\ x - 1 \in T
  BY <1>4
<1>. QED  BY <1>5

LEMMA FirstIsThere ==
  ASSUME NEW S \in SUBSET Nat, S # {}
  PROVE  First(S) \in S
<1>1. PICK x \in S : \A y \in S : ~(<<y, x>> \in OpToRel(<, Nat))
  BY NatLessThanWellFounded, WFMin
<1>2. \A y \in S : ~(y < x) /\ y \in Nat /\ x \in Nat
  BY <1>1 DEF OpToRel
<1>3. \A y \in S : x <= y
  BY <1>2
<1>. QED  BY <1>3 DEF First

-----------------------------------------------------------------------------
(* Entries under their names.                                               *)
Once(e) == \A i, j \in DOMAIN e : e[i].uri = e[j].uri => i = j

LEMMA Found ==
  ASSUME NEW E, NEW e \in Seq(E), NEW uri
  PROVE  /\ Find(e, uri) # 0 => Find(e, uri) \in DOMAIN e /\ e[Find(e, uri)].uri = uri
         /\ Find(e, uri) = 0 => \A i \in DOMAIN e : e[i].uri # uri
<1> DEFINE found == {i \in DOMAIN e : e[i].uri = uri}
<1>1. found \in SUBSET Nat /\ 0 \notin DOMAIN e
  OBVIOUS
<1>2. CASE found = {}
  BY <1>1, <1>2 DEF Find
<1>3. CASE found # {}
  <2>1. First(found) \in found
    BY <1>1, <1>3, FirstIsThere
  <2>2. Find(e, uri) = First(found)
    BY <1>3 DEF Find
  <2>. QED  BY <1>1, <2>1, <2>2
<1>. QED  BY <1>2, <1>3

LEMMA FoundAt ==
  ASSUME NEW E, NEW e \in Seq(E), Once(e), NEW i \in DOMAIN e
  PROVE  Find(e, e[i].uri) = i
BY Found DEF Once

(* f is e, and an entry of the name of x if there was none; k is its place. *)
Added(E, e, x, f, k) ==
  /\ f \in Seq(E) /\ Once(f)
  /\ k \in DOMAIN f /\ f[k].uri = x.uri
  /\ \A i \in DOMAIN e : i \in DOMAIN f /\ f[i] = e[i]
  /\ \A i \in DOMAIN f : i \in DOMAIN e \/ (i = k /\ f[i] = x)

LEMMA Ensured ==
  ASSUME NEW E, NEW e \in Seq(E), Once(e), NEW x \in E
  PROVE  Added(E, e, x, Ensure(e, x), Find(Ensure(e, x), x.uri))
<1>1. CASE Find(e, x.uri) # 0
  <2>1. Ensure(e, x) = e
    BY <1>1 DEF Ensure
  <2>. QED  BY <1>1, <2>1, Found DEF Added
<1>2. CASE Find(e, x.uri) = 0
  <2> DEFINE f == Append(e, x)
             n == Len(e) + 1
  <2>1. Ensure(e, x) = f
    BY <1>2 DEF Ensure
  <2>2. \A i \in DOMAIN e : e[i].uri # x.uri
    BY <1>2, Found
  <2>3. /\ f \in Seq(E) /\ n \in DOMAIN f /\ f[n] = x /\ n \notin DOMAIN e
        /\ \A i \in DOMAIN e : i \in DOMAIN f /\ f[i] = e[i]
        /\ \A i \in DOMAIN f : i \in DOMAIN e \/ i = n
    OBVIOUS
  <2> HIDE DEF f, n
  <2>4. Once(f)
    BY <2>2, <2>3 DEF Once
  <2>5. Find(f, x.uri) = n
    BY <2>3, <2>4, FoundAt
  <2>. QED  BY <2>1, <2>3, <2>4, <2>5 DEF Added
<1>. QED  BY <1>1, <1>2

(* An entry of the array changes, and keeps its name.                       *)
Changed(E, e, k, x, f) ==
  /\ f \in Seq(E) /\ DOMAIN f = DOMAIN e /\ f[k] = x
  /\ \A i \in DOMAIN e : i # k => f[i] = e[i]
  /\ Once(e) => Once(f)

LEMMA Overwritten ==
  ASSUME NEW E, NEW e \in Seq(E), NEW k \in DOMAIN e, NEW x \in E, x.uri = e[k].uri
  PROVE  Changed(E, e, k, x, [e EXCEPT ![k] = x])
<1> DEFINE f == [e EXCEPT ![k] = x]
<1>1. /\ f \in Seq(E) /\ DOMAIN f = DOMAIN e /\ f[k] = x
      /\ \A i \in DOMAIN e : i # k => f[i] = e[i]
  OBVIOUS
<1> HIDE DEF f
<1>2. \A i \in DOMAIN e : f[i].uri = e[i].uri
  BY <1>1
<1>. QED  BY <1>1, <1>2 DEF Changed, Once

-----------------------------------------------------------------------------
(* What the registries are after every call of a parser: a name stands for  *)
(* one entry, a service points to the multiplex of its name, and what a     *)
(* network lists is there.                                                  *)
Linked(ms, ss) ==
  \A i \in DOMAIN ss : ss[i].mux \in DOMAIN ms /\ ms[ss[i].mux].uri = MuxOf(ss[i].uri)

Listed(n, ms, ss) ==
  /\ \A k \in DOMAIN n.mux : n.mux[k] \in DOMAIN ms
  /\ \A k \in DOMAIN n.service :
       /\ n.service[k].service \in DOMAIN ss
       /\ \E j \in DOMAIN n.mux : n.mux[j] = ss[n.service[k].service].mux

SlotsOnce(n) ==
  \A i, j \in DOMAIN n.service : n.service[i].lcn = n.service[j].lcn => i = j

Sane(r) ==
  /\ r \in Registries
  /\ Once(r.multiplexes) /\ Once(r.services) /\ Linked(r.multiplexes, r.services)
  /\ \A n \in DOMAIN r.networks :
       Listed(r.networks[n], r.multiplexes, r.services) /\ SlotsOnce(r.networks[n])

(* Nothing that was there moves, changes its name or its multiplex.         *)
Grown(E, e, f) ==
  f \in Seq(E) /\ Once(f) /\ \A i \in DOMAIN e : i \in DOMAIN f /\ f[i].uri = e[i].uri

Later(r, q) ==
  /\ Sane(q)
  /\ \A i \in DOMAIN r.multiplexes :
       i \in DOMAIN q.multiplexes /\ q.multiplexes[i].uri = r.multiplexes[i].uri
  /\ \A i \in DOMAIN r.services :
       /\ i \in DOMAIN q.services /\ q.services[i].uri = r.services[i].uri
       /\ q.services[i].mux = r.services[i].mux

LEMMA LaterTwice ==
  ASSUME NEW r, NEW q, NEW p, Later(r, q), Later(q, p)
  PROVE  Later(r, p)
BY DEF Later

(* What is marked stays marked, and nothing else is.                        *)
MarksKept(ms, ns) ==
  \A i \in DOMAIN ns : ns[i].data = IF i \in DOMAIN ms THEN ms[i].data ELSE FALSE

(* What is new has the name m.                                              *)
NewIs(m, ms, ns) == \A i \in DOMAIN ns : i \in DOMAIN ms \/ ns[i].uri = m

LEMMA MarksTwice ==
  ASSUME NEW r, NEW q, NEW p, Later(r, q), Later(q, p),
         MarksKept(r.multiplexes, q.multiplexes), MarksKept(q.multiplexes, p.multiplexes)
  PROVE  MarksKept(r.multiplexes, p.multiplexes)
BY DEF Later, MarksKept

LEMMA SameMarks ==
  ASSUME NEW ms
  PROVE  MarksKept(ms, ms) /\ \A m : NewIs(m, ms, ms)
BY DEF MarksKept, NewIs

LEMMA Parts ==
  ASSUME NEW r \in Registries
  PROVE  /\ r.platforms \in Seq(Platform) /\ r.multiplexes \in Seq(Mux)
         /\ r.services \in Seq(Service) /\ r.networks \in Seq(Network)
         /\ r = [platforms |-> r.platforms, multiplexes |-> r.multiplexes,
                 services |-> r.services, networks |-> r.networks]
BY DEF Registries

LEMMA NewNetworks ==
  ASSUME NEW r \in Registries, NEW ns
  PROVE  [r EXCEPT !.networks = ns] =
           [platforms |-> r.platforms, multiplexes |-> r.multiplexes,
            services |-> r.services, networks |-> ns]
BY DEF Registries

LEMMA ListedStays ==
  ASSUME NEW r, NEW q, Later(r, q), NEW n, Listed(n, r.multiplexes, r.services)
  PROVE  Listed(n, q.multiplexes, q.services)
BY DEF Later, Listed

(* The multiplexes and the services grow.                                   *)
LEMMA Grows ==
  ASSUME NEW r, Sane(r), NEW ps \in Seq(Platform), NEW ms, NEW ss,
         Grown(Mux, r.multiplexes, ms), Grown(Service, r.services, ss), Linked(ms, ss),
         NEW q, q = [platforms |-> ps, multiplexes |-> ms, services |-> ss,
                     networks |-> r.networks]
  PROVE  Later(r, q)
<1>1. /\ q.multiplexes = ms /\ q.services = ss /\ q.networks = r.networks
      /\ q \in Registries
  BY Parts DEF Sane, Grown, Registries
<1>2. \A i \in DOMAIN r.services : ss[i].mux = r.services[i].mux
  <2> SUFFICES ASSUME NEW i \in DOMAIN r.services PROVE ss[i].mux = r.services[i].mux
    OBVIOUS
  <2>1. /\ i \in DOMAIN ss /\ ss[i].mux \in DOMAIN ms
        /\ ms[ss[i].mux].uri = MuxOf(r.services[i].uri)
    BY DEF Grown, Linked
  <2>2. /\ r.services[i].mux \in DOMAIN ms
        /\ ms[r.services[i].mux].uri = MuxOf(r.services[i].uri)
    BY DEF Grown, Linked, Sane
  <2>. QED  BY <2>1, <2>2 DEF Grown, Once
<1>3. \A n \in DOMAIN r.networks : Listed(r.networks[n], ms, ss)
  <2>1. \A i \in DOMAIN r.multiplexes : i \in DOMAIN ms
    BY DEF Grown
  <2>2. \A i \in DOMAIN r.services : i \in DOMAIN ss
    BY DEF Grown
  <2>3. ASSUME NEW w, Listed(w, r.multiplexes, r.services) PROVE Listed(w, ms, ss)
    BY <1>2, <2>1, <2>2, <2>3 DEF Listed
  <2>4. \A n \in DOMAIN r.networks : Listed(r.networks[n], r.multiplexes, r.services)
    BY DEF Sane
  <2>. QED  BY <2>3, <2>4
<1>. QED  BY <1>1, <1>2, <1>3 DEF Later, Sane, Grown

(* One network changes.                                                     *)
LEMMA NetworkChanges ==
  ASSUME NEW r, Sane(r), NEW n \in DOMAIN r.networks, NEW x \in Network,
         Listed(x, r.multiplexes, r.services), SlotsOnce(x),
         NEW q, q = [r EXCEPT !.networks = [r.networks EXCEPT ![n] = x]]
  PROVE  /\ Later(r, q)
         /\ q.multiplexes = r.multiplexes /\ q.services = r.services
         /\ DOMAIN q.networks = DOMAIN r.networks /\ q.networks[n] = x
         /\ \A k \in DOMAIN r.networks : k # n => q.networks[k] = r.networks[k]
<1> DEFINE ns == [r.networks EXCEPT ![n] = x]
<1>1. /\ r.networks \in Seq(Network) /\ r \in Registries
      /\ q = [platforms |-> r.platforms, multiplexes |-> r.multiplexes,
              services |-> r.services, networks |-> ns]
  BY Parts, NewNetworks DEF Sane
<1>2. /\ ns \in Seq(Network) /\ DOMAIN ns = DOMAIN r.networks /\ ns[n] = x
      /\ \A k \in DOMAIN r.networks : k # n => ns[k] = r.networks[k]
  BY <1>1
<1> HIDE DEF ns
<1>3. q \in Registries
  BY <1>1, <1>2, Parts DEF Registries
<1>4. /\ q.multiplexes = r.multiplexes /\ q.services = r.services /\ q.networks = ns
  BY <1>1
<1>. QED  BY <1>2, <1>3, <1>4 DEF Later, Sane

-----------------------------------------------------------------------------
(* One entry of an SDT.                                                     *)
LEMMA FreshEntries ==
  /\ \A m \in Nat \X Nat : FreshMux(m) \in Mux /\ FreshMux(m).uri = m /\ PlatformOf(m) \in Nat
  /\ \A u \in Nat \X Nat \X Nat : FreshService(u) \in Service /\ FreshService(u).uri = u
  /\ \A m \in Nat \X Nat, sid \in Nat :
       ServiceOf(m, sid) \in Nat \X Nat \X Nat /\ MuxOf(ServiceOf(m, sid)) = m
<1>1. ASSUME NEW m \in Nat \X Nat
      PROVE  FreshMux(m) \in Mux /\ FreshMux(m).uri = m /\ PlatformOf(m) \in Nat
  BY DEF FreshMux, Mux, PlatformOf
<1>2. ASSUME NEW u \in Nat \X Nat \X Nat
      PROVE  FreshService(u) \in Service /\ FreshService(u).uri = u
  BY DEF FreshService, Service, ServiceTypes
<1>3. ASSUME NEW m \in Nat \X Nat, NEW sid \in Nat
      PROVE  ServiceOf(m, sid) \in Nat \X Nat \X Nat /\ MuxOf(ServiceOf(m, sid)) = m
  <2>1. m = <<m[1], m[2]>> /\ m[1] \in Nat /\ m[2] \in Nat
    OBVIOUS
  <2>. QED  BY <2>1 DEF ServiceOf, MuxOf
<1>. QED  BY <1>1, <1>2, <1>3

(* f is e with x under its name.                                            *)
Placed(E, e, x, f, k) ==
  /\ Grown(E, e, f) /\ k \in DOMAIN f /\ f[k] = x
  /\ \A i \in DOMAIN f : i # k => i \in DOMAIN e /\ f[i] = e[i]

LEMMA PlacedThere ==
  ASSUME NEW E, NEW e \in Seq(E), Once(e), NEW fresh \in E, NEW x \in E, x.uri = fresh.uri,
         NEW f, f = Ensure(e, fresh), NEW k, k = Find(f, fresh.uri),
         NEW g, g = [f EXCEPT ![k] = x]
  PROVE  Placed(E, e, x, g, k) /\ Find(g, fresh.uri) = k
<1>1. Added(E, e, fresh, f, k)
  BY Ensured
<1>2. Changed(E, f, k, x, g)
  BY <1>1, Overwritten DEF Added
<1>3. Grown(E, e, g)
  BY <1>1, <1>2 DEF Added, Changed, Grown
<1>4. Find(g, fresh.uri) = k
  <2>1. g \in Seq(E) /\ Once(g) /\ k \in DOMAIN g /\ g[k].uri = fresh.uri
    BY <1>1, <1>2 DEF Added, Changed
  <2>. QED  BY <2>1, FoundAt
<1>. QED  BY <1>1, <1>2, <1>3, <1>4 DEF Placed, Added, Changed

(* An entry that is put in place, and its multiplex then.                   *)
LEMMA LinkedAfter ==
  ASSUME NEW e, NEW k \in DOMAIN e, NEW v, NEW c, NEW f, f = [e EXCEPT ![k] = v],
         NEW x, [v EXCEPT !.mux = c] = x
  PROVE  [f EXCEPT ![k].mux = c] = [e EXCEPT ![k] = x]
OBVIOUS

LEMMA TypedAfter ==
  ASSUME NEW e, NEW k \in DOMAIN e, NEW v, NEW c, NEW f, f = [e EXCEPT ![k] = v],
         NEW x, [v EXCEPT !.type = c] = x
  PROVE  [f EXCEPT ![k].type = c] = [e EXCEPT ![k] = x]
OBVIOUS

(* SdtService() by what it leaves.                                          *)
LEMMA SdtServiceEffect ==
  ASSUME NEW r, Sane(r), NEW m \in Nat \X Nat, NEW entry \in SdtEntry,
         NEW u, u = ServiceOf(m, entry.sid),
         NEW ms, ms = Ensure(r.multiplexes, FreshMux(m)),
         NEW es, es = Ensure(r.services, FreshService(u)),
         NEW k, k = Find(es, u),
         NEW x, x = [uri |-> u, mux |-> Find(ms, m),
                     type |-> IF entry.type = "none" THEN "reserved" ELSE entry.type]
  PROVE  SdtService(r, m, entry) =
           [platforms |-> r.platforms, multiplexes |-> ms,
            services |-> [es EXCEPT ![k] = x], networks |-> r.networks]
<1>1. /\ r.services \in Seq(Service) /\ Once(r.services)
      /\ r = [platforms |-> r.platforms, multiplexes |-> r.multiplexes,
              services |-> r.services, networks |-> r.networks]
  BY Parts DEF Sane
<1>2. u \in Nat \X Nat \X Nat /\ FreshService(u) \in Service /\ FreshService(u).uri = u
  <2>1. entry.sid \in Nat
    BY DEF SdtEntry
  <2>. QED  BY <2>1, FreshEntries
<1>3. Added(Service, r.services, FreshService(u), es, k)
  BY <1>1, <1>2, Ensured
<1>4. k \in DOMAIN es /\ es[k].uri = u /\ es \in Seq(Service)
  BY <1>2, <1>3 DEF Added
<1> DEFINE fs == [es EXCEPT ![k] = FreshService(u)]
<1>5. Placed(Service, r.services, FreshService(u), fs, k) /\ Find(fs, u) = k
  BY <1>1, <1>2, PlacedThere
<1>6. ServiceAdd(r, u) = [platforms |-> r.platforms, multiplexes |-> r.multiplexes,
                          services |-> fs, networks |-> r.networks]
  <2> DEFINE first == [platforms |-> r.platforms, multiplexes |-> r.multiplexes,
                       services |-> es, networks |-> r.networks]
  <2>1. ServiceLocateAdd(r, u) = first
    BY <1>1 DEF ServiceLocateAdd
  <2>2. ServiceLocate(first, u) = k /\ ServiceReset(es[k]) = FreshService(u)
    BY <1>4 DEF ServiceLocate, ServiceReset
  <2>3. [first EXCEPT !.services[k] = ServiceReset(@)] =
          [platforms |-> r.platforms, multiplexes |-> r.multiplexes,
           services |-> fs, networks |-> r.networks]
    BY <2>2
  <2>. QED  BY <2>1, <2>2, <2>3 DEF ServiceAdd
<1> HIDE DEF fs
<1> DEFINE added == [platforms |-> r.platforms, multiplexes |-> ms,
                     services |-> fs, networks |-> r.networks]
<1>7. MuxLocateAdd(ServiceAdd(r, u), m) = added
  BY <1>6 DEF MuxLocateAdd
<1>8. ServiceLocate(added, u) = k /\ MuxLocate(added, m) = Find(ms, m)
  BY <1>5 DEF ServiceLocate, MuxLocate
<1> DEFINE linked == [platforms |-> r.platforms, multiplexes |-> ms,
                      services |-> [fs EXCEPT ![k].mux = Find(ms, m)],
                      networks |-> r.networks]
<1>9. ServiceSetMux(added, k, Find(ms, m)) = linked
  BY DEF ServiceSetMux
<1>10. SdtService(r, m, entry) =
         IF entry.type = "none" THEN linked ELSE ServiceSetType(linked, k, entry.type)
  BY <1>7, <1>8, <1>9 DEF SdtService
<1>11. fs = [es EXCEPT ![k] = FreshService(u)]
  BY DEF fs
<1>12. CASE entry.type = "none"
  <2>1. [FreshService(u) EXCEPT !.mux = Find(ms, m)] = x
    BY <1>12 DEF FreshService
  <2>2. [fs EXCEPT ![k].mux = Find(ms, m)] = [es EXCEPT ![k] = x]
    BY <1>4, <1>11, <2>1, LinkedAfter
  <2>. QED  BY <1>10, <1>12, <2>2
<1>13. CASE entry.type # "none"
  <2> DEFINE y == [uri |-> u, mux |-> Find(ms, m), type |-> "reserved"]
             gs == [es EXCEPT ![k] = y]
  <2>0. [FreshService(u) EXCEPT !.mux = Find(ms, m)] = y
    BY DEF FreshService
  <2>1. [fs EXCEPT ![k].mux = Find(ms, m)] = gs
    BY <1>4, <1>11, <2>0, LinkedAfter
  <2>t. [y EXCEPT !.type = entry.type] = x
    BY <1>13
  <2>2. [gs EXCEPT ![k].type = entry.type] = [es EXCEPT ![k] = x]
    BY <1>4, <2>t, TypedAfter
  <2> HIDE DEF gs
  <2>3. ServiceSetType(linked, k, entry.type) =
          [platforms |-> r.platforms, multiplexes |-> ms,
           services |-> [gs EXCEPT ![k].type = entry.type], networks |-> r.networks]
    BY <2>1 DEF ServiceSetType
  <2>. QED  BY <1>10, <1>13, <2>2, <2>3
<1>. QED  BY <1>12, <1>13

(* The tables said of a service what its type is: said holds a pair for     *)
(* every entry.  A service keeps the type of one of them, and "reserved"    *)
(* may also come from an entry without descriptors.                         *)
Said(t, k) == {<<ServiceOf(t.uri, t.services[i].sid), t.services[i].type>> : i \in 1..k}

TypeSaid(s, said) ==
  IF s.type = "reserved"
  THEN (\A type : <<s.uri, type>> \notin said) \/ (\E type \in {"none", "reserved"} : <<s.uri, type>> \in said)
  ELSE <<s.uri, s.type>> \in said

Typed(ss, said) ==
  /\ \A i \in DOMAIN ss : TypeSaid(ss[i], said)
  /\ \A x \in said : \E i \in DOMAIN ss : ss[i].uri = x[1]

(* What parsing an SDT, or a part of it, does.                              *)
SdtTold(r, q, m, said, told) ==
  /\ Later(r, q) /\ q.networks = r.networks
  /\ MarksKept(r.multiplexes, q.multiplexes) /\ NewIs(m, r.multiplexes, q.multiplexes)
  /\ Typed(r.services, said) => Typed(q.services, told)

LEMMA SdtServiceStep ==
  ASSUME NEW r, Sane(r), NEW m \in Nat \X Nat, NEW entry \in SdtEntry,
         NEW said, NEW told, told = said \cup {<<ServiceOf(m, entry.sid), entry.type>>}
  PROVE  SdtTold(r, SdtService(r, m, entry), m, said, told)
<1> DEFINE u == ServiceOf(m, entry.sid)
           ms == Ensure(r.multiplexes, FreshMux(m))
           es == Ensure(r.services, FreshService(u))
           k == Find(es, u)
           type == IF entry.type = "none" THEN "reserved" ELSE entry.type
           x == [uri |-> u, mux |-> Find(ms, m), type |-> type]
           ss == [es EXCEPT ![k] = x]
           q == [platforms |-> r.platforms, multiplexes |-> ms, services |-> ss,
                 networks |-> r.networks]
<1>1. SdtService(r, m, entry) = q
  BY SdtServiceEffect
<1>2. /\ r.multiplexes \in Seq(Mux) /\ r.services \in Seq(Service) /\ r.platforms \in Seq(Platform)
      /\ Once(r.multiplexes) /\ Once(r.services) /\ Linked(r.multiplexes, r.services)
  BY Parts DEF Sane
<1>3. entry.sid \in Nat /\ type \in ServiceTypes
  BY DEF SdtEntry, ServiceTypes
<1>4. /\ u \in Nat \X Nat \X Nat /\ MuxOf(u) = m
      /\ FreshService(u) \in Service /\ FreshService(u).uri = u
      /\ FreshMux(m) \in Mux /\ FreshMux(m).uri = m /\ FreshMux(m).data = FALSE
  BY <1>3, FreshEntries DEF FreshMux
<1> DEFINE j == Find(ms, m)
<1> HIDE DEF u, ms, es, k, type, j
<1>5. Added(Mux, r.multiplexes, FreshMux(m), ms, j)
  BY <1>2, <1>4, Ensured DEF ms, j
<1>6. j \in Nat
  BY <1>5 DEF Added
<1>7. x \in Service /\ x.uri = u /\ x.mux = j /\ x.type = type
  BY <1>3, <1>4, <1>6 DEF Service, j
<1> HIDE DEF x
<1>8. Placed(Service, r.services, x, ss, k)
  BY <1>2, <1>4, <1>7, PlacedThere DEF es, k
<1>9. Grown(Mux, r.multiplexes, ms)
  BY <1>5 DEF Added, Grown
<1> HIDE DEF ss
<1>10. Grown(Service, r.services, ss)
  BY <1>8 DEF Placed
<1>11. Linked(ms, ss)
  <2> SUFFICES ASSUME NEW i \in DOMAIN ss
               PROVE  ss[i].mux \in DOMAIN ms /\ ms[ss[i].mux].uri = MuxOf(ss[i].uri)
    BY DEF Linked
  <2>1. CASE i = k
    BY <2>1, <1>4, <1>5, <1>7, <1>8 DEF Placed, Added
  <2>2. CASE i # k
    <3>1. i \in DOMAIN r.services /\ ss[i] = r.services[i]
      BY <2>2, <1>8 DEF Placed
    <3>2. /\ ss[i].mux \in DOMAIN r.multiplexes
          /\ r.multiplexes[ss[i].mux].uri = MuxOf(ss[i].uri)
      BY <3>1, <1>2 DEF Linked
    <3>. QED  BY <3>2, <1>9 DEF Grown
  <2>. QED  BY <2>1, <2>2
<1>12. Later(r, q)
  BY <1>2, <1>9, <1>10, <1>11, Grows
<1>13. ASSUME Typed(r.services, said)
       PROVE  Typed(ss, told)
  <2>1. told = said \cup {<<u, entry.type>>}
    BY DEF u
  <2>2. \A i \in DOMAIN ss : TypeSaid(ss[i], told)
    <3> SUFFICES ASSUME NEW i \in DOMAIN ss PROVE TypeSaid(ss[i], told)
      OBVIOUS
    <3>1. CASE i = k
      BY <3>1, <2>1, <1>7, <1>8 DEF Placed, TypeSaid, type
    <3>2. CASE i # k
      <4>1. i \in DOMAIN r.services /\ ss[i] = r.services[i] /\ ss[i].uri # u
        BY <3>2, <1>7, <1>8 DEF Placed, Grown, Once
      <4>2. TypeSaid(ss[i], said)
        BY <4>1, <1>13 DEF Typed
      <4>. QED  BY <4>1, <4>2, <2>1 DEF TypeSaid
    <3>. QED  BY <3>1, <3>2
  <2>3. \A y \in told : \E i \in DOMAIN ss : ss[i].uri = y[1]
    BY <2>1, <1>7, <1>8, <1>10, <1>13 DEF Placed, Grown, Typed
  <2>. QED  BY <2>2, <2>3 DEF Typed
<1>14. MarksKept(r.multiplexes, ms) /\ NewIs(m, r.multiplexes, ms)
  BY <1>4, <1>5 DEF Added, MarksKept, NewIs
<1>15. q.multiplexes = ms /\ q.services = ss /\ q.networks = r.networks
  OBVIOUS
<1>. QED  BY <1>1, <1>12, <1>13, <1>14, <1>15 DEF SdtTold

(* The loop over the services of an SDT.                                    *)
IsSdtRun(g, k, r, t) == g = [i \in 0..k |-> IF i = 0 THEN r ELSE SdtService(g[i - 1], t.uri, t.services[i])]

SdtRunGoes(f, last, r, t) ==
  f[0] = r /\ \A k \in 0..(last - 1) : f[k + 1] = SdtService(f[k], t.uri, t.services[k + 1])

LEMMA SdtLoop ==
  ASSUME NEW r, NEW t, NEW E, t.services \in Seq(E)
  PROVE  \E f : SdtRunGoes(f, Len(t.services), r, t) /\ SdtServices(r, t) = f[Len(t.services)]
<1> DEFINE n == Len(t.services)
           T == {k \in 0..n : \E g : IsSdtRun(g, k, r, t)}
<1>1. 0 \in T
  <2>1. IsSdtRun([i \in 0..0 |-> r], 0, r, t)
    BY DEF IsSdtRun
  <2>. QED  BY <2>1
<1>2. ASSUME NEW k \in 0..(n - 1), k \in T PROVE k + 1 \in T
  <2>1. PICK g : IsSdtRun(g, k, r, t)
    BY <1>2
  <2> DEFINE h == [i \in 0..(k + 1) |->
                     IF i = k + 1 THEN SdtService(g[k], t.uri, t.services[k + 1]) ELSE g[i]]
  <2>2. IsSdtRun(h, k + 1, r, t)
    <3> SUFFICES ASSUME NEW i \in 0..(k + 1)
                 PROVE  h[i] = IF i = 0 THEN r ELSE SdtService(h[i - 1], t.uri, t.services[i])
      BY DEF IsSdtRun
    <3>1. CASE i = 0
      BY <2>1, <3>1 DEF IsSdtRun
    <3>2. CASE i = k + 1
      BY <2>1, <3>2 DEF IsSdtRun
    <3>3. CASE i \in 1..k
      BY <2>1, <3>3 DEF IsSdtRun
    <3>. QED  BY <3>1, <3>2, <3>3
  <2> HIDE DEF h
  <2>. QED  BY <2>2
<1> HIDE DEF T
<1>3. n \in T
  BY <1>1, <1>2, Induction
<1>4. \E g : IsSdtRun(g, n, r, t)
  BY <1>3 DEF T
<1> DEFINE f == CHOOSE g : IsSdtRun(g, n, r, t)
<1>5. IsSdtRun(f, n, r, t)
  BY <1>4
<1>6. SdtServices(r, t) = f[n]
  BY DEF SdtServices, IsSdtRun
<1> HIDE DEF f
<1>7. f[0] = r
  <2>1. 0 \in 0..n
    OBVIOUS
  <2> HIDE DEF n
  <2>. QED  BY <1>5, <2>1 DEF IsSdtRun
<1>8. ASSUME NEW k \in 0..(n - 1) PROVE f[k + 1] = SdtService(f[k], t.uri, t.services[k + 1])
  <2> DEFINE i == k + 1
  <2>1. i \in 0..n /\ i # 0 /\ i - 1 = k
    OBVIOUS
  <2> HIDE DEF i
  <2>2. f[i] = SdtService(f[i - 1], t.uri, t.services[i])
    BY <1>5, <2>1 DEF IsSdtRun
  <2>. QED  BY <2>1, <2>2 DEF i
<1>. QED  BY <1>6, <1>7, <1>8 DEF SdtRunGoes

LEMMA SdtServicesTold ==
  ASSUME NEW r, Sane(r), NEW t \in SdtTable, NEW said
  PROVE  SdtTold(r, SdtServices(r, t), t.uri, said, said \cup Said(t, Len(t.services)))
<1> DEFINE n == Len(t.services)
<1>1. t.services \in Seq(SdtEntry) /\ t.uri \in Nat \X Nat /\ n \in Nat
  BY DEF SdtTable
<1>2. PICK f : SdtRunGoes(f, n, r, t) /\ SdtServices(r, t) = f[n]
  BY <1>1, SdtLoop
<1> DEFINE told(k) == said \cup Said(t, k)
           T == {k \in 0..n : SdtTold(r, f[k], t.uri, said, told(k))}
<1>3. 0 \in T
  <2>1. f[0] = r /\ Said(t, 0) = {}
    BY <1>1, <1>2 DEF SdtRunGoes, Said
  <2>2. told(0) = said
    BY <2>1
  <2> HIDE DEF told
  <2>3. Later(r, r) /\ MarksKept(r.multiplexes, r.multiplexes) /\ NewIs(t.uri, r.multiplexes, r.multiplexes)
    BY SameMarks DEF Later
  <2>. QED  BY <1>1, <2>1, <2>2, <2>3 DEF SdtTold
<1>4. ASSUME NEW k \in 0..(n - 1), k \in T PROVE k + 1 \in T
  <2> DEFINE entry == t.services[k + 1]
  <2>1. /\ SdtTold(r, f[k], t.uri, said, told(k)) /\ Sane(f[k])
        /\ entry \in SdtEntry /\ f[k + 1] = SdtService(f[k], t.uri, entry)
    <3>1. SdtTold(r, f[k], t.uri, said, told(k))
      BY <1>4
    <3>2. entry \in SdtEntry
      BY <1>1
    <3>3. f[k + 1] = SdtService(f[k], t.uri, entry)
      BY <1>2 DEF SdtRunGoes
    <3>. QED  BY <3>1, <3>2, <3>3 DEF SdtTold, Later
  <2>2. told(k + 1) = told(k) \cup {<<ServiceOf(t.uri, entry.sid), entry.type>>}
    BY <1>1 DEF Said
  <2> HIDE DEF told
  <2>3. SdtTold(f[k], f[k + 1], t.uri, told(k), told(k + 1))
    BY <1>1, <2>1, <2>2, SdtServiceStep
  <2>4. SdtTold(r, f[k + 1], t.uri, said, told(k + 1))
    <3>1. Later(r, f[k + 1]) /\ MarksKept(r.multiplexes, f[k + 1].multiplexes)
      BY <2>1, <2>3, LaterTwice, MarksTwice DEF SdtTold
    <3>2. NewIs(t.uri, r.multiplexes, f[k + 1].multiplexes)
      BY <2>1, <2>3 DEF SdtTold, Later, NewIs
    <3>. QED  BY <2>1, <2>3, <3>1, <3>2 DEF SdtTold
  <2>. QED  BY <1>1, <2>4
<1> HIDE DEF T
<1>5. n \in T
  BY <1>1, <1>3, <1>4, Induction
<1>. QED  BY <1>2, <1>5 DEF T

-----------------------------------------------------------------------------
(* The channel list of a network.                                           *)
Slot == [lcn : Nat, service : Nat]

Lcns(slots) == \A i, j \in DOMAIN slots : slots[i].lcn = slots[j].lcn => i = j

(* after is slots with slot under its number.                               *)
SlotTaken(slots, slot, after) ==
  /\ after \in Seq(Slot) /\ Lcns(after)
  /\ \E k \in DOMAIN after : after[k] = slot
  /\ \A k \in DOMAIN after :
       after[k] = slot \/ \E j \in DOMAIN slots : slots[j] = after[k] /\ slots[j].lcn # slot.lcn
  /\ \A j \in DOMAIN slots :
       slots[j].lcn # slot.lcn => \E k \in DOMAIN after : after[k] = slots[j]

LEMMA SlotSet ==
  ASSUME NEW slots \in Seq(Slot), Lcns(slots), NEW slot \in Slot,
         NEW same, same = {k \in DOMAIN slots : slots[k].lcn = slot.lcn}
  PROVE  SlotTaken(slots, slot, IF same = {} THEN Append(slots, slot)
                                ELSE [slots EXCEPT ![First(same)] = slot])
<1>1. CASE same = {}
  <2> DEFINE after == Append(slots, slot)
             n == Len(slots) + 1
  <2>1. /\ after \in Seq(Slot) /\ n \in DOMAIN after /\ after[n] = slot /\ n \notin DOMAIN slots
        /\ \A k \in DOMAIN slots : k \in DOMAIN after /\ after[k] = slots[k] /\ slots[k].lcn # slot.lcn
        /\ \A k \in DOMAIN after : k \in DOMAIN slots \/ k = n
    BY <1>1
  <2> HIDE DEF after, n
  <2>2. Lcns(after)
    BY <2>1 DEF Lcns
  <2>3. SlotTaken(slots, slot, after)
    BY <2>1, <2>2 DEF SlotTaken
  <2>. QED  BY <1>1, <2>3 DEF after
<1>2. CASE same # {}
  <2> DEFINE p == First(same)
             after == [slots EXCEPT ![p] = slot]
  <2>1. same \in SUBSET Nat
    OBVIOUS
  <2>2. p \in same
    BY <1>2, <2>1, FirstIsThere
  <2> HIDE DEF p
  <2>3. p \in DOMAIN slots /\ slots[p].lcn = slot.lcn
    BY <2>2
  <2>4. /\ after \in Seq(Slot) /\ DOMAIN after = DOMAIN slots /\ after[p] = slot
        /\ \A k \in DOMAIN slots : k # p => after[k] = slots[k]
    BY <2>3
  <2>5. \A k \in DOMAIN slots : k # p => slots[k].lcn # slot.lcn
    BY <2>3 DEF Lcns
  <2> HIDE DEF after
  <2>6. Lcns(after)
    BY <2>3, <2>4, <2>5 DEF Lcns
  <2>7. SlotTaken(slots, slot, after)
    BY <2>3, <2>4, <2>5, <2>6 DEF SlotTaken
  <2>. QED  BY <1>2, <2>7 DEF after, p
<1>. QED  BY <1>1, <1>2

(* What a network says of its channels and of its multiplexes, by names.    *)
Channels(r, n) ==
  {<<r.networks[n].service[k].lcn, r.services[r.networks[n].service[k].service].uri>> :
     k \in DOMAIN r.networks[n].service}
MuxNames(r, n) ==
  {r.multiplexes[r.networks[n].mux[k]].uri : k \in DOMAIN r.networks[n].mux}

(* What parsing a NIT, or a part of it, does besides.                       *)
NitTold(r, q, n) ==
  /\ Later(r, q) /\ DOMAIN q.networks = DOMAIN r.networks
  /\ \A i \in DOMAIN r.networks : i # n => q.networks[i] = r.networks[i]
  /\ q.networks[n].uri = r.networks[n].uri /\ q.networks[n].version = r.networks[n].version
  /\ \A said : Typed(r.services, said) => Typed(q.services, said)
  /\ MarksKept(r.multiplexes, q.multiplexes)

LEMMA NitToldTwice ==
  ASSUME NEW r, NEW q, NEW p, NEW n, NitTold(r, q, n), NitTold(q, p, n)
  PROVE  NitTold(r, p, n)
BY LaterTwice, MarksTwice DEF NitTold

(* What the network lists keeps its name.                                   *)
LEMMA SameNames ==
  ASSUME NEW r, Sane(r), NEW q, Later(r, q), NEW n \in DOMAIN r.networks,
         n \in DOMAIN q.networks
  PROVE  /\ q.networks[n].service = r.networks[n].service => Channels(q, n) = Channels(r, n)
         /\ q.networks[n].mux = r.networks[n].mux => MuxNames(q, n) = MuxNames(r, n)
<1>1. Listed(r.networks[n], r.multiplexes, r.services)
  BY DEF Sane
<1>2. ASSUME q.networks[n].service = r.networks[n].service
      PROVE  Channels(q, n) = Channels(r, n)
  <2>1. \A k \in DOMAIN r.networks[n].service :
          q.services[r.networks[n].service[k].service].uri
            = r.services[r.networks[n].service[k].service].uri
    BY <1>1 DEF Listed, Later
  <2>. QED  BY <1>2, <2>1 DEF Channels
<1>3. ASSUME q.networks[n].mux = r.networks[n].mux
      PROVE  MuxNames(q, n) = MuxNames(r, n)
  <2>1. \A k \in DOMAIN r.networks[n].mux :
          q.multiplexes[r.networks[n].mux[k]].uri = r.multiplexes[r.networks[n].mux[k]].uri
    BY <1>1 DEF Listed, Later
  <2>. QED  BY <1>3, <2>1 DEF MuxNames
<1>. QED  BY <1>2, <1>3

(* network_set_service() with a service.                                    *)
LEMMA ChannelSet ==
  ASSUME NEW r, Sane(r), NEW n \in DOMAIN r.networks, NEW s \in DOMAIN r.services, NEW lcn \in Nat,
         \E j \in DOMAIN r.networks[n].mux : r.networks[n].mux[j] = r.services[s].mux,
         NEW q, q = NetworkSetService(r, n, s, lcn)
  PROVE  /\ NitTold(r, q, n) /\ MuxNames(q, n) = MuxNames(r, n)
         /\ q.networks[n].mux = r.networks[n].mux /\ q.multiplexes = r.multiplexes
         /\ Channels(q, n) = {x \in Channels(r, n) : x[1] # lcn} \cup {<<lcn, r.services[s].uri>>}
<1> DEFINE w == r.networks[n]
           slot == [lcn |-> lcn, service |-> s]
           same == {k \in DOMAIN w.service : w.service[k].lcn = lcn}
           after == IF same = {} THEN Append(w.service, slot)
                    ELSE [w.service EXCEPT ![First(same)] = slot]
           x == [uri |-> w.uri, version |-> w.version, mux |-> w.mux, service |-> after]
<1>1. /\ r \in Registries /\ r.networks \in Seq(Network) /\ r.services \in Seq(Service)
      /\ w \in Network /\ Listed(w, r.multiplexes, r.services) /\ SlotsOnce(w)
  BY Parts DEF Sane
<1>2. s # 0 /\ slot \in Slot
  BY <1>1 DEF Slot
<1>3. w.service \in Seq(Slot) /\ Lcns(w.service)
  BY <1>1 DEF Network, Slot, Lcns, SlotsOnce
<1>4. SlotTaken(w.service, slot, after)
  BY <1>2, <1>3, SlotSet
<1>5. q = [r EXCEPT !.networks = [r.networks EXCEPT ![n] = x]]
  <2>1. q = [r EXCEPT !.networks[n].service = after]
    BY <1>2 DEF NetworkSetService
  <2>2. [w EXCEPT !.service = after] = x
    <3>1. w = [uri |-> w.uri, version |-> w.version, mux |-> w.mux, service |-> w.service]
      BY <1>1 DEF Network
    <3> HIDE DEF after, w
    <3>. QED  BY <3>1
  <2> HIDE DEF x, after
  <2>. QED  BY <1>1, <2>1, <2>2
<1>6. /\ x.uri = w.uri /\ x.version = w.version /\ x.mux = w.mux /\ x.service = after
      /\ slot.lcn = lcn /\ slot.service = s
  OBVIOUS
<1>7. x \in Network
  <2>1. after \in Seq([lcn : Nat, service : Nat])
    BY <1>4 DEF SlotTaken, Slot
  <2> HIDE DEF after
  <2>. QED  BY <1>1, <2>1 DEF Network
<1> HIDE DEF after, same, x, slot
<1>8. Listed(x, r.multiplexes, r.services)
  <2>1. ASSUME NEW k \in DOMAIN after
        PROVE  /\ after[k].service \in DOMAIN r.services
               /\ \E j \in DOMAIN w.mux : w.mux[j] = r.services[after[k].service].mux
    <3>1. CASE after[k] = slot
      <4>1. after[k].service = s
        BY <3>1, <1>6
      <4>. QED  BY <4>1
    <3>2. CASE after[k] # slot
      <4>1. PICK j \in DOMAIN w.service : w.service[j] = after[k]
        BY <3>2, <1>4 DEF SlotTaken
      <4>. QED  BY <4>1, <1>1 DEF Listed
    <3>. QED  BY <3>1, <3>2
  <2>2. \A k \in DOMAIN w.mux : w.mux[k] \in DOMAIN r.multiplexes
    BY <1>1 DEF Listed
  <2>. QED  BY <1>6, <2>1, <2>2 DEF Listed
<1>9. SlotsOnce(x)
  BY <1>4, <1>6 DEF SlotTaken, SlotsOnce, Lcns
<1>10. /\ Later(r, q)
       /\ q.multiplexes = r.multiplexes /\ q.services = r.services
       /\ DOMAIN q.networks = DOMAIN r.networks /\ q.networks[n] = x
       /\ \A k \in DOMAIN r.networks : k # n => q.networks[k] = r.networks[k]
  BY <1>5, <1>7, <1>8, <1>9, NetworkChanges
<1>11. NitTold(r, q, n)
  BY <1>6, <1>10, SameMarks DEF NitTold
<1>12. Channels(q, n) = {y \in Channels(r, n) : y[1] # lcn} \cup {<<lcn, r.services[s].uri>>}
  <2> DEFINE old == {<<w.service[k].lcn, r.services[w.service[k].service].uri>> : k \in DOMAIN w.service}
             new == {<<after[k].lcn, r.services[after[k].service].uri>> : k \in DOMAIN after}
  <2>1. Channels(r, n) = old /\ Channels(q, n) = new
    BY <1>6, <1>10 DEF Channels
  <2>2. ASSUME NEW y \in new PROVE y \in {z \in old : z[1] # lcn} \cup {<<lcn, r.services[s].uri>>}
    <3>1. PICK k \in DOMAIN after : y = <<after[k].lcn, r.services[after[k].service].uri>>
      OBVIOUS
    <3>2. CASE after[k] = slot
      BY <3>1, <3>2, <1>6
    <3>3. CASE after[k] # slot
      <4>1. PICK j \in DOMAIN w.service : w.service[j] = after[k] /\ w.service[j].lcn # lcn
        BY <3>3, <1>4, <1>6 DEF SlotTaken
      <4>. QED  BY <3>1, <4>1
    <3>. QED  BY <3>2, <3>3
  <2>3. ASSUME NEW y \in old, y[1] # lcn PROVE y \in new
    <3>1. PICK j \in DOMAIN w.service : y = <<w.service[j].lcn, r.services[w.service[j].service].uri>>
      BY <2>3
    <3>2. PICK k \in DOMAIN after : after[k] = w.service[j]
      BY <3>1, <2>3, <1>4, <1>6 DEF SlotTaken
    <3>. QED  BY <3>1, <3>2
  <2>4. <<lcn, r.services[s].uri>> \in new
    <3>1. PICK k \in DOMAIN after : after[k] = slot
      BY <1>4 DEF SlotTaken
    <3>. QED  BY <3>1, <1>6
  <2> HIDE DEF old, new
  <2>. QED  BY <2>1, <2>2, <2>3, <2>4
<1>13. MuxNames(q, n) = MuxNames(r, n)
  BY <1>6, <1>10 DEF MuxNames
<1>. QED  BY <1>6, <1>10, <1>11, <1>12, <1>13

(* The service of an entry of a logical_channel_descriptor.                 *)
LEMMA NitServiceAdded ==
  ASSUME NEW r, Sane(r), NEW n \in DOMAIN r.networks, NEW m \in Nat \X Nat, NEW sid \in Nat,
         NEW i, i = MuxLocate(r, m), i # 0,
         NEW u, u = ServiceOf(m, sid),
         NEW a, a = ServiceLocateAdd(r, u), NEW k, k = ServiceLocate(a, u),
         NEW q, q = ServiceSetMux(a, k, i)
  PROVE  /\ NitTold(r, q, n) /\ q.multiplexes = r.multiplexes /\ q.networks = r.networks
         /\ k \in DOMAIN q.services /\ q.services[k].uri = u /\ q.services[k].mux = i
<1> DEFINE es == Ensure(r.services, FreshService(u))
           x == [uri |-> u, mux |-> i, type |-> es[k].type]
           ss == [es EXCEPT ![k] = x]
<1>1. /\ r.multiplexes \in Seq(Mux) /\ r.services \in Seq(Service) /\ r.platforms \in Seq(Platform)
      /\ Once(r.multiplexes) /\ Once(r.services) /\ Linked(r.multiplexes, r.services)
      /\ r = [platforms |-> r.platforms, multiplexes |-> r.multiplexes,
              services |-> r.services, networks |-> r.networks]
  BY Parts DEF Sane
<1>2. /\ u \in Nat \X Nat \X Nat /\ MuxOf(u) = m
      /\ FreshService(u) \in Service /\ FreshService(u).uri = u /\ FreshService(u).type = "reserved"
  BY FreshEntries DEF FreshService
<1>3. a = [platforms |-> r.platforms, multiplexes |-> r.multiplexes, services |-> es,
           networks |-> r.networks]
  BY <1>1 DEF ServiceLocateAdd
<1> HIDE DEF es
<1>4. k = Find(es, u)
  BY <1>3 DEF ServiceLocate
<1>5. Added(Service, r.services, FreshService(u), es, k)
  BY <1>1, <1>2, <1>4, Ensured DEF es
<1>6. es \in Seq(Service) /\ k \in DOMAIN es /\ es[k] \in Service /\ es[k].uri = u
  BY <1>2, <1>5 DEF Added
<1>7. i \in DOMAIN r.multiplexes /\ r.multiplexes[i].uri = m /\ i \in Nat
  BY <1>1, Found DEF MuxLocate
<1>8. x \in Service /\ x.uri = u /\ x.mux = i /\ x.type = es[k].type
  BY <1>2, <1>6, <1>7 DEF Service
<1>9. q = [platforms |-> r.platforms, multiplexes |-> r.multiplexes, services |-> ss,
           networks |-> r.networks]
  <2>1. [es[k] EXCEPT !.mux = i] = x
    <3>1. es[k] = [uri |-> u, mux |-> es[k].mux, type |-> es[k].type]
      BY <1>6 DEF Service
    <3>. QED  BY <3>1
  <2>2. q = [platforms |-> r.platforms, multiplexes |-> r.multiplexes,
             services |-> [es EXCEPT ![k].mux = i], networks |-> r.networks]
    BY <1>3 DEF ServiceSetMux
  <2> HIDE DEF x
  <2>. QED  BY <1>6, <2>1, <2>2
<1> HIDE DEF x
<1>10. Placed(Service, r.services, x, ss, k)
  BY <1>1, <1>2, <1>4, <1>8, PlacedThere DEF es
<1> HIDE DEF ss
<1>11. Grown(Service, r.services, ss) /\ Grown(Mux, r.multiplexes, r.multiplexes)
  BY <1>1, <1>10 DEF Placed, Grown
<1>12. Linked(r.multiplexes, ss)
  <2> SUFFICES ASSUME NEW j \in DOMAIN ss
               PROVE  /\ ss[j].mux \in DOMAIN r.multiplexes
                      /\ r.multiplexes[ss[j].mux].uri = MuxOf(ss[j].uri)
    BY DEF Linked
  <2>1. CASE j = k
    BY <2>1, <1>2, <1>7, <1>8, <1>10 DEF Placed
  <2>2. CASE j # k
    BY <2>2, <1>1, <1>10 DEF Placed, Linked
  <2>. QED  BY <2>1, <2>2
<1>13. Later(r, q)
  BY <1>1, <1>9, <1>11, <1>12, Grows
<1>14. ASSUME NEW said, Typed(r.services, said)
       PROVE  Typed(ss, said)
  <2>1. ASSUME NEW j \in DOMAIN ss PROVE TypeSaid(ss[j], said)
    <3>1. CASE j # k
      BY <3>1, <1>10, <1>14 DEF Placed, Typed
    <3>2. CASE j = k /\ k \in DOMAIN r.services
      <4>1. es[k] = r.services[k] /\ ss[j] = x
        BY <3>2, <1>5, <1>10 DEF Added, Placed
      <4>2. TypeSaid(r.services[k], said)
        BY <3>2, <1>14 DEF Typed
      <4>. QED  BY <4>1, <4>2, <1>6, <1>8 DEF TypeSaid
    <3>3. CASE j = k /\ k \notin DOMAIN r.services
      <4>1. x.type = "reserved" /\ ss[j] = x
        BY <3>3, <1>2, <1>5, <1>6, <1>8, <1>10 DEF Added, Placed
      <4>2. \A l \in DOMAIN r.services : r.services[l].uri # u
        BY <3>3, <1>5, <1>6 DEF Added, Once
      <4>3. \A type : <<u, type>> \notin said
        <5> SUFFICES ASSUME NEW type, <<u, type>> \in said PROVE FALSE
          OBVIOUS
        <5>1. <<u, type>>[1] = u
          OBVIOUS
        <5>. QED  BY <4>2, <5>1, <1>14 DEF Typed
      <4>. QED  BY <4>1, <4>3, <1>8 DEF TypeSaid
    <3>. QED  BY <3>1, <3>2, <3>3
  <2>2. \A y \in said : \E j \in DOMAIN ss : ss[j].uri = y[1]
    BY <1>11, <1>14 DEF Typed, Grown
  <2>. QED  BY <2>1, <2>2 DEF Typed
<1>15. q.services = ss /\ q.multiplexes = r.multiplexes /\ q.networks = r.networks
  BY <1>9
<1>16. k \in DOMAIN ss /\ ss[k] = x
  BY <1>10 DEF Placed
<1>. QED  BY <1>8, <1>13, <1>14, <1>15, <1>16, SameMarks DEF NitTold

(* One entry of a logical_channel_descriptor: the number is given to the    *)
(* service, and nothing else changes for the network.                       *)
NitServed(r, q, n, lcn, u) ==
  /\ NitTold(r, q, n) /\ q.multiplexes = r.multiplexes
  /\ q.networks[n].mux = r.networks[n].mux /\ MuxNames(q, n) = MuxNames(r, n)
  /\ Channels(q, n) = {x \in Channels(r, n) : x[1] # lcn} \cup {<<lcn, u>>}

LEMMA NitServiceStep ==
  ASSUME NEW r, Sane(r), NEW n \in DOMAIN r.networks, NEW ts \in NitStream, NEW entry \in NitEntry,
         \E j \in DOMAIN r.networks[n].mux : r.networks[n].mux[j] = MuxLocate(r, ts.uri)
  PROVE  NitServed(r, NitService(r, n, ts, entry), n, entry.lcn, ServiceOf(ts.uri, entry.sid))
<1> DEFINE m == ts.uri
           i == MuxLocate(r, m)
           u == ServiceOf(m, entry.sid)
           a == ServiceLocateAdd(r, u)
           k == ServiceLocate(a, u)
           b == ServiceSetMux(a, k, i)
           q == NetworkSetService(b, n, k, entry.lcn)
<1>1. m \in Nat \X Nat /\ entry.sid \in Nat /\ entry.lcn \in Nat
  BY DEF NitStream, NitEntry
<1>2. i # 0
  <2>1. Listed(r.networks[n], r.multiplexes, r.services) /\ r.multiplexes \in Seq(Mux)
    BY Parts DEF Sane
  <2>2. i \in DOMAIN r.multiplexes
    BY <2>1 DEF Listed
  <2>. QED  BY <2>1, <2>2
<1>3. NitService(r, n, ts, entry) = q
  BY DEF NitService
<1> HIDE DEF i, u, a, k, b, q, m
<1>4. /\ NitTold(r, b, n) /\ b.multiplexes = r.multiplexes /\ b.networks = r.networks
      /\ k \in DOMAIN b.services /\ b.services[k].uri = u /\ b.services[k].mux = i
  BY <1>1, <1>2, NitServiceAdded DEF i, u, a, k, b
<1>5. Later(r, b) /\ Sane(b)
  BY <1>4 DEF NitTold, Later
<1>6. Channels(b, n) = Channels(r, n) /\ MuxNames(b, n) = MuxNames(r, n)
  BY <1>4, <1>5, SameNames
<1>7. \E j \in DOMAIN b.networks[n].mux : b.networks[n].mux[j] = b.services[k].mux
  BY <1>4 DEF i, m
<1>8. /\ NitTold(b, q, n) /\ MuxNames(q, n) = MuxNames(b, n)
      /\ q.networks[n].mux = b.networks[n].mux /\ q.multiplexes = b.multiplexes
      /\ Channels(q, n) = {x \in Channels(b, n) : x[1] # entry.lcn} \cup {<<entry.lcn, b.services[k].uri>>}
  BY <1>1, <1>4, <1>5, <1>7, ChannelSet DEF q
<1>9. NitTold(r, q, n)
  BY <1>4, <1>8, NitToldTwice
<1>10. u = ServiceOf(ts.uri, entry.sid)
  BY DEF u, m
<1>11. NitServed(r, q, n, entry.lcn, u)
  BY <1>4, <1>6, <1>8, <1>9 DEF NitServed
<1>. QED  BY <1>3, <1>10, <1>11

(* A turn of the loop over the transport streams, up to the descriptors.    *)
NitOpened(r, q, n, m) ==
  /\ NitTold(r, q, n)
  /\ MuxNames(q, n) = MuxNames(r, n) \cup {m} /\ Channels(q, n) = Channels(r, n)
  /\ \E j \in DOMAIN q.networks[n].mux : q.networks[n].mux[j] = MuxLocate(q, m)

LEMMA MuxRegistered ==
  ASSUME NEW r, Sane(r), NEW n \in DOMAIN r.networks, NEW m \in Nat \X Nat,
         NEW a, a = MuxLocateAdd(PlatformLocateAdd(r, PlatformOf(m)), m),
         NEW i, i = MuxLocate(a, m),
         NEW q, q = MuxSetPlatform(a, i, Find(a.platforms, PlatformOf(m)))
  PROVE  /\ NitTold(r, q, n) /\ q.networks = r.networks
         /\ i \in DOMAIN q.multiplexes /\ q.multiplexes[i].uri = m
<1> DEFINE ps == Ensure(r.platforms, FreshPlatform(PlatformOf(m)))
           es == Ensure(r.multiplexes, FreshMux(m))
           p == Find(ps, PlatformOf(m))
           x == [uri |-> m, platform |-> p, data |-> es[i].data]
           ms == [es EXCEPT ![i] = x]
<1>1. /\ r.multiplexes \in Seq(Mux) /\ r.services \in Seq(Service) /\ r.platforms \in Seq(Platform)
      /\ Once(r.multiplexes) /\ Once(r.services) /\ Linked(r.multiplexes, r.services)
      /\ r = [platforms |-> r.platforms, multiplexes |-> r.multiplexes,
              services |-> r.services, networks |-> r.networks]
  BY Parts DEF Sane
<1>2. /\ FreshMux(m) \in Mux /\ FreshMux(m).uri = m
      /\ FreshPlatform(PlatformOf(m)) \in Platform
  BY FreshEntries DEF FreshPlatform, Platform
<1>3. ps \in Seq(Platform)
  BY <1>1, <1>2 DEF Ensure
<1>4. p \in Nat
  BY <1>3, Found
<1>5. a = [platforms |-> ps, multiplexes |-> es, services |-> r.services, networks |-> r.networks]
  BY <1>1 DEF MuxLocateAdd, PlatformLocateAdd
<1> HIDE DEF ps, es, p
<1>6. i = Find(es, m) /\ Find(a.platforms, PlatformOf(m)) = p
  BY <1>5 DEF MuxLocate, p
<1>7. Added(Mux, r.multiplexes, FreshMux(m), es, i)
  BY <1>1, <1>2, <1>6, Ensured DEF es
<1>8. es \in Seq(Mux) /\ i \in DOMAIN es /\ es[i] \in Mux /\ es[i].uri = m
  BY <1>2, <1>7 DEF Added
<1>9. x \in Mux /\ x.uri = m
  BY <1>4, <1>8 DEF Mux
<1>10. q = [platforms |-> ps, multiplexes |-> ms, services |-> r.services, networks |-> r.networks]
  <2>1. [es[i] EXCEPT !.platform = p] = x
    <3>1. es[i] = [uri |-> m, platform |-> es[i].platform, data |-> es[i].data]
      BY <1>8 DEF Mux
    <3>. QED  BY <3>1
  <2>2. q = [platforms |-> ps, multiplexes |-> [es EXCEPT ![i].platform = p],
             services |-> r.services, networks |-> r.networks]
    BY <1>5, <1>6 DEF MuxSetPlatform
  <2> HIDE DEF x
  <2>. QED  BY <1>8, <2>1, <2>2
<1> HIDE DEF x
<1>11. Placed(Mux, r.multiplexes, x, ms, i)
  BY <1>1, <1>2, <1>6, <1>9, PlacedThere DEF es
<1> HIDE DEF ms
<1>12. Grown(Mux, r.multiplexes, ms) /\ Grown(Service, r.services, r.services)
  BY <1>1, <1>11 DEF Placed, Grown
<1>13. Linked(ms, r.services)
  BY <1>1, <1>12 DEF Linked, Grown
<1>14. Later(r, q)
  BY <1>3, <1>10, <1>12, <1>13, Grows
<1>15. q.multiplexes = ms /\ q.services = r.services /\ q.networks = r.networks
  BY <1>10
<1>16. i \in DOMAIN ms /\ ms[i] = x
  BY <1>11 DEF Placed
<1>17. MarksKept(r.multiplexes, ms)
  <2>1. FreshMux(m).data = FALSE
    BY DEF FreshMux
  <2>2. \A j \in DOMAIN ms : j # i => j \in DOMAIN r.multiplexes /\ ms[j] = r.multiplexes[j]
    BY <1>11 DEF Placed
  <2>3. x.data = es[i].data
    BY DEF x
  <2>4. es[i] = IF i \in DOMAIN r.multiplexes THEN r.multiplexes[i] ELSE FreshMux(m)
    BY <1>7 DEF Added
  <2>. QED  BY <1>16, <2>1, <2>2, <2>3, <2>4 DEF MarksKept
<1>. QED  BY <1>9, <1>14, <1>15, <1>16, <1>17 DEF NitTold

LEMMA MuxListed ==
  ASSUME NEW r, Sane(r), NEW n \in DOMAIN r.networks, NEW i \in DOMAIN r.multiplexes,
         NEW m, m = r.multiplexes[i].uri, NEW q, q = NetworkAddMux(r, n, i)
  PROVE  NitOpened(r, q, n, m)
<1> DEFINE w == r.networks[n]
           x == [uri |-> w.uri, version |-> w.version, mux |-> Append(w.mux, i), service |-> w.service]
<1>1. /\ r \in Registries /\ r.networks \in Seq(Network) /\ r.multiplexes \in Seq(Mux)
      /\ w \in Network /\ Listed(w, r.multiplexes, r.services) /\ SlotsOnce(w)
      /\ Once(r.multiplexes)
  BY Parts DEF Sane
<1>2. MuxLocate(r, m) = i
  BY <1>1, FoundAt DEF MuxLocate
<1>3. CASE \E k \in DOMAIN w.mux : w.mux[k] = i
  <2>1. q = r
    BY <1>3 DEF NetworkAddMux
  <2>2. NitTold(r, q, n)
    BY <2>1, SameMarks DEF NitTold, Later
  <2>3. m \in MuxNames(r, n)
    BY <1>3 DEF MuxNames
  <2>. QED  BY <1>2, <1>3, <2>1, <2>2, <2>3 DEF NitOpened
<1>4. CASE ~\E k \in DOMAIN w.mux : w.mux[k] = i
  <2>1. q = [r EXCEPT !.networks = [r.networks EXCEPT ![n] = x]]
    <3>1. q = [r EXCEPT !.networks[n].mux = Append(w.mux, i)]
      BY <1>4 DEF NetworkAddMux
    <3>2. [w EXCEPT !.mux = Append(w.mux, i)] = x
      <4>1. w = [uri |-> w.uri, version |-> w.version, mux |-> w.mux, service |-> w.service]
        BY <1>1 DEF Network
      <4> DEFINE l == Append(w.mux, i)
      <4> HIDE DEF w, l
      <4>2. [w EXCEPT !.mux = l] = [uri |-> w.uri, version |-> w.version, mux |-> l, service |-> w.service]
        BY <4>1
      <4>. QED  BY <4>2 DEF l
    <3> HIDE DEF x
    <3>. QED  BY <1>1, <3>1, <3>2
  <2>2. /\ w.mux \in Seq(Nat) /\ i \in Nat
    <3>1. i \in Nat
      BY <1>1
    <3> HIDE DEF x, w
    <3>. QED  BY <1>1, <3>1 DEF Network
  <2> DEFINE mux == Append(w.mux, i)
             e == Len(w.mux) + 1
  <2>3. /\ mux \in Seq(Nat) /\ e \in DOMAIN mux /\ mux[e] = i
        /\ \A k \in DOMAIN w.mux : k \in DOMAIN mux /\ mux[k] = w.mux[k]
        /\ \A k \in DOMAIN mux : k = e \/ k \in DOMAIN w.mux
    BY <2>2, SMTT(30)
  <2>4. x.uri = w.uri /\ x.version = w.version /\ x.mux = mux /\ x.service = w.service
    OBVIOUS
  <2>5. x \in Network
    BY <1>1, <2>3 DEF Network
  <2> HIDE DEF x, mux, e
  <2>6. Listed(x, r.multiplexes, r.services)
    <3>1. \A k \in DOMAIN mux : mux[k] \in DOMAIN r.multiplexes
      BY <1>1, <2>3 DEF Listed
    <3>2. \A k \in DOMAIN w.service :
            \E j \in DOMAIN mux : mux[j] = r.services[w.service[k].service].mux
      BY <1>1, <2>3 DEF Listed
    <3>. QED  BY <1>1, <2>4, <3>1, <3>2 DEF Listed
  <2>7. SlotsOnce(x)
    BY <1>1, <2>4 DEF SlotsOnce
  <2>8. /\ Later(r, q)
        /\ q.multiplexes = r.multiplexes /\ q.services = r.services
        /\ DOMAIN q.networks = DOMAIN r.networks /\ q.networks[n] = x
        /\ \A k \in DOMAIN r.networks : k # n => q.networks[k] = r.networks[k]
    BY <2>1, <2>5, <2>6, <2>7, NetworkChanges
  <2>9. NitTold(r, q, n)
    BY <2>4, <2>8, SameMarks DEF NitTold
  <2>10. Channels(q, n) = Channels(r, n)
    BY <2>4, <2>8 DEF Channels
  <2>11. MuxNames(q, n) = MuxNames(r, n) \cup {m}
    <3> DEFINE old == {r.multiplexes[w.mux[k]].uri : k \in DOMAIN w.mux}
               new == {r.multiplexes[mux[k]].uri : k \in DOMAIN mux}
    <3>1. MuxNames(r, n) = old /\ MuxNames(q, n) = new
      BY <2>4, <2>8 DEF MuxNames
    <3>2. new = old \cup {m}
      BY <2>3
    <3>. QED  BY <3>1, <3>2
  <2>12. \E j \in DOMAIN q.networks[n].mux : q.networks[n].mux[j] = MuxLocate(q, m)
    BY <1>2, <2>3, <2>4, <2>8 DEF MuxLocate
  <2>. QED  BY <2>9, <2>10, <2>11, <2>12 DEF NitOpened
<1>. QED  BY <1>3, <1>4

-----------------------------------------------------------------------------
(* The entries of a NIT that were done, with those of the first streams and *)
(* the first j of stream i, and the lineup that they give.                  *)
Within(t, i, j) == {p \in Positions(t) : p[1] < i \/ (p[1] = i /\ p[2] <= j)}

Last(t, D) ==
  {q \in D : ~\E later \in D : Before(q, later) /\ Entry(t, later).lcn = Entry(t, q).lcn}
Channel(t, p) == <<Entry(t, p).lcn, ServiceOf(t.ts[p[1]].uri, Entry(t, p).sid)>>
Given(t, D) == {Channel(t, p) : p \in Last(t, D)}

LEMMA PositionIs ==
  ASSUME NEW t \in NitTable
  PROVE  /\ \A p \in Positions(t) : /\ p[1] \in DOMAIN t.ts /\ p[2] \in DOMAIN t.ts[p[1]].lcns
                                   /\ p = <<p[1], p[2]>> /\ p[1] \in Nat /\ p[2] \in Nat
         /\ \A i \in DOMAIN t.ts : \A j \in DOMAIN t.ts[i].lcns : <<i, j>> \in Positions(t)
         /\ t.ts \in Seq(NitStream)
         /\ \A i \in DOMAIN t.ts : t.ts[i] \in NitStream /\ t.ts[i].lcns \in Seq(NitEntry)
<1>1. t.ts \in Seq(NitStream)
  BY DEF NitTable
<1>2. \A i \in DOMAIN t.ts : t.ts[i] \in NitStream /\ t.ts[i].lcns \in Seq(NitEntry)
  <2>1. \A x \in NitStream : x.lcns \in Seq(NitEntry)
    BY DEF NitStream
  <2>. QED  BY <1>1, <2>1
<1>3. ASSUME NEW p \in Positions(t)
      PROVE  /\ p[1] \in DOMAIN t.ts /\ p[2] \in DOMAIN t.ts[p[1]].lcns
             /\ p = <<p[1], p[2]>> /\ p[1] \in Nat /\ p[2] \in Nat
  <2>1. PICK i \in DOMAIN t.ts : p \in {<<i, j>> : j \in DOMAIN t.ts[i].lcns}
    BY DEF Positions
  <2>2. PICK j \in DOMAIN t.ts[i].lcns : p = <<i, j>>
    BY <2>1
  <2>3. i \in Nat /\ j \in Nat
    BY <1>1, <1>2
  <2>. QED  BY <2>2, <2>3
<1>4. ASSUME NEW i \in DOMAIN t.ts, NEW j \in DOMAIN t.ts[i].lcns
      PROVE  <<i, j>> \in Positions(t)
  BY DEF Positions
<1>. QED  BY <1>1, <1>2, <1>3, <1>4

(* The next entry takes its number from whoever has it.                     *)
LEMMA NextEntry ==
  ASSUME NEW t \in NitTable, NEW i \in DOMAIN t.ts, NEW j \in Nat, j + 1 \in DOMAIN t.ts[i].lcns,
         NEW e, e = t.ts[i].lcns[j + 1]
  PROVE  Given(t, Within(t, i, j + 1)) =
           {x \in Given(t, Within(t, i, j)) : x[1] # e.lcn}
             \cup {<<e.lcn, ServiceOf(t.ts[i].uri, e.sid)>>}
<1> DEFINE p == <<i, j + 1>>
           D == Within(t, i, j)
           F == Within(t, i, j + 1)
<1>1. p \in Positions(t) /\ i \in Nat
  BY PositionIs
<1>2. F = D \cup {p} /\ p \notin D /\ D \subseteq Positions(t)
  <2>1. \A q \in F : q \in D \/ q = p
    BY PositionIs DEF Within
  <2>2. p \in F /\ p \notin D /\ D \subseteq Positions(t)
    BY <1>1 DEF Within
  <2>3. D \subseteq F
    BY PositionIs DEF Within
  <2> HIDE DEF D, F, p
  <2>. QED  BY <2>1, <2>2, <2>3
<1>3. \A q \in D : Before(q, p) /\ ~Before(p, q)
  BY <1>1, PositionIs DEF Within, Before
<1>4. ~Before(p, p)
  BY <1>1 DEF Before
<1>5. Entry(t, p) = e /\ Channel(t, p) = <<e.lcn, ServiceOf(t.ts[i].uri, e.sid)>>
  BY DEF Entry, Channel
<1>6. \A q \in D : Channel(t, q)[1] = Entry(t, q).lcn
  BY DEF Channel
<1> HIDE DEF p, D, F
<1>7. Last(t, F) = {q \in Last(t, D) : Entry(t, q).lcn # e.lcn} \cup {p}
  BY <1>2, <1>3, <1>4, <1>5 DEF Last
<1>8. Last(t, D) \subseteq D
  BY DEF Last
<1>9. Given(t, F) = {x \in Given(t, D) : x[1] # e.lcn} \cup {Channel(t, p)}
  BY <1>6, <1>7, <1>8 DEF Given
<1>. QED  BY <1>5, <1>9 DEF D, F

LEMMA WithinEnds ==
  ASSUME NEW t \in NitTable
  PROVE  /\ Given(t, Within(t, 1, 0)) = {}
         /\ Given(t, Within(t, Len(t.ts) + 1, 0)) = Lineup(t)
         /\ \A i \in DOMAIN t.ts : Within(t, i, Len(t.ts[i].lcns)) = Within(t, i + 1, 0)
<1>1. Within(t, 1, 0) = {}
  <2>1. \A p \in Positions(t) : p[1] > 0 /\ p[2] > 0 /\ p[1] \in Nat /\ p[2] \in Nat
    BY PositionIs
  <2>. QED  BY <2>1 DEF Within
<1>2. Within(t, Len(t.ts) + 1, 0) = Positions(t)
  <2>1. \A p \in Positions(t) : p[1] <= Len(t.ts)
    BY PositionIs
  <2>2. \A p \in Positions(t) : p[1] < Len(t.ts) + 1
    BY <2>1, PositionIs
  <2>. QED  BY <2>2 DEF Within
<1>3. Given(t, Positions(t)) = Lineup(t)
  BY DEF Given, Last, Lineup, Channel
<1>4. ASSUME NEW i \in DOMAIN t.ts
      PROVE  Within(t, i, Len(t.ts[i].lcns)) = Within(t, i + 1, 0)
  <2> SUFFICES ASSUME NEW p \in Positions(t)
               PROVE  (p[1] < i \/ (p[1] = i /\ p[2] <= Len(t.ts[i].lcns)))
                        <=> (p[1] < i + 1 \/ (p[1] = i + 1 /\ p[2] <= 0))
    BY DEF Within
  <2>1. p[1] = i => p[2] <= Len(t.ts[i].lcns)
    BY PositionIs
  <2>2. p[1] \in Nat /\ p[2] \in Nat /\ p[2] > 0 /\ i \in Nat
    BY PositionIs
  <2>. QED  BY <2>1, <2>2
<1>5. Given(t, {}) = {}
  BY DEF Given, Last
<1>. QED  BY <1>1, <1>2, <1>3, <1>4, <1>5

(* The loop over the entries of the descriptors.                            *)
IsServicesRun(g, k, r, n, ts) == g = [i \in 0..k |-> IF i = 0 THEN r ELSE NitService(g[i - 1], n, ts, ts.lcns[i])]

ServicesRunGoes(f, last, r, n, ts) ==
  f[0] = r /\ \A k \in 0..(last - 1) : f[k + 1] = NitService(f[k], n, ts, ts.lcns[k + 1])

LEMMA ServicesLoop ==
  ASSUME NEW r, NEW n, NEW ts, NEW E, ts.lcns \in Seq(E)
  PROVE  \E f : ServicesRunGoes(f, Len(ts.lcns), r, n, ts) /\ NitServices(r, n, ts) = f[Len(ts.lcns)]
<1> DEFINE last == Len(ts.lcns)
           T == {k \in 0..last : \E g : IsServicesRun(g, k, r, n, ts)}
<1>1. 0 \in T
  <2>1. IsServicesRun([i \in 0..0 |-> r], 0, r, n, ts)
    BY DEF IsServicesRun
  <2>. QED  BY <2>1
<1>2. ASSUME NEW k \in 0..(last - 1), k \in T PROVE k + 1 \in T
  <2>1. PICK g : IsServicesRun(g, k, r, n, ts)
    BY <1>2
  <2> DEFINE h == [i \in 0..(k + 1) |->
                     IF i = k + 1 THEN NitService(g[k], n, ts, ts.lcns[k + 1]) ELSE g[i]]
  <2>2. IsServicesRun(h, k + 1, r, n, ts)
    <3> SUFFICES ASSUME NEW i \in 0..(k + 1)
                 PROVE  h[i] = IF i = 0 THEN r ELSE NitService(h[i - 1], n, ts, ts.lcns[i])
      BY DEF IsServicesRun
    <3>1. CASE i = 0
      BY <2>1, <3>1 DEF IsServicesRun
    <3>2. CASE i = k + 1
      BY <2>1, <3>2 DEF IsServicesRun
    <3>3. CASE i \in 1..k
      BY <2>1, <3>3 DEF IsServicesRun
    <3>. QED  BY <3>1, <3>2, <3>3
  <2> HIDE DEF h
  <2>. QED  BY <2>2
<1> HIDE DEF T
<1>3. last \in T
  BY <1>1, <1>2, Induction
<1>4. \E g : IsServicesRun(g, last, r, n, ts)
  BY <1>3 DEF T
<1> DEFINE f == CHOOSE g : IsServicesRun(g, last, r, n, ts)
<1>5. IsServicesRun(f, last, r, n, ts)
  BY <1>4
<1>6. NitServices(r, n, ts) = f[last]
  BY DEF NitServices, IsServicesRun
<1> HIDE DEF f
<1>7. f[0] = r
  <2>1. 0 \in 0..last
    OBVIOUS
  <2> HIDE DEF last
  <2>. QED  BY <1>5, <2>1 DEF IsServicesRun
<1>8. ASSUME NEW k \in 0..(last - 1) PROVE f[k + 1] = NitService(f[k], n, ts, ts.lcns[k + 1])
  <2> DEFINE i == k + 1
  <2>1. i \in 0..last /\ i # 0 /\ i - 1 = k
    OBVIOUS
  <2> HIDE DEF i
  <2>2. f[i] = NitService(f[i - 1], n, ts, ts.lcns[i])
    BY <1>5, <2>1 DEF IsServicesRun
  <2>. QED  BY <2>1, <2>2 DEF i
<1>. QED  BY <1>6, <1>7, <1>8 DEF ServicesRunGoes

LEMMA ServicesRun ==
  ASSUME NEW r, NEW n, NEW ts, ts.lcns \in Seq(NitEntry), NEW m, m = Len(ts.lcns)
  PROVE  \E f : ServicesRunGoes(f, m, r, n, ts) /\ NitServices(r, n, ts) = f[m]
BY ServicesLoop

LEMMA NitServicesGiven ==
  ASSUME NEW t \in NitTable, NEW i \in DOMAIN t.ts, NEW ts, ts = t.ts[i],
         NEW r, Sane(r), NEW n \in DOMAIN r.networks,
         \E j \in DOMAIN r.networks[n].mux : r.networks[n].mux[j] = MuxLocate(r, ts.uri),
         Channels(r, n) = Given(t, Within(t, i, 0)), NEW q, q = NitServices(r, n, ts)
  PROVE  /\ NitTold(r, q, n) /\ MuxNames(q, n) = MuxNames(r, n)
         /\ Channels(q, n) = Given(t, Within(t, i + 1, 0))
<1> DEFINE m == Len(ts.lcns)
           Here(x) == \E j \in DOMAIN x.networks[n].mux : x.networks[n].mux[j] = MuxLocate(x, ts.uri)
<1>1. ts \in NitStream /\ ts.lcns \in Seq(NitEntry) /\ m \in Nat
  BY PositionIs
<1>2. PICK f : ServicesRunGoes(f, m, r, n, ts) /\ NitServices(r, n, ts) = f[m]
  BY <1>1, ServicesRun
<1> DEFINE Inv(x, k) == /\ NitTold(r, x, n) /\ MuxNames(x, n) = MuxNames(r, n) /\ Here(x)
                        /\ Channels(x, n) = Given(t, Within(t, i, k))
           T == {k \in 0..m : Inv(f[k], k)}
<1>3. 0 \in T
  <2>1. f[0] = r
    BY <1>2 DEF ServicesRunGoes
  <2>2. NitTold(r, r, n)
    BY SameMarks DEF NitTold, Later
  <2>. QED  BY <1>1, <2>1, <2>2
<1>4. ASSUME NEW k \in 0..(m - 1), k \in T PROVE k + 1 \in T
  <2> DEFINE x == f[k]
             y == f[k + 1]
             e == ts.lcns[k + 1]
  <2>1. Inv(x, k)
    BY <1>4
  <2>2. k \in Nat /\ k + 1 \in DOMAIN ts.lcns /\ e \in NitEntry
    BY <1>1
  <2>3. y = NitService(x, n, ts, e)
    BY <1>2 DEF ServicesRunGoes
  <2>4. Sane(x) /\ n \in DOMAIN x.networks
    BY <2>1 DEF NitTold, Later
  <2> HIDE DEF x, y, e, T, m
  <2>5. NitServed(x, y, n, e.lcn, ServiceOf(ts.uri, e.sid))
    BY <1>1, <2>1, <2>2, <2>3, <2>4, NitServiceStep
  <2>6. NitTold(r, y, n)
    BY <2>1, <2>5, NitToldTwice DEF NitServed
  <2>7. Here(y)
    BY <2>1, <2>5 DEF NitServed, MuxLocate
  <2>8. Given(t, Within(t, i, k + 1)) =
          {z \in Given(t, Within(t, i, k)) : z[1] # e.lcn} \cup {<<e.lcn, ServiceOf(ts.uri, e.sid)>>}
    BY <2>2, NextEntry DEF e
  <2>9. Inv(y, k + 1)
    BY <2>1, <2>5, <2>6, <2>7, <2>8 DEF NitServed
  <2>10. k + 1 \in 0..m
    BY <1>1
  <2>. QED  BY <2>9, <2>10 DEF T, y
<1> HIDE DEF T
<1>5. m \in T
  BY <1>1, <1>3, <1>4, Induction
<1>6. Inv(q, m)
  BY <1>2, <1>5 DEF T
<1>7. Within(t, i, m) = Within(t, i + 1, 0)
  BY WithinEnds
<1>. QED  BY <1>6, <1>7

(* One transport stream.                                                    *)
LEMMA NitTransportStep ==
  ASSUME NEW t \in NitTable, NEW i \in DOMAIN t.ts, NEW ts, ts = t.ts[i],
         NEW r, Sane(r), NEW n \in DOMAIN r.networks,
         Channels(r, n) = Given(t, Within(t, i, 0)), NEW q, q = NitTransport(r, n, ts)
  PROVE  /\ NitTold(r, q, n) /\ MuxNames(q, n) = MuxNames(r, n) \cup {ts.uri}
         /\ Channels(q, n) = Given(t, Within(t, i + 1, 0))
<1> DEFINE m == ts.uri
           a == MuxLocateAdd(PlatformLocateAdd(r, PlatformOf(m)), m)
           k == MuxLocate(a, m)
           l == MuxSetPlatform(a, k, Find(a.platforms, PlatformOf(m)))
           h == NetworkAddMux(l, n, k)
<1>1. m \in Nat \X Nat
  BY PositionIs DEF NitStream
<1>2. q = NitServices(h, n, ts)
  BY DEF NitTransport
<1> HIDE DEF a, k, l, h, m
<1>3. /\ NitTold(r, l, n) /\ l.networks = r.networks
      /\ k \in DOMAIN l.multiplexes /\ l.multiplexes[k].uri = m
  BY <1>1, MuxRegistered DEF a, k, l
<1>4. Sane(l) /\ n \in DOMAIN l.networks /\ Later(r, l)
  BY <1>3 DEF NitTold, Later
<1>5. Channels(l, n) = Channels(r, n) /\ MuxNames(l, n) = MuxNames(r, n)
  BY <1>3, <1>4, SameNames
<1>6. NitOpened(l, h, n, m)
  BY <1>3, <1>4, MuxListed DEF h
<1>7. NitTold(r, h, n)
  BY <1>3, <1>6, NitToldTwice DEF NitOpened
<1>8. Sane(h) /\ n \in DOMAIN h.networks
  BY <1>7 DEF NitTold, Later
<1>9. \E j \in DOMAIN h.networks[n].mux : h.networks[n].mux[j] = MuxLocate(h, ts.uri)
  BY <1>6 DEF NitOpened, m
<1>10. Channels(h, n) = Given(t, Within(t, i, 0))
  BY <1>5, <1>6 DEF NitOpened
<1>11. /\ NitTold(h, q, n) /\ MuxNames(q, n) = MuxNames(h, n)
       /\ Channels(q, n) = Given(t, Within(t, i + 1, 0))
  BY <1>2, <1>8, <1>9, <1>10, NitServicesGiven
<1>12. NitTold(r, q, n)
  BY <1>7, <1>11, NitToldTwice
<1>13. MuxNames(q, n) = MuxNames(r, n) \cup {ts.uri}
  BY <1>5, <1>6, <1>11 DEF NitOpened, m
<1>. QED  BY <1>11, <1>12, <1>13

(* The loop over the transport streams.                                     *)
IsTransportsRun(g, k, r, n, t) == g = [i \in 0..k |-> IF i = 0 THEN r ELSE NitTransport(g[i - 1], n, t.ts[i])]

TransportsRunGoes(f, last, r, n, t) ==
  f[0] = r /\ \A k \in 0..(last - 1) : f[k + 1] = NitTransport(f[k], n, t.ts[k + 1])

LEMMA TransportsLoop ==
  ASSUME NEW r, NEW n, NEW t, NEW E, t.ts \in Seq(E)
  PROVE  \E f : TransportsRunGoes(f, Len(t.ts), r, n, t) /\ NitTransports(r, n, t) = f[Len(t.ts)]
<1> DEFINE last == Len(t.ts)
           T == {k \in 0..last : \E g : IsTransportsRun(g, k, r, n, t)}
<1>1. 0 \in T
  <2>1. IsTransportsRun([i \in 0..0 |-> r], 0, r, n, t)
    BY DEF IsTransportsRun
  <2>. QED  BY <2>1
<1>2. ASSUME NEW k \in 0..(last - 1), k \in T PROVE k + 1 \in T
  <2>1. PICK g : IsTransportsRun(g, k, r, n, t)
    BY <1>2
  <2> DEFINE h == [i \in 0..(k + 1) |->
                     IF i = k + 1 THEN NitTransport(g[k], n, t.ts[k + 1]) ELSE g[i]]
  <2>2. IsTransportsRun(h, k + 1, r, n, t)
    <3> SUFFICES ASSUME NEW i \in 0..(k + 1)
                 PROVE  h[i] = IF i = 0 THEN r ELSE NitTransport(h[i - 1], n, t.ts[i])
      BY DEF IsTransportsRun
    <3>1. CASE i = 0
      BY <2>1, <3>1 DEF IsTransportsRun
    <3>2. CASE i = k + 1
      BY <2>1, <3>2 DEF IsTransportsRun
    <3>3. CASE i \in 1..k
      BY <2>1, <3>3 DEF IsTransportsRun
    <3>. QED  BY <3>1, <3>2, <3>3
  <2> HIDE DEF h
  <2>. QED  BY <2>2
<1> HIDE DEF T
<1>3. last \in T
  BY <1>1, <1>2, Induction
<1>4. \E g : IsTransportsRun(g, last, r, n, t)
  BY <1>3 DEF T
<1> DEFINE f == CHOOSE g : IsTransportsRun(g, last, r, n, t)
<1>5. IsTransportsRun(f, last, r, n, t)
  BY <1>4
<1>6. NitTransports(r, n, t) = f[last]
  BY DEF NitTransports, IsTransportsRun
<1> HIDE DEF f
<1>7. f[0] = r
  <2>1. 0 \in 0..last
    OBVIOUS
  <2> HIDE DEF last
  <2>. QED  BY <1>5, <2>1 DEF IsTransportsRun
<1>8. ASSUME NEW k \in 0..(last - 1) PROVE f[k + 1] = NitTransport(f[k], n, t.ts[k + 1])
  <2> DEFINE i == k + 1
  <2>1. i \in 0..last /\ i # 0 /\ i - 1 = k
    OBVIOUS
  <2> HIDE DEF i
  <2>2. f[i] = NitTransport(f[i - 1], n, t.ts[i])
    BY <1>5, <2>1 DEF IsTransportsRun
  <2>. QED  BY <2>1, <2>2 DEF i
<1>. QED  BY <1>6, <1>7, <1>8 DEF TransportsRunGoes

LEMMA NitTransportsGiven ==
  ASSUME NEW t \in NitTable, NEW r, Sane(r), NEW n \in DOMAIN r.networks,
         Channels(r, n) = {}, MuxNames(r, n) = {}, NEW q, q = NitTransports(r, n, t)
  PROVE  /\ NitTold(r, q, n) /\ MuxNames(q, n) = {t.ts[i].uri : i \in DOMAIN t.ts}
         /\ Channels(q, n) = Lineup(t)
<1> DEFINE m == Len(t.ts)
           names(k) == {t.ts[i].uri : i \in 1..k}
<1>1. t.ts \in Seq(NitStream) /\ m \in Nat /\ DOMAIN t.ts = 1..m
  BY DEF NitTable
<1>2. PICK f : TransportsRunGoes(f, m, r, n, t) /\ NitTransports(r, n, t) = f[m]
  BY <1>1, TransportsLoop
<1> DEFINE Inv(x, k) == /\ NitTold(r, x, n) /\ MuxNames(x, n) = names(k)
                        /\ Channels(x, n) = Given(t, Within(t, k + 1, 0))
           T == {k \in 0..m : Inv(f[k], k)}
<1>3. 0 \in T
  <2>1. f[0] = r
    BY <1>2 DEF TransportsRunGoes
  <2>2. NitTold(r, r, n)
    BY SameMarks DEF NitTold, Later
  <2>3. names(0) = {}
    OBVIOUS
  <2>4. Given(t, Within(t, 0 + 1, 0)) = {}
    <3>1. 0 + 1 = 1
      OBVIOUS
    <3>. QED  BY <3>1, WithinEnds
  <2> HIDE DEF names, T
  <2>5. Inv(f[0], 0)
    BY <2>1, <2>2, <2>3, <2>4
  <2>6. 0 \in 0..m
    BY <1>1
  <2>. QED  BY <2>5, <2>6 DEF T
<1>4. ASSUME NEW k \in 0..(m - 1), k \in T PROVE k + 1 \in T
  <2> DEFINE x == f[k]
             y == f[k + 1]
             i == k + 1
             ts == t.ts[i]
  <2>1. Inv(x, k)
    BY <1>4
  <2>2. i \in DOMAIN t.ts /\ i \in 0..m
    BY <1>1
  <2>3. y = NitTransport(x, n, ts)
    BY <1>2 DEF TransportsRunGoes
  <2>4. Sane(x) /\ n \in DOMAIN x.networks
    BY <2>1 DEF NitTold, Later
  <2>5. Channels(x, n) = Given(t, Within(t, i, 0))
    BY <2>1
  <2>6. names(i) = names(k) \cup {ts.uri}
    OBVIOUS
  <2> HIDE DEF x, y, T, m, names, ts, i
  <2>7. /\ NitTold(x, y, n) /\ MuxNames(y, n) = MuxNames(x, n) \cup {ts.uri}
        /\ Channels(y, n) = Given(t, Within(t, i + 1, 0))
    BY <2>2, <2>3, <2>4, <2>5, NitTransportStep DEF ts
  <2>8. NitTold(r, y, n)
    BY <2>1, <2>7, NitToldTwice
  <2>9. Inv(y, i)
    BY <2>1, <2>6, <2>7, <2>8
  <2>. QED  BY <2>2, <2>9 DEF T, y, i
<1> HIDE DEF T
<1>5. m \in T
  BY <1>1, <1>3, <1>4, Induction
<1>6. Inv(q, m)
  BY <1>2, <1>5 DEF T
<1>7. Given(t, Within(t, m + 1, 0)) = Lineup(t)
  BY WithinEnds
<1>. QED  BY <1>1, <1>6, <1>7

-----------------------------------------------------------------------------
(* The tables.                                                              *)

(* The one network that is registered is the one of t, as t says.           *)
Mirrors(q, t) ==
  /\ DOMAIN q.networks = {1}
  /\ q.networks[1].uri = AddedAs(t.network) /\ q.networks[1].version = t.version
  /\ MuxNames(q, 1) = {t.ts[i].uri : i \in DOMAIN t.ts} /\ Channels(q, 1) = Lineup(t)

LEMMA NetworkOpens ==
  ASSUME NEW r, Sane(r), r.networks = <<>>, NEW id \in Nat, NEW version \in Nat,
         NEW w, w = AddedAs(id),
         NEW o, o = NetworkAdd(r, w),
         NEW q, q = NetworkSetVersion(o, NetworkLocate(o, w), version)
  PROVE  /\ NetworkLocate(o, w) = 1
         /\ Later(r, q) /\ q.services = r.services /\ q.multiplexes = r.multiplexes
         /\ DOMAIN q.networks = {1}
         /\ q.networks[1] = [uri |-> w, version |-> version, mux |-> <<>>, service |-> <<>>]
<1> DEFINE x == FreshNetwork(w)
           y == [uri |-> w, version |-> version, mux |-> <<>>, service |-> <<>>]
           mid == [platforms |-> r.platforms, multiplexes |-> r.multiplexes,
                   services |-> r.services, networks |-> <<x>>]
           end == [platforms |-> r.platforms, multiplexes |-> r.multiplexes,
                   services |-> r.services, networks |-> <<y>>]
<1>1. /\ r \in Registries /\ r.multiplexes \in Seq(Mux) /\ r.services \in Seq(Service)
      /\ r.platforms \in Seq(Platform)
      /\ r = [platforms |-> r.platforms, multiplexes |-> r.multiplexes,
              services |-> r.services, networks |-> <<>>]
  BY Parts DEF Sane
<1>2. x.uri = w /\ NetworkReset(x) = x
  BY DEF FreshNetwork, NetworkReset
<1>3. Find(<<>>, w) = 0
  BY DEF Find
<1>4. Find(<<x>>, w) = 1
  <2>1. <<x>> \in Seq({x}) /\ Once(<<x>>) /\ 1 \in DOMAIN <<x>> /\ <<x>>[1].uri = w
    BY <1>2 DEF Once
  <2>. QED  BY <2>1, FoundAt
<1>5. NetworkLocateAdd(r, w) = mid
  <2>1. Ensure(<<>>, x) = <<x>>
    BY <1>2, <1>3 DEF Ensure
  <2>. QED  BY <1>1, <2>1 DEF NetworkLocateAdd
<1>6. NetworkLocate(mid, w) = 1
  BY <1>4 DEF NetworkLocate
<1>7. o = mid
  <2>1. [mid EXCEPT !.networks[1] = NetworkReset(@)] = mid
    <3>1. [<<x>> EXCEPT ![1] = NetworkReset(x)] = <<x>>
      BY <1>2
    <3> HIDE DEF x
    <3>. QED  BY <3>1
  <2>. QED  BY <1>5, <1>6, <2>1 DEF NetworkAdd
<1>8. q = end
  <2>1. [x EXCEPT !.version = version] = y
    BY DEF FreshNetwork
  <2> HIDE DEF x, y
  <2>2. [<<x>> EXCEPT ![1] = [x EXCEPT !.version = version]] = <<y>>
    BY <2>1
  <2>3. q = [mid EXCEPT !.networks[1].version = version]
    BY <1>6, <1>7 DEF NetworkSetVersion
  <2>. QED  BY <2>2, <2>3
<1>9. y \in Network
  <2>1. w \in {"nid"} \X Nat
    BY DEF AddedAs
  <2>. QED  BY <2>1 DEF Network
<1>10. /\ q.multiplexes = r.multiplexes /\ q.services = r.services /\ q.networks = <<y>>
       /\ DOMAIN <<y>> = {1} /\ <<y>>[1] = y /\ <<y>> \in Seq(Network)
  BY <1>8, <1>9
<1>11. q \in Registries
  BY <1>1, <1>8, <1>10 DEF Registries
<1>12. Listed(y, r.multiplexes, r.services) /\ SlotsOnce(y)
  BY DEF Listed, SlotsOnce
<1> HIDE DEF y, end, mid, x
<1>13. Later(r, q)
  BY <1>10, <1>11, <1>12 DEF Later, Sane
<1>. QED  BY <1>6, <1>7, <1>10, <1>13 DEF y

LEMMA NitMirrored ==
  ASSUME NEW r, Sane(r), r.networks = <<>>, NEW t \in NitTable,
         NEW q, q = ParseNit(r, t)
  PROVE  /\ Later(r, q) /\ MarksKept(r.multiplexes, q.multiplexes)
         /\ \A said : Typed(r.services, said) => Typed(q.services, said)
         /\ t.cni => Mirrors(q, t)
         /\ ~t.cni => q = r
<1>1. CASE ~t.cni
  <2>1. q = r
    BY <1>1 DEF ParseNit
  <2>. QED  BY <1>1, <2>1, SameMarks DEF Later
<1>2. CASE t.cni
  <2> DEFINE w == AddedAs(t.network)
             o == NetworkAdd(r, w)
             b == NetworkSetVersion(o, NetworkLocate(o, w), t.version)
  <2>1. t.network \in Nat /\ t.version \in Nat
    BY DEF NitTable
  <2>2. NetworkLocate(r, LocatedAs(t.network)) = 0
    BY DEF NetworkLocate, Find
  <2>3. q = NitTransports(b, NetworkLocate(o, w), t)
    BY <1>2, <2>2 DEF ParseNit
  <2> HIDE DEF w, o, b
  <2>4. /\ NetworkLocate(o, w) = 1
        /\ Later(r, b) /\ b.services = r.services /\ b.multiplexes = r.multiplexes
        /\ DOMAIN b.networks = {1}
        /\ b.networks[1] = [uri |-> w, version |-> t.version, mux |-> <<>>, service |-> <<>>]
    BY <2>1, NetworkOpens DEF w, o, b
  <2>5. Sane(b) /\ 1 \in DOMAIN b.networks
    BY <2>4 DEF Later
  <2>6. Channels(b, 1) = {} /\ MuxNames(b, 1) = {}
    BY <2>4 DEF Channels, MuxNames
  <2>7. /\ NitTold(b, q, 1) /\ MuxNames(q, 1) = {t.ts[i].uri : i \in DOMAIN t.ts}
        /\ Channels(q, 1) = Lineup(t)
    BY <2>3, <2>4, <2>5, <2>6, NitTransportsGiven
  <2>8. Later(r, q)
    BY <2>4, <2>7, LaterTwice DEF NitTold
  <2>9. Mirrors(q, t)
    BY <2>4, <2>7 DEF Mirrors, NitTold, w
  <2>. QED  BY <1>2, <2>4, <2>7, <2>8, <2>9 DEF NitTold
<1>. QED  BY <1>1, <1>2

(* A network that mirrors its NIT still does when nothing it lists moved.   *)
LEMMA MirrorStays ==
  ASSUME NEW r, Sane(r), NEW q, Later(r, q), q.networks = r.networks,
         NEW t, Mirrors(r, t)
  PROVE  Mirrors(q, t)
BY SameNames DEF Mirrors

LEMMA SdtParsed ==
  ASSUME NEW r, Sane(r), NEW t \in SdtTable, NEW said, Typed(r.services, said),
         NEW q, q = ParseSdt(r, t)
  PROVE  /\ Later(r, q) /\ q.networks = r.networks
         /\ MarksKept(r.multiplexes, q.multiplexes) /\ NewIs(t.uri, r.multiplexes, q.multiplexes)
         /\ Typed(q.services, IF t.cni THEN said \cup Said(t, Len(t.services)) ELSE said)
<1>1. CASE ~t.cni
  BY <1>1, SameMarks DEF ParseSdt, Later
<1>2. CASE t.cni
  <2>1. q = SdtServices(r, t)
    BY <1>2 DEF ParseSdt
  <2>2. SdtTold(r, q, t.uri, said, said \cup Said(t, Len(t.services)))
    BY <2>1, SdtServicesTold
  <2>. QED  BY <1>2, <2>2 DEF SdtTold
<1>. QED  BY <1>1, <1>2

(* mux_set_data().                                                          *)
OneMarked(ms, i, ns) ==
  /\ DOMAIN ns = DOMAIN ms /\ ns[i].data = TRUE
  /\ \A j \in DOMAIN ms : j # i => ns[j] = ms[j]

LEMMA MarkedSane ==
  ASSUME NEW r, Sane(r), NEW i \in DOMAIN r.multiplexes, NEW q, q = MuxSetData(r, i)
  PROVE  /\ Later(r, q) /\ q.services = r.services /\ q.networks = r.networks
         /\ OneMarked(r.multiplexes, i, q.multiplexes)
<1> DEFINE m == r.multiplexes[i]
           x == [uri |-> m.uri, platform |-> m.platform, data |-> TRUE]
           ms == [r.multiplexes EXCEPT ![i] = x]
<1>1. /\ r.multiplexes \in Seq(Mux) /\ r.services \in Seq(Service) /\ r.platforms \in Seq(Platform)
      /\ Once(r.multiplexes) /\ Once(r.services) /\ Linked(r.multiplexes, r.services)
      /\ r = [platforms |-> r.platforms, multiplexes |-> r.multiplexes,
              services |-> r.services, networks |-> r.networks]
  BY Parts DEF Sane
<1>2. m \in Mux
  BY <1>1
<1>3. x \in Mux /\ x.uri = m.uri /\ x.data = TRUE
  BY <1>2 DEF Mux
<1>4. q = [platforms |-> r.platforms, multiplexes |-> ms, services |-> r.services,
           networks |-> r.networks]
  <2>1. [m EXCEPT !.data = TRUE] = x
    <3>1. m = [uri |-> m.uri, platform |-> m.platform, data |-> m.data]
      BY <1>2 DEF Mux
    <3> DEFINE yes == TRUE
    <3> HIDE DEF m, yes
    <3>2. [m EXCEPT !.data = yes] = [uri |-> m.uri, platform |-> m.platform, data |-> yes]
      BY <3>1
    <3>. QED  BY <3>2 DEF yes
  <2>2. q = [platforms |-> r.platforms,
             multiplexes |-> [r.multiplexes EXCEPT ![i] = [m EXCEPT !.data = TRUE]],
             services |-> r.services, networks |-> r.networks]
    BY <1>1 DEF MuxSetData
  <2> HIDE DEF x, m
  <2>. QED  BY <2>1, <2>2
<1>5. Changed(Mux, r.multiplexes, i, x, ms)
  BY <1>1, <1>3, Overwritten
<1> HIDE DEF x, ms
<1>6. \A j \in DOMAIN r.multiplexes : ms[j].uri = r.multiplexes[j].uri
  BY <1>3, <1>5 DEF Changed, m
<1>7. Grown(Mux, r.multiplexes, ms) /\ Grown(Service, r.services, r.services)
  BY <1>1, <1>5, <1>6 DEF Changed, Grown
<1>8. Linked(ms, r.services)
  BY <1>1, <1>7 DEF Linked, Grown
<1>9. Later(r, q)
  BY <1>1, <1>4, <1>7, <1>8, Grows
<1>10. OneMarked(r.multiplexes, i, ms)
  BY <1>3, <1>5 DEF Changed, OneMarked
<1>11. q.services = r.services /\ q.networks = r.networks /\ q.multiplexes = ms
  BY <1>4
<1>. QED  BY <1>9, <1>10, <1>11

(* A multiplex is marked if an SDT of it was read in the second pass, and   *)
(* only if an SDT of it was parsed.                                         *)
HeardIn(P, uri) == \E t \in P : IsSdt(t) /\ t.uri = uri
MarkedAreHeard(r, P) ==
  \A i \in DOMAIN r.multiplexes : r.multiplexes[i].data = TRUE => HeardIn(P, r.multiplexes[i].uri)
HeardAreMarked(r, P) ==
  \A i \in DOMAIN r.multiplexes : HeardIn(P, r.multiplexes[i].uri) => r.multiplexes[i].data = TRUE

LEMMA MarksStay ==
  ASSUME NEW r, NEW q, Later(r, q), MarksKept(r.multiplexes, q.multiplexes),
         NEW P, MarkedAreHeard(r, P), NEW t
  PROVE  MarkedAreHeard(q, P \cup {t})
<1> SUFFICES ASSUME NEW i \in DOMAIN q.multiplexes, q.multiplexes[i].data = TRUE
             PROVE  HeardIn(P \cup {t}, q.multiplexes[i].uri)
  BY DEF MarkedAreHeard
<1>1. i \in DOMAIN r.multiplexes /\ r.multiplexes[i].data = TRUE
  BY DEF MarksKept
<1>2. HeardIn(P, r.multiplexes[i].uri) /\ q.multiplexes[i].uri = r.multiplexes[i].uri
  BY <1>1 DEF MarkedAreHeard, Later
<1>. QED  BY <1>2 DEF HeardIn

(* One turn of read_sdt().                                                  *)
LEMMA SdtMarks ==
  ASSUME NEW r, NEW a, Later(r, a), MarksKept(r.multiplexes, a.multiplexes),
         NEW t, IsSdt(t), NewIs(t.uri, r.multiplexes, a.multiplexes),
         NEW k, k = MuxLocate(a, t.uri),
         NEW q, q = IF k # 0 THEN MuxSetData(a, k) ELSE a,
         NEW P, MarkedAreHeard(r, P)
  PROVE  /\ MarkedAreHeard(q, P \cup {t})
         /\ HeardAreMarked(r, P) => HeardAreMarked(q, P \cup {t})
<1>1. Sane(a) /\ a.multiplexes \in Seq(Mux)
  BY Parts DEF Later, Sane
<1>2. MarkedAreHeard(a, P \cup {t})
  BY MarksStay
<1>3. /\ k # 0 => k \in DOMAIN a.multiplexes /\ a.multiplexes[k].uri = t.uri
      /\ k = 0 => \A i \in DOMAIN a.multiplexes : a.multiplexes[i].uri # t.uri
      /\ \A i \in DOMAIN a.multiplexes : a.multiplexes[i].uri = t.uri => i = k
  BY <1>1, Found DEF MuxLocate, Sane, Once
<1>4. /\ DOMAIN q.multiplexes = DOMAIN a.multiplexes
      /\ \A i \in DOMAIN a.multiplexes :
           /\ q.multiplexes[i].uri = a.multiplexes[i].uri
           /\ i = k => q.multiplexes[i].data = TRUE
           /\ i # k => q.multiplexes[i] = a.multiplexes[i]
  <2>1. CASE k = 0
    <3>1. q = a /\ \A i \in DOMAIN a.multiplexes : i # k
      BY <1>1, <2>1
    <3>. QED  BY <3>1
  <2>2. CASE k # 0
    <3>1. q = MuxSetData(a, k) /\ k \in DOMAIN a.multiplexes
      BY <2>2, <1>3
    <3>2. Later(a, q) /\ OneMarked(a.multiplexes, k, q.multiplexes)
      BY <1>1, <3>1, MarkedSane
    <3>3. \A j \in DOMAIN a.multiplexes : q.multiplexes[j].uri = a.multiplexes[j].uri
      BY <3>2 DEF Later
    <3>. QED  BY <3>2, <3>3 DEF OneMarked
  <2>. QED  BY <2>1, <2>2
<1>5. ASSUME NEW i \in DOMAIN q.multiplexes, q.multiplexes[i].data = TRUE
      PROVE  HeardIn(P \cup {t}, q.multiplexes[i].uri)
  <2>1. CASE i = k
    <3>1. i # 0
      BY <1>1, <1>4
    <3>. QED  BY <1>3, <1>4, <2>1, <3>1 DEF HeardIn
  <2>2. CASE i # k
    BY <1>2, <1>4, <1>5, <2>2 DEF MarkedAreHeard
  <2>. QED  BY <2>1, <2>2
<1>6. ASSUME HeardAreMarked(r, P), NEW i \in DOMAIN q.multiplexes,
             HeardIn(P \cup {t}, q.multiplexes[i].uri)
      PROVE  q.multiplexes[i].data = TRUE
  <2>1. CASE i = k
    BY <1>4, <2>1
  <2>2. CASE i # k
    <3>1. /\ i \in DOMAIN a.multiplexes /\ q.multiplexes[i] = a.multiplexes[i]
          /\ a.multiplexes[i].uri # t.uri
      BY <1>3, <1>4, <2>2
    <3>2. i \in DOMAIN r.multiplexes /\ a.multiplexes[i].uri = r.multiplexes[i].uri
      BY <3>1 DEF NewIs, Later
    <3>3. HeardIn(P, r.multiplexes[i].uri)
      BY <1>6, <3>1, <3>2 DEF HeardIn
    <3>4. r.multiplexes[i].data = TRUE
      BY <1>6, <3>2, <3>3 DEF HeardAreMarked
    <3>. QED  BY <3>1, <3>2, <3>4 DEF MarksKept
  <2>. QED  BY <2>1, <2>2
<1>. QED  BY <1>5, <1>6 DEF MarkedAreHeard, HeardAreMarked

-----------------------------------------------------------------------------
(* What was parsed, and what it made of the registries.                     *)
Sdts(P) == {t \in P : IsSdt(t) /\ t.cni}
Nits(P) == {t \in P : t.table_id = NITActual /\ t.cni}
Told(P) == UNION {Said(t, Len(t.services)) : t \in Sdts(P)}

Good(r, P) ==
  /\ Sane(r) /\ Typed(r.services, Told(P))
  /\ \/ Nits(P) = {} /\ r.networks = <<>>
     \/ \E t \in NitTable : Nits(P) = {t} /\ Mirrors(r, t)

LEMMA SdtGood ==
  ASSUME NEW r, NEW P, Good(r, P), NEW t, IsSdt(t), t \in SdtTable, NEW q, q = ParseSdt(r, t)
  PROVE  /\ Good(q, P \cup {t}) /\ Later(r, q) /\ q.networks = r.networks
         /\ MarksKept(r.multiplexes, q.multiplexes) /\ NewIs(t.uri, r.multiplexes, q.multiplexes)
<1> DEFINE told == IF t.cni THEN Told(P) \cup Said(t, Len(t.services)) ELSE Told(P)
<1>1. Sane(r) /\ Typed(r.services, Told(P))
  BY DEF Good
<1>2. /\ Later(r, q) /\ q.networks = r.networks /\ Typed(q.services, told)
      /\ MarksKept(r.multiplexes, q.multiplexes) /\ NewIs(t.uri, r.multiplexes, q.multiplexes)
  BY <1>1, SdtParsed
<1>3. Told(P \cup {t}) = told
  <2>1. CASE t.cni
    <3>1. Sdts(P \cup {t}) = Sdts(P) \cup {t}
      BY <2>1 DEF Sdts
    <3>. QED  BY <2>1, <3>1 DEF Told
  <2>2. CASE ~t.cni
    <3>1. Sdts(P \cup {t}) = Sdts(P)
      BY <2>2 DEF Sdts
    <3>. QED  BY <2>2, <3>1 DEF Told
  <2>. QED  BY <2>1, <2>2
<1>4. Nits(P \cup {t}) = Nits(P)
  BY DEF Nits, IsSdt, NITActual, SDTActual, SDTOther
<1>5. Sane(q)
  BY <1>2 DEF Later
<1>6. \A u : Mirrors(r, u) => Mirrors(q, u)
  BY <1>1, <1>2, MirrorStays
<1> HIDE DEF told
<1>. QED  BY <1>2, <1>3, <1>4, <1>5, <1>6 DEF Good

LEMMA NitGood ==
  ASSUME NEW r, NEW P, Good(r, P), Nits(P) = {}, NEW t \in NitTable, NEW q, q = ParseNit(r, t)
  PROVE  Good(q, P \cup {t}) /\ Later(r, q) /\ MarksKept(r.multiplexes, q.multiplexes)
<1>1. Sane(r) /\ Typed(r.services, Told(P)) /\ r.networks = <<>>
  BY DEF Good
<1>2. /\ Later(r, q) /\ MarksKept(r.multiplexes, q.multiplexes)
      /\ \A said : Typed(r.services, said) => Typed(q.services, said)
      /\ t.cni => Mirrors(q, t)
      /\ ~t.cni => q = r
  BY <1>1, NitMirrored
<1>3. t.table_id = NITActual
  BY DEF NitTable
<1>4. Sdts(P \cup {t}) = Sdts(P)
  BY <1>3 DEF Sdts, IsSdt, NITActual, SDTActual, SDTOther
<1>5. Typed(q.services, Told(P \cup {t})) /\ Sane(q)
  BY <1>1, <1>2, <1>4 DEF Told, Later
<1>6. CASE t.cni
  <2>1. Nits(P \cup {t}) = {t}
    BY <1>3, <1>6 DEF Nits
  <2>. QED  BY <1>2, <1>5, <1>6, <2>1 DEF Good
<1>7. CASE ~t.cni
  <2>1. Nits(P \cup {t}) = {}
    BY <1>7 DEF Nits
  <2>. QED  BY <1>1, <1>2, <1>5, <1>7, <2>1 DEF Good
<1>. QED  BY <1>6, <1>7

LEMMA MarkGood ==
  ASSUME NEW r, NEW P, Good(r, P), NEW m, NEW i, i = MuxLocate(r, m),
         NEW q, q = IF i # 0 THEN MuxSetData(r, i) ELSE r
  PROVE  Good(q, P)
<1>1. Sane(r) /\ r.multiplexes \in Seq(Mux)
  BY Parts DEF Good, Sane
<1>2. CASE i = 0
  BY <1>2
<1>3. CASE i # 0
  <2>1. i \in DOMAIN r.multiplexes
    BY <1>1, <1>3, Found DEF MuxLocate
  <2>2. Later(r, q) /\ q.services = r.services /\ q.networks = r.networks
    BY <1>1, <1>3, <2>1, MarkedSane
  <2>3. \A u : Mirrors(r, u) => Mirrors(q, u)
    BY <1>1, <2>2, MirrorStays
  <2>. QED  BY <2>2, <2>3 DEF Good, Later
<1>. QED  BY <1>2, <1>3

LEMMA OtherGood ==
  ASSUME NEW r, NEW P, Good(r, P), NEW t, t.table_id # NITActual, ~IsSdt(t)
  PROVE  Good(r, P \cup {t})
<1>1. Sdts(P \cup {t}) = Sdts(P) /\ Nits(P \cup {t}) = Nits(P)
  BY DEF Sdts, Nits
<1>. QED  BY <1>1 DEF Good, Told

(* The loop that writes the services.                                       *)
IsWrittenRun(g, k, ss) == g = [i \in 0..k |-> IF i = 0 THEN <<>> ELSE WriteService(g[i - 1], ss[i])]

WrittenRunGoes(f, last, ss) ==
  f[0] = <<>> /\ \A k \in 0..(last - 1) : f[k + 1] = WriteService(f[k], ss[k + 1])

LEMMA WrittenLoop ==
  ASSUME NEW ss, NEW E, ss \in Seq(E)
  PROVE  \E f : WrittenRunGoes(f, Len(ss), ss) /\ WrittenServices(ss) = f[Len(ss)]
<1> DEFINE last == Len(ss)
           T == {k \in 0..last : \E g : IsWrittenRun(g, k, ss)}
<1>1. 0 \in T
  <2>1. IsWrittenRun([i \in 0..0 |-> <<>>], 0, ss)
    BY DEF IsWrittenRun
  <2>. QED  BY <2>1
<1>2. ASSUME NEW k \in 0..(last - 1), k \in T PROVE k + 1 \in T
  <2>1. PICK g : IsWrittenRun(g, k, ss)
    BY <1>2
  <2> DEFINE h == [i \in 0..(k + 1) |->
                     IF i = k + 1 THEN WriteService(g[k], ss[k + 1]) ELSE g[i]]
  <2>2. IsWrittenRun(h, k + 1, ss)
    <3> SUFFICES ASSUME NEW i \in 0..(k + 1)
                 PROVE  h[i] = IF i = 0 THEN <<>> ELSE WriteService(h[i - 1], ss[i])
      BY DEF IsWrittenRun
    <3>1. CASE i = 0
      BY <2>1, <3>1 DEF IsWrittenRun
    <3>2. CASE i = k + 1
      BY <2>1, <3>2 DEF IsWrittenRun
    <3>3. CASE i \in 1..k
      BY <2>1, <3>3 DEF IsWrittenRun
    <3>. QED  BY <3>1, <3>2, <3>3
  <2> HIDE DEF h
  <2>. QED  BY <2>2
<1> HIDE DEF T
<1>3. last \in T
  BY <1>1, <1>2, Induction
<1>4. \E g : IsWrittenRun(g, last, ss)
  BY <1>3 DEF T
<1> DEFINE f == CHOOSE g : IsWrittenRun(g, last, ss)
<1>5. IsWrittenRun(f, last, ss)
  BY <1>4
<1>6. WrittenServices(ss) = f[last]
  BY DEF WrittenServices, IsWrittenRun
<1> HIDE DEF f
<1>7. f[0] = <<>>
  <2>1. 0 \in 0..last
    OBVIOUS
  <2> HIDE DEF last
  <2>. QED  BY <1>5, <2>1 DEF IsWrittenRun
<1>8. ASSUME NEW k \in 0..(last - 1) PROVE f[k + 1] = WriteService(f[k], ss[k + 1])
  <2> DEFINE i == k + 1
  <2>1. i \in 0..last /\ i # 0 /\ i - 1 = k
    OBVIOUS
  <2> HIDE DEF i
  <2>2. f[i] = WriteService(f[i - 1], ss[i])
    BY <1>5, <2>1 DEF IsWrittenRun
  <2>. QED  BY <2>1, <2>2 DEF i
<1>. QED  BY <1>6, <1>7, <1>8 DEF WrittenRunGoes

(* o holds the written ones among the first k services, each once.          *)
WrittenUpTo(o, ss, k) ==
  /\ o \in Seq(Service) /\ Once(o)
  /\ \A i \in DOMAIN o : \E j \in 1..k : o[i] = ss[j] /\ Written(ss[j])
  /\ \A j \in 1..k : Written(ss[j]) => \E i \in DOMAIN o : o[i] = ss[j]

LEMMA WrittenAll ==
  ASSUME NEW ss \in Seq(Service), Once(ss)
  PROVE  WrittenUpTo(WrittenServices(ss), ss, Len(ss))
<1> DEFINE m == Len(ss)
<1>1. m \in Nat /\ DOMAIN ss = 1..m
  OBVIOUS
<1>2. PICK f : WrittenRunGoes(f, m, ss) /\ WrittenServices(ss) = f[m]
  BY WrittenLoop
<1> DEFINE T == {k \in 0..m : WrittenUpTo(f[k], ss, k)}
<1>3. 0 \in T
  <2>1. f[0] = <<>>
    BY <1>2 DEF WrittenRunGoes
  <2>2. WrittenUpTo(<<>>, ss, 0)
    BY DEF WrittenUpTo, Once
  <2>. QED  BY <1>1, <2>1, <2>2
<1>4. ASSUME NEW k \in 0..(m - 1), k \in T PROVE k + 1 \in T
  <2> DEFINE x == f[k]
             y == f[k + 1]
             s == ss[k + 1]
             n == Len(x) + 1
  <2>1. WrittenUpTo(x, ss, k) /\ x \in Seq(Service)
    BY <1>4 DEF WrittenUpTo
  <2>2. k + 1 \in 0..m /\ k + 1 \in DOMAIN ss /\ s \in Service /\ 1..k \subseteq DOMAIN ss
    BY <1>1
  <2>3. y = IF Written(s) THEN Append(x, s) ELSE x
    BY <1>2 DEF WrittenRunGoes, WriteService
  <2>4. \A j \in 1..(k + 1) : j \in 1..k \/ j = k + 1
    BY <1>1
  <2>5. \A j \in 1..k : j \in 1..(k + 1) /\ ss[j].uri # s.uri
    <3> SUFFICES ASSUME NEW j \in 1..k PROVE j \in 1..(k + 1) /\ ss[j].uri # s.uri
      OBVIOUS
    <3>1. j \in DOMAIN ss /\ j # k + 1 /\ j \in 1..(k + 1)
      BY <2>2
    <3>. QED  BY <2>2, <3>1 DEF Once
  <2>6. k + 1 \in 1..(k + 1)
    BY <1>1
  <2>7. CASE ~Written(s)
    <3>1. y = x
      BY <2>3, <2>7
    <3>2. \A j \in 1..(k + 1) : Written(ss[j]) => j \in 1..k
      BY <2>4, <2>7
    <3> HIDE DEF x, y, s, m, n, T
    <3>3. WrittenUpTo(y, ss, k + 1)
      BY <2>1, <2>5, <3>1, <3>2 DEF WrittenUpTo
    <3>. QED  BY <2>2, <3>3 DEF T, y
  <2>8. CASE Written(s)
    <3>1. y = Append(x, s)
      BY <2>3, <2>8
    <3> HIDE DEF x, m, T
    <3>2. /\ Append(x, s) \in Seq(Service) /\ n \in DOMAIN Append(x, s) /\ Append(x, s)[n] = s
          /\ \A i \in DOMAIN x : i \in DOMAIN Append(x, s) /\ Append(x, s)[i] = x[i]
          /\ \A i \in DOMAIN Append(x, s) : i \in DOMAIN x \/ i = n
      BY <2>1, <2>2
    <3> HIDE DEF n, y, s
    <3>3. \A i \in DOMAIN x : x[i].uri # s.uri
      BY <2>1, <2>5 DEF WrittenUpTo
    <3>4. y \in Seq(Service) /\ Once(y)
      <4>1. y \in Seq(Service) /\ Once(x)
        BY <2>1, <3>1, <3>2 DEF WrittenUpTo
      <4>2. Once(y)
        <5> SUFFICES ASSUME NEW i \in DOMAIN y, NEW j \in DOMAIN y, y[i].uri = y[j].uri PROVE i = j
          BY DEF Once
        <5>1. i \in DOMAIN x => y[i] = x[i] /\ x[i].uri # s.uri
          BY <3>1, <3>2, <3>3
        <5>2. j \in DOMAIN x => y[j] = x[j] /\ x[j].uri # s.uri
          BY <3>1, <3>2, <3>3
        <5>3. (i \in DOMAIN x \/ i = n) /\ (j \in DOMAIN x \/ j = n) /\ y[n] = s
          BY <3>1, <3>2
        <5>. QED  BY <4>1, <5>1, <5>2, <5>3 DEF Once
      <4>. QED  BY <4>1, <4>2
    <3>5. ASSUME NEW i \in DOMAIN y
          PROVE  \E j \in 1..(k + 1) : y[i] = ss[j] /\ Written(ss[j])
      <4>1. CASE i = n
        BY <4>1, <2>6, <2>8, <3>1, <3>2 DEF s
      <4>2. CASE i \in DOMAIN x
        <5>1. y[i] = x[i]
          BY <4>2, <3>1, <3>2
        <5>2. PICK j \in 1..k : x[i] = ss[j] /\ Written(ss[j])
          BY <4>2, <2>1 DEF WrittenUpTo
        <5>. QED  BY <5>1, <5>2, <2>5
      <4>. QED  BY <3>1, <3>2, <4>1, <4>2
    <3>6. ASSUME NEW j \in 1..(k + 1), Written(ss[j])
          PROVE  \E i \in DOMAIN y : y[i] = ss[j]
      <4>1. CASE j = k + 1
        BY <4>1, <3>1, <3>2 DEF s
      <4>2. CASE j \in 1..k
        BY <4>2, <2>1, <3>1, <3>2, <3>6 DEF WrittenUpTo
      <4>. QED  BY <2>4, <4>1, <4>2
    <3>7. WrittenUpTo(y, ss, k + 1)
      BY <3>4, <3>5, <3>6 DEF WrittenUpTo
    <3>. QED  BY <2>2, <3>7 DEF T, y
  <2>. QED  BY <2>7, <2>8
<1> HIDE DEF T
<1>5. m \in T
  BY <1>1, <1>3, <1>4, Induction
<1>. QED  BY <1>2, <1>5 DEF T

-----------------------------------------------------------------------------
(* The inductive invariant: the control state, the registries, and the      *)
(* document.                                                                *)
Control ==
  /\ pc \in {"nit", "sdt", "write", "done"}
  /\ waiting \in BOOLEAN /\ (waiting => pc \in {"nit", "sdt"})
  /\ elapsed \in 0..(ServiceScan + 1)
  /\ matchflag \in {Unset, 0, 1}
  /\ ended \in [{"nit", "sdt"} -> {"no", "complete", "late", "failed"}]
  /\ parsed \subseteq NitTables \cup SdtTables
  /\ pc \in {"nit", "sdt"} => ended["sdt"] = "no"

Passes ==
  /\ Good(reg, parsed)
  /\ pc = "nit" => Nits(parsed) = {}

Document ==
  /\ pc \in {"nit", "sdt", "write"} => out = <<>>
  /\ pc = "done" => WrittenUpTo(out, reg.services, Len(reg.services))

(* The marks, and the flag that looked at them last.                        *)
AllMarked == \A i \in DOMAIN reg.multiplexes : reg.multiplexes[i].data = TRUE

Marks ==
  /\ MarkedAreHeard(reg, parsed)
  /\ SdtsApart => HeardAreMarked(reg, parsed)
  /\ pc = "nit" => matchflag = Unset /\ (SdtsApart => \A t \in parsed : ~IsSdt(t))
  /\ pc = "sdt" /\ matchflag = 0 => ~AllMarked
  /\ ended["sdt"] = "complete" /\ matchflag # Unset => AllMarked

IInv == Control /\ Passes /\ Marks /\ Document

LEMMA PassEnds ==
  ASSUME NEW e \in [{"nit", "sdt"} -> {"no", "complete", "late", "failed"}], NEW p \in {"nit", "sdt"},
         NEW how \in {"complete", "late", "failed"}, NEW f, f = [e EXCEPT ![p] = how]
  PROVE  /\ f \in [{"nit", "sdt"} -> {"no", "complete", "late", "failed"}]
         /\ f["sdt"] = IF p = "sdt" THEN how ELSE e["sdt"]
OBVIOUS

LEMMA Start == Init => IInv
<1> SUFFICES ASSUME Init PROVE IInv
  OBVIOUS
<1> USE DEF Init
<1>1. Control
  <2>1. /\ ended["sdt"] = "no"
        /\ ended \in [{"nit", "sdt"} -> {"no", "complete", "late", "failed"}]
    OBVIOUS
  <2>2. elapsed \in 0..(ServiceScan + 1)
    BY ScanAssumption
  <2>. QED  BY <2>1, <2>2 DEF Control
<1>2. reg.platforms = <<>> /\ reg.multiplexes = <<>> /\ reg.services = <<>> /\ reg.networks = <<>>
  BY DEF NoEntries
<1>3. reg \in Registries
  BY DEF NoEntries, Registries
<1>4. Sane(reg)
  BY <1>2, <1>3 DEF Sane, Once, Linked
<1>5. Nits(parsed) = {} /\ Told(parsed) = {}
  BY DEF Nits, Told, Sdts
<1>6. Typed(reg.services, Told(parsed))
  BY <1>2, <1>5 DEF Typed
<1>7. Passes
  BY <1>2, <1>4, <1>5, <1>6 DEF Passes, Good
<1>8. Marks /\ Document
  BY <1>2 DEF Marks, Document, MarkedAreHeard, HeardAreMarked
<1>. QED  BY <1>1, <1>7, <1>8 DEF IInv

LEMMA ReadNitKeeps ==
  ASSUME IInv, NEW t \in NitTables, ReadNit(t)
  PROVE  IInv'
<1>1. pc = "nit" /\ waiting' = FALSE /\ parsed' = parsed \cup {t} /\ reg' = ParseSi(reg, t)
      /\ Nits(parsed) = {} /\ Good(reg, parsed) /\ matchflag' = matchflag /\ out' = out
  BY DEF ReadNit, IInv, Passes
<1>2. (t.table_id = NITActual => t \in NitTable) /\ (IsSdt(t) => t \in SdtTable)
  BY ScanAssumption
<1>3. /\ Good(reg', parsed') /\ Later(reg, reg')
      /\ MarksKept(reg.multiplexes, reg'.multiplexes)
  <2>1. CASE t.table_id = NITActual
    <3>1. reg' = ParseNit(reg, t)
      BY <1>1, <2>1 DEF ParseSi, IsSdt, NITActual, SDTActual, SDTOther
    <3>. QED  BY <1>1, <1>2, <2>1, <3>1, NitGood
  <2>2. CASE IsSdt(t)
    <3>1. t.table_id # NITActual
      BY <2>2 DEF IsSdt, NITActual, SDTActual, SDTOther
    <3>2. reg' = ParseSdt(reg, t)
      BY <1>1, <2>2, <3>1 DEF ParseSi
    <3>. QED  BY <1>1, <1>2, <2>2, <3>2, SdtGood
  <2>3. CASE t.table_id # NITActual /\ ~IsSdt(t)
    <3>1. reg' = reg
      BY <1>1, <2>3 DEF ParseSi
    <3>2. Later(reg, reg') /\ MarksKept(reg.multiplexes, reg'.multiplexes)
      BY <1>1, <3>1, SameMarks DEF Later, Good
    <3>. QED  BY <1>1, <2>3, <3>1, <3>2, OtherGood
  <2>. QED  BY <2>1, <2>2, <2>3
<1>4. IF t.table_id = NITActual
      THEN ended' = [ended EXCEPT !["nit"] = "complete"] /\ pc' = "sdt" /\ elapsed' = 0
      ELSE UNCHANGED <<pc, elapsed, ended>>
  BY <1>1 DEF ReadNit, EndPass
<1>5. Control' /\ ended'["sdt"] = "no"
  <2>1. Control /\ 0 \in 0..(ServiceScan + 1)
    BY ScanAssumption DEF IInv
  <2>2. /\ ended' \in [{"nit", "sdt"} -> {"no", "complete", "late", "failed"}]
        /\ ended'["sdt"] = "no"
    BY <1>1, <1>4, <2>1, PassEnds DEF Control
  <2>. QED  BY <1>1, <1>4, <2>1, <2>2 DEF Control
<1>6. pc' = "nit" => Nits(parsed') = {}
  BY <1>1, <1>4 DEF Nits
<1>7. Document'
  BY <1>1, <1>4 DEF IInv, Document
<1>8. Marks'
  <2>1. Marks /\ matchflag' = Unset
    BY <1>1 DEF IInv, Marks
  <2>2. MarkedAreHeard(reg', parsed')
    BY <1>1, <1>3, <2>1, MarksStay DEF Marks
  <2>3. ASSUME SdtsApart PROVE \A u \in parsed' : ~IsSdt(u)
    BY <1>1, <2>1, <2>3 DEF Marks, SdtsApart
  <2>4. SdtsApart => HeardAreMarked(reg', parsed')
    BY <2>3 DEF HeardAreMarked, HeardIn
  <2>5. matchflag' # 0
    BY <2>1 DEF Unset
  <2>6. SdtsApart' <=> SdtsApart
    BY DEF SdtsApart
  <2>. QED  BY <1>5, <2>1, <2>2, <2>3, <2>4, <2>5, <2>6 DEF Marks
<1>. QED  BY <1>3, <1>5, <1>6, <1>7, <1>8 DEF IInv, Passes

LEMMA ReadSdtKeeps ==
  ASSUME IInv, NEW t \in SdtTables, ReadSdt(t)
  PROVE  IInv'
<1> DEFINE after == ParseSi(reg, t)
           mux == MuxLocate(after, t.uri)
<1>1. pc = "sdt" /\ IsSdt(t) /\ t \in SdtTable /\ waiting' = FALSE /\ parsed' = parsed \cup {t}
      /\ Good(reg, parsed) /\ out' = out /\ out = <<>> /\ ended["sdt"] = "no"
      /\ matchflag' = IF CheckMuxes(reg', t.uri) THEN 1 ELSE 0
  BY ScanAssumption DEF ReadSdt, IInv, Passes, Document, Control
<1>2. reg' = IF mux # 0 THEN MuxSetData(after, mux) ELSE after
  BY DEF ReadSdt
<1>3. IF matchflag' = 1
      THEN ended' = [ended EXCEPT !["sdt"] = "complete"] /\ pc' = "write" /\ elapsed' = 0
      ELSE UNCHANGED <<pc, elapsed, ended>>
  BY <1>1 DEF ReadSdt, EndPass
<1>4. after = ParseSdt(reg, t)
  <2>1. t.table_id # NITActual
    BY <1>1 DEF IsSdt, NITActual, SDTActual, SDTOther
  <2>. QED  BY <1>1, <2>1 DEF ParseSi
<1> HIDE DEF after, mux
<1>5. /\ Good(after, parsed') /\ Later(reg, after)
      /\ MarksKept(reg.multiplexes, after.multiplexes) /\ NewIs(t.uri, reg.multiplexes, after.multiplexes)
  BY <1>1, <1>4, SdtGood
<1>6. Good(reg', parsed')
  BY <1>2, <1>5, MarkGood DEF mux
<1>7. Control'
  <2>1. Control /\ 0 \in 0..(ServiceScan + 1)
    BY ScanAssumption DEF IInv
  <2>2. ended' \in [{"nit", "sdt"} -> {"no", "complete", "late", "failed"}]
    BY <1>1, <1>3, <2>1, PassEnds DEF Control
  <2>3. pc' \in {"nit", "sdt"} => ended'["sdt"] = "no"
    BY <1>1, <1>3
  <2>4. pc' \in {"sdt", "write"} /\ elapsed' \in 0..(ServiceScan + 1) /\ matchflag' \in {Unset, 0, 1}
    BY <1>1, <1>3, <2>1 DEF Control
  <2>. QED  BY <1>1, <2>1, <2>2, <2>3, <2>4 DEF Control
<1>8. Marks'
  <2>1. Marks
    BY DEF IInv
  <2>2. /\ MarkedAreHeard(reg', parsed')
        /\ HeardAreMarked(reg, parsed) => HeardAreMarked(reg', parsed')
    <3>1. MarkedAreHeard(reg, parsed)
      BY <2>1 DEF Marks
    <3>2. mux = MuxLocate(after, t.uri)
      BY DEF mux
    <3>3. /\ MarkedAreHeard(reg', parsed \cup {t})
          /\ HeardAreMarked(reg, parsed) => HeardAreMarked(reg', parsed \cup {t})
      BY <1>1, <1>2, <1>5, <3>1, <3>2, SdtMarks
    <3>. QED  BY <1>1, <3>3
  <2>3. AllMarked' <=> CheckMuxes(reg', t.uri)
    <3>1. reg'.multiplexes \in Seq(Mux)
      BY <1>6, Parts DEF Good, Sane
    <3>. QED  BY <3>1 DEF AllMarked, CheckMuxes, Mux
  <2>4. matchflag' = IF AllMarked' THEN 1 ELSE 0
    BY <1>1, <2>3
  <2>5. pc' # "nit" /\ (ended'["sdt"] = "complete" => matchflag' = 1)
    BY <1>1, <1>3
  <2>6. SdtsApart' <=> SdtsApart
    BY DEF SdtsApart
  <2>. QED  BY <2>1, <2>2, <2>4, <2>5, <2>6 DEF Marks
<1>9. Document' /\ Passes'
  BY <1>1, <1>3, <1>6 DEF Document, Passes
<1>. QED  BY <1>7, <1>8, <1>9 DEF IInv

(* The steps that leave the registries alone.                               *)
LEMMA PassGoesOn ==
  ASSUME IInv, UNCHANGED <<pc, reg, matchflag, ended, parsed, out>>,
         waiting' \in BOOLEAN, waiting' => pc \in {"nit", "sdt"}, elapsed' \in 0..(ServiceScan + 1)
  PROVE  IInv'
<1>1. Control'
  BY DEF IInv, Control
<1>2. Marks'
  BY DEF IInv, Marks, SdtsApart, AllMarked
<1>. QED  BY <1>1, <1>2 DEF IInv, Passes, Document

LEMMA PassEnded ==
  ASSUME IInv, UNCHANGED <<reg, matchflag, parsed, out>>, waiting' = FALSE, pc \in {"nit", "sdt"},
         NEW how \in {"complete", "late", "failed"}, EndPass(how), how = "complete" => matchflag = Unset
  PROVE  IInv'
<1>1. /\ ended' = [ended EXCEPT ![pc] = how] /\ pc' = IF pc = "nit" THEN "sdt" ELSE "write"
      /\ elapsed' = 0
  BY DEF EndPass
<1>2. Control /\ 0 \in 0..(ServiceScan + 1)
  BY ScanAssumption DEF IInv
<1>3. /\ ended' \in [{"nit", "sdt"} -> {"no", "complete", "late", "failed"}]
      /\ ended'["sdt"] = IF pc = "sdt" THEN how ELSE ended["sdt"]
  BY <1>1, <1>2, PassEnds DEF Control
<1>4. Control'
  BY <1>1, <1>2, <1>3 DEF Control
<1>5. Marks'
  <2>1. Marks /\ (ended'["sdt"] = "complete" => matchflag = Unset \/ ended["sdt"] = "complete")
    BY <1>3 DEF IInv
  <2>2. pc' # "nit" /\ (pc' = "sdt" => matchflag = Unset)
    BY <1>1, <2>1 DEF Marks
  <2>3. Unset # 0
    BY DEF Unset
  <2>. QED  BY <2>1, <2>2, <2>3 DEF Marks, SdtsApart, AllMarked
<1>6. Passes' /\ Document'
  BY <1>1 DEF IInv, Passes, Document
<1>. QED  BY <1>4, <1>5, <1>6 DEF IInv

LEMMA WriteKeeps ==
  ASSUME IInv, WriteServices
  PROVE  IInv'
<1>1. Sane(reg)
  BY DEF IInv, Passes, Good
<1>2. reg.services \in Seq(Service) /\ Once(reg.services)
  BY <1>1, Parts DEF Sane
<1>3. WrittenUpTo(out', reg.services, Len(reg.services))
  BY <1>2, WrittenAll DEF WriteServices
<1>. QED  BY <1>3 DEF WriteServices, IInv, Control, Passes, Marks, AllMarked, SdtsApart, Document

LEMMA Step == IInv /\ [Next]_vars => IInv'
<1> SUFFICES ASSUME IInv, [Next]_vars PROVE IInv'
  OBVIOUS
<1>1. /\ ServiceScan \in Nat \ {0} /\ elapsed \in 0..(ServiceScan + 1)
      /\ waiting \in BOOLEAN /\ (waiting => pc \in {"nit", "sdt"})
  BY ScanAssumption DEF IInv, Control
<1>2. CASE Tick
  <2>1. elapsed' \in 0..(ServiceScan + 1)
    BY <1>1, <1>2 DEF Tick
  <2>. QED  BY <1>1, <1>2, <2>1, PassGoesOn DEF Tick
<1>3. CASE Wait
  BY <1>1, <1>3, PassGoesOn DEF Wait, pass
<1>4. CASE NoTableYet
  BY <1>1, <1>4, PassGoesOn DEF NoTableYet, pass
<1>5. CASE EndTime
  BY <1>1, <1>5, PassEnded DEF EndTime
<1>6. CASE ReadFails
  BY <1>1, <1>6, PassEnded DEF ReadFails
<1>7. CASE WriteServices
  BY <1>7, WriteKeeps
<1>8. ASSUME NEW t \in NitTables, ReadNit(t)
      PROVE  IInv'
  BY <1>8, ReadNitKeeps
<1>9. ASSUME NEW t \in SdtTables, ReadSdt(t)
      PROVE  IInv'
  BY <1>9, ReadSdtKeeps
<1>10. ASSUME NEW t \in SdtTables, SkipTable(t)
       PROVE  IInv'
  <2>1. pc = "sdt" /\ waiting' = FALSE /\ UNCHANGED <<reg, matchflag, parsed, out>>
    BY <1>10 DEF SkipTable
  <2>2. CASE UNCHANGED <<pc, elapsed, ended>>
    BY <1>1, <2>1, <2>2, PassGoesOn
  <2>3. CASE matchflag = Unset /\ EndPass("complete")
    BY <2>1, <2>3, PassEnded
  <2>. QED  BY <1>10, <2>2, <2>3 DEF SkipTable
<1>11. CASE UNCHANGED vars
  BY <1>1, <1>11, PassGoesOn DEF vars
<1>. QED  BY <1>2, <1>3, <1>4, <1>5, <1>6, <1>7, <1>8, <1>9, <1>10, <1>11 DEF Next, Tool

THEOREM Invariant == Spec => []IInv
BY Start, Step, PTL DEF Spec

-----------------------------------------------------------------------------
(* Every variable has its type, and every index into a registry is one of   *)
(* an entry, whatever tables come (the arrays of dvb/networks.c and         *)
(* dvb/services.c).                                                         *)
THEOREM TypeCorrect == Spec => []TypeOK
<1>1. IInv => TypeOK
  <2> SUFFICES ASSUME IInv PROVE TypeOK
    OBVIOUS
  <2>1. Control /\ Good(reg, parsed) /\ Document /\ Sane(reg)
    BY DEF IInv, Passes, Good
  <2>2. reg \in Registries
    BY <2>1 DEF Sane
  <2>3. out \in Seq(Service)
    <3>1. <<>> \in Seq(Service)
      OBVIOUS
    <3>. QED  BY <2>1, <3>1 DEF Document, Control, WrittenUpTo
  <2>4. \A i \in DOMAIN reg.networks : LET n == reg.networks[i] IN
          /\ \A k \in DOMAIN n.mux : n.mux[k] \in DOMAIN reg.multiplexes
          /\ \A k \in DOMAIN n.service : n.service[k].service \in DOMAIN reg.services
    BY <2>1 DEF Sane, Listed
  <2>. QED  BY <2>1, <2>2, <2>3, <2>4 DEF TypeOK, Control
<1>. QED  BY <1>1, Invariant, PTL

(* The second pass ends on an SDT as soon as one of every multiplex was     *)
(* read, and not before (dvb2xrd.c:164-176, 211-220).                       *)
THEOREM EndsOnLast == Spec => []EndsWithLastMux
<1>1. IInv => EndsWithLastMux
  <2> SUFFICES ASSUME IInv PROVE EndsWithLastMux
    OBVIOUS
  <2>1. Marks
    BY DEF IInv
  <2>2. \A i \in DOMAIN reg.multiplexes :
          Heard(reg.multiplexes[i].uri) <=> HeardIn(parsed, reg.multiplexes[i].uri)
    BY DEF Heard, HeardIn
  <2>3. AllMarked => Missing = {}
    BY <2>1, <2>2 DEF Marks, MarkedAreHeard, AllMarked, Missing
  <2>4. SdtsApart /\ ~AllMarked => Missing # {}
    BY <2>1, <2>2 DEF Marks, HeardAreMarked, AllMarked, Missing
  <2>. QED  BY <2>1, <2>3, <2>4 DEF Marks, EndsWithLastMux
<1>. QED  BY <1>1, Invariant, PTL

(* Every service points to the multiplex of its name, and a network lists   *)
(* the multiplex of each of its channels (nit.c:244-246, sdt.c:67-69).      *)
THEOREM ServicesOnMux == Spec => []ServicesOnTheirMux
<1>1. IInv => ServicesOnTheirMux
  <2> SUFFICES ASSUME IInv PROVE ServicesOnTheirMux
    OBVIOUS
  <2>1. Sane(reg)
    BY DEF IInv, Passes, Good
  <2>2. reg.multiplexes \in Seq(Mux)
    BY <2>1, Parts DEF Sane
  <2>3. 0 \notin DOMAIN reg.multiplexes
    BY <2>2
  <2>4. \A i \in DOMAIN reg.services : LET s == reg.services[i] IN
          s.mux # 0 /\ reg.multiplexes[s.mux].uri = MuxOf(s.uri)
    BY <2>1, <2>3 DEF Sane, Linked
  <2>5. \A i \in DOMAIN reg.networks : LET n == reg.networks[i] IN
          \A k \in DOMAIN n.service : \E j \in DOMAIN n.mux :
            n.mux[j] = reg.services[n.service[k].service].mux
    BY <2>1 DEF Sane, Listed
  <2>. QED  BY <2>4, <2>5 DEF ServicesOnTheirMux
<1>. QED  BY <1>1, Invariant, PTL

(* The network lists the multiplexes of its NIT, and under each channel     *)
(* number the service that the NIT gave it last, whatever SDTs came since   *)
(* (nit.c:94-107, sdt.c:67-69).                                             *)
THEOREM MirrorsNit == Spec => []NetworkMirrorsNit
<1>1. IInv => NetworkMirrorsNit
  <2> SUFFICES ASSUME IInv, NEW t \in Nits(parsed)
               PROVE  LET n == reg.networks[NetworkLocate(reg, AddedAs(t.network))]
                      IN  /\ n.version = t.version
                          /\ {reg.multiplexes[n.mux[k]].uri : k \in DOMAIN n.mux}
                               = {t.ts[i].uri : i \in DOMAIN t.ts}
                          /\ {<<n.service[k].lcn, reg.services[n.service[k].service].uri>> :
                                k \in DOMAIN n.service} = Lineup(t)
    BY DEF NetworkMirrorsNit, Nits
  <2>1. Mirrors(reg, t) /\ Sane(reg)
    BY DEF IInv, Passes, Good
  <2>2. NetworkLocate(reg, AddedAs(t.network)) = 1
    <3>1. reg.networks \in Seq(Network) /\ Once(reg.networks)
      BY <2>1, Parts DEF Sane, Mirrors, Once
    <3>. QED  BY <2>1, <3>1, FoundAt DEF Mirrors, NetworkLocate
  <2>. QED  BY <2>1, <2>2 DEF Mirrors, MuxNames, Channels
<1>. QED  BY <1>1, Invariant, PTL

LEMMA HeardIsTold ==
  ASSUME Control, NEW u
  PROVE  TypesHeard(u) = {x[2] : x \in {y \in Told(parsed) : y[1] = u}}
<1> DEFINE heard == {x[2] : x \in {y \in Told(parsed) : y[1] = u}}
<1>1. \A t \in Sdts(parsed) : t.services \in Seq(SdtEntry) /\ DOMAIN t.services = 1..Len(t.services)
  <2>1. \A t \in Sdts(parsed) : t \in SdtTable
    BY ScanAssumption DEF Sdts, Control
  <2>. QED  BY <2>1 DEF SdtTable
<1>2. ASSUME NEW type \in TypesHeard(u) PROVE type \in heard
  <2>1. PICK t \in Sdts(parsed) :
          type \in {t.services[i].type : i \in {k \in DOMAIN t.services : ServiceOf(t.uri, t.services[k].sid) = u}}
    BY DEF TypesHeard, Sdts
  <2>2. PICK i \in DOMAIN t.services : ServiceOf(t.uri, t.services[i].sid) = u /\ type = t.services[i].type
    BY <2>1
  <2>3. <<u, type>> \in Said(t, Len(t.services))
    BY <1>1, <2>2 DEF Said
  <2>4. <<u, type>> \in Told(parsed)
    BY <2>3 DEF Told
  <2>5. <<u, type>>[1] = u /\ <<u, type>>[2] = type
    OBVIOUS
  <2>. QED  BY <2>4, <2>5
<1>3. ASSUME NEW type \in heard PROVE type \in TypesHeard(u)
  <2>1. PICK y \in Told(parsed) : y[1] = u /\ type = y[2]
    BY <1>3
  <2>2. PICK t \in Sdts(parsed) : y \in Said(t, Len(t.services))
    BY <2>1 DEF Told
  <2>3. PICK i \in 1..Len(t.services) : y = <<ServiceOf(t.uri, t.services[i].sid), t.services[i].type>>
    BY <2>2 DEF Said
  <2>4. i \in DOMAIN t.services /\ ServiceOf(t.uri, t.services[i].sid) = u /\ type = t.services[i].type
    BY <1>1, <2>1, <2>3
  <2>. QED  BY <2>4 DEF TypesHeard, Sdts
<1> HIDE DEF heard
<1>. QED  BY <1>2, <1>3 DEF heard

(* The document lists each service once: one that every SDT parsed gives    *)
(* television or radio, and none that no SDT does (tvanytime.c:41-71,       *)
(* services.c:270-288).                                                     *)
THEOREM ListsServices == Spec => []OutputListsServices
<1>1. IInv => OutputListsServices
  <2> SUFFICES ASSUME IInv, pc = "done"
               PROVE  /\ \A i, j \in DOMAIN out : out[i].uri = out[j].uri => i = j
                      /\ \A i \in DOMAIN out : out[i].type \in TypesHeard(out[i].uri)
                      /\ \A i \in DOMAIN reg.services : LET heard == TypesHeard(reg.services[i].uri) IN
                           heard # {} /\ heard \subseteq {"tv", "radio"}
                             => \E j \in DOMAIN out : out[j].uri = reg.services[i].uri
    BY DEF OutputListsServices
  <2>1. /\ Control /\ Typed(reg.services, Told(parsed)) /\ reg.services \in Seq(Service)
        /\ WrittenUpTo(out, reg.services, Len(reg.services))
    BY Parts DEF IInv, Passes, Good, Document, Sane
  <2>2. DOMAIN reg.services = 1..Len(reg.services)
    BY <2>1
  <2>3. ASSUME NEW k \in DOMAIN reg.services, reg.services[k].type # "reserved"
        PROVE  reg.services[k].type \in TypesHeard(reg.services[k].uri)
    <3> DEFINE s == reg.services[k]
    <3>1. <<s.uri, s.type>> \in Told(parsed)
      BY <2>1, <2>3 DEF Typed, TypeSaid
    <3>2. <<s.uri, s.type>>[1] = s.uri /\ <<s.uri, s.type>>[2] = s.type
      OBVIOUS
    <3>. QED  BY <2>1, <3>1, <3>2, HeardIsTold
  <2>4. ASSUME NEW i \in DOMAIN out
        PROVE  out[i].type \in TypesHeard(out[i].uri)
    <3>1. PICK k \in DOMAIN reg.services : out[i] = reg.services[k] /\ Written(reg.services[k])
      BY <2>1, <2>2 DEF WrittenUpTo
    <3>2. reg.services[k].type # "reserved"
      BY <3>1 DEF Written
    <3>. QED  BY <2>3, <3>1, <3>2
  <2>5. ASSUME NEW k \in DOMAIN reg.services, TypesHeard(reg.services[k].uri) # {},
               TypesHeard(reg.services[k].uri) \subseteq {"tv", "radio"}
        PROVE  \E j \in DOMAIN out : out[j].uri = reg.services[k].uri
    <3> DEFINE s == reg.services[k]
    <3>1. \A type : <<s.uri, type>> \in Told(parsed) => type \in TypesHeard(s.uri)
      <4> SUFFICES ASSUME NEW type, <<s.uri, type>> \in Told(parsed) PROVE type \in TypesHeard(s.uri)
        OBVIOUS
      <4>1. <<s.uri, type>>[1] = s.uri /\ <<s.uri, type>>[2] = type
        OBVIOUS
      <4>. QED  BY <2>1, <4>1, HeardIsTold
    <3>2. \E type : <<s.uri, type>> \in Told(parsed)
      <4>1. PICK y \in Told(parsed) : y[1] = s.uri
        BY <2>1, <2>5, HeardIsTold
      <4>2. y = <<y[1], y[2]>>
        <5>1. PICK t \in Sdts(parsed) : y \in Said(t, Len(t.services))
          BY DEF Told
        <5>. QED  BY <5>1 DEF Said
      <4>. QED  BY <4>1, <4>2
    <3>3. s.type # "reserved"
      BY <2>1, <2>5, <3>1, <3>2 DEF Typed, TypeSaid
    <3>4. Written(s)
      BY <2>3, <2>5, <3>3 DEF Written
    <3>5. PICK j \in DOMAIN out : out[j] = s
      BY <2>1, <2>2, <3>4 DEF WrittenUpTo
    <3>. QED  BY <3>5
  <2>6. \A i, j \in DOMAIN out : out[i].uri = out[j].uri => i = j
    BY <2>1 DEF WrittenUpTo, Once
  <2>. QED  BY <2>4, <2>5, <2>6
<1>. QED  BY <1>1, Invariant, PTL
=============================================================================
