-------------------------- MODULE DemuxTable_proofs --------------------------
(***************************************************************************)
(* Proofs about the section collector, for every set of sub-tables, every  *)
(* number of sections and every number of changes.                         *)
(***************************************************************************)
EXTENDS DemuxTable, TLAPS

USE WireAssumption, NullAssumption

(* The next number in a field that counts from 0 to n.                      *)
LEMMA NextVersion ==
  ASSUME NEW n \in Nat \ {0}, NEW v \in 0..n
  PROVE  /\ v # n => (v + 1) % (n + 1) = v + 1
         /\ v = n => (v + 1) % (n + 1) = 0
         /\ (v + 1) % (n + 1) # v
<1>1. ASSUME NEW a \in Nat, NEW b \in Nat, a < b
      PROVE  a % b = a
  BY <1>1, SMT
<1>2. ASSUME NEW b \in Nat \ {0}
      PROVE  b % b = 0
  BY SMT
<1>3. v # n => v + 1 < n + 1
  OBVIOUS
<1>4. QED
  BY <1>1, <1>2, <1>3

(* Two sub-tables never share a key when one of them is collected.          *)
LEMMA KeysApart ==
  ASSUME NEW a \in Collected, NEW b \in SubTable
  PROVE  /\ a \in SubTable
         /\ KeyOf(a) \in Key
         /\ KeyOf(b) = KeyOf(a) => b = a
BY DistinctKeys DEF Collected, Key

(* NoTable is a table, and resetting gives one.                             *)
LEMMA ResetTyped ==
  ASSUME NEW n \in 0..(MaxLast + 1)
  PROVE  Reset(n) \in Table
<1>1. [i \in 0..(n - 1) |-> NULL] \in [0..(n - 1) -> Section \cup {NULL}]
  OBVIOUS
<1>2. [i \in 0..(n - 1) |-> NULL] \in Slots
  BY <1>1 DEF Slots
<1>3. QED
  BY <1>2 DEF Reset, Table

(* Filling a slot of a table gives a table.                                 *)
LEMMA FillTyped ==
  ASSUME NEW t \in Table, NEW i, NEW s \in Section
  PROVE  [t EXCEPT !.sections[i] = s] \in Table
<1>1. PICK n \in 0..(MaxLast + 1) : t.sections \in [0..(n - 1) -> Section \cup {NULL}]
  BY DEF Table, Slots
<1>2. [t.sections EXCEPT ![i] = s] \in [0..(n - 1) -> Section \cup {NULL}]
  BY <1>1
<1>3. [t.sections EXCEPT ![i] = s] \in Slots
  BY <1>2 DEF Slots
<1>4. QED
  BY <1>3 DEF Table

LEMMA AdoptTyped ==
  ASSUME NEW t \in Table, NEW s \in SectionsOnWire
  PROVE  Adopt(t, s) \in Table
<1>1. /\ s.of \in SubTable
      /\ s.version \in Version
      /\ Last[s.of][s.version] + 1 \in 0..(MaxLast + 1)
  BY DEF SectionsOnWire, Section, Version
<1>2. Reset(Last[s.of][s.version] + 1) \in Table
  BY <1>1, ResetTyped
<1>3. [Reset(Last[s.of][s.version] + 1) EXCEPT !.version = s.version] \in Table
  BY <1>1, <1>2, SMTT(30) DEF Table, Version
<1>4. QED
  BY <1>3 DEF Adopt

LEMMA SectionAddTyped ==
  ASSUME NEW t \in Table, NEW s \in SectionsOnWire
  PROVE  SectionAdd(t, s) \in Table
BY AdoptTyped, FillTyped DEF SectionAdd, SectionsOnWire

LEMMA TypeInit == Init => TypeOK
<1>1. NoTable \in Table
  BY ResetTyped DEF NoTable
<1>2. QED
  BY <1>1 DEF Init, TypeOK

(* The lone slot of a table of an unlisted id.                              *)
LEMMA UnversionedTyped ==
  ASSUME NEW s \in SectionsOnWire
  PROVE  /\ [Reset(1) EXCEPT !.sections[0] = s] \in Table
         /\ Reset(1) \in Table
<1>1. 1 \in 0..(MaxLast + 1)
  OBVIOUS
<1>2. QED
  BY <1>1, ResetTyped, FillTyped DEF SectionsOnWire

LEMMA TypeNext == TypeOK /\ [Next]_vars => TypeOK'
<1> SUFFICES ASSUME TypeOK, [Next]_vars
             PROVE  TypeOK'
  OBVIOUS
<1>1. ASSUME NEW st \in SubTable, NewVersion(st)
      PROVE  TypeOK'
  <2>1. (air[st] + 1) % (MaxVersion + 1) \in Version
    BY DEF TypeOK, Version
  <2>2. air' \in [SubTable -> Version]
    BY <1>1, <2>1 DEF NewVersion, TypeOK
  <2>3. changes' \in [SubTable -> 0..MaxChanges]
    BY <1>1 DEF NewVersion, TypeOK
  <2>4. QED
    BY <1>1, <2>2, <2>3 DEF NewVersion, TypeOK
<1>2. ASSUME NEW s \in SectionsOnWire
      PROVE  KeyOf(s.of) \in Key
  BY <1>2 DEF SectionsOnWire, Section, Key
<1>3. ASSUME NEW s \in SectionsOnWire, ReadVersioned(s)
      PROVE  TypeOK'
  <2>1. SectionAdd(tables[KeyOf(s.of)], s) \in Table
    BY <1>2, SectionAddTyped DEF TypeOK
  <2>2. tables' \in [Key -> Table]
    BY <1>3, <2>1 DEF ReadVersioned, TypeOK
  <2>3. QED
    BY <1>2, <1>3, <2>2 DEF ReadVersioned, TypeOK
<1>4. ASSUME NEW s \in SectionsOnWire, ReadUnversioned(s)
      PROVE  TypeOK'
  BY <1>2, <1>4, UnversionedTyped DEF ReadUnversioned, TypeOK
<1>5. ASSUME NEW s \in SectionsOnWire, ReadUnversionedNoCopy(s)
      PROVE  TypeOK'
  BY <1>2, <1>5, UnversionedTyped DEF ReadUnversionedNoCopy, TypeOK
<1>6. ASSUME NEW s \in SectionsOnWire, OutOfMemory(s)
      PROVE  TypeOK'
  BY <1>6 DEF OutOfMemory, TypeOK
<1>7. CASE UNCHANGED vars
  BY <1>7 DEF vars, TypeOK
<1>8. QED
  BY <1>1, <1>3, <1>4, <1>5, <1>6, <1>7 DEF Next, Read

(* The collector's variables keep their types; context->tables holds at     *)
(* most one table for each key.                                             *)
THEOREM TypeCorrect == Spec => []TypeOK
BY TypeInit, TypeNext, PTL DEF Spec

-----------------------------------------------------------------------------
(***************************************************************************)
(* What is stored is not mixed.  NoMixing is inductive given the types.    *)
(***************************************************************************)
LEMMA AdoptUnmixed ==
  ASSUME NEW s \in SectionsOnWire, NEW t \in Table,
         Unmixed(s.of, t), t.version <= s.version
  PROVE  /\ Adopt(t, s) \in Table
         /\ Adopt(t, s).version = s.version
         /\ DOMAIN Adopt(t, s).sections = 0..Last[s.of][s.version]
         /\ s.number \in DOMAIN Adopt(t, s).sections
         /\ \A i \in DOMAIN Adopt(t, s).sections :
              Adopt(t, s).sections[i] \in
                {NULL, [of |-> s.of, version |-> s.version, number |-> i]}
<1>1. /\ s.of \in SubTable /\ s.version \in Version /\ s.number \in 0..MaxLast
      /\ s.number <= Last[s.of][s.version]
      /\ Last[s.of][s.version] \in Nat
      /\ s.number \in 0..Last[s.of][s.version]
  BY DEF SectionsOnWire, Section, OnWire, Version
<1>2. t.version \in -1..MaxVersion
  BY DEF Table
<1>3. CASE t.version < s.version
  <2> DEFINE last == Last[s.of][s.version]
             fresh == [version |-> -1, sections |-> [i \in 0..last |-> NULL]]
  <2>1. Reset(last + 1) = fresh
    <3>1. (last + 1) - 1 = last
      BY <1>1
    <3>2. QED
      BY <3>1 DEF Reset
  <2>2. Adopt(t, s) = [fresh EXCEPT !.version = s.version]
    BY <1>3, <2>1 DEF Adopt
  <2>3. Adopt(t, s) = [version |-> s.version, sections |-> [i \in 0..last |-> NULL]]
    BY <2>2
  <2>4. \A i \in 0..last : Adopt(t, s).sections[i] = NULL
    BY <2>3
  <2>5. Adopt(t, s).version = s.version /\ DOMAIN Adopt(t, s).sections = 0..last
    BY <2>3
  <2>6. Adopt(t, s) \in Table
    BY AdoptTyped
  <2>7. QED
    BY <1>1, <2>4, <2>5, <2>6
<1>4. CASE t.version = s.version
  <2>1. Adopt(t, s) = t
    BY <1>1, <1>4 DEF Adopt, Version
  <2>2. t # NoTable
    <3>1. NoTable.version = -1
      BY DEF NoTable, Reset
    <3>2. QED
      BY <1>1, <1>4, <3>1 DEF Version
  <2>3. QED
    BY <1>1, <1>4, <2>1, <2>2 DEF Unmixed
<1>5. QED
  BY <1>1, <1>2, <1>3, <1>4 DEF Version

(* Adding a section of a sub-table to an unmixed table of it leaves one     *)
(* that is unmixed, of a version at least as great, and in the same version *)
(* with every section it had.                                               *)
LEMMA SectionAddUnmixed ==
  ASSUME NEW s \in SectionsOnWire, NEW t \in Table, Unmixed(s.of, t)
  PROVE  LET u == SectionAdd(t, s) IN
         /\ Unmixed(s.of, u)
         /\ u # NoTable
         /\ u.version \in Version
         /\ u.version = t.version \/ (t.version < u.version /\ u.version = s.version)
         /\ s.version <= u.version
         /\ t.version = u.version =>
              \A i \in DOMAIN t.sections :
                t.sections[i] # NULL => u.sections[i] = t.sections[i]
<1> DEFINE u == SectionAdd(t, s)
<1>1. /\ s.version \in Version /\ t.version \in -1..MaxVersion
      /\ s = [of |-> s.of, version |-> s.version, number |-> s.number]
      /\ s.of \in SubTable
  BY DEF SectionsOnWire, Section, Table
<1>2. NoTable.version = -1
  BY DEF NoTable, Reset
<1>3. CASE Stores(t, s)
  <2> DEFINE a == Adopt(t, s)
  <2>1. t.version <= s.version
    BY <1>3 DEF Stores
  <2>2. /\ a \in Table
        /\ a.version = s.version
        /\ DOMAIN a.sections = 0..Last[s.of][s.version]
        /\ s.number \in DOMAIN a.sections
        /\ \A i \in DOMAIN a.sections :
             a.sections[i] \in {NULL, [of |-> s.of, version |-> s.version, number |-> i]}
    BY <2>1, AdoptUnmixed
  <2>3. u = [a EXCEPT !.sections = [a.sections EXCEPT ![s.number] = s]]
    BY <1>3 DEF SectionAdd
  <2> HIDE DEF a, u
  <2>4. u.version = s.version /\ u.sections = [a.sections EXCEPT ![s.number] = s]
    BY <2>2, <2>3 DEF Table
  <2>5. DOMAIN u.sections = DOMAIN a.sections
    BY <2>4
  <2>6. ASSUME NEW i \in DOMAIN u.sections
        PROVE  /\ u.sections[i] \in {NULL, [of |-> s.of, version |-> s.version, number |-> i]}
               /\ a.sections[i] # NULL /\ i # s.number => u.sections[i] = a.sections[i]
    BY <2>2, <2>4, <2>5, <1>1
  <2>7. Unmixed(s.of, u)
    BY <1>1, <2>2, <2>4, <2>5, <2>6 DEF Unmixed
  <2>8. ASSUME t.version = s.version
        PROVE  \A i \in DOMAIN t.sections :
                 t.sections[i] # NULL => u.sections[i] = t.sections[i]
    <3>1. a = t
      BY <2>8, <1>1 DEF a, Adopt, Version
    <3>2. a.sections[s.number] = NULL
      BY <1>3 DEF Stores, a
    <3>3. QED
      BY <3>1, <3>2, <2>4, <2>5, <2>6
  <2>9. QED
    BY <1>1, <1>2, <2>1, <2>4, <2>7, <2>8 DEF Version, u
<1>4. CASE ~Stores(t, s)
  <2>1. u = t
    BY <1>4 DEF SectionAdd
  <2>2. s.version <= t.version
    <3>1. SUFFICES ASSUME t.version < s.version PROVE FALSE
      BY <1>1 DEF Version
    <3>2. t.version <= s.version
      BY <1>1, <3>1 DEF Version
    <3>3. /\ Adopt(t, s) \in Table
          /\ s.number \in 0..Last[s.of][s.version]
      BY <3>2, AdoptUnmixed
    <3>4. (Last[s.of][s.version] + 1) - 1 = Last[s.of][s.version]
      BY <1>1 DEF Version
    <3>5. Adopt(t, s).sections[s.number] = NULL
      BY <3>1, <3>3, <3>4 DEF Adopt, Reset
    <3>6. QED
      BY <1>4, <3>2, <3>5 DEF Stores
  <2>3. t # NoTable
    BY <1>1, <1>2, <2>2 DEF Version
  <2>4. t.version \in Version
    BY <2>3 DEF Unmixed
  <2>5. QED
    BY <2>1, <2>2, <2>3, <2>4 DEF u
<1>5. QED
  BY <1>3, <1>4

(* How each kind of step changes the table of one collected sub-table: it   *)
(* adds a section of it, or does nothing to it.                             *)
LEMMA StepOfTable ==
  ASSUME TypeOK, [Next]_vars, NEW st \in Collected
  PROVE  \/ /\ UNCHANGED <<tables, ret>>
            /\ UNCHANGED vars \/ \E x \in SubTable : NewVersion(x)
         \/ \E s \in SectionsOnWire :
              /\ s.of = st
              /\ ReadVersioned(s)
              /\ tables'[KeyOf(st)] = SectionAdd(tables[KeyOf(st)], s)
         \/ tables'[KeyOf(st)] = tables[KeyOf(st)] /\ ret' # KeyOf(st)
<1> DEFINE k == KeyOf(st)
<1>1. st \in SubTable /\ k \in Key /\ k # NULL
  BY DEF Collected, Key
<1>2. ASSUME NEW s \in SectionsOnWire
      PROVE  /\ s.of \in SubTable /\ KeyOf(s.of) \in Key
             /\ s.of # st => KeyOf(s.of) # k
  BY KeysApart DEF SectionsOnWire, Section, Key
<1>3. ASSUME NEW s \in SectionsOnWire, ~Versioned(s.of)
      PROVE  KeyOf(s.of) # k
  BY <1>2, <1>3 DEF Collected
<1>4. CASE \E x \in SubTable : NewVersion(x)
  BY <1>4 DEF NewVersion
<1>5. ASSUME NEW s \in SectionsOnWire, ReadVersioned(s)
      PROVE  \/ /\ s.of = st
                /\ tables'[k] = SectionAdd(tables[k], s)
             \/ s.of # st /\ tables'[k] = tables[k] /\ ret' # k
  <2>1. tables' = [tables EXCEPT ![KeyOf(s.of)] = SectionAdd(@, s)]
    BY <1>5 DEF ReadVersioned
  <2>2. ret' \in {KeyOf(s.of), NULL}
    BY <1>5 DEF ReadVersioned
  <2>3. CASE s.of = st
    BY <1>1, <2>1, <2>3 DEF TypeOK
  <2>4. CASE s.of # st
    BY <1>1, <1>2, <2>1, <2>2, <2>4 DEF TypeOK
  <2>5. QED
    BY <2>3, <2>4
<1>6. ASSUME NEW s \in SectionsOnWire, ReadUnversioned(s) \/ ReadUnversionedNoCopy(s)
      PROVE  tables'[k] = tables[k] /\ ret' # k
  <2>1. ~Versioned(s.of)
    BY <1>6 DEF ReadUnversioned, ReadUnversionedNoCopy
  <2>2. KeyOf(s.of) # k
    BY <1>3, <2>1
  <2>3. QED
    BY <1>1, <1>6, <2>2 DEF ReadUnversioned, ReadUnversionedNoCopy, TypeOK
<1>7. ASSUME NEW s \in SectionsOnWire, OutOfMemory(s)
      PROVE  tables'[k] = tables[k] /\ ret' # k
  BY <1>1, <1>7 DEF OutOfMemory
<1>8. CASE UNCHANGED vars
  BY <1>8 DEF vars
<1>9. QED
  BY <1>4, <1>5, <1>6, <1>7, <1>8 DEF Next, Read

LEMMA MixingInit == Init => NoMixing
<1> SUFFICES ASSUME Init, NEW st \in Collected
             PROVE  tables[KeyOf(st)] = NoTable
  BY DEF NoMixing, Unmixed
<1> QED
  BY KeysApart DEF Init, Collected

LEMMA MixingNext == TypeOK /\ NoMixing /\ [Next]_vars => NoMixing'
<1> SUFFICES ASSUME TypeOK, NoMixing, [Next]_vars, NEW st \in Collected
             PROVE  Unmixed(st, tables'[KeyOf(st)])
  BY DEF NoMixing
<1>1. Unmixed(st, tables[KeyOf(st)]) /\ tables[KeyOf(st)] \in Table
  BY KeysApart DEF NoMixing, TypeOK, Collected
<1>2. CASE tables'[KeyOf(st)] = tables[KeyOf(st)]
  BY <1>1, <1>2
<1>3. ASSUME NEW s \in SectionsOnWire, s.of = st,
             tables'[KeyOf(st)] = SectionAdd(tables[KeyOf(st)], s)
      PROVE  Unmixed(st, tables'[KeyOf(st)])
  BY <1>1, <1>3, SectionAddUnmixed
<1>4. QED
  BY <1>2, <1>3, StepOfTable

(* At every moment each collected table holds sections of one version of    *)
(* one sub-table, each in its own slot, in an array of the right size.      *)
THEOREM NeverMixed == Spec => []NoMixing
BY TypeInit, TypeNext, MixingInit, MixingNext, PTL DEF Spec

-----------------------------------------------------------------------------
(***************************************************************************)
(* What is returned is whole.  The strengthening: a returned table that is *)
(* collected is complete and not empty; with NoMixing it is then the image *)
(* of one version.                                                         *)
(***************************************************************************)
ReturnedComplete ==
  \A st \in Collected :
    ret = KeyOf(st) => /\ tables[KeyOf(st)] # NoTable
                       /\ Complete(tables[KeyOf(st)])

LEMMA CompleteIsWhole ==
  ASSUME NEW st \in Collected, NEW t \in Table,
         Unmixed(st, t), t # NoTable, Complete(t)
  PROVE  Whole(st, t)
<1>1. /\ t.version \in Version
      /\ DOMAIN t.sections = 0..Last[st][t.version]
      /\ \A i \in DOMAIN t.sections :
           t.sections[i] = [of |-> st, version |-> t.version, number |-> i]
  BY DEF Unmixed, Complete
<1>2. PICK n \in 0..(MaxLast + 1) : t.sections \in [0..(n - 1) -> Section \cup {NULL}]
  BY DEF Table, Slots
<1>3. t.sections = [i \in 0..Last[st][t.version] |->
                      [of |-> st, version |-> t.version, number |-> i]]
  BY <1>1, <1>2
<1>4. QED
  BY <1>1, <1>3 DEF Whole

LEMMA ReturnedInit == Init => ReturnedComplete
BY KeysApart DEF Init, ReturnedComplete, Collected, Key

LEMMA ReturnedNext ==
  TypeOK /\ NoMixing /\ ReturnedComplete /\ [Next]_vars => ReturnedComplete'
<1> SUFFICES ASSUME TypeOK, NoMixing, ReturnedComplete, [Next]_vars,
                    NEW st \in Collected, ret' = KeyOf(st)
             PROVE  /\ tables'[KeyOf(st)] # NoTable
                    /\ Complete(tables'[KeyOf(st)])
  BY DEF ReturnedComplete, Complete
<1>1. /\ Unmixed(st, tables[KeyOf(st)])
      /\ tables[KeyOf(st)] \in Table
      /\ KeyOf(st) # NULL
  BY DEF NoMixing, TypeOK, Collected, Key
<1>2. CASE ret = KeyOf(st) /\ UNCHANGED <<tables, ret>>
  BY <1>2 DEF ReturnedComplete
<1>3. ASSUME NEW s \in SectionsOnWire, s.of = st, ReadVersioned(s),
             tables'[KeyOf(st)] = SectionAdd(tables[KeyOf(st)], s)
      PROVE  /\ tables'[KeyOf(st)] # NoTable
             /\ Complete(tables'[KeyOf(st)])
  <2>1. Complete(tables'[KeyOf(st)])
    BY <1>1, <1>3 DEF ReadVersioned
  <2>2. QED
    BY <1>1, <1>3, <2>1, SectionAddUnmixed
<1>4. QED
  BY <1>2, <1>3, StepOfTable

(* A caller of dvb_demux_read() is never handed part of a table, nor a      *)
(* table put together from two versions.                                    *)
THEOREM DeliversWholeTables == Spec => []DeliveredWhole
<1>1. TypeOK /\ NoMixing /\ ReturnedComplete => DeliveredWhole
  <2> SUFFICES ASSUME TypeOK, NoMixing, ReturnedComplete,
                      NEW st \in Collected, ret = KeyOf(st)
               PROVE  Whole(st, tables[KeyOf(st)])
    BY DEF DeliveredWhole
  <2>1. /\ tables[KeyOf(st)] \in Table
        /\ Unmixed(st, tables[KeyOf(st)])
        /\ tables[KeyOf(st)] # NoTable
        /\ Complete(tables[KeyOf(st)])
    BY DEF TypeOK, NoMixing, ReturnedComplete, Collected, Key
  <2>2. QED
    BY <2>1, CompleteIsWhole
<1>2. QED
  BY <1>1, TypeInit, TypeNext, MixingInit, MixingNext, ReturnedInit,
     ReturnedNext, PTL DEF Spec

-----------------------------------------------------------------------------
(* The step form of NeverBackwards.                                         *)
LEMMA Forwards ==
  ASSUME TypeOK, NoMixing, [Next]_vars, NEW st \in Collected
  PROVE  LET old == tables[KeyOf(st)]
             new == tables'[KeyOf(st)]
         IN  \/ old.version < new.version
             \/ /\ old.version = new.version
                /\ \A i \in DOMAIN old.sections :
                     old.sections[i] # NULL => new.sections[i] = old.sections[i]
<1>1. /\ Unmixed(st, tables[KeyOf(st)])
      /\ tables[KeyOf(st)] \in Table
  BY DEF NoMixing, TypeOK, Collected, Key
<1>2. CASE tables'[KeyOf(st)] = tables[KeyOf(st)]
  BY <1>2
<1>3. ASSUME NEW s \in SectionsOnWire, s.of = st,
             tables'[KeyOf(st)] = SectionAdd(tables[KeyOf(st)], s)
      PROVE  LET old == tables[KeyOf(st)]
                 new == tables'[KeyOf(st)]
             IN  \/ old.version < new.version
                 \/ /\ old.version = new.version
                    /\ \A i \in DOMAIN old.sections :
                         old.sections[i] # NULL => new.sections[i] = old.sections[i]
  BY <1>1, <1>3, SectionAddUnmixed
<1>4. QED
  BY <1>2, <1>3, StepOfTable

(* Collecting only makes progress: a version is never given up for an older *)
(* one, nor a stored section of it lost.                                    *)
THEOREM CollectsForwards == Spec => NeverBackwards
<1>1. TypeOK /\ NoMixing /\ [Next]_vars =>
        [\A st \in Collected :
           LET old == tables[KeyOf(st)]
               new == tables'[KeyOf(st)]
           IN  \/ old.version < new.version
               \/ /\ old.version = new.version
                  /\ \A i \in DOMAIN old.sections :
                       old.sections[i] # NULL => new.sections[i] = old.sections[i]]_vars
  BY Forwards
<1>2. QED
  BY <1>1, TypeInit, TypeNext, MixingInit, MixingNext, PTL DEF Spec, NeverBackwards

-----------------------------------------------------------------------------
(***************************************************************************)
(* Until its version field wraps, a sub-table is never stored in a version *)
(* ahead of the carousel's: that is why the comparison of versions as plain*)
(* numbers discards nothing that matters before the wrap.                  *)
(***************************************************************************)
StoredNotAhead ==
  \A st \in Collected :
    air[st] >= changes[st] => tables[KeyOf(st)].version <= air[st]

LEMMA NotAheadInit == Init => StoredNotAhead
<1> SUFFICES ASSUME Init, NEW st \in Collected
             PROVE  tables[KeyOf(st)].version <= air[st]
  BY DEF StoredNotAhead
<1>1. tables[KeyOf(st)].version = -1 /\ air[st] \in Version
  BY DEF Init, NoTable, Reset, Collected, Key
<1>2. QED
  BY <1>1 DEF Version

(* A version that is stored when a section is added is the stored one or    *)
(* that section's, which is on the air.                                     *)
LEMMA AddedVersion ==
  ASSUME TypeOK, NoMixing, StoredNotAhead, NEW st \in Collected,
         NEW s \in SectionsOnWire, s.of = st, ReadVersioned(s),
         tables'[KeyOf(st)] = SectionAdd(tables[KeyOf(st)], s),
         air[st] >= changes[st]
  PROVE  tables'[KeyOf(st)].version = air[st]
<1>1. /\ Unmixed(st, tables[KeyOf(st)])
      /\ tables[KeyOf(st)] \in Table
      /\ tables[KeyOf(st)].version <= air[st]
      /\ tables[KeyOf(st)].version \in -1..MaxVersion
      /\ air[st] \in Version
      /\ s.version = air[st]
  BY DEF NoMixing, TypeOK, Collected, Key, StoredNotAhead, Table, ReadVersioned
<1>2. /\ tables'[KeyOf(st)].version \in Version
      /\ \/ tables'[KeyOf(st)].version = tables[KeyOf(st)].version
         \/ tables'[KeyOf(st)].version = s.version
      /\ s.version <= tables'[KeyOf(st)].version
  BY <1>1, SectionAddUnmixed
<1>3. QED
  BY <1>1, <1>2 DEF Version

LEMMA NotAheadNext ==
  TypeOK /\ NoMixing /\ StoredNotAhead /\ [Next]_vars => StoredNotAhead'
<1> SUFFICES ASSUME TypeOK, NoMixing, StoredNotAhead, [Next]_vars,
                    NEW st \in Collected, air'[st] >= changes'[st]
             PROVE  tables'[KeyOf(st)].version <= air'[st]
  BY DEF StoredNotAhead
<1>1. /\ air[st] \in Version /\ changes[st] \in Nat
      /\ tables[KeyOf(st)].version \in -1..MaxVersion
  BY DEF TypeOK, Collected, Key, Table
<1>2. ASSUME NEW x \in SubTable, NewVersion(x)
      PROVE  tables'[KeyOf(st)].version <= air'[st]
  <2>1. tables' = tables
    BY <1>2 DEF NewVersion
  <2>2. CASE x # st
    BY <1>2, <2>1, <2>2 DEF NewVersion, TypeOK, StoredNotAhead, Collected
  <2>3. CASE x = st
    <3>1. /\ air'[st] = (air[st] + 1) % (MaxVersion + 1)
          /\ changes'[st] = changes[st] + 1
      BY <1>2, <2>3 DEF NewVersion, TypeOK
    <3>2. air[st] # MaxVersion
      <4>1. SUFFICES ASSUME air[st] = MaxVersion PROVE FALSE
        OBVIOUS
      <4>2. air'[st] = 0
        BY <3>1, <4>1
      <4>3. QED
        BY <1>1, <3>1, <4>2
    <3>3. air'[st] = air[st] + 1
      BY <1>1, <3>1, <3>2, NextVersion DEF Version
    <3>4. tables[KeyOf(st)].version <= air[st]
      BY <1>1, <3>1, <3>3, SMTT(30) DEF StoredNotAhead, Version
    <3>5. QED
      BY <1>1, <2>1, <3>3, <3>4 DEF Version
  <2>4. QED
    BY <2>2, <2>3
<1>3. CASE ~\E x \in SubTable : NewVersion(x)
  <2>1. air' = air /\ changes' = changes
    BY <1>3 DEF Next, vars, Read, ReadVersioned, ReadUnversioned,
                ReadUnversionedNoCopy, OutOfMemory
  <2>2. CASE tables'[KeyOf(st)] = tables[KeyOf(st)]
    BY <2>1, <2>2 DEF StoredNotAhead
  <2>3. ASSUME NEW s \in SectionsOnWire, s.of = st, ReadVersioned(s),
               tables'[KeyOf(st)] = SectionAdd(tables[KeyOf(st)], s)
        PROVE  tables'[KeyOf(st)].version <= air'[st]
    BY <1>1, <2>1, <2>3, AddedVersion DEF Version
  <2>4. QED
    BY <2>2, <2>3, StepOfTable
<1>4. QED
  BY <1>2, <1>3

(* What is returned is what is on the air, while no version has wrapped.    *)
THEOREM DeliversOnAir == Spec => DeliveredOnAir
<1> DEFINE P == \A st \in Collected :
                  (NoWrap /\ air' = air /\ ret' = KeyOf(st))
                    => tables'[KeyOf(st)].version = air[st]
<1>1. TypeOK /\ NoMixing /\ StoredNotAhead /\ [Next]_vars => [P]_vars
  <2> SUFFICES ASSUME TypeOK, NoMixing, StoredNotAhead, Next, vars' # vars,
                      NEW st \in Collected, NoWrap, air' = air, ret' = KeyOf(st)
               PROVE  tables'[KeyOf(st)].version = air[st]
    OBVIOUS
  <2>1. air[st] >= changes[st]
    BY DEF NoWrap, Collected
  <2>2. ~\E x \in SubTable : NewVersion(x)
    <3>1. SUFFICES ASSUME NEW x \in SubTable, NewVersion(x) PROVE FALSE
      OBVIOUS
    <3>2. air'[x] = (air[x] + 1) % (MaxVersion + 1)
      BY <3>1 DEF NewVersion, TypeOK
    <3>3. (air[x] + 1) % (MaxVersion + 1) # air[x]
      BY NextVersion DEF TypeOK, Version
    <3>4. QED
      BY <3>2, <3>3
  <2>3. ASSUME NEW s \in SectionsOnWire, s.of = st, ReadVersioned(s),
               tables'[KeyOf(st)] = SectionAdd(tables[KeyOf(st)], s)
        PROVE  tables'[KeyOf(st)].version = air[st]
    BY <2>1, <2>3, AddedVersion
  <2>5. QED
    BY <2>2, <2>3, StepOfTable
<1>2. QED
  BY <1>1, TypeInit, TypeNext, MixingInit, MixingNext, NotAheadInit,
     NotAheadNext, PTL DEF Spec, DeliveredOnAir

-----------------------------------------------------------------------------
(***************************************************************************)
(* Refinement.  Adopted and Returned are the two values TableDelivery sees *)
(* of the collector.                                                       *)
(***************************************************************************)
Adopted == [st \in Collected |-> tables[KeyOf(st)].version]

(* Each step, in terms of those two values: nothing is returned or the same *)
(* as before, or a section of a collected sub-table is taken in.            *)
LEMMA RefinementNext ==
  ASSUME TypeOK, NoMixing, ReturnedComplete, ReturnedComplete', TypeOK', NoMixing',
         [Next]_vars
  PROVE  \/ Adopted' = Adopted /\ Returned' \in {Returned, NULL}
         \/ \E st \in Collected, v \in 0..MaxVersion :
              /\ v >= Adopted[st]
              /\ Adopted' = [Adopted EXCEPT ![st] = v]
              /\ Returned' \in {NULL, Delivery!Image(st, v)}
<1> USE DEF Adopted
<1>1. CASE UNCHANGED <<tables, ret>>
  BY <1>1 DEF Returned
<1>2. ASSUME NEW s \in SectionsOnWire, s.of \in Collected, ReadVersioned(s),
             tables'[KeyOf(s.of)] = SectionAdd(tables[KeyOf(s.of)], s)
      PROVE  \E v \in 0..MaxVersion :
                   /\ v >= Adopted[s.of]
                   /\ Adopted' = [Adopted EXCEPT ![s.of] = v]
                   /\ Returned' \in {NULL, Delivery!Image(s.of, v)}
  <2> DEFINE st == s.of
             v == tables'[KeyOf(st)].version
  <2>1. /\ Unmixed(st, tables[KeyOf(st)])
        /\ tables[KeyOf(st)] \in Table
        /\ KeyOf(st) \in Key /\ st \in SubTable
    BY <1>2 DEF NoMixing, TypeOK, Collected, Key
  <2>2. v \in 0..MaxVersion /\ v >= Adopted[st]
    <3>1. /\ v \in Version
          /\ v = tables[KeyOf(st)].version \/ tables[KeyOf(st)].version < v
      BY <1>2, <2>1, SectionAddUnmixed
    <3>2. tables[KeyOf(st)].version \in -1..MaxVersion
      BY <2>1 DEF Table
    <3>3. QED
      BY <1>2, <3>1, <3>2 DEF Version
  <2>3. Adopted' = [Adopted EXCEPT ![st] = v]
    <3>1. ASSUME NEW x \in Collected, x # st
          PROVE  tables'[KeyOf(x)] = tables[KeyOf(x)]
      <4>1. KeyOf(x) # KeyOf(st) /\ KeyOf(x) \in Key
        BY <2>1, <3>1, KeysApart
      <4>2. QED
        BY <1>2, <4>1 DEF ReadVersioned, TypeOK
    <3>2. QED
      BY <1>2, <3>1
  <2>4. CASE ret' = KeyOf(st)
    <3>1. Whole(st, tables'[KeyOf(st)])
      BY <1>2, <2>4, CompleteIsWhole
         DEF TypeOK, NoMixing, ReturnedComplete, Collected, Key, Complete
    <3>2. {x \in Collected : KeyOf(x) = ret'} = {st}
      BY <1>2, <2>4, KeysApart DEF Collected
    <3>3. Returned' = [of |-> st, version |-> tables'[ret'].version,
                       sections |-> tables'[ret'].sections]
      <4>1. (CHOOSE x \in {st} : TRUE) = st
        OBVIOUS
      <4>2. QED
        BY <3>2, <4>1, Zenon DEF Returned
    <3>4. Returned' = Delivery!Image(st, v)
      BY <2>4, <3>1, <3>3 DEF Whole, Delivery!Image
    <3>5. QED
      BY <2>2, <2>3, <3>4
  <2>5. CASE ret' # KeyOf(st)
    <3>1. ret' = NULL
      BY <1>2, <2>5 DEF ReadVersioned
    <3>2. Returned' = NULL
      BY <3>1 DEF Returned, Collected, Key
    <3>3. QED
      BY <2>2, <2>3, <3>2
  <2>6. QED
    BY <2>4, <2>5
<1>3. CASE \A st \in Collected :
             tables'[KeyOf(st)] = tables[KeyOf(st)] /\ ret' # KeyOf(st)
  <2>1. Adopted' = Adopted
    BY <1>3
  <2>2. Returned' = NULL
    BY <1>3 DEF Returned
  <2>3. QED
    BY <2>1, <2>2
<1>4. ASSUME ~UNCHANGED <<tables, ret>>,
             ~\E s \in SectionsOnWire :
                /\ s.of \in Collected
                /\ ReadVersioned(s)
                /\ tables'[KeyOf(s.of)] = SectionAdd(tables[KeyOf(s.of)], s),
             NEW st \in Collected
      PROVE  tables'[KeyOf(st)] = tables[KeyOf(st)] /\ ret' # KeyOf(st)
  BY <1>4, StepOfTable
<1>5. QED
  BY <1>1, <1>2, <1>3, <1>4

(* The collector implements its promise to the caller of dvb_demux_read().  *)
THEOREM ImplementsDelivery == Spec => DeliverySpec
<1>1. Init => Delivery!Init
  <2> SUFFICES ASSUME Init PROVE Delivery!Init
    OBVIOUS
  <2>1. \A st \in Collected : tables[KeyOf(st)].version = -1
    BY DEF Init, NoTable, Reset, Collected, Key
  <2>2. Returned = NULL
    BY DEF Init, Returned, Collected, Key
  <2>3. QED
    BY <2>1, <2>2 DEF Delivery!Init
<1>2. TypeOK /\ NoMixing /\ ReturnedComplete /\ ReturnedComplete' /\ TypeOK'
        /\ NoMixing' /\ [Next]_vars => [Delivery!Next]_(Delivery!vars)
  BY RefinementNext
     DEF Delivery!Next, Delivery!vars, Delivery!TakeIn,
         Delivery!Quiet, Adopted
<1>3. QED
  BY <1>1, <1>2, TypeInit, TypeNext, MixingInit, MixingNext, ReturnedInit,
     ReturnedNext, PTL DEF Spec, DeliverySpec, Delivery!Spec
=============================================================================
