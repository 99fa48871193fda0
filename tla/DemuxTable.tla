----------------------------- MODULE DemuxTable -----------------------------
(***************************************************************************)
(* The section collector of dvb/read.c: dvb_demux_read_section() and the   *)
(* functions it calls.  A broadcaster cycles through the sections of its   *)
(* SI sub-tables (a "carousel") and may publish a new version of a         *)
(* sub-table at any moment; the collector keeps one dvb_table_t for each   *)
(* key (table_id, current_next_indicator, identifier) and hands a table to *)
(* the caller of dvb_demux_read() once every section of it is present.     *)
(*                                                                         *)
(* The bytes, the buffer and the clock are in DemuxRead.  Here a section   *)
(* arrives whole, and a corrupted one is one that does not arrive.         *)
(***************************************************************************)
EXTENDS Integers

CONSTANTS
  SubTable,     \* what a broadcaster sends as one table: see SubTableRecord
  MaxVersion,   \* the largest version_number: 31, a field of 5 bits
  MaxLast,      \* the largest last_section_number: 255
  Last,         \* Last[st][v]: last_section_number of version v of st
  MaxChanges,   \* bound: how often one sub-table changes while we watch
  NULL          \* the null pointer

(***************************************************************************)
(* The header fields that tell sub-tables apart, named for their offset in *)
(* the section: bytes 3-4 (transport stream, network, service or bouquet), *)
(* bytes 8-9 (network of an SDT, transport stream of an EIT) and 10-11     *)
(* (network of an EIT).                                                    *)
(***************************************************************************)
SubTableRecord ==
  [table_id: 0..255, cni: 0..1, ext3: Nat, ext8: Nat, ext10: Nat]

Version == 0..MaxVersion

Section == [of: SubTable, version: Version, number: 0..MaxLast]

OnWire(s) == s.number <= Last[s.of][s.version]

-----------------------------------------------------------------------------
(* The table ids the switch of dvb_demux_read_section() lists.             *)
PAT == 0
PMT == 2
TSDT == 3
NIT == {64, 65}
SDT == {66, 70}
EIT == {78, 79} \cup 80..111

VersionedIds == {PAT, PMT, TSDT} \cup NIT \cup SDT \cup EIT

Versioned(st) == st.table_id \in VersionedIds

Identifier(st) ==
  CASE st.table_id \in {PAT, PMT} \cup NIT -> <<0, st.ext3>>
    [] st.table_id \in SDT \cup EIT        -> <<st.ext8, st.ext3>>
    [] OTHER                               -> <<0, 0>>

CurrentNext(st) ==
  IF Versioned(st) /\ st.table_id # TSDT THEN st.cni ELSE 1

KeyOf(st) == <<st.table_id, CurrentNext(st), Identifier(st)>>

Key == {KeyOf(st) : st \in SubTable}

(* The sub-tables whose sections are collected by version.                 *)
Collected == {st \in SubTable : Versioned(st)}

Slots == UNION {[0..(n - 1) -> Section \cup {NULL}] : n \in 0..(MaxLast + 1)}

Table == [version: -1..MaxVersion, sections: Slots]

ASSUME WireAssumption ==
  /\ SubTable \subseteq SubTableRecord
  /\ MaxVersion \in Nat \ {0}
  /\ MaxLast \in Nat
  /\ MaxChanges \in Nat
  /\ Last \in [SubTable -> [Version -> 0..MaxLast]]

ASSUME NullAssumption == NULL \notin Section /\ NULL \notin Key

(***************************************************************************)
(* No two collected sub-tables share a key.  The identifier of an EIT      *)
(* leaves out original_network_id, so this says that one receiver does not *)
(* see the same (transport stream, service) pair in two networks.          *)
(***************************************************************************)
ASSUME DistinctKeys ==
  \A a \in Collected, b \in SubTable : KeyOf(a) = KeyOf(b) => a = b

-----------------------------------------------------------------------------
VARIABLES
  air,       \* the version of each sub-table now in the carousel
  changes,   \* how often it has changed (counts up to MaxChanges)
  tables,    \* context->tables: the table collected under each key
  ret,       \* what the last call of dvb_demux_read_section() returned
  status     \* "running", or "dead" once a null pointer was dereferenced

vars == <<air, changes, tables, ret, status>>

(* Mutant: one slot too many is allocated.                                  *)
ResetOneMore(count) == [version  |-> -1,
                        sections |-> [i \in 0..count |-> NULL]]

(* dvb_demux_table_reset(): count empty slots and no version.              *)
Reset(count) == [version  |-> -1,
                 sections |-> [i \in 0..(count - 1) |-> NULL]]

(* A key with no entry in context->tables.  The code's two ways to accept  *)
(* a first section, a match of version -1 and "No match", end alike.       *)
NoTable == Reset(0)

(* dvb_demux_section_add(): the table under the key before the slot is     *)
(* looked at.  A greater version resets it; a smaller one changes nothing. *)
Adopt(t, s) ==
  IF t.version < s.version
    THEN [Reset(Last[s.of][s.version] + 1) EXCEPT !.version = s.version]
    ELSE t

(* Mutant: a section of an older version is not discarded.                  *)
StoresOlder(t, s) == Adopt(t, s).sections[s.number] = NULL

Stores(t, s) ==
  /\ t.version <= s.version
  /\ Adopt(t, s).sections[s.number] = NULL

(* Mutant: any other version replaces the one collected.                    *)
SectionAddOther(t, s) ==
  LET a == IF t.version # s.version
             THEN [Reset(Last[s.of][s.version] + 1) EXCEPT !.version = s.version]
             ELSE t
  IN  [a EXCEPT !.sections[s.number] = s]

(* Mutant: a table once begun never changes its version.                    *)
SectionAddFirst(t, s) ==
  IF t.version \in {-1, s.version}
    THEN [Adopt(t, s) EXCEPT !.sections[s.number] = s]
    ELSE t

SectionAdd(t, s) ==
  IF Stores(t, s)
    THEN [Adopt(t, s) EXCEPT !.sections[s.number] = s]
    ELSE t

(* Mutant: the scan for absent sections stops one short.                    *)
CompleteButLast(t) ==
  \A i \in DOMAIN t.sections : i + 1 \in DOMAIN t.sections => t.sections[i] # NULL

Complete(t) == \A i \in DOMAIN t.sections : t.sections[i] # NULL

Init ==
  /\ air \in [SubTable -> Version]
  /\ changes = [st \in SubTable |-> 0]
  /\ tables = [k \in Key |-> NoTable]
  /\ ret = NULL
  /\ status = "running"

(* The broadcaster publishes the next version; the field wraps to 0.       *)
NewVersion(st) ==
  /\ changes[st] < MaxChanges
  /\ changes' = [changes EXCEPT ![st] = @ + 1]
  /\ air' = [air EXCEPT ![st] = (@ + 1) % (MaxVersion + 1)]
  /\ UNCHANGED <<tables, ret, status>>

(* A section of a listed table id: stored, or discarded as older or seen;  *)
(* the table is returned if it has all of its sections.                    *)
ReadVersioned(s) ==
  LET k == KeyOf(s.of) IN
  /\ status = "running"
  /\ Versioned(s.of)
  /\ s.version = air[s.of]
  /\ tables' = [tables EXCEPT ![k] = SectionAdd(@, s)]
  /\ ret' = IF Complete(tables'[k]) THEN k ELSE NULL
  /\ UNCHANGED <<air, changes, status>>

(* A section of any other table id: it becomes the whole of its table.     *)
ReadUnversioned(s) ==
  LET k == KeyOf(s.of) IN
  /\ status = "running"
  /\ ~Versioned(s.of)
  /\ s.version = air[s.of]
  /\ tables' = [tables EXCEPT ![k] = [Reset(1) EXCEPT !.sections[0] = s]]
  /\ ret' = k
  /\ UNCHANGED <<air, changes, status>>

(* As above when calloc() of the copy fails: the table stays empty.        *)
ReadUnversionedNoCopy(s) ==
  LET k == KeyOf(s.of) IN
  /\ status = "running"
  /\ ~Versioned(s.of)
  /\ s.version = air[s.of]
  /\ tables' = [tables EXCEPT ![k] = Reset(1)]
  /\ ret' = NULL
  /\ UNCHANGED <<air, changes, status>>

(* Every other allocation that fails yields a null pointer the code then   *)
(* dereferences: the table of a versioned section (line 266), the array of *)
(* slots, the entry of a new key.                                          *)
OutOfMemory(s) ==
  /\ status = "running"
  /\ s.version = air[s.of]
  /\ Versioned(s.of) => Stores(tables[KeyOf(s.of)], s)
  /\ status' = "dead"
  /\ ret' = NULL
  /\ UNCHANGED <<air, changes, tables>>

SectionsOnWire == {s \in Section : OnWire(s)}

Read(s) == ReadVersioned(s) \/ ReadUnversioned(s)

Next ==
  \/ \E st \in SubTable : NewVersion(st)
  \/ \E s \in SectionsOnWire : \/ Read(s)
                               \/ ReadUnversionedNoCopy(s)
                               \/ OutOfMemory(s)

Spec == Init /\ [][Next]_vars

(* The carousel repeats: a section that stays on the air is received again *)
(* and again.  Nothing forces a new version, nor an allocation to fail.    *)
FairSpec == Spec /\ \A s \in SectionsOnWire : WF_vars(Read(s))

-----------------------------------------------------------------------------
TypeOK ==
  /\ air \in [SubTable -> Version]
  /\ changes \in [SubTable -> 0..MaxChanges]
  /\ tables \in [Key -> Table]
  /\ ret \in Key \cup {NULL}
  /\ status \in {"running", "dead"}

(***************************************************************************)
(* A collected table has exactly the slots its version has on the air, and *)
(* a slot holds that section of that version of that sub-table or nothing: *)
(* no old section survives a change of version (read.c:311-316), none is   *)
(* filed under another table's key (read.c:305), and sections[secnum]      *)
(* (read.c:318, 327) is always inside the array.                           *)
(***************************************************************************)
Unmixed(st, t) ==
  \/ t = NoTable
  \/ /\ t.version \in Version
     /\ DOMAIN t.sections = 0..Last[st][t.version]
     /\ \A i \in DOMAIN t.sections :
          t.sections[i] \in {NULL, [of |-> st, version |-> t.version, number |-> i]}

NoMixing == \A st \in Collected : Unmixed(st, tables[KeyOf(st)])

(***************************************************************************)
(* What dvb_demux_read() hands to its caller for a collected sub-table is  *)
(* one complete version of it, section by section: "a complete SI table    *)
(* (a fully-populated set of sections)", read.c:37-38.                     *)
(***************************************************************************)
Whole(st, t) ==
  /\ t.version \in Version
  /\ t.sections = [i \in 0..Last[st][t.version] |->
                     [of |-> st, version |-> t.version, number |-> i]]

DeliveredWhole ==
  \A st \in Collected : ret = KeyOf(st) => Whole(st, tables[ret])

(***************************************************************************)
(* A step never takes a collected table back to an older version, and      *)
(* never drops a section of the version it keeps (read.c:307-321): however *)
(* repeats and changes interleave, collecting makes progress.              *)
(***************************************************************************)
NeverBackwards ==
  [][\A st \in Collected :
       LET old == tables[KeyOf(st)]
           new == tables'[KeyOf(st)]
       IN  \/ old.version < new.version
           \/ /\ old.version = new.version
              /\ \A i \in DOMAIN old.sections :
                   old.sections[i] # NULL => new.sections[i] = old.sections[i]
    ]_vars

(***************************************************************************)
(* As long as no version number wraps, what a read returns for a collected *)
(* table is the version in the carousel at that moment: a complete table   *)
(* of an old version is not returned again for a new version's section     *)
(* (read.c:307-311, 265-280).                                              *)
(***************************************************************************)
NoWrap == \A st \in SubTable : air[st] >= changes[st]

DeliveredOnAir ==
  [][\A st \in Collected :
       (NoWrap /\ air' = air /\ ret' = KeyOf(st))
          => tables'[KeyOf(st)].version = air[st]]_vars

(***************************************************************************)
(* Once the carousel settles, the settled version of every sub-table that  *)
(* is collected is returned, again and again: "Read until ... a complete   *)
(* SI table ... is read.  When it is, return it" (read.c:37-38), as long   *)
(* as no version number has wrapped.                                       *)
(***************************************************************************)
SettledReturned ==
  \A st \in Collected :
    []<>(ret = KeyOf(st) /\ tables[ret].version = air[st])

ReturnedUnlessWrapped == [](status = "running" /\ NoWrap) => SettledReturned

(***************************************************************************)
(* The same promise with the version field as it is, modulo 32: every      *)
(* section of version 0 that follows version 31 is "discarded" as older    *)
(* (read.c:307-311), and the version 31 table is returned in its place.    *)
(***************************************************************************)
ReturnedAfterWrap == [](status = "running") => SettledReturned

(***************************************************************************)
(* The collector implements TableDelivery: a table is seen by its caller   *)
(* as its version and sections, and nothing else of the state matters.     *)
(***************************************************************************)
Returned ==
  LET from == {st \in Collected : KeyOf(st) = ret}
  IN  IF from = {} THEN NULL
      ELSE [of       |-> CHOOSE st \in from : TRUE,
            version  |-> tables[ret].version,
            sections |-> tables[ret].sections]

Delivery == INSTANCE TableDelivery WITH
  SubTable <- Collected,
  adopted  <- [st \in Collected |-> tables[KeyOf(st)].version],
  out      <- Returned

(* Every step of the collector is a step of TableDelivery, or none.         *)
DeliverySpec == Delivery!Spec
=============================================================================
