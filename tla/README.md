# tv_grab_dvb in TLA+

This directory is a verification development for tv_grab_dvb, a set of tools
that read the Service Information (SI) of a DVB broadcast and print it: the
programmes of a channel as XMLTV, the channels and multiplexes as XRD or
TV-Anytime. Modules are checked with TLC (`tlc -config X.cfg MCModule`) and
proved with TLAPS (`tlapm M_proofs.tla`).

## 1. The system

### 1.1 Components

| component | source | state it keeps | operations |
|---|---|---|---|
| demultiplexer device | `dvb/demux.c` | descriptor (non-blocking), filter, timeout | open, close, set_timeout, start, stop |
| read loop | `dvb/read.c` 36-198 | buffer and its indices (local to a call), end time | `dvb_demux_read` |
| section collector | `dvb/read.c` 200-390 | one table for each (table_id, current_next, identifier) | `dvb_demux_read_section`, `dvb_demux_section_add`, `dvb_demux_table_reset` |
| table parsers | `dvb/si.c`, `nit.c`, `sdt.c`, `pat.c` | none | `dvb_parse_si`, `dvb_parse_nit`, `dvb_parse_sdt` |
| registries | `dvb/networks.c`, `services.c`, `multiplexes.c`, `platforms.c` | arrays of pointers that only grow; links between entries | add, locate, locate_add, reset, set, foreach |
| event list | `dvb/events.c`, `dvb/xmltv.c` | one event: strings by language, times, identifiers | setters and getters, `event_debug`, the callback `xmltv_write_event` |
| scan tools | `dvb2xrd.c`, `dvb2tva.c`, `tvanytime.c` | the pass, `matchflag` | `read_nit`, `read_sdt`, the output |
| legacy grabber | `tv_grab_dvb.c` | options, the buffer, counters, the alarm | `main`, `openInput`, `readEventTables`, `finish_up` |
| event grabber | `dvb-eit.c` | `channels`: the version seen of each event | `parseEIT`, `parseDescription` |
| support | `dvb_text*.c`, `lookup.c`, tables, CRC | an iconv descriptor; tables | conversions |
| generator | `dvb/gentables.c` | the structure being read, the names saved in the blocks that are open | a build tool: statements of an `.idl` file in, packed structures out |

`Makefile` builds `dvb2xrd` and `dvb2tva`. The legacy grabber is no longer in
`all`, its `main` has the call that parses events commented out, and `dvb-eit.o`
is linked by no target; `dvb/eit.c` is not compiled at all. `gentables` writes
`si_tables.h` from the two `.idl` files.

### 1.2 Interaction

    kernel --bytes--> dvb_demux_read --section--> dvb_demux_read_section
                            |                            | tables by key
                            +<------ complete table -----+
                            v
            read_nit / read_sdt --table--> dvb_parse_si --> registries
                            |                                   |
                            +------- check_mux, output <--------+

    kernel --bytes--> readEventTables --section--> parseEIT --> stdout
       ^ opened by openInput(),           |          SIGALRM --> finish_up --> stdout
       | scan first with -S               v
      main                          event_t (events.c) --> event_debug, callback

All of it is one thread; the grabber has a signal handler as well. What makes it
hard is the environment: sections arrive in any order, at any alignment, with
errors, again and again, and are replaced by new versions while they are being
collected; the clock runs during every wait; registries point into one another
while entries are reset and filled again.

### 1.3 What would make each part correct

* read loop: never past the buffer; not out of step with the stream for good, if
  nothing in it looks like a PES packet; a call ends at its end time or timeout.
* collector: a table that is returned is one whole version of one sub-table, the
  one on the air, and every settled table is returned.
* registries: one entry for each name; one service for each channel number;
  pointers that stay right through resets.
* scan tools: they end; what they output is what the tables said; a pass that
  ends early has heard of every multiplex, and one that has does not go on.
* event grabber: nothing printed twice; every programme with its title first,
  its elements in order and its descriptions closed; an end.
* event list: a record has what its event had last in each language; readers
  meet no null pointer; the record printed by the callback is the programme, but
  for texts that cannot be printed.
* legacy main: no section is lost or handled twice however the input is cut; a
  run that succeeds has written a whole document, with nothing before it; an
  end.
* generator: the fields of a structure join back to what was declared, no member
  spans two octets, and no two structures get one name if the names in the file
  are apart.

The hazards of the code, line by line, are in `PROJECT.json` ("hazards"), each
with the properties aimed at it, or with the reason why there is none.

## 2. The modules

| module | models | extends / used by |
|---|---|---|
| `DemuxTable` | the collector, and the broadcaster that changes versions | `DemuxTable_proofs`, `MCDemuxTable` |
| `TableDelivery` | the abstract specification of the collector | refined by `DemuxTable` |
| `DemuxRead` | the read loop, select(), read(), the clock | `DemuxRead_proofs`, `MCDemuxRead` |
| `RegistryOps` | the registry functions, as operators | `Registry`, `SiParse` |
| `Registry` | those functions called in any order | `Registry_proofs`, `MCRegistry` |
| `SiParse` | the NIT and SDT parsers on top of `RegistryOps` | `ScanTool` |
| `ScanTool` | both passes and the output, composed with `SiParse` | `ScanTool_proofs`, `MCScanTool` |
| `EitEvent` | what is printed for the descriptors of one event | `EitGrab` |
| `EitGrab` | `parseEIT` section by section, the alarm, the end | `EitGrab_proofs`, `MCEitGrab` |
| `EventList` | the record of an event while `parseDescription` fills it, and its readers | `EventList_proofs`, `MCEventList` |
| `LegacyGrab` | `main` of tv_grab_dvb: scan, input, buffer, signals, document | `LegacyGrab_proofs`, `MCLegacyGrab` |
| `GenTables` | `gentables`, one statement of its input at a time | `GenTables_proofs`, `MCGenTables` |

Definitions keep the names of the source where they can; `PROJECT.json` ("map")
gives the lines of each. An operator marked "Mutant" is a plausible bug of the
definition after it: with it in the definition's place, TLC finds the property
listed in `PROJECT.json` ("mutants") violated.

### DemuxTable and TableDelivery

`air` is the version of each sub-table in the carousel; `tables` is
`context->tables`, by key; `ret` is what the last call returned. A section
arrives whole: one that is damaged or lost simply does not arrive, and since any
section on the air may come next, loss, repetition and reordering are all there.
`NewVersion` is the broadcaster; versions wrap, as the field of five bits does.
`OutOfMemory` covers the allocations whose failure the code follows with a null
pointer: the process is dead after it. A sub-table has one last_section_number
in each version and no section beyond it, as the standard asks
(`WireAssumption`); what `dvb_demux_section_add` does with a broadcast that
breaks this, which it does not check (read.c:319-341), is outside of the model.
`TableDelivery` promises only that what comes out is a whole version and that
versions never go back.

### DemuxRead

A byte is what the loop can tell of it: what it decodes to if a section starts
there. What is on the air is any of `Carousels`: sections that are sound, that
state a wrong length or fail their checksum, with other lengths at the offsets
inside of them. `pos`, `backlog` and `closed` are the descriptor; `bufstart`,
`bufend` and `need` the loop's own. The local `fd_set` is never cleared, so
`StrayBits` lets select() end early or fail for a descriptor nobody asked about.
`quiet`, `handed` and `aligned` are history variables. `Resynchronises` leaves
out the streams in which a byte looks like the start of a PES packet
(`NoStartCode`). For those the code drops the whole buffer (`SkipPes`), starts
of sections included: on the carousel `MCLockedOut`, entered at the wrong place,
it does so in every turn and never hands over a section.

### RegistryOps, Registry, SiParse, ScanTool

A pointer is an index into an array that only grows, 0 the null pointer. A name
is a tuple, because four hexadecimal digits tell 16-bit numbers apart; the
prefixes `nid` and `nit` are kept because the functions do not agree on them.
`Registry` calls the functions in any order, with links to the entry of the
right name as the parsers make them. `SiParse` has the parsers in the order of
their calls; a loop over the entries of a table is a recursive function of the
number of entries done, so that `loop[n]` are the registries after the n-th turn
of the C loop. `ScanTool` gives the parsers any table of the carousel at any
time, with a clock that ends each pass and reads that fail.

### EitEvent and EitGrab

`EitEvent` turns a sequence of descriptors (`Descriptor`: what the code tells
apart of each kind) into a sequence of named lines, by the eight rounds of
`parseDescription`. `WellFormed` says of those lines that the title is first,
that the others come in the order of the rounds (`TagsInOrder`), that
descriptions open and close in turn with their text inside (`Nested`), and that
there is one video and one audio element. The order is `TagOrder`, which is not
all of the order that `dvb-eit.c:231-236` and the ChangeLog (line 58) state:
subtitles and ratings are printed in one round, as their descriptors come, where
the comment has the subtitles first, and `<crid>`, which is not in its list,
comes with the video. The event with both in the run is printed with the rating
first. The code opens and closes a description by the numbers of the extended
descriptors alone, so the part about descriptions supposes that they come in
order, group after group (`InOrder`), and nothing of the other descriptors
between them. `EitGrab` has one action for each way an event leaves the section
loop (`SkipSeen`, `SkipUpdate`, `NoMemory`, `NoDescriptors`, `InvalidDate`,
`NoTitle`, `Begin` with `Finish` or `ExitInside`); every early `return` drops
the rest of the section, as in the code. `channels` is the list of versions
seen, `out` what was printed. The alarm counts down at any time; its handler
exists for a device only, so on the standard input it kills the process. The
module is the program as it was with the call in `main` that is now commented
out.

### EventList

`ev` is the `event_t`, `doc` the document as far as strings, picture, sound and
identifiers go, `copy` what the callback prints. `round` and `at` follow the
rounds of `parseDescription` over `descs`; each of its actions is one descriptor
that calls a setter. A list of strings is an array of slots: setting a language
to nothing empties its slot, setting a new one takes the last empty slot or
appends. `EMPTY` is a string whose first byte is 0, which the setters take for
nothing and the title of the document does not. `xmlify` is what is printed for
each string, and may be `EMPTY` for one that is not, an encoding that is
reserved for example. A sub-title is printed only if something is left of it,
but the record has been set by then (`dvb-eit.c:357-360`, `SubTitle`):
`RecordAgrees` leaves such texts (`Unreadable`) out, and `CopyAgrees` states
what the callback makes of them, an empty sub-title that the document does not
have. That xmlify() ends the program when iconv_open() fails, and what it reads
past a string of one byte, are not modelled. `event_debug` prints the *titles*
at the indexes of the subtitles, and `xmltv_write_event` follows every slot,
empty or not: where that reads a null pointer, the process is `killed`, and
`ReadSafely` says for which events it is not.

### LegacyGrab

`phase` is the scan (`-S`) or the listing. The buffer of `readEventTables` is
`head` (the place of `bhead` in the input), `offset` and `n`; `length` is what
the header at `bhead` stated. An input is a sequence of sections; at any other
place a header states anything and its checksum is wrong. The model has what the
code does: a wrong checksum skips the *stated* length, a full buffer asks read()
for 0 bytes and takes the answer for the end of the input, `openInput` uses the
pointer it got as a descriptor, the channels of `channels.conf` come before
`<?xml`, and `-a` opens `<feed>` where `finish_up` closes `</tv>`. `restarts`
tells whether signal(2) has read() started again. `finish_up()` is two steps
where it is called (`Close`, `Leave`): it is the handler of the alarm too, which
may come between the two and write `</tv>` again. `WholeDocument` says so: the
end comes once, or a second time in exactly that case. An alarm inside of
printf() or of exit() is undefined and not modelled. The document is not asked
for (`Asked`) where something else is printed first: the channels, or the
newline after the poll of a device that is scanned.

### GenTables

The recursion of `parse_block` is `stack`, one frame of its local `attrs` for
each open block; `fields` is the `fieldset_t`. `declared` and `used` are
histories: what the sections declared, and how many names the file has used
(each section and tag has one of its own). An identifier is a base and the
numbers it ends in (`Spelling`): `"%s_%d"` puts one more at its end
(`StructName`), and the second structure of a section `a` has the name of the
first of a section `a_1`. `StructuresNamedOnce` is about files in which no name
is another with one number after it (`NamesApart`). `Struct` is what
`write_table` makes of the members, once for each order of the bits; `Bits` are
the places at which the members end, and `Joined` puts the pieces of all
structures together again. Three parts of the parser have their own outcome: an
`else if` always reports an error, `while` parses nothing of what follows it and
drops a tag, and `skip_whitespace` does not see the end of a comment that closes
with an even number of stars.

## 3. The runs

| run | checks | shows |
|---|---|---|
| `demuxtable_calls` | `TypeOK NoMixing DeliveredWhole NeverBackwards DeliveredOnAir DeliverySpec ReturnedUnlessWrapped` | two collected sub-tables and one that is not change and wrap in mid-collection: never mixed, partial or backwards; refines `TableDelivery`; once the carousel settles its tables are returned again and again, if no version wrapped |
| `demuxtable_wrap` | `ReturnedAfterWrap` (violated) | after 31 comes 0, and the new table is never returned |
| `demuxread_calls` | `TypeOK BufferBounds StaysAligned EndTimeHonoured Resynchronises` | sound and damaged carousels, pieces of every size, end times, timeouts, signals, stray bits; from the middle of a section the loop finds a good one, if there are no PES start codes |
| `demuxread_timeout` | `TimeoutHonoured` (violated) | a select() that timed out is taken for one that found data |
| `registry_calls` | `TypeOK UniqueNames ChannelNumbersUnique PointersAgree PointersStable` | registry functions in any order: names and channel numbers once, entries that stay, services and multiplexes that point where their names say |
| `scantool_passes` | `TypeOK NetworkMirrorsNit ServicesOnTheirMux EndsWithLastMux OutputListsServices Terminates` | both passes over carousels with conflicting channel numbers and changing, empty, foreign and next-only tables: the second ends with the SDT that was missing last, where one that is not current counts although nothing in it is parsed |
| `scantool_bat` | `EveryMuxParsed` (violated) | a table that is no SDT comes first, and the unset `matchflag` ends the pass |
| `eitgrab_sections` | `TypeOK OncePerVersion WellFormed ClosedInTurn Ends` | interleaved tables with events of every kind, every option and input |
| `eitgrab_update` | `UpdatesPrinted` (violated) | with `-u`, the newer version is the one dropped |
| `eventlist_events` | `TypeOK RecordAgrees ReadSafely CopyAgrees` | every loop of up to three descriptors: missing, empty and unreadable strings, repeats of a language, allocations that fail |
| `legacygrab_runs` | `TypeOK SectionsHandled WholeDocument Ends` | files, pipes and devices cut anywhere, damaged and oversized sections, which alone fill the buffer, alarms at any point, between the end of the document and exit() too |
| `gentables_files` | `TypeOK OctetsKept FieldsJoinBack StructuresNamedOnce` | every file of up to eight statements, nested, commented, with errors, under names that are nearly the same |

The four violated properties are what the repository says of itself (quoted in
`PROJECT.json`, "findings"); the rest holds.

### Bounds, and why they are enough

* `DemuxTable`: an SDT, a present/following EIT and a BAT, which is not
  collected; versions 0..2, at most three slots. Each sub-table starts at any
  version and changes once, so that it wraps, shrinks or grows while the others
  are half collected. `demuxtable_wrap` has one sub-table and two changes.
* `DemuxRead`: a header of two bytes, payloads of at most two, two sections in
  five bytes of carousel (`MCPlain`: undamaged, with a length that reaches into
  the next section, with a wrong checksum, and every length inside of them),
  `Shift` 2 and a buffer of 5. This is the smallest buffer `SizeAssumption`
  allows for that shift, so one byte too many would be seen; the code's own
  sizes satisfy the same assumption. The clock stops at 2, past every end time;
  one signal, since each returns the loop to the same place.
* `Registry`: one network identifier under both of its names, two multiplexes,
  one service, two channel numbers and two slots in all: a slot can be emptied
  and another appended, and two entries compete in each array.
* `ScanTool`: a pass of two seconds; two multiplexes of the network and one of
  another; the clock stops one second past the end, after which nothing depends
  on it.
* `EitGrab`: eight sections of two services, with versions 1 to 3, a timeout of
  two seconds. The histories are finite because versions remembered only go
  down.
* `EventList`: every sequence of at most three of sixteen descriptors, in three
  languages, with names and texts that are there, missing, empty, and
  unreadable. Three settings give each order of set, clear and set again for one
  slot beside another; any allocation may fail.
* `LegacyGrab`: sections of two to four octets in a buffer of four, headers of
  two, a stated length of at most five: sections that fill the buffer, exceed
  it, or span two reads. Scan and timeout are two seconds. A run has at most one
  of `-H`, `-a`, `-A` and a `channels.conf`, which do not meet in the code.
* `GenTables`: eight statements, three names (`item`, `item_0` and `item_1_1`,
  as near to one another as `NamesApart` lets them be), fields of 4 and 20 bits
  and of the 8 that are assumed: every way a field can lie over octets (inside
  one, to the end of one, over three), and two sections nested with a tag
  pending.

### Fairness

* `DemuxTable`: a section that stays on the air is received (a carousel
  repeats); nothing makes a version change or an allocation fail.
* `DemuxRead`: the process runs, system calls return when they can, time passes;
  nothing makes a byte, a signal or an error arrive. `Resynchronises` supposes,
  as its own hypothesis, that bytes keep arriving.
* `ScanTool`: the tool runs and time passes. A table need never arrive.
* `EitGrab`: the program runs, time passes, a due signal is delivered, and an
  input for which no alarm is set comes to its end, a file being finite. A
  device need not end.
* `LegacyGrab`: the program runs, time passes, a due signal is delivered.
  Nothing makes a byte arrive or the input end: with a scan whose alarm is lost
  because it came before the read() it should interrupt, or because read() is
  started again, `Ends` supposes that the input ends.
* `EventList`, `GenTables`: safety only; both end by the length of their input.

`CHECK_DEADLOCK FALSE` stands where the system may stop: the process that died
for want of memory (`DemuxTable`), and the programs that are done (`ScanTool`,
`EitGrab`, `EventList`, `LegacyGrab`, `GenTables`).

## 4. The proofs

| module | theorem | property |
|---|---|---|
| `DemuxTable_proofs` | `TypeCorrect`, `NeverMixed`, `DeliversWholeTables`, `CollectsForwards`, `DeliversOnAir`, `ImplementsDelivery` | all of run `demuxtable_calls` but the temporal one |
| `DemuxRead_proofs` | `TypeCorrect`, `WithinBuffer`, `KeepsAligned` | `TypeOK`, `BufferBounds`, `StaysAligned` |
| `Registry_proofs` | `TypeCorrect`, `NamesUnique`, `ChannelsOnce`, `PointersRight`, `EntriesStay` | all of run `registry_calls` |
| `ScanTool_proofs` | `TypeCorrect`, `MirrorsNit`, `ServicesOnMux`, `EndsOnLast`, `ListsServices` | `TypeOK`, `NetworkMirrorsNit`, `ServicesOnTheirMux`, `EndsWithLastMux`, `OutputListsServices` |
| `EitGrab_proofs` | `TypeCorrect`, `PrintsOnce`, `WritesWellFormed`, `ClosesInTurn` | `TypeOK`, `OncePerVersion`, `WellFormed`, `ClosedInTurn` |
| `EventList_proofs` | `TypeCorrect`, `KeepsMaps`, `ReadsSafely`, `CopiesDocument` | `TypeOK`, `RecordAgrees`, `ReadSafely`, `CopyAgrees` |
| `LegacyGrab_proofs` | `TypeCorrect`, `HandlesSections`, `WritesWhole` | `TypeOK`, `SectionsHandled`, `WholeDocument` |
| `GenTables_proofs` | `TypeCorrect`, `KeepsOctets`, `JoinsBack`, `NamesOnce` | `TypeOK`, `OctetsKept`, `FieldsJoinBack`, `StructuresNamedOnce` |

Every invariant and action property that a run checks is proved; what is left to
TLC alone is at the end of this section.

The assumptions are those each module states on its constants (`...Assumption`,
`DistinctKeys`), which TLC evaluates in every run. Apart from bounds and the
sizes of buffers they are types, and one rule of the broadcast: a sub-table has
one last section number in each version and none of its sections is beyond it
(`WireAssumption`, `OnWire`; the code does not check it). As to types: a table
of the carousel has the fields that its parser reads (`ScanAssumption`), an
input is a sequence of sections that have a size (`LegacyAssumption`), the
descriptors of an event are sequences of `Descriptor` (`GrabAssumption`), those
of a record of `Descriptors` (`ListAssumption`), where xmlify() gives a string
for each string, and a declared field has a natural number of bits
(`GenAssumption`). Three properties have a condition of their own, which their
theorems repeat: the extended descriptors of an event come in order (`InOrder`,
in `Balanced`), the names of a file are apart (`NamesApart`), and for
`ReadSafely` every name is set.

**Loops over data.** A loop of the code is a recursive function of the number of
turns, or a fold of the community modules, which is one. Its proof has three
parts: the function is what its equation says (the `...Run`, `...Loop` and
`Flat` lemmas, by building it up one argument at a time); one turn keeps what
the loop is for; and the two are joined by `Induction`, which is stated for a
*set* of numbers, not for a predicate, and follows from the least element of its
complement (`WFMin`, `NatLessThanWellFounded`).

**DemuxTable.** `NoMixing` with the type invariant is inductive: a table is
empty, or has the slots of one version of its own sub-table. It needs that no
two collected sub-tables share a key (`DistinctKeys`, the assumption about the
identifier of an EIT). `DeliveredWhole` needs `ReturnedComplete` as well (a
returned table is complete and not empty), and `DeliveredOnAir` needs
`StoredNotAhead`: a table's version is never ahead of the carousel's while no
number has wrapped. `ImplementsDelivery` maps `adopted` to the versions held and
`out` to the table returned; each action is a step of `TableDelivery` or none.

**DemuxRead.** `TypeOK /\ BufferBounds` is inductive: after the memmove
`bufstart` is below `Shift`, and what is held and asked for is never more than
one section. What must fit is in `SizeAssumption`: `Shift + Header + MaxLen - 1
<= BufSize`, which 1024, 3, 4095 and 8192 satisfy. `StaysAligned` needs
`AlignedInv`: on a carousel without errors, a call that began at a section has
nothing of the next one, neither held nor asked for, so that discarding the
buffer on return loses nothing. The carousel is a ring, and the lemmas on
remainders turn the place of the buffer's start into a boundary.

**Registry.** An array changes in two ways: an entry is appended under a name
that was not found, or one is overwritten by another of the same name. Each has
its lemmas, and each action is reduced to them first. The type invariant has the
range of every pointer as part of it (`InRange`).

**EitGrab.** `OncePerVersion` is not inductive. The strengthening is
`Remembered`: what was printed is in `channels`, in that version or an older
one, because a remembered version only ever goes down. A second printing
therefore has a version below all that were printed before. `WellFormed` rests
on `Printing` (a closed programme has all the lines of an event with a title
whose lines do not end the program; the one being printed is open) and on lemmas
about `AllLines` for descriptors of any number and order: what each round can
print (`TurnsTyped`, `Kinds`); the first round has a title if
`validateDescription` found one (`PrintsTitleFirst`); a line that one turn of
one round prints at most is printed at most once (`FlattenOnce`,
`PrintsStreamOnce`); and sequences that are nested are nested behind one another
(`NestedBehind`), so that only the round of the extended descriptors needs an
argument, where a description is open exactly after an unfinished group
(`LongRound`, `Unfinished`). For the order, what the first k rounds printed is
in order and has nothing that belongs after the k-th (`Upto`); a round prints
lines of its own place only (`KindsPlaced`), so that they may come behind
(`UptoBehind`, `PrintsInOrder`).

**EventList.** The lists are maps: no language has two slots (`Distinct`), and
what a setter leaves for the other languages is what was there (lemma
`Setting`). That with one line of the document at a time, and with what xmlify()
makes of a string that is set (`ShownIs`), gives `RecordAgrees`; where it makes
nothing, the document keeps what it had and the record is `Unreadable`. For
`ReadSafely` the invariant adds that, while every name is set, no slot of either
list is empty and each language with a subtitle has a title; as languages are in
a list once, there are no more subtitles than titles (`FewerSubtitles`, an
injection between the two sets of indexes), and the reader that confuses the two
finds a title at every index. For `CopyAgrees` the invariant is joined by
`Fields`: picture and sound of the record are what the document was told, and
the document has nothing of them before their round.

**LegacyGrab.** The invariant ties the document to the stage of the program:
nothing before the head, then the head and `<tv>` and newlines only (`Begun`),
then the end (`Ended`). `finish_up` is the handler only after the head was
written, so whatever moment the alarm chooses, it closes a document that is
open, or one that was closed by the call and not left yet, which is then the
only way to `EndedTwice`. The type invariant is about the buffer: what is held
lies inside it and was given by the input (`Held`), which needs that a read() is
only for what does not fit a section yet (`Typed`). `SectionsHandled` needs
`Fed`: the sections handled are in order and before `bhead`; and in an undamaged
input `bhead` is always where a section starts, and those before it are just the
ones handled (`Aligned`). A full buffer would then hold a whole section, which
cannot wait (`Incomplete`), unless it states more than the buffer holds.

**GenTables.** `StructuresNamedOnce` is not inductive. The names in use are the
current one, the tag that is pending, and those saved in the open blocks; the
invariant says that they are apart (`Apart`) and that the number each would give
next is ahead of all that were written under it (`Ahead`). So no two structures
have the same name and number; that `"%s_%d"` keeps them apart is the matter of
`NamesTellApart`, for which a name with a number must be no other name
(`NumberMeets`). It holds for files of any length, nested to any depth.
`OctetsKept` and `FieldsJoinBack` need to know of the members that are pending
that none spans two octets (`Packed`): the pieces of a field fill the octet that
is open, then whole ones, and end in the last (`PiecesFit`, `PackedMore`).
`write_table` then reverses each octet in place (`Turned`, `StructTurned`), and
since reversing leaves the big-endian members alone, all that were written and
are pending join to `declared` (`Content`).

**ScanTool.** The invariant is that the registries are sane (`Sane`: names are
there once, a service points to the multiplex its name says, a network lists the
multiplex of each of its channels, a channel number is there once) and tell what
was parsed (`Good`): the one network is the NIT's (`Mirrors`), and each service
has a type that an SDT gave it (`Typed`). For `EndsWithLastMux` it has the marks
as well: a multiplex is marked exactly if an SDT of it was parsed (those on the
PID of the NIT, which mark nothing, apart: `SdtsApart`), because an SDT marks
its own, and everything else that the parsers do leaves marks as they are and
adds multiplexes that have none (`MarksKept`, `NewIs`). Each registry function
only lets the arrays grow (`Later`), so that a pointer taken before stays right;
then each loop of the parsers is followed turn by turn. A channel number that a
NIT gives twice goes to the last (`Lineup`), whatever the registry held before.

**Only model-checked**: everything temporal under fairness
(`ReturnedUnlessWrapped`, `EndTimeHonoured`, `Resynchronises`, `Terminates`, and
`Ends` of both grabbers), which this version of TLAPS cannot do, as it needs
ENABLED; and the four properties that are violated. Library operators that take
an operator as a parameter are expanded where they are used (`SelectInSeq` in
`BodyTyped`); library theorems that do cannot be used, hence `Induction` above.

What the proofs changed in the model: the type of `alarm` in `LegacyGrab` left
out a timeout longer than the scan, which no run had; `CopyAgrees` now says that
picture and sound are printed once, which its proof needs and the code does;
`Balanced` in `EitGrab` used to be a count of lines and is now the nesting
itself, with the order of the extended descriptors as its condition.

## 5. What is not modelled, and the plan

Left out for good:

* device ioctls, option parsing of the scan tools, wording and layout of the
  output, names and descriptors that are only copied or reported, failing
  allocations of the registries, packaging;
* `dvb/eit.c`, which is not compiled, and `event_subtitle`, which nothing calls
  (it searches the subtitles with the number of the titles);
* broadcasts whose section numbers pass the last section number they state, or
  state different ones in one version;
* what the handler of the scan does: it is nowhere defined, and the program does
  not link with it;
* the constant tables and the checksum, which are data and a pure function.

Next, in this order:

1. `Conversions`: dates (`parseMJD`), categories and ratings at their
   boundaries, `load_lookup`, and the cache of iconv descriptors, each against a
   reference definition.
2. A specification of a grabber ("prints each event at most once, then ends"),
   refined by `EitGrab`, and `EitGrab` under the buffer of `LegacyGrab`, as the
   call that is commented out would have it.
