------------------------------- MODULE EitGrab -------------------------------
(***************************************************************************)
(* parseEIT() of dvb-eit.c, fed one section after the other as             *)
(* readEventTables() feeds its handler, with the alarm that openInput()    *)
(* sets on PID 0x12 and finish_up(), which writes the end of the document. *)
(* What the grabber has printed of an event is remembered for good, by     *)
(* service and event number.                                               *)
(*                                                                         *)
(* A section is [sid, version, events], where events is a sequence of      *)
(* [eid, stop, descs]: stop is the end of the event in hours from now, and *)
(* descs are its descriptors (EitEvent).  Sections of any of the EIT's     *)
(* tables come in any order, again and again; each table has a version     *)
(* number of its own.                                                      *)
(*                                                                         *)
(* main() has the call of readEventTables() commented out at this commit   *)
(* (tv_grab_dvb.c:473): what is modelled is the program with that call,    *)
(* and without the service scan that may come before it.                   *)
(***************************************************************************)
EXTENDS EitEvent

CONSTANTS
  Sections,     \* what the input may hold
  Timeout,      \* -t: seconds without new data, on a device
  NULL

VARIABLES
  ignore_updates, ignore_bad_dates,   \* the options -u and -d clear them
  section, at,    \* the section being parsed and the event the loop is at
  pc,             \* "read" between sections, "loop", "print", or "end"
  channels,       \* the version printed or looked at, by <<sid, eid>>
  programme_count, update_count, invalid_date_count,
  input,          \* "device", "file" or "stdin"
  alarm,          \* seconds until SIGALRM, NULL if none is due
  out,            \* the programmes printed
  ended           \* "no", "</tv>", "exit" for exit(1) in a programme, or
                  \* "killed" by a signal that has no handler

options == <<ignore_updates, ignore_bad_dates, input>>
counts == <<programme_count, update_count, invalid_date_count>>
vars == <<options, section, at, pc, channels, counts, alarm, out, ended>>

Events == UNION {{s.events[i] : i \in DOMAIN s.events} : s \in Sections}

ASSUME GrabAssumption ==
  /\ Timeout \in Nat \ {0}
  /\ \A s \in Sections : s.version \in Nat /\ s.events \in Seq(Events)
  /\ \A e \in Events : e.stop \in Int /\ e.descs \in Seq(Descriptor)

EventKey == UNION {{<<s.sid, s.events[i].eid>> : i \in DOMAIN s.events} : s \in Sections}

(* What every event of the input is printed as (EitEvent), as functions.    *)
Descriptors == {e.descs : e \in Events}
LinesOf == [ds \in Descriptors |-> Body(ds)]
ExitsIn == [ds \in Descriptors |-> Exits(ds)]

Init ==
  /\ ignore_updates \in BOOLEAN /\ ignore_bad_dates \in BOOLEAN
  /\ section = NULL /\ at = 0 /\ pc = "read"
  /\ channels = [k \in {} |-> 0]
  /\ programme_count = 0 /\ update_count = 0 /\ invalid_date_count = 0
  /\ input \in {"device", "file", "stdin"}
  /\ alarm = IF input = "device" THEN Timeout ELSE NULL
  /\ out = <<>> /\ ended = "no"

-----------------------------------------------------------------------------
event == section.events[at]
key == <<section.sid, event.eid>>

(* The end of the document: finish_up().                                    *)
FinishUp == pc' = "end" /\ ended' = "</tv>"

(* readEventTables() has a section of whose checksum is right.              *)
Section(s) ==
  /\ pc = "read"
  /\ section' = s /\ at' = 1
  /\ pc' = IF s.events = <<>> THEN "read" ELSE "loop"
  /\ UNCHANGED <<options, channels, counts, alarm, out, ended>>

(* The file ends, or read() fails.                                          *)
InputEnds ==
  /\ pc = "read"
  /\ FinishUp
  /\ UNCHANGED <<options, section, at, channels, counts, alarm, out>>

(* "seen it before or its older"                                            *)
Seen == key \in DOMAIN channels /\ channels[key] <= section.version

(* "we have more data, refresh alarm"; a file has no timeout, and on the   *)
(* standard input this is the first that sets an alarm.                    *)
RefreshAlarm == alarm' = IF input = "file" THEN NULL ELSE Timeout

(* Mutant: the alarm is set anew before the event is looked for.            *)
SkipSeenRefresh ==
  /\ pc = "loop" /\ Seen
  /\ pc' = "read"
  /\ RefreshAlarm
  /\ UNCHANGED <<options, section, at, channels, counts, out, ended>>

(* The rest of the section is left as well.                                 *)
SkipSeen ==
  /\ pc = "loop" /\ Seen
  /\ pc' = "read"
  /\ UNCHANGED <<options, section, at, channels, counts, alarm, out, ended>>

(* Mutant: the version of an update that is ignored is not taken.           *)
RememberNew ==
  /\ pc = "loop" /\ ~Seen
  /\ channels' = IF key \in DOMAIN channels THEN channels
                 ELSE [k \in DOMAIN channels \cup {key} |-> section.version]
  /\ update_count' = IF key \in DOMAIN channels THEN update_count + 1 ELSE update_count

Remember ==
  /\ pc = "loop" /\ ~Seen
  /\ channels' = [k \in DOMAIN channels \cup {key} |->
                    IF k = key THEN section.version ELSE channels[k]]
  /\ update_count' = IF key \in DOMAIN channels THEN update_count + 1 ELSE update_count

SkipUpdate ==
  /\ Remember
  /\ key \in DOMAIN channels /\ ignore_updates
  /\ pc' = "read"
  /\ UNCHANGED <<options, section, at, programme_count, invalid_date_count, alarm, out, ended>>

(* A new event, or an update that is wanted: there is more data, and the   *)
(* alarm is set anew.                                                      *)
Taken ==
  /\ Remember
  /\ key \in DOMAIN channels => ~ignore_updates
  /\ RefreshAlarm

(* event_alloc() fails: parseEIT() returns -1, and readEventTables() ends.  *)
NoMemory ==
  /\ pc = "loop" /\ ~Seen /\ (key \in DOMAIN channels => ~ignore_updates)
  /\ IF key \in DOMAIN channels
       THEN /\ channels' = [channels EXCEPT ![key] = section.version]
            /\ update_count' = update_count + 1
       ELSE UNCHANGED <<channels, update_count>>
  /\ FinishUp
  /\ UNCHANGED <<options, section, at, programme_count, invalid_date_count, alarm, out>>

(* "No program info at end!  Just skip it"                                  *)
NoDescriptors ==
  /\ Taken /\ event.descs = <<>>
  /\ pc' = "read"
  /\ UNCHANGED <<options, section, at, programme_count, invalid_date_count, out, ended>>

(* The dates that are told from good ones, in hours.                        *)
BadDate(stop) == stop < -24 \/ -stop > 14 * 24

InvalidDate ==
  /\ Taken /\ event.descs # <<>> /\ BadDate(event.stop) /\ ignore_bad_dates
  /\ invalid_date_count' = invalid_date_count + 1
  /\ pc' = "read"
  /\ UNCHANGED <<options, section, at, programme_count, out, ended>>

(* An invalid date is counted even where it is not ignored.                 *)
CountDate ==
  /\ event.descs # <<>> /\ (BadDate(event.stop) => ~ignore_bad_dates)
  /\ invalid_date_count' = IF BadDate(event.stop) THEN invalid_date_count + 1
                           ELSE invalid_date_count

(* Mutant: a programme is counted before its title is looked for.           *)
NoTitleCounted ==
  /\ Taken /\ CountDate /\ ~Titled(event.descs)
  /\ programme_count' = programme_count + 1
  /\ pc' = "read"
  /\ UNCHANGED <<options, section, at, out, ended>>

NoTitle ==
  /\ Taken /\ CountDate /\ ~Titled(event.descs)
  /\ pc' = "read"
  /\ UNCHANGED <<options, section, at, programme_count, out, ended>>

(* <programme ...>                                                          *)
Begin ==
  /\ Taken /\ CountDate /\ Titled(event.descs)
  /\ programme_count' = programme_count + 1
  /\ out' = Append(out, [key |-> key, version |-> section.version, stop |-> event.stop,
                         lines |-> <<>>, closed |-> FALSE])
  /\ pc' = "print"
  /\ UNCHANGED <<options, section, at, ended>>

(* Mutant: the loop does not end with the section.                          *)
FinishOn ==
  /\ pc = "print" /\ ~ExitsIn[event.descs]
  /\ out' = [out EXCEPT ![Len(out)].lines = LinesOf[event.descs], ![Len(out)].closed = TRUE]
  /\ at' = at + 1
  /\ pc' = "loop"
  /\ UNCHANGED <<options, section, channels, counts, alarm, ended>>

(* parseDescription(), </programme> and the next turn of the loop.          *)
Finish ==
  /\ pc = "print" /\ ~ExitsIn[event.descs]
  /\ out' = [out EXCEPT ![Len(out)].lines = LinesOf[event.descs], ![Len(out)].closed = TRUE]
  /\ at' = at + 1
  /\ pc' = IF at < Len(section.events) THEN "loop" ELSE "read"
  /\ UNCHANGED <<options, section, channels, counts, alarm, ended>>

ExitInside ==
  /\ pc = "print" /\ ExitsIn[event.descs]
  /\ out' = [out EXCEPT ![Len(out)].lines = LinesOf[event.descs]]
  /\ pc' = "end" /\ ended' = "exit"
  /\ UNCHANGED <<options, section, at, channels, counts, alarm>>

(* Time passes, also while the output blocks.                               *)
Tick ==
  /\ pc # "end" /\ alarm # NULL /\ alarm > 0
  /\ alarm' = alarm - 1
  /\ UNCHANGED <<options, section, at, pc, channels, counts, out, ended>>

(* SIGALRM, whatever the program is doing; openInput() sets the handler    *)
(* for a device only.                                                      *)
Alarm ==
  /\ pc # "end" /\ alarm = 0
  /\ pc' = "end" /\ ended' = IF input = "device" THEN "</tv>" ELSE "killed"
  /\ UNCHANGED <<options, section, at, channels, counts, alarm, out>>

Parse ==
  SkipSeen \/ SkipUpdate \/ NoMemory \/ NoDescriptors \/ InvalidDate \/ NoTitle \/ Begin
  \/ Finish \/ ExitInside

Next == (\E s \in Sections : Section(s)) \/ InputEnds \/ Parse \/ Tick \/ Alarm

Spec == Init /\ [][Next]_vars

(* The program runs, time passes, and a signal that is due is delivered.    *)
(* An input for which no alarm is set comes to its end; a device need not.  *)
FairSpec ==
  /\ Spec
  /\ WF_vars(Parse) /\ WF_vars(Tick) /\ WF_vars(Alarm)
  /\ SF_vars(alarm = NULL /\ InputEnds)

-----------------------------------------------------------------------------
Programme ==
  [key: EventKey, version: Nat, stop: Int, lines: Seq(Line), closed: BOOLEAN]

TypeOK ==
  /\ ignore_updates \in BOOLEAN /\ ignore_bad_dates \in BOOLEAN
  /\ input \in {"device", "file", "stdin"}
  /\ pc \in {"read", "loop", "print", "end"}
  /\ pc \in {"loop", "print"} => section \in Sections /\ at \in DOMAIN section.events
  /\ DOMAIN channels \subseteq EventKey /\ \A k \in DOMAIN channels : channels[k] \in Nat
  /\ programme_count \in Nat /\ update_count \in Nat /\ invalid_date_count \in Nat
  /\ alarm \in 0..Timeout \cup {NULL} /\ (input = "file" => alarm = NULL)
  /\ out \in Seq(Programme)
  /\ ended \in {"no", "</tv>", "exit", "killed"} /\ (ended = "no") = (pc # "end")

(***************************************************************************)
(* Whatever order sections and tables come in, an event is printed once,   *)
(* and with -u at most once in each version (dvb-eit.c:75-89, 101-108).    *)
(***************************************************************************)
OncePerVersion ==
  \A i, j \in DOMAIN out :
    (i # j /\ out[i].key = out[j].key) => ~ignore_updates /\ out[i].version # out[j].version

(***************************************************************************)
(* Each programme has a title, which comes before anything else that is    *)
(* not a comment, "as is required by xmltv.dtd" (dvb-eit.c:316, 143, 250): *)
(* what validateDescription() finds is what the first round prints.        *)
(***************************************************************************)
TitleFirst ==
  \A i \in DOMAIN out : LET lines == out[i].lines IN
    out[i].closed =>
      \E n \in DOMAIN lines : lines[n] = "title" /\ \A m \in 1..(n - 1) : lines[m] = "comment"

(***************************************************************************)
(* The descriptions of a programme are opened and closed in turn, with all *)
(* text inside of them, if the extended descriptors of the input come in   *)
(* order (dvb-eit.c:372-373, 408-409).                                     *)
(***************************************************************************)
OpenAt(lines, n) ==
  \E m \in 1..(n - 1) : lines[m] = "<desc>" /\ \A k \in (m + 1)..(n - 1) : lines[k] # "</desc>"

Nested(lines) ==
  /\ \A n \in DOMAIN lines :
       /\ lines[n] = "<desc>" => ~OpenAt(lines, n)
       /\ lines[n] \in {"text", "</desc>"} => OpenAt(lines, n)
  /\ ~OpenAt(lines, Len(lines) + 1)

Balanced ==
  (\A ds \in Descriptors : InOrder(ds)) =>
    \A i \in DOMAIN out : out[i].closed => Nested(out[i].lines)

(***************************************************************************)
(* A programme has one video and one audio element at most (dvb-eit.c:     *)
(* 412-416), whatever its descriptors are.                                 *)
(***************************************************************************)
Once(lines, line) == \A m, n \in DOMAIN lines : lines[m] = line /\ lines[n] = line => m = n

OneStream ==
  \A i \in DOMAIN out :
    out[i].closed => Once(out[i].lines, "video") /\ Once(out[i].lines, "audio")

(***************************************************************************)
(* "Tags should be output in this order" (dvb-eit.c:231-236): what a        *)
(* programme holds comes in the order that is stated there, however its    *)
(* descriptors are mixed.  Two things are left out that the code does not  *)
(* keep.  It prints subtitles and ratings in one round, so that those come *)
(* in the order of their descriptors; and it prints identifiers of content *)
(* (crid), which are no elements of that list, among the video elements.   *)
(***************************************************************************)
TagOrder ==
  <<{"title"}, {"sub-title"}, {"<desc>", "text", "</desc>"}, {"category"}, {"language"},
    {"video", "crid"}, {"audio"}, {"subtitles", "rating"}>>

InTagOrder(lines) ==
  \A n \in DOMAIN lines : \A j \in DOMAIN TagOrder : lines[n] \in TagOrder[j] =>
    \A i \in (j + 1)..Len(TagOrder) : \A m \in 1..(n - 1) : lines[m] \notin TagOrder[i]

TagsInOrder == \A i \in DOMAIN out : out[i].closed => InTagOrder(out[i].lines)

(***************************************************************************)
(* A programme that was closed begins with its title, goes on in the order *)
(* of its tags, and has its descriptions opened and closed in turn and one *)
(* stream of each kind (dvb-eit.c:143, 231-316, 372-416).                  *)
(***************************************************************************)
WellFormed == TitleFirst /\ TagsInOrder /\ Balanced /\ OneStream

(***************************************************************************)
(* Only the programme being printed is open: every other one was closed    *)
(* before the next began, and what the status line counts is what was      *)
(* printed (dvb-eit.c:148, 173-174; tv_grab_dvb.c:104-109).                *)
(***************************************************************************)
ClosedInTurn ==
  /\ programme_count = Len(out)
  /\ \A i \in DOMAIN out : ~out[i].closed => i = Len(out)
  /\ pc \in {"read", "loop"} => \A i \in DOMAIN out : out[i].closed

(***************************************************************************)
(* "Stop after timeout seconds of no new data" (tv_grab_dvb.c:84): the     *)
(* grabber ends although the carousel repeats for ever, because what it    *)
(* has seen never sets the alarm anew (dvb-eit.c:79-86, 111).              *)
(***************************************************************************)
Ends == <>(pc = "end")

(***************************************************************************)
(* "-u - output updated info" (tv_grab_dvb.c:93): when a section has been  *)
(* parsed whose first event is one that was printed in an older version,   *)
(* the new version has been printed, unless it may not be.                 *)
(***************************************************************************)
Printable(e) == Titled(e.descs) /\ ~BadDate(e.stop)

UpdatesPrinted ==
  (~ignore_updates /\ pc = "read" /\ section # NULL) =>
    LET first == section.events[1]
        k     == <<section.sid, first.eid>>
    IN  section.events # <<>> /\ Printable(first) =>
          \A i \in DOMAIN out : (out[i].key = k /\ out[i].version < section.version) =>
            \E j \in DOMAIN out : out[j].key = k /\ out[j].version >= section.version
=============================================================================
