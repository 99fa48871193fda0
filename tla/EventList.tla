------------------------------ MODULE EventList ------------------------------
(***************************************************************************)
(* The event record of the library (dvb/events.c) as parseDescription()    *)
(* of dvb-eit.c fills it while it prints the programme, and its readers:   *)
(* event_debug(), which parseEIT() calls for every event, and              *)
(* xmltv_write_event(), a callback that prints the record.                 *)
(*                                                                         *)
(* A list of strings is an array of pointers: a language that is set again *)
(* to nothing leaves a NULL in it.  A string is a value of Strings; EMPTY  *)
(* is one whose first byte is 0 although its length is not.  What is       *)
(* printed is what xmlify() makes of a string, and that may be nothing:    *)
(* EMPTY again.                                                            *)
(* Reading a NULL kills the process; reading past the end of an array may  *)
(* kill it or not.                                                         *)
(*                                                                         *)
(* Descriptors, of the kinds that reach the record:                        *)
(*   [tag |-> "short", lang, name, text]   NULL for a length of 0          *)
(*   [tag |-> "video", type], [tag |-> "audio", lang, type]                *)
(*   [tag |-> "crid", kind, ref]   kind: "programme", "series", "other"    *)
(* with ref [id, long]: whether it has 128 bytes or more.                  *)
(* Languages have less than 8 characters: xmllang() gives two or three.    *)
(***************************************************************************)
EXTENDS Integers, SequencesExt

CONSTANTS
  Inputs,      \* the descriptor loops an event may have
  MayFail,     \* allocations may fail
  xmlify,      \* what xmlify() makes of each string
  NULL, EMPTY

VARIABLES
  descs,         \* the descriptors of the event
  round, at,     \* the round of parseDescription() and the descriptor it is at
  ev,            \* the record
  doc,           \* what was printed for the event: [tag, lang, value]
  short,         \* an allocation failed
  copy,          \* what the callback printed
  pc             \* "describe", "debug", "callback", "freed", or "killed"

vars == <<descs, round, at, ev, doc, short, copy, pc>>

INVALID == 255   \* EA_INVALID

Descriptors == UNION {ToSet(ds) : ds \in Inputs}
Shorts == {x \in Descriptors : x.tag = "short"}

(* A slot of a list of strings; the string is not empty.                    *)
Strings == UNION {{x.name, x.text} : x \in Shorts}
Langstr == [lang : {x.lang : x \in Shorts}, str : Strings \ {NULL, EMPTY}]

ASSUME ListAssumption ==
  /\ MayFail \in BOOLEAN /\ EMPTY # NULL /\ NULL \notin Langstr
  /\ \A s \in Strings \ {NULL} : s \in DOMAIN xmlify /\ xmlify[s] # NULL
  /\ EMPTY \in Strings => xmlify[EMPTY] = EMPTY
  /\ Inputs \subseteq Seq(Descriptors)
  /\ \A x \in Descriptors :
       /\ x.tag \in {"video", "audio"} => x.type \in 0..255
       /\ x.tag = "crid" => x.kind \in {"programme", "series", "other"}

(* event_alloc(): calloc(), and the two fields whose 0 has a meaning.       *)
NewEvent ==
  [lang |-> NULL, title |-> <<>>, subtitle |-> <<>>, audio |-> INVALID, aspect |-> INVALID,
   pcrid |-> NULL, scrid |-> NULL]

Init ==
  /\ descs \in Inputs
  /\ round = 0 /\ at = 1
  /\ ev = NewEvent /\ doc = <<>> /\ short = FALSE /\ copy = <<>>
  /\ pc = "describe"

-----------------------------------------------------------------------------
(* The first slot of a language, the last one that is free, or 0.           *)
SlotOf(list, lang) ==
  LET slots == {i \in DOMAIN list : list[i] # NULL /\ list[i].lang = lang}
  IN IF slots = {} THEN 0 ELSE CHOOSE i \in slots : \A j \in slots : i <= j

FreeSlot(list) ==
  LET slots == {i \in DOMAIN list : list[i] = NULL}
  IN IF slots = {} THEN 0 ELSE CHOOSE i \in slots : \A j \in slots : i >= j

(* Mutant: a string is put at the end, whatever is in the list.             *)
AppendLangstr(list, lang, str) ==
  IF str \in {NULL, EMPTY} THEN list ELSE Append(list, [lang |-> lang, str |-> str])

(* event_set_langstr() with memory enough: NULL or an empty string clears   *)
(* the slot of the language.                                                *)
set_langstr(list, lang, str) ==
  LET p == IF str \in {NULL, EMPTY} THEN NULL ELSE [lang |-> lang, str |-> str]
  IN IF SlotOf(list, lang) # 0 THEN [list EXCEPT ![SlotOf(list, lang)] = p]
     ELSE IF p = NULL THEN list
     ELSE IF FreeSlot(list) # 0 THEN [list EXCEPT ![FreeSlot(list)] = p]
     ELSE Append(list, p)

(* calloc() may fail for a string, realloc() where the array has to grow.   *)
MayRunOut(list, lang, str) == MayFail /\ str \notin {NULL, EMPTY}

(* event_locate_langstr().                                                  *)
locate(list, lang) ==
  IF SlotOf(list, lang) = 0 THEN NULL ELSE list[SlotOf(list, lang)].str

(* The setters of the record; those of an identifier keep 127 bytes of it.  *)
Kept(ref) == [ref EXCEPT !.long = FALSE]

event_set_lang(e, lang) == [e EXCEPT !.lang = lang]
event_set_title(e, title, lang) == [e EXCEPT !.title = set_langstr(@, lang, title)]
event_set_subtitle(e, title, lang) == [e EXCEPT !.subtitle = set_langstr(@, lang, title)]
event_set_aspect(e, aspect) == [e EXCEPT !.aspect = aspect]
event_set_audio(e, audio) == [e EXCEPT !.audio = audio]
event_set_pcrid(e, pcrid) == [e EXCEPT !.pcrid = Kept(pcrid)]
event_set_scrid(e, scrid) == [e EXCEPT !.scrid = Kept(scrid)]
event_title(e, lang) == locate(e.title, lang)

-----------------------------------------------------------------------------
d == descs[at]
Describing(tag, rounds) == pc = "describe" /\ at <= Len(descs) /\ d.tag = tag /\ round \in rounds
Write(tag, lang, value) == doc' = Append(doc, [tag |-> tag, lang |-> lang, value |-> value])
NextDescriptor == at' = at + 1 /\ UNCHANGED <<descs, round, copy, pc>>

(* None before it was counted in `seen` in this round.                      *)
FirstSeen == \A i \in 1..(at - 1) : descs[i].tag # d.tag

(* Round 0 of a short event descriptor.                                     *)
Title ==
  /\ Describing("short", {0}) /\ d.name # NULL
  /\ \/ ev' = event_set_title(ev, d.name, d.lang) /\ UNCHANGED short
     \/ MayRunOut(ev.title, d.lang, d.name) /\ short' = TRUE /\ UNCHANGED ev
  /\ Write("title", d.lang, xmlify[d.name])
  /\ NextDescriptor

(* Mutant: the text is not looked at before it is set.                      *)
SubTitleAny ==
  /\ Describing("short", {1}) /\ d.text # NULL
  /\ \/ ev' = event_set_subtitle(ev, d.text, d.lang) /\ UNCHANGED short
     \/ MayRunOut(ev.subtitle, d.lang, d.text) /\ short' = TRUE /\ UNCHANGED ev
  /\ IF xmlify[d.text] # EMPTY THEN Write("sub-title", d.lang, xmlify[d.text]) ELSE UNCHANGED doc
  /\ NextDescriptor

(* The record is set whatever xmlify() makes of the text, the line is       *)
(* printed if it makes something of it.                                     *)
SubTitle ==
  /\ Describing("short", {1}) /\ d.text \notin {NULL, EMPTY}
  /\ \/ ev' = event_set_subtitle(ev, d.text, d.lang) /\ UNCHANGED short
     \/ MayRunOut(ev.subtitle, d.lang, d.text) /\ short' = TRUE /\ UNCHANGED ev
  /\ IF xmlify[d.text] # EMPTY THEN Write("sub-title", d.lang, xmlify[d.text]) ELSE UNCHANGED doc
  /\ NextDescriptor

(* Every language of sound is set, the first is printed; the others are     *)
(* comments.                                                                *)
Language ==
  /\ Describing("audio", {4})
  /\ ev' = event_set_lang(ev, d.lang)
  /\ IF FirstSeen THEN Write("language", d.lang, NULL) ELSE UNCHANGED doc
  /\ NextDescriptor /\ UNCHANGED short

(* Mutant: the record takes every aspect, the document the first.           *)
VideoEach ==
  /\ Describing("video", {5})
  /\ ev' = event_set_aspect(ev, (d.type - 1) % 4)
  /\ IF FirstSeen THEN Write("video", NULL, (d.type - 1) % 4) ELSE UNCHANGED doc
  /\ NextDescriptor /\ UNCHANGED short

Video ==
  /\ Describing("video", {5}) /\ FirstSeen
  /\ ev' = event_set_aspect(ev, (d.type - 1) % 4)
  /\ Write("video", NULL, (d.type - 1) % 4)
  /\ NextDescriptor /\ UNCHANGED short

Audio ==
  /\ Describing("audio", {6}) /\ FirstSeen
  /\ ev' = event_set_audio(ev, d.type)
  /\ Write("audio", NULL, d.type)
  /\ NextDescriptor /\ UNCHANGED short

Crid ==
  /\ Describing("crid", {5})
  /\ ev' = CASE d.kind = "programme" -> event_set_pcrid(ev, d.ref)
             [] d.kind = "series"    -> event_set_scrid(ev, d.ref)
             [] d.kind = "other"     -> ev
  /\ Write("crid", NULL, d.ref)
  /\ NextDescriptor /\ UNCHANGED short

(* A descriptor that does nothing in this round.                            *)
Skip ==
  /\ pc = "describe" /\ at <= Len(descs)
  /\ \/ d.tag = "short" /\ (round > 1 \/ (round = 0 /\ d.name = NULL)
                                        \/ (round = 1 /\ d.text \in {NULL, EMPTY}))
     \/ d.tag = "video" /\ (round # 5 \/ ~FirstSeen)
     \/ d.tag = "audio" /\ (round \notin {4, 6} \/ (round = 6 /\ ~FirstSeen))
     \/ d.tag = "crid" /\ round # 5
  /\ NextDescriptor /\ UNCHANGED <<ev, doc, short>>

NextRound ==
  /\ pc = "describe" /\ at > Len(descs)
  /\ IF round < 7 THEN round' = round + 1 /\ at' = 1 /\ UNCHANGED pc
     ELSE pc' = "debug" /\ UNCHANGED <<round, at>>
  /\ UNCHANGED <<descs, ev, doc, short, copy>>

-----------------------------------------------------------------------------
(* event_debug().  The loop over the subtitles prints the titles of the     *)
(* same indexes.                                                            *)
Subtitled == {i \in DOMAIN ev.subtitle : ev.subtitle[i] # NULL}

Debug ==
  /\ pc = "debug"
  /\ pc' \in IF \E i \in Subtitled \cap DOMAIN ev.title : ev.title[i] = NULL THEN {"killed"}
             ELSE IF ~(Subtitled \subseteq DOMAIN ev.title) THEN {"killed", "callback"}
             ELSE {"callback"}
  /\ UNCHANGED <<descs, round, at, ev, doc, short, copy>>

(* xmltv_write_event(): every slot of both lists is printed, even where     *)
(* xmlify() makes nothing of it.                                            *)
Callback ==
  /\ pc = "callback"
  /\ IF \E i \in DOMAIN ev.title : ev.title[i] = NULL
       THEN pc' = "killed" /\ UNCHANGED copy
       ELSE IF \E i \in DOMAIN ev.subtitle : ev.subtitle[i] = NULL
       THEN pc' = "killed" /\ UNCHANGED copy
       ELSE /\ pc' = "freed"
            /\ copy' =
                 [i \in DOMAIN ev.title |->
                    [tag |-> "title", lang |-> ev.title[i].lang, value |-> xmlify[ev.title[i].str]]]
              \o [i \in DOMAIN ev.subtitle |->
                    [tag |-> "sub-title", lang |-> ev.subtitle[i].lang, value |-> xmlify[ev.subtitle[i].str]]]
              \o (IF ev.lang # NULL THEN <<[tag |-> "language", lang |-> ev.lang, value |-> NULL]>>
                  ELSE <<>>)
              \o (IF ev.aspect # INVALID THEN <<[tag |-> "video", lang |-> NULL, value |-> ev.aspect]>>
                  ELSE <<>>)
              \o (IF ev.audio # INVALID THEN <<[tag |-> "audio", lang |-> NULL, value |-> ev.audio]>>
                  ELSE <<>>)
  /\ UNCHANGED <<descs, round, at, ev, doc, short>>

Next ==
  \/ Title \/ SubTitle \/ Language \/ Video \/ Audio \/ Crid \/ Skip \/ NextRound
  \/ Debug \/ Callback

Spec == Init /\ [][Next]_vars

-----------------------------------------------------------------------------
(* No string of a list is empty, and no language is in it twice.            *)
TypeOK ==
  /\ descs \in Inputs
  /\ round \in 0..7 /\ at \in 1..(Len(descs) + 1) /\ short \in BOOLEAN
  /\ pc \in {"describe", "debug", "callback", "freed", "killed"}
  /\ \A list \in {ev.title, ev.subtitle} :
       /\ list \in Seq(Langstr \cup {NULL})
       /\ \A i, j \in DOMAIN list :
            i # j /\ list[i] # NULL /\ list[j] # NULL => list[i].lang # list[j].lang
  /\ ev.aspect \in 0..3 \cup {INVALID} /\ ev.audio \in 0..255

(* What was printed last under a tag in a language, or NULL.                *)
Printed(tag, lang) ==
  LET at_ == {i \in DOMAIN doc : doc[i].tag = tag /\ doc[i].lang = lang}
  IN IF at_ = {} THEN NULL
     ELSE LET v == doc[CHOOSE i \in at_ : \A j \in at_ : i >= j].value
          IN IF v = EMPTY THEN NULL ELSE v

(* What a string of the record comes to in print, and one that comes to     *)
(* nothing.                                                                 *)
Shown(str) == IF str = NULL \/ xmlify[str] = EMPTY THEN NULL ELSE xmlify[str]
Unreadable(str) == str # NULL /\ xmlify[str] = EMPTY

(* event_set_langstr() (events.c:341) keeps a map: whatever was set and     *)
(* cleared in which order, what event_title() finds in a language prints as *)
(* what the document had last, and as nothing where that was empty; and so  *)
(* the subtitles, read with their own count, unless the last text of the    *)
(* language is one that xmlify() makes nothing of: it is in the record and  *)
(* was left out of the document (dvb-eit.c:357-360).                        *)
RecordAgrees ==
  ~short => \A l \in {x.lang : x \in {y \in ToSet(descs) : y.tag = "short"}} :
    /\ Shown(event_title(ev, l)) = Printed("title", l)
    /\ LET str == locate(ev.subtitle, l)
       IN Unreadable(str) \/ Shown(str) = Printed("sub-title", l)

(* The readers (events.c:325, xmltv.c:11): an event each of whose short     *)
(* descriptors has a name that is not empty, and which fits the memory, is  *)
(* read by both without a pointer that is not there.                        *)
Named(ds) == \A i \in DOMAIN ds : ds[i].tag = "short" => ds[i].name \notin {NULL, EMPTY}

ReadSafely == pc = "killed" => short \/ ~Named(descs)

(* A tag that is printed at most once.                                      *)
Once(lines, tag) ==
  \A i, j \in DOMAIN lines : lines[i].tag = tag /\ lines[j].tag = tag => i = j

(* xmltv_write_event() against parseDescription() (xmltv.c:39,              *)
(* dvb-eit.c:245): the callback prints of titles, subtitles, picture and    *)
(* sound what the document has, each once: repeats of a language are left   *)
(* to the last, and only the languages of the sound may differ.  It prints  *)
(* a subtitle that is empty where the last text of a language is one that   *)
(* xmlify() makes nothing of; the document has an older one then, or none.  *)
CopyAgrees ==
  (pc = "freed" /\ ~short) =>
    /\ \A i, j \in DOMAIN copy :
         copy[i].tag = copy[j].tag /\ copy[i].lang = copy[j].lang => i = j
    /\ \A i \in DOMAIN copy : copy[i].tag \in {"title", "sub-title"} =>
         IF copy[i].value # EMPTY THEN Printed(copy[i].tag, copy[i].lang) = copy[i].value
         ELSE copy[i].tag = "title" => Printed("title", copy[i].lang) = NULL
    /\ \A i \in DOMAIN doc :
         (doc[i].tag \in {"title", "sub-title"} /\ Printed(doc[i].tag, doc[i].lang) # NULL) =>
         \E j \in DOMAIN copy : copy[j].tag = doc[i].tag /\ copy[j].lang = doc[i].lang
    /\ \A t \in {"video", "audio"} :
         /\ Once(doc, t)
         /\ {l \in ToSet(copy) : l.tag = t} = {l \in ToSet(doc) : l.tag = t /\ l.value # INVALID}
=============================================================================
