------------------------------ MODULE EitEvent -------------------------------
(***************************************************************************)
(* What parseEIT() of dvb-eit.c prints for one event: parseDescription()   *)
(* and the functions it calls.  A line is named for what it is; "exit" is  *)
(* not a line but the end of the program.                                  *)
(***************************************************************************)
EXTENDS Integers, SequencesExt

Line == {"comment", "title", "sub-title", "<desc>", "text", "</desc>", "category",
         "language", "video", "crid", "audio", "subtitles", "rating", "exit"}

(* What the functions tell apart of a descriptor: which strings are there,  *)
(* whether description_table has a text for a code, and where identifiers   *)
(* are carried.  A name is there when its length is not zero, a text when   *)
(* xmlify() leaves something of it.  Of a silent descriptor nothing is      *)
(* printed.                                                                 *)
Descriptor ==
       [tag : {"short"}, name : BOOLEAN, text : BOOLEAN]
  \cup [tag : {"extended"}, number : 0..15, last : 0..15, items : BOOLEAN, text : BOOLEAN]
  \cup [tag : {"component"}, stream : {"video", "audio", "teletext", "other"}]
  \cup [tag : {"content"}, codes : Seq([code : 0..255, named : BOOLEAN])]
  \cup [tag : {"rating"}, ratings : Seq(0..255)]
  \cup [tag : {"crids"}, places : Seq({"here", "cit", "other"})]
  \cup [tag : {"silent", "unknown"}]

Lines(cond, line) == IF cond THEN <<line>> ELSE <<>>

(* Mutant: any short event descriptor will do.                              *)
TitledAny(ds) == \E i \in DOMAIN ds : ds[i].tag = "short"

(* validateDescription(): a short event descriptor whose title is not empty*)
Titled(ds) == \E i \in DOMAIN ds : ds[i].tag = "short" /\ ds[i].name

(* Mutant: an empty description is opened and not closed.                   *)
LongLinesOpen(d) ==
  LET some == d.number # 0 \/ d.last # 0 \/ d.items \/ d.text
  IN  Lines(d.number = 0, "<desc>")
        \o Lines(d.items, "text") \o Lines(d.text, "text")
        \o Lines(some /\ d.number = d.last, "</desc>")

(* parseLongEventDescription(): the first of a group opens the description *)
(* and the last one closes it; one that is alone and empty does neither.   *)
LongLines(d) ==
  LET some == d.number # 0 \/ d.last # 0 \/ d.items \/ d.text
  IN  Lines(some /\ d.number = 0, "<desc>")
        \o Lines(d.items, "text") \o Lines(d.text, "text")
        \o Lines(some /\ d.number = d.last, "</desc>")

(* Extended descriptors come in groups that count from 0 to their last.     *)
InOrder(ds) ==
  LET extended == {i \in DOMAIN ds : ds[i].tag = "extended"}
  IN /\ \A i \in extended :
          /\ (\A j \in extended : i <= j) => ds[i].number = 0
          /\ (\A j \in extended : j <= i) => ds[i].number = ds[i].last
     /\ \A i, j \in extended :
          i < j /\ (\A k \in extended : k <= i \/ j <= k) =>
            IF ds[i].number = ds[i].last THEN ds[j].number = 0
            ELSE ds[j].number = ds[i].number + 1 /\ ds[j].last = ds[i].last

(* seen is 0 at the i-th descriptor: none before it printed in this round. *)
FirstOfStream(ds, i) ==
  \A j \in 1..(i - 1) : ~(ds[j].tag = "component" /\ ds[j].stream = ds[i].stream)

(* parseComponentDescription() in rounds 4 to 7.  A second language is     *)
(* printed as a comment.                                                   *)
ComponentLines(ds, i, round) ==
  LET stream == ds[i].stream
  IN  CASE stream = "audio" /\ round = 4 ->
             IF FirstOfStream(ds, i) THEN <<"language">> ELSE <<"comment">>
        [] stream = "video" /\ round = 5 -> Lines(FirstOfStream(ds, i), "video")
        [] stream = "audio" /\ round = 6 -> Lines(FirstOfStream(ds, i), "audio")
        [] stream = "teletext" /\ round = 7 -> <<"subtitles">>
        [] OTHER -> <<>>

(* parseContentDescription(): the loop ends two bytes early, before the    *)
(* last code; a code is printed once.                                      *)
ContentLines(d) ==
  LET codes == d.codes
      printed == {i \in 1..(Len(codes) - 1) :
                    /\ codes[i].code > 0 /\ codes[i].named
                    /\ \A j \in 1..(i - 1) : codes[j].code # codes[i].code}
  IN  FlattenSeq([i \in DOMAIN codes |-> Lines(i \in printed, "category")])

RatingLines(d) ==
  FlattenSeq([i \in DOMAIN d.ratings |-> Lines(d.ratings[i] \in 1..15, "rating")])

(* parseContentIdentifierDescription(): an identifier carried in another   *)
(* table ends the program.                                                 *)
CridLines(d) ==
  FlattenSeq([i \in DOMAIN d.places |->
    CASE d.places[i] = "here" -> <<"crid">>
      [] d.places[i] = "cit"  -> <<"exit">>
      [] OTHER                -> <<>>])

(* One turn of the loop of parseDescription().                              *)
DescriptorLines(ds, i, round) ==
  LET d == ds[i]
  IN  CASE d.tag = "short" /\ round = 0    -> Lines(d.name, "title")
        [] d.tag = "short" /\ round = 1    -> Lines(d.text, "sub-title")
        [] d.tag = "extended" /\ round = 2 -> LongLines(d)
        [] d.tag = "content" /\ round = 3  -> ContentLines(d)
        [] d.tag = "component"             -> ComponentLines(ds, i, round)
        [] d.tag = "crids" /\ round = 5    -> CridLines(d)
        [] d.tag = "rating" /\ round = 7   -> RatingLines(d)
        [] d.tag = "unknown" /\ round = 0  -> <<"comment">>
        [] OTHER                           -> <<>>

(* parseDescription(): eight rounds over the descriptors.                   *)
AllLines(ds) ==
  FlattenSeq([r \in 1..8 |->
    FlattenSeq([i \in DOMAIN ds |-> DescriptorLines(ds, i, r - 1)])])

Exits(ds) == Contains(AllLines(ds), "exit")

(* What is printed: up to the end of the program if it comes first.        *)
Body(ds) ==
  LET all == AllLines(ds)
  IN  IF Exits(ds) THEN SubSeq(all, 1, SelectInSeq(all, LAMBDA l : l = "exit") - 1) ELSE all
=============================================================================
