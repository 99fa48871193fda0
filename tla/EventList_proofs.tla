--------------------------- MODULE EventList_proofs ---------------------------
(***************************************************************************)
(* event_set_langstr() keeps a map from languages to strings, for loops of *)
(* descriptors of any length.  From that follow that the record agrees     *)
(* with the document, that event_debug() and xmltv_write_event() read no   *)
(* pointer that is not there, and that what xmltv_write_event() prints is   *)
(* what the document has.                                                  *)
(***************************************************************************)
EXTENDS EventList, FiniteSetTheorems, WellFoundedInduction, TLAPS

Slots == Langstr \cup {NULL}
Distinct(list) ==
  \A i, j \in DOMAIN list :
    i # j /\ list[i] # NULL /\ list[j] # NULL => list[i].lang # list[j].lang

List(list) == list \in Seq(Slots) /\ Distinct(list)
Full(list) == \A i \in DOMAIN list : list[i] # NULL

(* What a string is worth: event_set_langstr() takes both for nothing.      *)
Worth(str) == IF str \in {NULL, EMPTY} THEN NULL ELSE str
Word(lang, str) == str \in {NULL, EMPTY} \/ [lang |-> lang, str |-> str] \in Langstr

-----------------------------------------------------------------------------
(* A set of places has a last one.                                          *)
LEMMA LastPlace ==
  ASSUME NEW n \in Nat, NEW S, S \subseteq 1..n, S # {}
  PROVE  \E x \in S : \A y \in S : x >= y
<1> DEFINE T == {n - x : x \in S}
<1>1. T \subseteq Nat /\ T # {}
  <2>1. \A x \in S : n - x \in Nat
    OBVIOUS
  <2>. QED  BY <2>1
<1>2. PICK m \in T : \A y \in T : ~(<<y, m>> \in OpToRel(<, Nat))
  BY <1>1, NatLessThanWellFounded, WFMin
<1>3. \A y \in T : ~(y < m)
  BY <1>1, <1>2 DEF OpToRel
<1>4. PICK x \in S : m = n - x
  OBVIOUS
<1>5. \A y \in S : x >= y
  <2>1. ASSUME NEW y \in S PROVE x >= y
    <3>1. n - y \in T /\ ~(n - y < n - x)
      BY <1>3, <1>4
    <3>2. x \in Int /\ y \in Int
      OBVIOUS
    <3>. QED  BY <3>1, <3>2
  <2>. QED  BY <2>1
<1>. QED  BY <1>5

LEMMA Slot ==
  ASSUME NEW list, List(list), NEW i \in DOMAIN list, list[i] # NULL
  PROVE  /\ SlotOf(list, list[i].lang) = i
         /\ list[i] \in Langstr
         /\ locate(list, list[i].lang) = list[i].str /\ list[i].str # NULL
<1>1. DOMAIN list = 1..Len(list) /\ Len(list) \in Nat /\ list[i] \in Slots
  BY DEF List
<1>2. {j \in DOMAIN list : list[j] # NULL /\ list[j].lang = list[i].lang} = {i}
  BY DEF List, Distinct
<1>3. SlotOf(list, list[i].lang) = i
  BY <1>1, <1>2 DEF SlotOf
<1>4. list[i] \in Langstr /\ list[i].str # NULL
  BY <1>1 DEF Slots, Langstr
<1>. QED  BY <1>1, <1>3, <1>4 DEF locate

LEMMA NoSlot ==
  ASSUME NEW list, NEW lang, \A i \in DOMAIN list : list[i] = NULL \/ list[i].lang # lang
  PROVE  SlotOf(list, lang) = 0 /\ locate(list, lang) = NULL
<1>1. {j \in DOMAIN list : list[j] # NULL /\ list[j].lang = lang} = {}
  OBVIOUS
<1>2. SlotOf(list, lang) = 0
  BY <1>1 DEF SlotOf
<1>. QED  BY <1>2 DEF locate

LEMMA Found ==
  ASSUME NEW list, List(list), NEW lang, SlotOf(list, lang) # 0
  PROVE  /\ SlotOf(list, lang) \in DOMAIN list
         /\ list[SlotOf(list, lang)] # NULL /\ list[SlotOf(list, lang)].lang = lang
<1>1. PICK i \in DOMAIN list : list[i] # NULL /\ list[i].lang = lang
  BY NoSlot
<1>. QED  BY <1>1, Slot

LEMMA NotFound ==
  ASSUME NEW list, List(list), NEW lang, SlotOf(list, lang) = 0
  PROVE  \A i \in DOMAIN list : list[i] = NULL \/ list[i].lang # lang
<1>1. DOMAIN list = 1..Len(list)
  BY DEF List
<1>. QED  BY <1>1, Slot

LEMMA Free ==
  ASSUME NEW list, List(list)
  PROVE  /\ FreeSlot(list) # 0 => FreeSlot(list) \in DOMAIN list /\ list[FreeSlot(list)] = NULL
         /\ Full(list) => FreeSlot(list) = 0
<1> DEFINE S == {i \in DOMAIN list : list[i] = NULL}
<1>1. DOMAIN list = 1..Len(list) /\ Len(list) \in Nat
  BY DEF List
<1>2. S # {} => \E x \in S : \A y \in S : x >= y
  BY <1>1, LastPlace
<1>3. FreeSlot(list) = IF S = {} THEN 0 ELSE CHOOSE i \in S : \A j \in S : i >= j
  BY DEF FreeSlot
<1>. QED  BY <1>2, <1>3 DEF Full

(* One slot changes, or is appended, and belongs to the language then.      *)
LEMMA Replaced ==
  ASSUME NEW list, List(list), NEW t \in Seq(Slots), NEW lang, NEW p, NEW k \in DOMAIN t, t[k] = p,
         \A i \in DOMAIN t : i # k => i \in DOMAIN list /\ t[i] = list[i],
         DOMAIN list \subseteq DOMAIN t,
         k \in DOMAIN list => list[k] = NULL \/ list[k].lang = lang,
         \A i \in DOMAIN list : i # k => list[i] = NULL \/ list[i].lang # lang,
         p = NULL \/ (p \in Langstr /\ p.lang = lang)
  PROVE  /\ List(t)
         /\ \A l : locate(t, l) = IF l = lang THEN (IF p = NULL THEN NULL ELSE p.str)
                                  ELSE locate(list, l)
<1>1. List(t)
  BY DEF List, Distinct
<1>2. \A i \in DOMAIN t : i # k => t[i] = NULL \/ t[i].lang # lang
  OBVIOUS
<1>3. locate(t, lang) = IF p = NULL THEN NULL ELSE p.str
  <2>1. CASE p = NULL
    BY <1>2, <2>1, NoSlot
  <2>2. CASE p # NULL
    BY <1>1, <2>2, Slot
  <2>. QED  BY <2>1, <2>2
<1>4. ASSUME NEW l, l # lang PROVE locate(t, l) = locate(list, l)
  <2>1. CASE \E i \in DOMAIN list : list[i] # NULL /\ list[i].lang = l
    <3>1. PICK i \in DOMAIN list : list[i] # NULL /\ list[i].lang = l
      BY <2>1
    <3>2. i # k /\ t[i] = list[i] /\ i \in DOMAIN t
      BY <1>4, <3>1
    <3>3. locate(t, l) = t[i].str
      BY <1>1, <3>1, <3>2, Slot
    <3>4. locate(list, l) = list[i].str
      BY <3>1, Slot
    <3>. QED  BY <3>2, <3>3, <3>4
  <2>2. CASE \A i \in DOMAIN list : list[i] = NULL \/ list[i].lang # l
    <3>1. \A i \in DOMAIN t : t[i] = NULL \/ t[i].lang # l
      BY <1>4, <2>2
    <3>. QED  BY <2>2, <3>1, NoSlot
  <2>. QED  BY <2>1, <2>2
<1>. QED  BY <1>1, <1>3, <1>4

(* event_set_langstr(): the language has the string, or nothing, and every  *)
(* other has what it had.                                                   *)
LEMMA Setting ==
  ASSUME NEW list, List(list), NEW lang, NEW str, Word(lang, str),
         NEW t, t = set_langstr(list, lang, str)
  PROVE  /\ List(t)
         /\ \A l : locate(t, l) = IF l = lang THEN Worth(str) ELSE locate(list, l)
         /\ Full(list) /\ str \notin {NULL, EMPTY} => Full(t)
<1> DEFINE p == IF str \in {NULL, EMPTY} THEN NULL ELSE [lang |-> lang, str |-> str]
           k == SlotOf(list, lang)
           f == FreeSlot(list)
<1>1. /\ p = NULL \/ (p \in Langstr /\ p.lang = lang)
      /\ p \in Slots
      /\ Worth(str) = IF p = NULL THEN NULL ELSE p.str
      /\ str \notin {NULL, EMPTY} => p # NULL
  BY ListAssumption DEF Word, Worth, Slots
<1>2. t = IF k # 0 THEN [list EXCEPT ![k] = p]
          ELSE IF p = NULL THEN list
          ELSE IF f # 0 THEN [list EXCEPT ![f] = p]
          ELSE Append(list, p)
  BY DEF set_langstr
<1>3. /\ list \in Seq(Slots) /\ Len(list) \in Nat /\ DOMAIN list = 1..Len(list)
  BY DEF List
<1>4. k # 0 => k \in DOMAIN list /\ list[k].lang = lang
  BY Found
<1>5. k = 0 => \A i \in DOMAIN list : list[i] = NULL \/ list[i].lang # lang
  BY NotFound
<1>6. f # 0 => f \in DOMAIN list /\ list[f] = NULL
  BY Free
<1>7. k # 0 => \A i \in DOMAIN list : i # k => list[i] = NULL \/ list[i].lang # lang
  BY Found DEF List, Distinct
<1> HIDE DEF p, k, f
<1>8. CASE k # 0
  <2>1. /\ t \in Seq(Slots) /\ k \in DOMAIN t /\ t[k] = p /\ DOMAIN t = DOMAIN list
        /\ \A i \in DOMAIN t : i # k => t[i] = list[i]
    BY <1>1, <1>2, <1>3, <1>4, <1>8
  <2>2. List(t) /\ \A l : locate(t, l) = IF l = lang THEN (IF p = NULL THEN NULL ELSE p.str)
                                         ELSE locate(list, l)
    BY <1>1, <1>4, <1>7, <1>8, <2>1, Replaced, SMTT(30)
  <2>. QED  BY <1>1, <2>1, <2>2 DEF Full
<1>9. CASE k = 0 /\ p = NULL
  BY <1>1, <1>2, <1>5, <1>9, NoSlot
<1>10. CASE k = 0 /\ p # NULL /\ f # 0
  <2>1. /\ t \in Seq(Slots) /\ f \in DOMAIN t /\ t[f] = p /\ DOMAIN t = DOMAIN list
        /\ \A i \in DOMAIN t : i # f => t[i] = list[i]
    BY <1>1, <1>2, <1>3, <1>6, <1>10
  <2>2. List(t) /\ \A l : locate(t, l) = IF l = lang THEN (IF p = NULL THEN NULL ELSE p.str)
                                         ELSE locate(list, l)
    BY <1>1, <1>5, <1>6, <1>10, <2>1, Replaced
  <2>. QED  BY <1>1, <1>6, <1>10, <2>1, <2>2 DEF Full
<1>11. CASE k = 0 /\ p # NULL /\ f = 0
  <2> DEFINE n == Len(list) + 1
  <2>1. /\ t \in Seq(Slots) /\ n \in DOMAIN t /\ t[n] = p /\ DOMAIN t = DOMAIN list \cup {n}
        /\ \A i \in DOMAIN list : t[i] = list[i]
        /\ n \notin DOMAIN list
    BY <1>1, <1>2, <1>3, <1>11
  <2> HIDE DEF n
  <2>2. List(t) /\ \A l : locate(t, l) = IF l = lang THEN (IF p = NULL THEN NULL ELSE p.str)
                                         ELSE locate(list, l)
    BY <1>1, <1>5, <1>11, <2>1, Replaced
  <2>. QED  BY <1>1, <1>11, <2>1, <2>2 DEF Full
<1>. QED  BY <1>8, <1>9, <1>10, <1>11

-----------------------------------------------------------------------------
Texts == {xmlify[str] : str \in Strings \ {NULL}}

Lines ==
  [tag : {"title", "sub-title", "language", "video", "audio", "crid"},
   lang : {x.lang : x \in Descriptors} \cup {NULL},
   value : Texts \cup {NULL} \cup 0..255 \cup {x.ref : x \in Descriptors}]

(* Printed() of any document.                                               *)
PrintedIn(dc, tag, lang) ==
  LET places == {i \in DOMAIN dc : dc[i].tag = tag /\ dc[i].lang = lang}
  IN IF places = {} THEN NULL
     ELSE Worth(dc[CHOOSE i \in places : \A j \in places : i >= j].value)

LEMMA PrintedHere == \A tag, lang : Printed(tag, lang) = PrintedIn(doc, tag, lang)
BY DEF Printed, PrintedIn, Worth

(* t has the line x after dc.                                               *)
OneLine(dc, x, t) ==
  \A tag, lang :
    PrintedIn(t, tag, lang) = IF x.tag = tag /\ x.lang = lang THEN Worth(x.value)
                              ELSE PrintedIn(dc, tag, lang)

LEMMA Printing ==
  ASSUME NEW dc \in Seq(Lines), NEW x \in Lines, NEW t, t = Append(dc, x)
  PROVE  OneLine(dc, x, t)
<1> SUFFICES ASSUME NEW tag, NEW lang
             PROVE  PrintedIn(t, tag, lang) = IF x.tag = tag /\ x.lang = lang THEN Worth(x.value)
                                              ELSE PrintedIn(dc, tag, lang)
  BY DEF OneLine
<1> DEFINE S == {i \in DOMAIN dc : dc[i].tag = tag /\ dc[i].lang = lang}
           T == {i \in DOMAIN t : t[i].tag = tag /\ t[i].lang = lang}
           n == Len(dc) + 1
           last(U) == CHOOSE i \in U : \A j \in U : i >= j
<1>1. /\ Len(dc) \in Nat /\ DOMAIN dc = 1..Len(dc) /\ DOMAIN t = 1..n
      /\ t[n] = x /\ \A i \in DOMAIN dc : t[i] = dc[i]
  OBVIOUS
<1>2. /\ PrintedIn(t, tag, lang) = IF T = {} THEN NULL ELSE Worth(t[last(T)].value)
      /\ PrintedIn(dc, tag, lang) = IF S = {} THEN NULL ELSE Worth(dc[last(S)].value)
  BY DEF PrintedIn
<1>3. CASE x.tag = tag /\ x.lang = lang
  <2>1. n \in T /\ \A j \in T : j <= n /\ j \in Nat
    BY <1>1, <1>3
  <2>2. last(T) = n
    BY <2>1
  <2>. QED  BY <1>1, <1>2, <1>3, <2>1, <2>2
<1>4. CASE ~(x.tag = tag /\ x.lang = lang)
  <2>1. T = S
    BY <1>1, <1>4
  <2>2. S # {} => last(S) \in S
    <3>1. S # {} => \E i \in S : \A j \in S : i >= j
      BY <1>1, LastPlace
    <3>. QED  BY <3>1
  <2>3. S # {} => t[last(S)] = dc[last(S)]
    BY <1>1, <2>2
  <2> HIDE DEF S, T, last
  <2>. QED  BY <1>2, <1>4, <2>1, <2>3
<1>. QED  BY <1>3, <1>4

-----------------------------------------------------------------------------
Record(e) ==
  /\ e = [lang |-> e.lang, title |-> e.title, subtitle |-> e.subtitle, audio |-> e.audio,
          aspect |-> e.aspect, pcrid |-> e.pcrid, scrid |-> e.scrid]
  /\ e.aspect \in 0..3 \cup {INVALID} /\ e.audio \in 0..255

(* What the setters of strings leave behind.  Every short event descriptor  *)
(* that was passed has set its title.                                       *)
Shape ==
  /\ descs \in Inputs
  /\ round \in 0..7 /\ at \in 1..(Len(descs) + 1) /\ short \in BOOLEAN
  /\ pc \in {"describe", "debug", "callback", "freed", "killed"}
  /\ Record(ev) /\ doc \in Seq(Lines)

Strung(title, subtitle) == List(title) /\ List(subtitle) /\ Full(subtitle)

Agreed(title, subtitle, dc) ==
  \A l : /\ Shown(locate(title, l)) = PrintedIn(dc, "title", l)
         /\ \/ Unreadable(locate(subtitle, l))
            \/ Shown(locate(subtitle, l)) = PrintedIn(dc, "sub-title", l)

Set(title, subtitle, ds, rd, k) ==
  /\ Full(title)
  /\ \A i \in DOMAIN ds :
       ds[i].tag = "short" /\ (rd > 0 \/ i < k) => locate(title, ds[i].lang) # NULL
  /\ \A l : locate(subtitle, l) # NULL => locate(title, l) # NULL

IInv ==
  /\ Shape
  /\ Strung(ev.title, ev.subtitle)
  /\ ~short => Agreed(ev.title, ev.subtitle, doc)
  /\ ~short /\ Named(descs) => pc # "killed" /\ Set(ev.title, ev.subtitle, descs, round, at)

LEMMA Loop ==
  ASSUME Shape
  PROVE  /\ Len(descs) \in Nat /\ DOMAIN descs = 1..Len(descs)
         /\ \A i \in DOMAIN descs : descs[i] \in Descriptors
BY ListAssumption DEF Shape

LEMMA Words ==
  ASSUME NEW x \in Descriptors, x.tag = "short"
  PROVE  /\ Word(x.lang, x.name) /\ Word(x.lang, x.text)
         /\ x.name \in Strings /\ x.text \in Strings
BY DEF Word, Langstr, Strings, Shorts

(* What xmlify() makes of a string that is set, as the record and as the    *)
(* document have it.                                                        *)
LEMMA ShownIs ==
  ASSUME NEW str \in Strings, str # NULL
  PROVE  /\ xmlify[str] \in Texts
         /\ Shown(Worth(str)) = Worth(xmlify[str])
         /\ str # EMPTY /\ xmlify[str] = EMPTY => Unreadable(Worth(str))
<1>1. xmlify[str] # NULL /\ (str = EMPTY => xmlify[str] = EMPTY) /\ EMPTY # NULL
  BY ListAssumption
<1>. QED  BY <1>1 DEF Texts, Shown, Worth, Unreadable

LEMMA ShownNone == Shown(NULL) = NULL /\ ~Unreadable(NULL)
BY DEF Shown, Unreadable

(* A line of another tag changes nothing of the strings.                    *)
LEMMA OtherLine ==
  ASSUME NEW title, NEW subtitle, NEW dc \in Seq(Lines), NEW x \in Lines, NEW t, t = Append(dc, x),
         x.tag \notin {"title", "sub-title"}, Agreed(title, subtitle, dc)
  PROVE  Agreed(title, subtitle, t)
<1>1. OneLine(dc, x, t)
  BY Printing
<1>2. x.tag # "title" /\ x.tag # "sub-title"
  OBVIOUS
<1>. QED  BY <1>1, <1>2 DEF Agreed, OneLine

LEMMA InitInv == Init => IInv
<1> SUFFICES ASSUME Init PROVE IInv
  OBVIOUS
<1>1. /\ ev.title = <<>> /\ ev.subtitle = <<>> /\ doc = <<>> /\ round = 0 /\ at = 1
      /\ ev.aspect = INVALID /\ ev.audio = INVALID /\ INVALID \in 0..255
  BY DEF Init, NewEvent, INVALID
<1>2. Shape
  <2>1. Len(descs) \in Nat /\ descs \in Inputs
    BY ListAssumption DEF Init
  <2>2. ev = [lang |-> ev.lang, title |-> ev.title, subtitle |-> ev.subtitle, audio |-> ev.audio,
              aspect |-> ev.aspect, pcrid |-> ev.pcrid, scrid |-> ev.scrid]
    BY DEF Init, NewEvent
  <2>3. at \in 1..(Len(descs) + 1) /\ round \in 0..7
    BY <1>1, <2>1
  <2>4. doc \in Seq(Lines)
    BY <1>1
  <2>5. short \in BOOLEAN /\ pc = "describe"
    BY DEF Init
  <2>. QED  BY <1>1, <2>1, <2>2, <2>3, <2>4, <2>5 DEF Shape, Record
<1>3. Strung(<<>>, <<>>)
  BY DEF Strung, List, Distinct, Full
<1>4. Agreed(<<>>, <<>>, <<>>)
  BY NoSlot, ShownNone DEF Agreed, PrintedIn
<1>5. Set(<<>>, <<>>, descs, 0, 1)
  <2>1. \A l : locate(<<>>, l) = NULL
    BY NoSlot
  <2>2. DOMAIN descs \subseteq 1..Len(descs) /\ Len(descs) \in Nat
    BY <1>2, Loop
  <2>. QED  BY <2>1, <2>2 DEF Set, Full
<1>. QED  BY <1>1, <1>2, <1>3, <1>4, <1>5 DEF IInv, Init

-----------------------------------------------------------------------------
(* The loop goes on to the next descriptor.                                 *)
LEMMA Onward ==
  ASSUME Shape, NextDescriptor, at <= Len(descs), Record(ev)', doc' \in Seq(Lines), short' \in BOOLEAN
  PROVE  Shape' /\ descs' = descs /\ at' = at + 1 /\ round' = round /\ pc' = pc
<1>1. Len(descs) \in Nat
  BY Loop
<1>2. descs' = descs /\ at' = at + 1 /\ round' = round /\ pc' = pc
  BY DEF NextDescriptor
<1>3. at' \in 1..(Len(descs) + 1)
  BY <1>1, <1>2 DEF Shape
<1>. QED  BY <1>2, <1>3 DEF Shape

LEMMA SetOnward ==
  ASSUME Shape, NEW title, NEW subtitle, Set(title, subtitle, descs, round, at), at <= Len(descs),
         d.tag = "short" /\ round = 0 => locate(title, d.lang) # NULL
  PROVE  Set(title, subtitle, descs, round, at + 1)
<1>1. ASSUME NEW i \in DOMAIN descs, descs[i].tag = "short", round > 0 \/ i < at + 1
      PROVE  locate(title, descs[i].lang) # NULL
  <2>1. i \in Nat /\ at \in Nat /\ round \in Nat
    BY Loop DEF Shape
  <2>2. CASE round > 0 \/ i < at
    BY <1>1, <2>2 DEF Set
  <2>3. CASE ~(round > 0) /\ i = at
    BY <1>1, <2>1, <2>3 DEF d
  <2>. QED  BY <1>1, <2>1, <2>2, <2>3
<1>. QED  BY <1>1 DEF Set

LEMMA HereIs ==
  ASSUME Shape, at <= Len(descs)
  PROVE  d \in Descriptors /\ at \in DOMAIN descs
<1>1. at \in DOMAIN descs
  BY Loop DEF Shape
<1>. QED  BY <1>1, Loop DEF d

LEMMA ALine ==
  ASSUME NEW tag \in {"title", "sub-title", "language", "video", "audio", "crid"},
         NEW lang \in {x.lang : x \in Descriptors} \cup {NULL},
         NEW value \in Texts \cup {NULL} \cup 0..255 \cup {x.ref : x \in Descriptors}
  PROVE  [tag |-> tag, lang |-> lang, value |-> value] \in Lines
BY DEF Lines

(* A descriptor that sets no string writes nothing, or a line of its own.   *)
LEMMA NoString ==
  ASSUME IInv, NextDescriptor, at <= Len(descs), d.tag # "short" \/ round # 0 \/ d.name = NULL,
         Record(ev)', ev'.title = ev.title, ev'.subtitle = ev.subtitle, short' = short,
         \/ doc' = doc
         \/ \E x \in Lines : x.tag \notin {"title", "sub-title"} /\ doc' = Append(doc, x)
  PROVE  IInv'
<1>1. Shape /\ Strung(ev.title, ev.subtitle)
  BY DEF IInv
<1>2. doc' \in Seq(Lines) /\ short' \in BOOLEAN
  BY <1>1 DEF Shape
<1>3. Shape' /\ descs' = descs /\ at' = at + 1 /\ round' = round /\ pc' = pc
  BY <1>1, <1>2, Onward
<1>4. ~short => Agreed(ev.title, ev.subtitle, doc')
  <2>1. doc \in Seq(Lines)
    BY <1>1 DEF Shape
  <2>2. ~short => Agreed(ev.title, ev.subtitle, doc)
    BY DEF IInv
  <2>. QED  BY <2>1, <2>2, OtherLine
<1>5. ~short /\ Named(descs) => pc # "killed" /\ Set(ev.title, ev.subtitle, descs, round, at + 1)
  <2>1. SUFFICES ASSUME ~short, Named(descs)
                 PROVE  pc # "killed" /\ Set(ev.title, ev.subtitle, descs, round, at + 1)
    OBVIOUS
  <2>2. pc # "killed" /\ Set(ev.title, ev.subtitle, descs, round, at)
    BY <2>1 DEF IInv
  <2>3. ~(d.tag = "short" /\ round = 0)
    BY <1>1, <2>1, HereIs DEF Named, d
  <2>. QED  BY <1>1, <2>2, <2>3, SetOnward
<1>. QED  BY <1>1, <1>3, <1>4, <1>5 DEF IInv

LEMMA TitleStep == IInv /\ Title => IInv'
<1> SUFFICES ASSUME IInv, Title PROVE IInv'
  OBVIOUS
<1> DEFINE t == set_langstr(ev.title, d.lang, d.name)
           v == xmlify[d.name]
           x == [tag |-> "title", lang |-> d.lang, value |-> v]
<1>1. /\ Shape /\ Strung(ev.title, ev.subtitle) /\ Record(ev)
      /\ at <= Len(descs) /\ d.tag = "short" /\ NextDescriptor /\ doc' = Append(doc, x)
      /\ d.name # NULL
  BY DEF IInv, Title, Describing, Shape, Write
<1>2. d \in Descriptors /\ at \in DOMAIN descs
  BY <1>1, HereIs
<1>3. Word(d.lang, d.name) /\ d.name \in Strings
  BY <1>1, <1>2, Words
<1>4. /\ List(t)
      /\ \A l : locate(t, l) = IF l = d.lang THEN Worth(d.name) ELSE locate(ev.title, l)
      /\ Full(ev.title) /\ d.name \notin {NULL, EMPTY} => Full(t)
  BY <1>1, <1>3, Setting DEF Strung
<1>5. v \in Texts /\ Shown(Worth(d.name)) = Worth(v)
  BY <1>1, <1>3, ShownIs
<1> HIDE DEF v
<1>10. x \in Lines /\ doc \in Seq(Lines)
  BY <1>1, <1>2, <1>5, ALine DEF Shape
<1>6. x.tag = "title" /\ x.lang = d.lang /\ x.value = v
  OBVIOUS
<1> HIDE DEF x, t
<1>7. OneLine(doc, x, doc') /\ doc' \in Seq(Lines)
  <2>1. OneLine(doc, x, Append(doc, x))
    BY <1>10, Printing
  <2>. QED  BY <1>1, <1>10, <2>1
<1>8. CASE ev' = event_set_title(ev, d.name, d.lang) /\ short' = short
  <2>1. ev'.title = t /\ ev'.subtitle = ev.subtitle /\ Record(ev)'
    BY <1>1, <1>8 DEF event_set_title, Record, t
  <2>2. Shape' /\ descs' = descs /\ at' = at + 1 /\ round' = round /\ pc' = pc
    BY <1>1, <1>7, <1>8, <2>1, Onward DEF Shape
  <2>3. Strung(t, ev.subtitle)
    BY <1>1, <1>4 DEF Strung
  <2>4. ~short => Agreed(t, ev.subtitle, doc')
    <3>1. "sub-title" # "title"
      OBVIOUS
    <3>2. ~short => Agreed(ev.title, ev.subtitle, doc)
      BY DEF IInv
    <3>3. Shown(locate(t, d.lang)) = PrintedIn(doc', "title", d.lang)
      BY <1>4, <1>5, <1>6, <1>7 DEF OneLine
    <3>4. \A l : l # d.lang => locate(t, l) = locate(ev.title, l)
                               /\ PrintedIn(doc', "title", l) = PrintedIn(doc, "title", l)
      BY <1>4, <1>6, <1>7 DEF OneLine
    <3>5. \A l : PrintedIn(doc', "sub-title", l) = PrintedIn(doc, "sub-title", l)
      BY <1>6, <1>7, <3>1 DEF OneLine
    <3>. QED  BY <3>2, <3>3, <3>4, <3>5 DEF Agreed
  <2>5. ~short /\ Named(descs) => pc # "killed" /\ Set(t, ev.subtitle, descs, round, at + 1)
    <3>1. SUFFICES ASSUME ~short, Named(descs)
                   PROVE  pc # "killed" /\ Set(t, ev.subtitle, descs, round, at + 1)
      OBVIOUS
    <3>2. pc # "killed" /\ Set(ev.title, ev.subtitle, descs, round, at)
      BY <3>1 DEF IInv
    <3>3. d.name \notin {NULL, EMPTY} /\ Worth(d.name) # NULL
      BY <1>1, <1>2, <3>1 DEF Named, d, Worth
    <3>4. Set(t, ev.subtitle, descs, round, at)
      BY <1>4, <3>2, <3>3 DEF Set
    <3>5. locate(t, d.lang) # NULL
      BY <1>4, <3>3
    <3>. QED  BY <1>1, <3>2, <3>4, <3>5, SetOnward
  <2>. QED  BY <1>8, <2>1, <2>2, <2>3, <2>4, <2>5 DEF IInv
<1>9. CASE short' = TRUE /\ ev' = ev
  <2>1. Shape'
    BY <1>1, <1>7, <1>9, Onward
  <2>. QED  BY <1>1, <1>9, <2>1 DEF IInv
<1>. QED  BY <1>8, <1>9 DEF Title

LEMMA SubTitleStep == IInv /\ SubTitle => IInv'
<1> SUFFICES ASSUME IInv, SubTitle PROVE IInv'
  OBVIOUS
<1> DEFINE t == set_langstr(ev.subtitle, d.lang, d.text)
           v == xmlify[d.text]
           x == [tag |-> "sub-title", lang |-> d.lang, value |-> v]
<1>1. /\ Shape /\ Strung(ev.title, ev.subtitle) /\ Record(ev)
      /\ at <= Len(descs) /\ d.tag = "short" /\ NextDescriptor
      /\ doc' = (IF v # EMPTY THEN Append(doc, x) ELSE doc)
      /\ round = 1 /\ d.text \notin {NULL, EMPTY}
  BY DEF IInv, SubTitle, Describing, Shape, Write
<1>2. d \in Descriptors /\ at \in DOMAIN descs
  BY <1>1, HereIs
<1>3. Word(d.lang, d.text) /\ d.text \in Strings
  BY <1>1, <1>2, Words
<1>4. /\ List(t) /\ Full(t)
      /\ \A l : locate(t, l) = IF l = d.lang THEN Worth(d.text) ELSE locate(ev.subtitle, l)
  BY <1>1, <1>3, Setting DEF Strung
<1>5. v \in Texts /\ Shown(Worth(d.text)) = Worth(v) /\ (v = EMPTY => Unreadable(Worth(d.text)))
  BY <1>1, <1>3, ShownIs
<1> HIDE DEF v
<1>10. x \in Lines /\ doc \in Seq(Lines)
  BY <1>1, <1>2, <1>5, ALine DEF Shape
<1>6. x.tag = "sub-title" /\ x.lang = d.lang /\ x.value = v
  OBVIOUS
<1> HIDE DEF x, t
<1>7. doc' \in Seq(Lines) /\ (IF v # EMPTY THEN OneLine(doc, x, doc') ELSE doc' = doc)
  <2>1. OneLine(doc, x, Append(doc, x))
    BY <1>10, Printing
  <2>. QED  BY <1>1, <1>10, <2>1
<1>8. CASE ev' = event_set_subtitle(ev, d.text, d.lang) /\ short' = short
  <2>1. ev'.title = ev.title /\ ev'.subtitle = t /\ Record(ev)'
    BY <1>1, <1>8 DEF event_set_subtitle, Record, t
  <2>2. Shape' /\ descs' = descs /\ at' = at + 1 /\ round' = round /\ pc' = pc
    BY <1>1, <1>7, <1>8, <2>1, Onward DEF Shape
  <2>3. Strung(ev.title, t)
    BY <1>1, <1>4 DEF Strung
  <2>4. ~short => Agreed(ev.title, t, doc')
    <3>1. "sub-title" # "title"
      OBVIOUS
    <3>2. ~short => Agreed(ev.title, ev.subtitle, doc)
      BY DEF IInv
    <3>3. \/ Unreadable(locate(t, d.lang))
          \/ Shown(locate(t, d.lang)) = PrintedIn(doc', "sub-title", d.lang)
      BY <1>4, <1>5, <1>6, <1>7 DEF OneLine
    <3>4. \A l : l # d.lang => locate(t, l) = locate(ev.subtitle, l)
                               /\ PrintedIn(doc', "sub-title", l) = PrintedIn(doc, "sub-title", l)
      BY <1>4, <1>6, <1>7 DEF OneLine
    <3>5. \A l : PrintedIn(doc', "title", l) = PrintedIn(doc, "title", l)
      BY <1>6, <1>7, <3>1 DEF OneLine
    <3>. QED  BY <3>2, <3>3, <3>4, <3>5 DEF Agreed
  <2>5. ~short /\ Named(descs) => pc # "killed" /\ Set(ev.title, t, descs, round, at + 1)
    <3>1. SUFFICES ASSUME ~short, Named(descs)
                   PROVE  pc # "killed" /\ Set(ev.title, t, descs, round, at + 1)
      OBVIOUS
    <3>2. pc # "killed" /\ Set(ev.title, ev.subtitle, descs, round, at)
      BY <3>1 DEF IInv
    <3>3. locate(ev.title, d.lang) # NULL
      BY <1>1, <1>2, <3>2 DEF Set, d
    <3>4. Set(ev.title, t, descs, round, at)
      BY <1>4, <3>2, <3>3 DEF Set
    <3>. QED  BY <1>1, <3>2, <3>3, <3>4, SetOnward
  <2>. QED  BY <1>8, <2>1, <2>2, <2>3, <2>4, <2>5 DEF IInv
<1>9. CASE short' = TRUE /\ ev' = ev
  <2>1. Shape'
    BY <1>1, <1>7, <1>9, Onward
  <2>. QED  BY <1>1, <1>9, <2>1 DEF IInv
<1>. QED  BY <1>8, <1>9 DEF SubTitle

LEMMA NoStringStep == IInv /\ (Language \/ Video \/ Audio \/ Crid \/ Skip) => IInv'
<1> SUFFICES ASSUME IInv, Language \/ Video \/ Audio \/ Crid \/ Skip PROVE IInv'
  OBVIOUS
<1>1. Shape /\ Record(ev) /\ at <= Len(descs) /\ NextDescriptor /\ short' = short
  BY DEF IInv, Shape, Language, Video, Audio, Crid, Skip, Describing
<1>2. d \in Descriptors
  BY <1>1, HereIs
<1>3. d.lang \in {x.lang : x \in Descriptors} /\ d.ref \in {x.ref : x \in Descriptors}
  BY <1>2
<1>4. CASE Language
  <2>1. ev'.title = ev.title /\ ev'.subtitle = ev.subtitle /\ Record(ev)'
    BY <1>1, <1>4 DEF Language, event_set_lang, Record
  <2>2. [tag |-> "language", lang |-> d.lang, value |-> NULL] \in Lines
    BY <1>3, ALine
  <2>3. \/ doc' = doc
        \/ \E x \in Lines : x.tag \notin {"title", "sub-title"} /\ doc' = Append(doc, x)
    BY <1>4, <2>2 DEF Language, Write
  <2>. QED  BY <1>1, <1>4, <2>1, <2>3, NoString DEF Language, Describing
<1>5. CASE Video
  <2>5. d.type \in 0..255
    BY <1>2, <1>5, ListAssumption DEF Video, Describing
  <2>1. (d.type - 1) % 4 \in 0..3
    BY <2>5
  <2>2. ev'.title = ev.title /\ ev'.subtitle = ev.subtitle /\ Record(ev)'
    <3> DEFINE a == (d.type - 1) % 4
    <3>1. ev' = [ev EXCEPT !.aspect = a] /\ a \in 0..3
      BY <1>5, <2>1 DEF Video, event_set_aspect
    <3> HIDE DEF a
    <3>. QED  BY <1>1, <3>1 DEF Record
  <2>3. [tag |-> "video", lang |-> NULL, value |-> (d.type - 1) % 4] \in Lines
    <3>1. (d.type - 1) % 4 \in 0..255
      BY <2>1
    <3>. QED  BY <3>1, ALine
  <2>4. \E x \in Lines : x.tag \notin {"title", "sub-title"} /\ doc' = Append(doc, x)
    BY <1>5, <2>3 DEF Video, Write
  <2>. QED  BY <1>1, <1>5, <2>2, <2>4, NoString DEF Video, Describing
<1>6. CASE Audio
  <2>1. d.type \in 0..255
    BY <1>2, <1>6, ListAssumption DEF Audio, Describing
  <2>2. ev'.title = ev.title /\ ev'.subtitle = ev.subtitle /\ Record(ev)'
    BY <1>1, <1>6, <2>1 DEF Audio, event_set_audio, Record
  <2>3. [tag |-> "audio", lang |-> NULL, value |-> d.type] \in Lines
    BY <2>1, ALine
  <2>4. \E x \in Lines : x.tag \notin {"title", "sub-title"} /\ doc' = Append(doc, x)
    BY <1>6, <2>3 DEF Audio, Write
  <2>. QED  BY <1>1, <1>6, <2>2, <2>4, NoString DEF Audio, Describing
<1>7. CASE Crid
  <2>1. ev'.title = ev.title /\ ev'.subtitle = ev.subtitle /\ Record(ev)'
    <3>1. d.kind \in {"programme", "series", "other"}
      BY <1>2, <1>7, ListAssumption DEF Crid, Describing
    <3>2. \/ ev' = event_set_pcrid(ev, d.ref)
          \/ ev' = event_set_scrid(ev, d.ref)
          \/ ev' = ev
      BY <1>7, <3>1 DEF Crid
    <3>3. CASE ev' = event_set_pcrid(ev, d.ref)
      BY <1>1, <3>3, SMTT(30) DEF event_set_pcrid, Record
    <3>4. CASE ev' = event_set_scrid(ev, d.ref)
      BY <1>1, <3>4, SMTT(30) DEF event_set_scrid, Record
    <3>5. CASE ev' = ev
      BY <1>1, <3>5 DEF Record
    <3>. QED  BY <3>2, <3>3, <3>4, <3>5
  <2>2. [tag |-> "crid", lang |-> NULL, value |-> d.ref] \in Lines
    BY <1>3, ALine
  <2>3. \E x \in Lines : x.tag \notin {"title", "sub-title"} /\ doc' = Append(doc, x)
    BY <1>7, <2>2 DEF Crid, Write
  <2>. QED  BY <1>1, <1>7, <2>1, <2>3, NoString DEF Crid, Describing
<1>8. CASE Skip
  <2>1. ev' = ev /\ doc' = doc
    BY <1>8 DEF Skip
  <2>2. d.tag # "short" \/ round # 0 \/ d.name = NULL
    BY <1>8 DEF Skip
  <2>. QED  BY <1>1, <2>1, <2>2, NoString
<1>. QED  BY <1>4, <1>5, <1>6, <1>7, <1>8

LEMMA RoundStep == IInv /\ NextRound => IInv'
<1> SUFFICES ASSUME IInv, NextRound PROVE IInv'
  OBVIOUS
<1>1. /\ Shape /\ Strung(ev.title, ev.subtitle) /\ Len(descs) \in Nat
      /\ DOMAIN descs = 1..Len(descs)
  BY Loop DEF IInv
<1>2. ev' = ev /\ doc' = doc /\ short' = short /\ descs' = descs
  BY DEF NextRound
<1>3. Shape'
  BY <1>1, <1>2 DEF Shape, NextRound
<1>4. ~short /\ Named(descs) => pc' # "killed" /\ Set(ev.title, ev.subtitle, descs, round', at')
  <2>1. SUFFICES ASSUME ~short, Named(descs)
                 PROVE  pc' # "killed" /\ Set(ev.title, ev.subtitle, descs, round', at')
    OBVIOUS
  <2>2. pc # "killed" /\ Set(ev.title, ev.subtitle, descs, round, at)
    BY <2>1 DEF IInv
  <2>3. pc' # "killed" /\ at > Len(descs)
    BY <2>2 DEF NextRound
  <2>4. \A i \in DOMAIN descs : i < at
    BY <1>1, <2>3 DEF Shape
  <2>. QED  BY <2>2, <2>3, <2>4 DEF Set
<1>. QED  BY <1>1, <1>2, <1>3, <1>4 DEF IInv

-----------------------------------------------------------------------------
(* Languages that are in one list, and are all in another, have places      *)
(* enough in it.                                                            *)
LEMMA FewerSubtitles ==
  ASSUME NEW title, NEW subtitle, List(title), List(subtitle), Full(title), Full(subtitle),
         \A l : locate(subtitle, l) # NULL => locate(title, l) # NULL
  PROVE  DOMAIN subtitle \subseteq DOMAIN title
<1> DEFINE f == [i \in DOMAIN subtitle |-> SlotOf(title, subtitle[i].lang)]
<1>1. /\ DOMAIN title = 1..Len(title) /\ Len(title) \in Nat
      /\ DOMAIN subtitle = 1..Len(subtitle) /\ Len(subtitle) \in Nat
  BY DEF List
<1>2. ASSUME NEW i \in DOMAIN subtitle
      PROVE  /\ SlotOf(title, subtitle[i].lang) \in DOMAIN title
             /\ title[SlotOf(title, subtitle[i].lang)].lang = subtitle[i].lang
  <2>1. locate(subtitle, subtitle[i].lang) # NULL
    <3>1. subtitle[i] # NULL
      BY DEF Full
    <3>. QED  BY <3>1, Slot
  <2>2. locate(title, subtitle[i].lang) # NULL
    BY <2>1
  <2>3. SlotOf(title, subtitle[i].lang) # 0
    BY <2>2 DEF locate
  <2>. QED  BY <2>3, Found
<1>3. f \in Injection(DOMAIN subtitle, DOMAIN title)
  <2>1. f \in [DOMAIN subtitle -> DOMAIN title]
    BY <1>2
  <2>2. ASSUME NEW i \in DOMAIN subtitle, NEW j \in DOMAIN subtitle, f[i] = f[j]
        PROVE  i = j
    <3>1. subtitle[i].lang = subtitle[j].lang
      BY <1>2, <2>2
    <3>. QED  BY <3>1 DEF List, Distinct, Full
  <2>. QED  BY <2>1, <2>2 DEF Injection, IsInjective
<1>4. Cardinality(DOMAIN subtitle) <= Cardinality(DOMAIN title)
  <2>1. IsFiniteSet(DOMAIN title)
    BY <1>1, FS_Interval
  <2>. QED  BY <1>3, <2>1, FS_Injection
<1>5. Cardinality(DOMAIN subtitle) = Len(subtitle) /\ Cardinality(DOMAIN title) = Len(title)
  <2>1. ASSUME NEW n \in Nat PROVE Cardinality(1..n) = n
    <3>1. Cardinality(1..n) = IF 1 > n THEN 0 ELSE n - 1 + 1
      BY FS_Interval
    <3>. QED  BY <3>1
  <2>. QED  BY <1>1, <2>1
<1>. QED  BY <1>1, <1>4, <1>5

(* event_debug() and xmltv_write_event() find a string in every slot.       *)
LEMMA ReaderStep == IInv /\ (Debug \/ Callback) => IInv'
<1> SUFFICES ASSUME IInv, Debug \/ Callback PROVE IInv'
  OBVIOUS
<1>1. Shape /\ Strung(ev.title, ev.subtitle)
  BY DEF IInv
<1>2. /\ ev' = ev /\ doc' = doc /\ short' = short /\ descs' = descs
      /\ round' = round /\ at' = at
      /\ pc' \in {"describe", "debug", "callback", "freed", "killed"}
  BY DEF Debug, Callback
<1>3. Shape'
  BY <1>1, <1>2 DEF Shape
<1>4. ~short /\ Named(descs) => pc' # "killed"
  <2>1. SUFFICES ASSUME ~short, Named(descs) PROVE pc' # "killed"
    OBVIOUS
  <2>2. Set(ev.title, ev.subtitle, descs, round, at)
    BY <2>1 DEF IInv
  <2>3. DOMAIN ev.subtitle \subseteq DOMAIN ev.title
    BY <1>1, <2>2, FewerSubtitles DEF Set, Strung
  <2>4. /\ \A i \in DOMAIN ev.title : ev.title[i] # NULL
        /\ \A i \in DOMAIN ev.subtitle : ev.subtitle[i] # NULL
    BY <1>1, <2>2 DEF Set, Strung, Full
  <2>5. CASE Debug
    BY <2>3, <2>4, <2>5 DEF Debug, Subtitled
  <2>6. CASE Callback
    BY <2>4, <2>6 DEF Callback
  <2>. QED  BY <2>5, <2>6
<1>. QED  BY <1>1, <1>2, <1>3, <1>4 DEF IInv

LEMMA StepInv == IInv /\ [Next]_vars => IInv'
<1> SUFFICES ASSUME IInv, [Next]_vars PROVE IInv'
  OBVIOUS
<1>1. CASE UNCHANGED vars
  BY <1>1 DEF vars, IInv, Shape
<1>2. CASE Next
  BY <1>2, TitleStep, SubTitleStep, NoStringStep, RoundStep, ReaderStep DEF Next
<1>. QED  BY <1>1, <1>2

LEMMA Invariant == Spec => []IInv
BY InitInv, StepInv, PTL DEF Spec

(* event_set_langstr() and the setters of the record (events.c:341): no     *)
(* list holds an empty string or a language twice, and the record is of     *)
(* its type.                                                                *)
THEOREM TypeCorrect == Spec => []TypeOK
<1>1. IInv => TypeOK
  <2> SUFFICES ASSUME IInv PROVE TypeOK
    OBVIOUS
  <2>1. Shape /\ List(ev.title) /\ List(ev.subtitle)
    BY DEF IInv, Strung
  <2>2. \A list \in {ev.title, ev.subtitle} : List(list)
    BY <2>1
  <2>. QED  BY <2>1, <2>2 DEF TypeOK, Shape, Record, List, Distinct, Slots
<1>. QED  BY Invariant, <1>1, PTL

(* event_set_langstr() (events.c:341): a list keeps a map.  What the record *)
(* has in a language prints as what the document had last, whatever was set *)
(* and cleared in which order; a subtitle that xmlify() makes nothing of is *)
(* in the record although the document left it out.                         *)
THEOREM KeepsMaps == Spec => []RecordAgrees
<1>1. IInv => RecordAgrees
  BY PrintedHere DEF IInv, Agreed, RecordAgrees, event_title
<1>. QED  BY Invariant, <1>1, PTL

(* event_debug() and xmltv_write_event() (events.c:325, xmltv.c:11): if     *)
(* every short event descriptor has a name, there are no more subtitles     *)
(* than titles and no list has a null pointer, so nothing else is read.     *)
THEOREM ReadsSafely == Spec => []ReadSafely
<1>1. IInv => ReadSafely
  BY DEF IInv, ReadSafely
<1>. QED  BY Invariant, <1>1, PTL

-----------------------------------------------------------------------------
(* No two lines of a document have one tag and one language.                *)
Keyed(s) == \A i, j \in DOMAIN s : s[i].tag = s[j].tag /\ s[i].lang = s[j].lang => i = j

Apart(a, b) == \A i \in DOMAIN a : \A j \in DOMAIN b : a[i].tag # b[j].tag

Joins(c, a, b, A, B) ==
  c \in Seq(A \cup B) /\ Keyed(c) /\ ToSet(c) = ToSet(a) \cup ToSet(b)

(* Parts with tags of their own, one after the other.                       *)
LEMMA Joined ==
  ASSUME NEW A, NEW B, NEW a \in Seq(A), NEW b \in Seq(B), Keyed(a), Keyed(b), Apart(a, b),
         NEW c, c = a \o b
  PROVE  Joins(c, a, b, A, B)
<1>1. /\ Len(a) \in Nat /\ Len(b) \in Nat /\ DOMAIN a = 1..Len(a) /\ DOMAIN b = 1..Len(b)
      /\ c \in Seq(A \cup B) /\ DOMAIN c = 1..(Len(a) + Len(b))
      /\ \A i \in DOMAIN c : c[i] = IF i <= Len(a) THEN a[i] ELSE b[i - Len(a)]
  OBVIOUS
<1>2. \A i \in DOMAIN c : IF i <= Len(a) THEN i \in DOMAIN a ELSE i - Len(a) \in DOMAIN b
  BY <1>1
<1>3. Keyed(c)
  <2> SUFFICES ASSUME NEW i \in DOMAIN c, NEW j \in DOMAIN c,
                      c[i].tag = c[j].tag, c[i].lang = c[j].lang
               PROVE  i = j
    BY DEF Keyed
  <2>1. CASE i <= Len(a) /\ j <= Len(a)
    BY <1>1, <1>2, <2>1 DEF Keyed
  <2>2. CASE ~(i <= Len(a)) /\ ~(j <= Len(a))
    <3> DEFINE p == i - Len(a)
               q == j - Len(a)
    <3>1. p \in DOMAIN b /\ q \in DOMAIN b /\ c[i] = b[p] /\ c[j] = b[q]
      BY <1>1, <1>2, <2>2
    <3> HIDE DEF p, q
    <3>2. p = q
      BY <3>1 DEF Keyed
    <3>. QED  BY <1>1, <3>2 DEF p, q
  <2>3. CASE i <= Len(a) /\ ~(j <= Len(a))
    BY <1>1, <1>2, <2>3 DEF Apart
  <2>4. CASE ~(i <= Len(a)) /\ j <= Len(a)
    BY <1>1, <1>2, <2>4 DEF Apart
  <2>. QED  BY <2>1, <2>2, <2>3, <2>4
<1>4. ToSet(c) = ToSet(a) \cup ToSet(b)
  <2>1. ToSet(c) \subseteq ToSet(a) \cup ToSet(b)
    BY <1>1, <1>2 DEF ToSet
  <2>2. ToSet(a) \subseteq ToSet(c)
    <3>1. \A i \in DOMAIN a : i \in DOMAIN c /\ i <= Len(a)
      BY <1>1
    <3>. QED  BY <1>1, <3>1 DEF ToSet
  <2>3. ToSet(b) \subseteq ToSet(c)
    <3>1. \A i \in DOMAIN b : i + Len(a) \in DOMAIN c /\ ~(i + Len(a) <= Len(a))
                               /\ (i + Len(a)) - Len(a) = i
      BY <1>1
    <3>2. \A i \in DOMAIN b : c[i + Len(a)] = b[i]
      BY <1>1, <3>1
    <3>. QED  BY <3>1, <3>2 DEF ToSet
  <2>. QED  BY <2>1, <2>2, <2>3
<1>. QED  BY <1>1, <1>3, <1>4 DEF Joins

(* A part: its lines are of some tags, and each is there once.              *)
Part(s, tags, lines) ==
  s \in Seq(lines) /\ Keyed(s) /\ ToSet(s) = lines /\ \A x \in lines : x.tag \in tags

LEMMA Parts ==
  ASSUME NEW a, NEW ta, NEW A, Part(a, ta, A), NEW b, NEW tb, NEW B, Part(b, tb, B), ta \cap tb = {},
         NEW c, c = a \o b
  PROVE  Part(c, ta \cup tb, A \cup B)
<1>1. Apart(a, b)
  <2>1. /\ \A i \in DOMAIN a : a[i] \in A
        /\ \A i \in DOMAIN b : b[i] \in B
    BY DEF Part, ToSet
  <2>. QED  BY <2>1 DEF Part, Apart
<1>2. c \in Seq(A \cup B) /\ Keyed(c) /\ ToSet(c) = ToSet(a) \cup ToSet(b)
  <2>1. a \in Seq(A) /\ b \in Seq(B) /\ Keyed(a) /\ Keyed(b)
    BY DEF Part
  <2>2. Joins(c, a, b, A, B)
    BY <1>1, <2>1, Joined
  <2>. QED  BY <2>2 DEF Joins
<1>3. ToSet(c) = A \cup B /\ \A x \in A \cup B : x.tag \in ta \cup tb
  BY <1>2 DEF Part
<1>. QED  BY <1>2, <1>3 DEF Part

(* What a list of strings and a field give.                                 *)
StringLines(tag, list) == {[tag |-> tag, lang |-> list[i].lang, value |-> xmlify[list[i].str]] : i \in DOMAIN list}
FieldLines(there, x) == IF there THEN {x} ELSE {}

LEMMA StringPart ==
  ASSUME NEW tag, NEW list, List(list), Full(list), NEW s,
         s = [i \in DOMAIN list |-> [tag |-> tag, lang |-> list[i].lang, value |-> xmlify[list[i].str]]]
  PROVE  Part(s, {tag}, StringLines(tag, list))
<1>1. DOMAIN list = 1..Len(list) /\ Len(list) \in Nat
  BY DEF List
<1>2. s \in Seq(StringLines(tag, list))
  <2>1. s \in [1..Len(list) -> StringLines(tag, list)]
    BY <1>1 DEF StringLines
  <2>. QED  BY <1>1, <2>1
<1>3. Keyed(s)
  BY <1>1 DEF Keyed, List, Distinct, Full
<1>4. ToSet(s) = StringLines(tag, list)
  BY DEF ToSet, StringLines
<1>5. \A x \in StringLines(tag, list) : x.tag \in {tag}
  BY DEF StringLines
<1>. QED  BY <1>2, <1>3, <1>4, <1>5 DEF Part

LEMMA FieldPart ==
  ASSUME NEW there, NEW x, NEW s, s = IF there THEN <<x>> ELSE <<>>, NEW tag, tag = x.tag
  PROVE  Part(s, {tag}, FieldLines(there, x))
<1>1. CASE there
  <2>1. s = <<x>> /\ FieldLines(there, x) = {x} /\ DOMAIN s = 1..1 /\ s[1] = x
    BY <1>1 DEF FieldLines
  <2>2. ToSet(s) = {x} /\ Keyed(s) /\ s \in Seq({x})
    BY <2>1 DEF ToSet, Keyed
  <2>. QED  BY <2>1, <2>2 DEF Part
<1>2. CASE ~there
  <2>1. s = <<>> /\ FieldLines(there, x) = {} /\ DOMAIN s = {}
    BY <1>2 DEF FieldLines
  <2>2. ToSet(s) = {} /\ Keyed(s) /\ s \in Seq({})
    BY <2>1 DEF ToSet, Keyed
  <2>. QED  BY <2>1, <2>2 DEF Part
<1>. QED  BY <1>1, <1>2

-----------------------------------------------------------------------------
(* A field of the record that is set once, with the line of its tag.        *)
Silent(dc, tag) == \A i \in DOMAIN dc : dc[i].tag # tag

Told(dc, tag, value) ==
  /\ Once(dc, tag)
  /\ \A i \in DOMAIN dc : dc[i].tag = tag => dc[i].lang = NULL /\ dc[i].value = value
  /\ value # INVALID => \E i \in DOMAIN dc : dc[i].tag = tag

(* It is silent until the first descriptor of the tag in its round.         *)
Waits(tag, turn, dc, ds, rd, k) ==
  Silent(dc, tag) \/ rd > turn \/ (rd = turn /\ \E i \in 1..(k - 1) : ds[i].tag = tag)

Fields ==
  /\ Told(doc, "video", ev.aspect) /\ Told(doc, "audio", ev.audio)
  /\ Waits("video", 5, doc, descs, round, at) /\ Waits("audio", 6, doc, descs, round, at)

LEMMA OtherTag ==
  ASSUME NEW dc \in Seq(Lines), NEW x \in Lines, NEW t, t = Append(dc, x), NEW tag, x.tag # tag
  PROVE  /\ Silent(dc, tag) => Silent(t, tag)
         /\ \A value : Told(dc, tag, value) => Told(t, tag, value)
<1> DEFINE n == Len(dc) + 1
<1>1. /\ DOMAIN t = DOMAIN dc \cup {n} /\ t[n] = x /\ \A i \in DOMAIN dc : t[i] = dc[i]
  OBVIOUS
<1> HIDE DEF n
<1>2. Silent(dc, tag) => Silent(t, tag)
  BY <1>1 DEF Silent
<1>3. ASSUME NEW value, Told(dc, tag, value) PROVE Told(t, tag, value)
  BY <1>1, <1>3 DEF Told, Once
<1>. QED  BY <1>2, <1>3

LEMMA FirstOfTag ==
  ASSUME NEW dc \in Seq(Lines), NEW x \in Lines, NEW t, t = Append(dc, x), NEW tag, x.tag = tag,
         Silent(dc, tag), x.lang = NULL
  PROVE  Told(t, tag, x.value)
<1> DEFINE n == Len(dc) + 1
<1>1. /\ DOMAIN t = DOMAIN dc \cup {n} /\ t[n] = x /\ \A i \in DOMAIN dc : t[i] = dc[i]
  OBVIOUS
<1> HIDE DEF n
<1>2. \A i \in DOMAIN t : t[i].tag = tag => i = n
  BY <1>1 DEF Silent
<1>. QED  BY <1>1, <1>2 DEF Told, Once

(* The loop goes on, and a line of another tag may be written.              *)
LEMMA WaitsOn ==
  ASSUME Shape, NEW tag, NEW turn \in Nat, Waits(tag, turn, doc, descs, round, at),
         NEW dc, Silent(doc, tag) => Silent(dc, tag)
  PROVE  Waits(tag, turn, dc, descs, round, at + 1)
<1>1. 1..(at - 1) \subseteq 1..((at + 1) - 1)
  BY Loop DEF Shape
<1>. QED  BY <1>1 DEF Waits

LEMMA FieldsOn ==
  ASSUME IInv, Fields, NextDescriptor, at <= Len(descs), ev'.aspect = ev.aspect, ev'.audio = ev.audio,
         \/ doc' = doc
         \/ \E x \in Lines : x.tag \notin {"video", "audio"} /\ doc' = Append(doc, x)
  PROVE  Fields'
<1>1. Shape /\ doc \in Seq(Lines)
  BY DEF IInv, Shape
<1>2. \A tag \in {"video", "audio"} :
        /\ Silent(doc, tag) => Silent(doc', tag)
        /\ \A value : Told(doc, tag, value) => Told(doc', tag, value)
  <2> SUFFICES ASSUME NEW tag \in {"video", "audio"}
               PROVE  /\ Silent(doc, tag) => Silent(doc', tag)
                      /\ \A value : Told(doc, tag, value) => Told(doc', tag, value)
    OBVIOUS
  <2>1. CASE doc' = doc
    BY <2>1
  <2>2. CASE \E x \in Lines : x.tag \notin {"video", "audio"} /\ doc' = Append(doc, x)
    <3>1. PICK x \in Lines : x.tag # tag /\ doc' = Append(doc, x)
      BY <2>2
    <3>. QED  BY <1>1, <3>1, OtherTag
  <2>. QED  BY <2>1, <2>2
<1>3. descs' = descs /\ at' = at + 1 /\ round' = round
  BY DEF NextDescriptor
<1>4. /\ Waits("video", 5, doc', descs, round, at + 1)
      /\ Waits("audio", 6, doc', descs, round, at + 1)
  <2>1. 5 \in Nat /\ 6 \in Nat
    OBVIOUS
  <2>2. /\ Silent(doc, "video") => Silent(doc', "video")
        /\ Silent(doc, "audio") => Silent(doc', "audio")
    BY <1>2
  <2>. QED  BY <1>1, <2>1, <2>2, WaitsOn DEF Fields
<1>5. Told(doc', "video", ev.aspect) /\ Told(doc', "audio", ev.audio)
  BY <1>2 DEF Fields
<1>. QED  BY <1>3, <1>4, <1>5 DEF Fields

(* The first picture or sound, in its round.                                *)
LEMMA FieldSet ==
  ASSUME IInv, Fields, at <= Len(descs), FirstSeen, NEW tag, d.tag = tag, NEW turn, round = turn,
         Waits(tag, turn, doc, descs, round, at), NEW value,
         NEW x, x = [tag |-> tag, lang |-> NULL, value |-> value], x \in Lines
  PROVE  /\ Told(Append(doc, x), tag, value)
         /\ Waits(tag, turn, Append(doc, x), descs, round, at + 1)
<1>1. /\ Shape /\ doc \in Seq(Lines) /\ at \in DOMAIN descs /\ at \in Nat /\ at \in 1..((at + 1) - 1)
      /\ round \in Nat
  BY Loop, HereIs DEF IInv, Shape
<1>2. Silent(doc, tag)
  BY <1>1 DEF Waits, FirstSeen
<1>3. Told(Append(doc, x), tag, value)
  <2>1. x.tag = tag /\ x.lang = NULL /\ x.value = value
    OBVIOUS
  <2>2. Told(Append(doc, x), tag, x.value)
    BY <1>1, <1>2, <2>1, FirstOfTag
  <2>. QED  BY <2>1, <2>2
<1>. QED  BY <1>1, <1>3 DEF Waits, d

LEMMA InitFields == Init => Fields
<1> SUFFICES ASSUME Init PROVE Fields
  OBVIOUS
<1>1. doc = <<>> /\ ev.aspect = INVALID /\ ev.audio = INVALID
  BY DEF Init, NewEvent
<1>. QED  BY <1>1 DEF Fields, Told, Once, Waits, Silent

LEMMA StepFields == IInv /\ Fields /\ [Next]_vars => Fields'
<1> SUFFICES ASSUME IInv, Fields, [Next]_vars PROVE Fields'
  OBVIOUS
<1>1. Shape /\ Record(ev) /\ doc \in Seq(Lines)
  BY DEF IInv, Shape
<1>2. at <= Len(descs) => d \in Descriptors /\ at \in DOMAIN descs
  BY <1>1, HereIs
<1>3. d \in Descriptors => d.lang \in {x.lang : x \in Descriptors}
                           /\ d.ref \in {x.ref : x \in Descriptors}
  OBVIOUS
<1>4. CASE Title
  <2>1. at <= Len(descs) /\ d.tag = "short" /\ NextDescriptor
    BY <1>4 DEF Title, Describing
  <2>2. xmlify[d.name] \in Texts
    BY <1>2, <1>4, <2>1, Words, ShownIs DEF Title
  <2>3. [tag |-> "title", lang |-> d.lang, value |-> xmlify[d.name]] \in Lines
    BY <1>2, <1>3, <2>1, <2>2, ALine
  <2>4. \E x \in Lines : x.tag \notin {"video", "audio"} /\ doc' = Append(doc, x)
    BY <1>4, <2>3 DEF Title, Write
  <2>5. ev'.aspect = ev.aspect /\ ev'.audio = ev.audio
    BY <1>1, <1>4 DEF Title, event_set_title, Record
  <2>. QED  BY <2>1, <2>4, <2>5, FieldsOn
<1>5. CASE SubTitle
  <2>1. at <= Len(descs) /\ d.tag = "short" /\ NextDescriptor
    BY <1>5 DEF SubTitle, Describing
  <2>2. xmlify[d.text] \in Texts
    BY <1>2, <1>5, <2>1, Words, ShownIs DEF SubTitle
  <2>3. [tag |-> "sub-title", lang |-> d.lang, value |-> xmlify[d.text]] \in Lines
    BY <1>2, <1>3, <2>1, <2>2, ALine
  <2>4. \/ doc' = doc
        \/ \E x \in Lines : x.tag \notin {"video", "audio"} /\ doc' = Append(doc, x)
    BY <1>5, <2>3 DEF SubTitle, Write
  <2>5. ev'.aspect = ev.aspect /\ ev'.audio = ev.audio
    BY <1>1, <1>5 DEF SubTitle, event_set_subtitle, Record
  <2>. QED  BY <2>1, <2>4, <2>5, FieldsOn
<1>6. CASE Language
  <2>1. at <= Len(descs) /\ NextDescriptor
    BY <1>6 DEF Language, Describing
  <2>3. [tag |-> "language", lang |-> d.lang, value |-> NULL] \in Lines
    BY <1>2, <1>3, <2>1, ALine
  <2>4. \/ doc' = doc
        \/ \E x \in Lines : x.tag \notin {"video", "audio"} /\ doc' = Append(doc, x)
    BY <1>6, <2>3 DEF Language, Write
  <2>5. ev'.aspect = ev.aspect /\ ev'.audio = ev.audio
    BY <1>1, <1>6 DEF Language, event_set_lang, Record
  <2>. QED  BY <2>1, <2>4, <2>5, FieldsOn
<1>7. CASE Crid
  <2>1. at <= Len(descs) /\ d.tag = "crid" /\ NextDescriptor
    BY <1>7 DEF Crid, Describing
  <2>3. [tag |-> "crid", lang |-> NULL, value |-> d.ref] \in Lines
    BY <1>2, <1>3, <2>1, ALine
  <2>4. \E x \in Lines : x.tag \notin {"video", "audio"} /\ doc' = Append(doc, x)
    BY <1>7, <2>3 DEF Crid, Write
  <2>5. ev'.aspect = ev.aspect /\ ev'.audio = ev.audio
    <3>1. d.kind \in {"programme", "series", "other"}
      BY <1>2, <2>1, ListAssumption
    <3>2. \/ ev' = event_set_pcrid(ev, d.ref)
          \/ ev' = event_set_scrid(ev, d.ref)
          \/ ev' = ev
      BY <1>7, <3>1 DEF Crid
    <3>. QED  BY <1>1, <3>2 DEF event_set_pcrid, event_set_scrid, Record
  <2>. QED  BY <2>1, <2>4, <2>5, FieldsOn
<1>8. CASE Skip
  <2>1. at <= Len(descs) /\ NextDescriptor /\ ev' = ev /\ doc' = doc
    BY <1>8 DEF Skip
  <2>. QED  BY <2>1, FieldsOn
<1>9. CASE Video
  <2> DEFINE a == (d.type - 1) % 4
             x == [tag |-> "video", lang |-> NULL, value |-> a]
  <2>1. /\ at <= Len(descs) /\ d.tag = "video" /\ round = 5 /\ NextDescriptor /\ FirstSeen
        /\ ev' = [ev EXCEPT !.aspect = a] /\ doc' = Append(doc, x)
    BY <1>9 DEF Video, Describing, event_set_aspect, Write
  <2>2. a \in 0..255
    <3>1. d.type \in 0..255
      BY <1>2, <2>1, ListAssumption
    <3>. QED  BY <3>1
  <2> HIDE DEF a
  <2>3. x \in Lines /\ x.tag # "audio"
    BY <2>2, ALine
  <2>4. ev'.aspect = a /\ ev'.audio = ev.audio
    BY <1>1, <2>1 DEF Record
  <2>5. /\ Told(doc', "video", a)
        /\ Waits("video", 5, doc', descs, round, at + 1)
    <3>1. Waits("video", 5, doc, descs, round, at)
      BY DEF Fields
    <3>. QED  BY <2>1, <2>3, <3>1, FieldSet
  <2> HIDE DEF x
  <2>6. /\ Silent(doc, "audio") => Silent(doc', "audio")
        /\ Told(doc', "audio", ev.audio)
    BY <1>1, <2>1, <2>3, OtherTag DEF Fields
  <2>7. Waits("audio", 6, doc', descs, round, at + 1)
    <3>1. 6 \in Nat
      OBVIOUS
    <3>. QED  BY <1>1, <2>6, <3>1, WaitsOn DEF Fields
  <2>8. descs' = descs /\ at' = at + 1 /\ round' = round
    BY <2>1 DEF NextDescriptor
  <2>. QED  BY <2>4, <2>5, <2>6, <2>7, <2>8 DEF Fields
<1>10. CASE Audio
  <2> DEFINE x == [tag |-> "audio", lang |-> NULL, value |-> d.type]
  <2>1. /\ at <= Len(descs) /\ d.tag = "audio" /\ round = 6 /\ NextDescriptor /\ FirstSeen
        /\ ev' = [ev EXCEPT !.audio = d.type] /\ doc' = Append(doc, x)
    BY <1>10 DEF Audio, Describing, event_set_audio, Write
  <2>2. d.type \in 0..255
    BY <1>2, <2>1, ListAssumption
  <2>3. x \in Lines /\ x.tag # "video"
    BY <2>2, ALine
  <2>4. ev'.audio = d.type /\ ev'.aspect = ev.aspect
    BY <1>1, <2>1 DEF Record
  <2>5. /\ Told(doc', "audio", d.type)
        /\ Waits("audio", 6, doc', descs, round, at + 1)
    <3>1. Waits("audio", 6, doc, descs, round, at)
      BY DEF Fields
    <3>. QED  BY <2>1, <2>3, <3>1, FieldSet
  <2> HIDE DEF x
  <2>6. /\ Silent(doc, "video") => Silent(doc', "video")
        /\ Told(doc', "video", ev.aspect)
    BY <1>1, <2>1, <2>3, OtherTag DEF Fields
  <2>7. Waits("video", 5, doc', descs, round, at + 1)
    <3>1. 5 \in Nat
      OBVIOUS
    <3>. QED  BY <1>1, <2>6, <3>1, WaitsOn DEF Fields
  <2>8. descs' = descs /\ at' = at + 1 /\ round' = round
    BY <2>1 DEF NextDescriptor
  <2>. QED  BY <2>4, <2>5, <2>6, <2>7, <2>8 DEF Fields
<1>11. CASE NextRound
  <2>1. ev' = ev /\ doc' = doc /\ descs' = descs /\ round \in Nat
        /\ (round' = round + 1 \/ (round' = round /\ at' = at))
    BY <1>1, <1>11 DEF NextRound, Shape
  <2>2. /\ Waits("video", 5, doc, descs, round', at') /\ Waits("audio", 6, doc, descs, round', at')
    BY <2>1 DEF Fields, Waits
  <2>. QED  BY <2>1, <2>2 DEF Fields
<1>12. CASE Debug \/ Callback \/ UNCHANGED vars
  <2>1. ev' = ev /\ doc' = doc /\ descs' = descs /\ round' = round /\ at' = at
    BY <1>12 DEF Debug, Callback, vars
  <2>. QED  BY <2>1 DEF Fields
<1>. QED
  BY <1>4, <1>5, <1>6, <1>7, <1>8, <1>9, <1>10, <1>11, <1>12 DEF Next

-----------------------------------------------------------------------------
FieldOf(tag, value) == FieldLines(value # INVALID, [tag |-> tag, lang |-> NULL, value |-> value])

(* The lines the callback prints.                                           *)
Copied(s, title, subtitle, lang, aspect, audio) ==
  /\ Keyed(s)
  /\ ToSet(s) = ((((StringLines("title", title) \cup StringLines("sub-title", subtitle))
                    \cup FieldLines(lang # NULL, [tag |-> "language", lang |-> lang, value |-> NULL]))
                    \cup FieldOf("video", aspect)) \cup FieldOf("audio", audio))

LEMMA CallbackCopies ==
  ASSUME IInv, Callback, pc' = "freed"
  PROVE  /\ Copied(copy', ev.title, ev.subtitle, ev.lang, ev.aspect, ev.audio)
         /\ Full(ev.title) /\ Full(ev.subtitle)
<1> DEFINE T == [i \in DOMAIN ev.title |->
                   [tag |-> "title", lang |-> ev.title[i].lang, value |-> xmlify[ev.title[i].str]]]
           S == [i \in DOMAIN ev.subtitle |->
                   [tag |-> "sub-title", lang |-> ev.subtitle[i].lang, value |-> xmlify[ev.subtitle[i].str]]]
           l == [tag |-> "language", lang |-> ev.lang, value |-> NULL]
           v == [tag |-> "video", lang |-> NULL, value |-> ev.aspect]
           a == [tag |-> "audio", lang |-> NULL, value |-> ev.audio]
           L == IF ev.lang # NULL THEN <<l>> ELSE <<>>
           V == IF ev.aspect # INVALID THEN <<v>> ELSE <<>>
           A == IF ev.audio # INVALID THEN <<a>> ELSE <<>>
<1>1. copy' = (((T \o S) \o L) \o V) \o A /\ Full(ev.title) /\ Full(ev.subtitle)
  BY DEF Callback, Full
<1>2. List(ev.title) /\ List(ev.subtitle)
  BY DEF IInv, Strung
<1>3. /\ Part(T, {"title"}, StringLines("title", ev.title))
      /\ Part(S, {"sub-title"}, StringLines("sub-title", ev.subtitle))
  BY <1>1, <1>2, StringPart
<1>4. /\ Part(L, {"language"}, FieldLines(ev.lang # NULL, l))
      /\ Part(V, {"video"}, FieldOf("video", ev.aspect))
      /\ Part(A, {"audio"}, FieldOf("audio", ev.audio))
  <2>1. l.tag = "language" /\ v.tag = "video" /\ a.tag = "audio"
    OBVIOUS
  <2>2. /\ FieldOf("video", ev.aspect) = FieldLines(ev.aspect # INVALID, v)
        /\ FieldOf("audio", ev.audio) = FieldLines(ev.audio # INVALID, a)
    BY DEF FieldOf
  <2>3. L = (IF ev.lang # NULL THEN <<l>> ELSE <<>>) /\ V = (IF ev.aspect # INVALID THEN <<v>> ELSE <<>>)
        /\ A = (IF ev.audio # INVALID THEN <<a>> ELSE <<>>)
    OBVIOUS
  <2> HIDE DEF l, v, a, L, V, A
  <2>4. Part(L, {"language"}, FieldLines(ev.lang # NULL, l))
    BY <2>1, <2>3, FieldPart
  <2>5. Part(V, {"video"}, FieldLines(ev.aspect # INVALID, v))
    BY <2>1, <2>3, FieldPart
  <2>6. Part(A, {"audio"}, FieldLines(ev.audio # INVALID, a))
    BY <2>1, <2>3, FieldPart
  <2>. QED  BY <2>2, <2>4, <2>5, <2>6
<1> DEFINE s1 == StringLines("title", ev.title)
           s2 == StringLines("sub-title", ev.subtitle)
           s3 == FieldLines(ev.lang # NULL, l)
           s4 == FieldOf("video", ev.aspect)
           s5 == FieldOf("audio", ev.audio)
<1>5. Part(T, {"title"}, s1) /\ Part(S, {"sub-title"}, s2) /\ Part(L, {"language"}, s3)
      /\ Part(V, {"video"}, s4) /\ Part(A, {"audio"}, s5)
  BY <1>3, <1>4
<1> HIDE DEF T, S, L, V, A, s1, s2, s3, s4, s5
<1>6. Part(T \o S, {"title"} \cup {"sub-title"}, s1 \cup s2)
  <2>1. {"title"} \cap {"sub-title"} = {}
    OBVIOUS
  <2>. QED  BY <1>5, <2>1, Parts
<1>7. Part((T \o S) \o L, {"title"} \cup {"sub-title"} \cup {"language"}, (s1 \cup s2) \cup s3)
  <2>1. ({"title"} \cup {"sub-title"}) \cap {"language"} = {}
    OBVIOUS
  <2>. QED  BY <1>5, <1>6, <2>1, Parts
<1>8. Part(((T \o S) \o L) \o V, {"title"} \cup {"sub-title"} \cup {"language"} \cup {"video"},
           ((s1 \cup s2) \cup s3) \cup s4)
  <2>1. ({"title"} \cup {"sub-title"} \cup {"language"}) \cap {"video"} = {}
    OBVIOUS
  <2>. QED  BY <1>5, <1>7, <2>1, Parts
<1>9. Part((((T \o S) \o L) \o V) \o A,
           {"title"} \cup {"sub-title"} \cup {"language"} \cup {"video"} \cup {"audio"},
           (((s1 \cup s2) \cup s3) \cup s4) \cup s5)
  <2>1. ({"title"} \cup {"sub-title"} \cup {"language"} \cup {"video"}) \cap {"audio"} = {}
    OBVIOUS
  <2>. QED  BY <1>5, <1>8, <2>1, Parts
<1>10. Keyed(copy') /\ ToSet(copy') = (((s1 \cup s2) \cup s3) \cup s4) \cup s5
  BY <1>1, <1>9 DEF Part
<1>. QED  BY <1>1, <1>10 DEF Copied, s1, s2, s3, s4, s5

(* The line of a field in the document is the one that is copied.           *)
LEMMA FieldLine ==
  ASSUME NEW dc \in Seq(Lines), NEW tag, NEW value, Told(dc, tag, value)
  PROVE  {x \in ToSet(dc) : x.tag = tag /\ x.value # INVALID} = FieldOf(tag, value)
<1>1. \A x \in ToSet(dc) : x.tag = tag => x = [tag |-> tag, lang |-> NULL, value |-> value]
  <2> SUFFICES ASSUME NEW i \in DOMAIN dc, dc[i].tag = tag
               PROVE  dc[i] = [tag |-> tag, lang |-> NULL, value |-> value]
    BY DEF ToSet
  <2>1. dc[i] = [tag |-> dc[i].tag, lang |-> dc[i].lang, value |-> dc[i].value]
    <3>1. dc[i] \in Lines
      OBVIOUS
    <3>. QED  BY <3>1 DEF Lines
  <2>. QED  BY <2>1 DEF Told
<1>2. CASE value = INVALID
  BY <1>1, <1>2 DEF FieldOf, FieldLines
<1>3. CASE value # INVALID
  <2> DEFINE y == [tag |-> tag, lang |-> NULL, value |-> value]
  <2>1. PICK i \in DOMAIN dc : dc[i].tag = tag
    BY <1>3 DEF Told
  <2>2. dc[i] \in ToSet(dc) /\ dc[i] = y
    BY <1>1, <2>1 DEF ToSet
  <2>3. y.tag = tag /\ y.value = value
    OBVIOUS
  <2>4. FieldOf(tag, value) = {y}
    BY <1>3 DEF FieldOf, FieldLines
  <2> HIDE DEF y
  <2>. QED  BY <1>1, <1>3, <2>2, <2>3, <2>4 DEF y
<1>. QED  BY <1>2, <1>3

(* A list of strings in the copy: what it has under its tag, if it is not   *)
(* empty, was printed last, and what was printed last is there.             *)
LEMMA StringsCopied ==
  ASSUME NEW list, List(list), Full(list), NEW tag, NEW dc,
         \A l : \/ Unreadable(locate(list, l))
               \/ Shown(locate(list, l)) = PrintedIn(dc, tag, l)
  PROVE  /\ \A x \in StringLines(tag, list) : x.value # EMPTY => PrintedIn(dc, tag, x.lang) = x.value
         /\ \A l : PrintedIn(dc, tag, l) # NULL =>
              \E x \in StringLines(tag, list) : x.tag = tag /\ x.lang = l
<1>1. ASSUME NEW x \in StringLines(tag, list), x.value # EMPTY PROVE PrintedIn(dc, tag, x.lang) = x.value
  <2>1. PICK i \in DOMAIN list : x = [tag |-> tag, lang |-> list[i].lang, value |-> xmlify[list[i].str]]
    BY DEF StringLines
  <2>2. locate(list, list[i].lang) = list[i].str /\ list[i].str # NULL
    BY Slot DEF Full
  <2>3. x.value = xmlify[list[i].str] /\ x.lang = list[i].lang
    BY <2>1
  <2>4. ~Unreadable(list[i].str) /\ Shown(list[i].str) = x.value
    BY <1>1, <2>2, <2>3 DEF Unreadable, Shown
  <2>. QED  BY <2>2, <2>3, <2>4
<1>2. ASSUME NEW l, PrintedIn(dc, tag, l) # NULL
      PROVE  \E x \in StringLines(tag, list) : x.tag = tag /\ x.lang = l
  <2>1. SlotOf(list, l) # 0
    <3>1. locate(list, l) # NULL
      BY <1>2, ShownNone
    <3>. QED  BY <3>1 DEF locate
  <2>2. PICK i \in DOMAIN list : list[i].lang = l
    BY <2>1, Found
  <2>3. [tag |-> tag, lang |-> list[i].lang, value |-> xmlify[list[i].str]] \in StringLines(tag, list)
    BY DEF StringLines
  <2>. QED  BY <2>2, <2>3
<1>. QED  BY <1>1, <1>2

(* A title of the copy that is empty was printed as one.                    *)
LEMMA TitlesEmpty ==
  ASSUME NEW list, List(list), Full(list), NEW tag, NEW dc,
         \A l : Shown(locate(list, l)) = PrintedIn(dc, tag, l)
  PROVE  \A x \in StringLines(tag, list) : x.value = EMPTY => PrintedIn(dc, tag, x.lang) = NULL
<1> SUFFICES ASSUME NEW x \in StringLines(tag, list), x.value = EMPTY
             PROVE  PrintedIn(dc, tag, x.lang) = NULL
  OBVIOUS
<1>1. PICK i \in DOMAIN list : x = [tag |-> tag, lang |-> list[i].lang, value |-> xmlify[list[i].str]]
  BY DEF StringLines
<1>2. locate(list, list[i].lang) = list[i].str
  BY Slot DEF Full
<1>3. xmlify[list[i].str] = EMPTY /\ x.lang = list[i].lang
  BY <1>1
<1>4. Shown(list[i].str) = NULL
  BY <1>3 DEF Shown
<1>. QED  BY <1>2, <1>3, <1>4

LEMMA FieldCopied ==
  ASSUME NEW s, NEW title, NEW subtitle, NEW lang, NEW aspect, NEW audio,
         Copied(s, title, subtitle, lang, aspect, audio)
  PROVE  /\ {x \in ToSet(s) : x.tag = "title"} = StringLines("title", title)
         /\ {x \in ToSet(s) : x.tag = "sub-title"} = StringLines("sub-title", subtitle)
         /\ {x \in ToSet(s) : x.tag = "video"} = FieldOf("video", aspect)
         /\ {x \in ToSet(s) : x.tag = "audio"} = FieldOf("audio", audio)
<1> DEFINE s1 == StringLines("title", title)
           s2 == StringLines("sub-title", subtitle)
           s3 == FieldLines(lang # NULL, [tag |-> "language", lang |-> lang, value |-> NULL])
           s4 == FieldOf("video", aspect)
           s5 == FieldOf("audio", audio)
<1>1. /\ \A x \in s1 : x.tag = "title"
      /\ \A x \in s2 : x.tag = "sub-title"
  BY DEF StringLines
<1>2. /\ \A x \in s3 : x.tag = "language"
      /\ \A x \in s4 : x.tag = "video"
      /\ \A x \in s5 : x.tag = "audio"
  BY DEF FieldLines, FieldOf
<1>3. ToSet(s) = (((s1 \cup s2) \cup s3) \cup s4) \cup s5
  BY DEF Copied
<1> HIDE DEF s1, s2, s3, s4, s5
<1>4. /\ {x \in ToSet(s) : x.tag = "title"} = s1
      /\ {x \in ToSet(s) : x.tag = "sub-title"} = s2
      /\ {x \in ToSet(s) : x.tag = "video"} = s4
      /\ {x \in ToSet(s) : x.tag = "audio"} = s5
  BY <1>1, <1>2, <1>3
<1>. QED  BY <1>4 DEF s1, s2, s4, s5

(* CopyAgrees, of any copy and any document.                                *)
Copies(s, dc) ==
  /\ Keyed(s)
  /\ \A i \in DOMAIN s : s[i].tag \in {"title", "sub-title"} =>
       IF s[i].value # EMPTY THEN PrintedIn(dc, s[i].tag, s[i].lang) = s[i].value
       ELSE s[i].tag = "title" => PrintedIn(dc, "title", s[i].lang) = NULL
  /\ \A i \in DOMAIN dc :
       (dc[i].tag \in {"title", "sub-title"} /\ PrintedIn(dc, dc[i].tag, dc[i].lang) # NULL) =>
       \E j \in DOMAIN s : s[j].tag = dc[i].tag /\ s[j].lang = dc[i].lang
  /\ \A t \in {"video", "audio"} :
       /\ Once(dc, t)
       /\ {l \in ToSet(s) : l.tag = t} = {l \in ToSet(dc) : l.tag = t /\ l.value # INVALID}

LEMMA CopiesHere == CopyAgrees <=> (pc = "freed" /\ ~short => Copies(copy, doc))
BY PrintedHere DEF CopyAgrees, Copies, Keyed

LEMMA CopiesThere == CopyAgrees' <=> (pc' = "freed" /\ ~short' => Copies(copy', doc'))
<1>1. \A tag, lang : Printed(tag, lang)' = PrintedIn(doc', tag, lang)
  BY DEF Printed, PrintedIn, Worth
<1>. QED  BY <1>1 DEF CopyAgrees, Copies, Keyed

LEMMA CallbackAgrees ==
  ASSUME IInv, Fields, Callback, pc' = "freed", ~short
  PROVE  Copies(copy', doc)
<1>1. /\ Shape /\ List(ev.title) /\ List(ev.subtitle) /\ Agreed(ev.title, ev.subtitle, doc)
      /\ doc \in Seq(Lines) /\ doc' = doc
  BY DEF IInv, Strung, Shape, Callback
<1>2. /\ Copied(copy', ev.title, ev.subtitle, ev.lang, ev.aspect, ev.audio)
      /\ Full(ev.title) /\ Full(ev.subtitle)
  BY CallbackCopies
<1>3. /\ {x \in ToSet(copy') : x.tag = "title"} = StringLines("title", ev.title)
      /\ {x \in ToSet(copy') : x.tag = "sub-title"} = StringLines("sub-title", ev.subtitle)
      /\ {x \in ToSet(copy') : x.tag = "video"} = FieldOf("video", ev.aspect)
      /\ {x \in ToSet(copy') : x.tag = "audio"} = FieldOf("audio", ev.audio)
  BY <1>2, FieldCopied
<1>4. /\ \A x \in StringLines("title", ev.title) :
           x.value # EMPTY => PrintedIn(doc, "title", x.lang) = x.value
      /\ \A l : PrintedIn(doc, "title", l) # NULL =>
           \E x \in StringLines("title", ev.title) : x.tag = "title" /\ x.lang = l
  <2>1. \A l : \/ Unreadable(locate(ev.title, l))
              \/ Shown(locate(ev.title, l)) = PrintedIn(doc, "title", l)
    BY <1>1 DEF Agreed
  <2>. QED  BY <1>1, <1>2, <2>1, StringsCopied
<1>5. /\ \A x \in StringLines("sub-title", ev.subtitle) :
           x.value # EMPTY => PrintedIn(doc, "sub-title", x.lang) = x.value
      /\ \A l : PrintedIn(doc, "sub-title", l) # NULL =>
           \E x \in StringLines("sub-title", ev.subtitle) : x.tag = "sub-title" /\ x.lang = l
  <2>1. \A l : \/ Unreadable(locate(ev.subtitle, l))
              \/ Shown(locate(ev.subtitle, l)) = PrintedIn(doc, "sub-title", l)
    BY <1>1 DEF Agreed
  <2>. QED  BY <1>1, <1>2, <2>1, StringsCopied
<1>6. \A x \in ToSet(copy') : x.tag = "title" /\ x.value = EMPTY => PrintedIn(doc, "title", x.lang) = NULL
  <2>1. \A l : Shown(locate(ev.title, l)) = PrintedIn(doc, "title", l)
    BY <1>1 DEF Agreed
  <2>2. \A x \in StringLines("title", ev.title) : x.value = EMPTY => PrintedIn(doc, "title", x.lang) = NULL
    BY <1>1, <1>2, <2>1, TitlesEmpty
  <2>3. \A x \in ToSet(copy') : x.tag = "title" => x \in StringLines("title", ev.title)
    BY <1>3
  <2>. QED  BY <2>2, <2>3
<1>7. \A tag \in {"title", "sub-title"} :
        /\ \A x \in ToSet(copy') : x.tag = tag /\ x.value # EMPTY => PrintedIn(doc, tag, x.lang) = x.value
        /\ \A l : PrintedIn(doc, tag, l) # NULL =>
             \E x \in ToSet(copy') : x.tag = tag /\ x.lang = l
  <2>1. \A x \in ToSet(copy') : x.tag = "title" => x \in StringLines("title", ev.title)
    BY <1>3
  <2>2. \A x \in ToSet(copy') : x.tag = "sub-title" => x \in StringLines("sub-title", ev.subtitle)
    BY <1>3
  <2>3. \A x \in StringLines("title", ev.title) : x \in ToSet(copy')
    BY <1>3
  <2>4. \A x \in StringLines("sub-title", ev.subtitle) : x \in ToSet(copy')
    BY <1>3
  <2>. QED  BY <1>4, <1>5, <2>1, <2>2, <2>3, <2>4
<1>8. ToSet(copy') = {copy'[i] : i \in DOMAIN copy'}
  BY DEF ToSet
<1>10. \A i \in DOMAIN copy' : copy'[i].tag \in {"title", "sub-title"} =>
         IF copy'[i].value # EMPTY THEN PrintedIn(doc, copy'[i].tag, copy'[i].lang) = copy'[i].value
         ELSE copy'[i].tag = "title" => PrintedIn(doc, "title", copy'[i].lang) = NULL
  <2> SUFFICES ASSUME NEW i \in DOMAIN copy', copy'[i].tag \in {"title", "sub-title"}
               PROVE  IF copy'[i].value # EMPTY
                      THEN PrintedIn(doc, copy'[i].tag, copy'[i].lang) = copy'[i].value
                      ELSE copy'[i].tag = "title" => PrintedIn(doc, "title", copy'[i].lang) = NULL
    OBVIOUS
  <2>1. copy'[i] \in ToSet(copy')
    BY <1>8
  <2>. QED  BY <1>6, <1>7, <2>1
<1>11. \A i \in DOMAIN doc :
         (doc[i].tag \in {"title", "sub-title"} /\ PrintedIn(doc, doc[i].tag, doc[i].lang) # NULL) =>
           \E j \in DOMAIN copy' : copy'[j].tag = doc[i].tag /\ copy'[j].lang = doc[i].lang
  <2> SUFFICES ASSUME NEW i \in DOMAIN doc, doc[i].tag \in {"title", "sub-title"},
                      PrintedIn(doc, doc[i].tag, doc[i].lang) # NULL
               PROVE  \E j \in DOMAIN copy' : copy'[j].tag = doc[i].tag /\ copy'[j].lang = doc[i].lang
    OBVIOUS
  <2>1. PICK x \in ToSet(copy') : x.tag = doc[i].tag /\ x.lang = doc[i].lang
    BY <1>7
  <2>. QED  BY <1>8, <2>1
<1>12. \A t \in {"video", "audio"} :
         /\ Once(doc, t)
         /\ {l \in ToSet(copy') : l.tag = t} = {l \in ToSet(doc) : l.tag = t /\ l.value # INVALID}
  <2>1. Once(doc, "video") /\ Once(doc, "audio")
    BY DEF Fields, Told
  <2>2. /\ {x \in ToSet(doc) : x.tag = "video" /\ x.value # INVALID} = FieldOf("video", ev.aspect)
        /\ {x \in ToSet(doc) : x.tag = "audio" /\ x.value # INVALID} = FieldOf("audio", ev.audio)
    BY <1>1, FieldLine DEF Fields
  <2>. QED  BY <1>3, <2>1, <2>2
<1>. QED  BY <1>2, <1>10, <1>11, <1>12 DEF Copies, Copied

LEMMA StepCopy == IInv /\ Fields /\ CopyAgrees /\ [Next]_vars => CopyAgrees'
<1> SUFFICES ASSUME IInv, Fields, CopyAgrees, [Next]_vars, pc' = "freed", ~short'
             PROVE  Copies(copy', doc')
  BY CopiesThere
<1>1. CASE UNCHANGED vars
  BY <1>1, CopiesHere DEF vars
<1>2. CASE Callback
  BY <1>2, CallbackAgrees DEF Callback
<1>3. CASE Next /\ ~Callback
  <2>1. pc' # "freed"
    BY <1>3 DEF Next, Title, SubTitle, Language, Video, Audio, Crid, Skip, Describing,
                NextDescriptor, NextRound, Debug
  <2>. QED  BY <2>1
<1>. QED  BY <1>1, <1>2, <1>3

(* xmltv_write_event() against parseDescription() (xmltv.c:39,              *)
(* dvb-eit.c:245): for a loop of any length that fits the memory, the       *)
(* callback prints of titles, subtitles, picture and sound what the         *)
(* document has, each once, repeats of a language being left to the last,   *)
(* but for an empty subtitle where xmlify() makes nothing of the last text. *)
THEOREM CopiesDocument == Spec => []CopyAgrees
<1>1. Init => IInv /\ Fields /\ CopyAgrees
  BY InitInv, InitFields DEF Init, CopyAgrees
<1>2. IInv /\ Fields /\ CopyAgrees /\ [Next]_vars => (IInv /\ Fields /\ CopyAgrees)'
  BY StepInv, StepFields, StepCopy
<1>. QED  BY <1>1, <1>2, PTL DEF Spec
=============================================================================
