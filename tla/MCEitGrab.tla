------------------------------ MODULE MCEitGrab ------------------------------
(***************************************************************************)
(* Instances of EitGrab: the sections of a schedule and of the present/    *)
(* following table of one service, whose versions differ, and an update.   *)
(***************************************************************************)
EXTENDS EitGrab

Short(name, text) == [tag |-> "short", name |-> name, text |-> text]
Extended(number, last, items, text) ==
  [tag |-> "extended", number |-> number, last |-> last, items |-> items, text |-> text]
Component(stream) == [tag |-> "component", stream |-> stream]
Content(codes) == [tag |-> "content", codes |-> [i \in DOMAIN codes |-> [code |-> codes[i], named |-> TRUE]]]
Rating(ratings) == [tag |-> "rating", ratings |-> ratings]
Crids(places) == [tag |-> "crids", places |-> places]
Silent == [tag |-> "silent"]
Unknown == [tag |-> "unknown"]

(* Two languages, of which the first has no title; a description in two    *)
(* descriptors, around others; sound in two languages.                     *)
Film ==
  <<Unknown, Short(FALSE, TRUE), Extended(0, 1, TRUE, FALSE), Component("audio"), Rating(<<0, 9>>),
    Component("video"), Extended(1, 1, FALSE, TRUE), Short(TRUE, TRUE), Component("audio"),
    Component("video"), Component("teletext"), Content(<<16, 16, 20>>), Crids(<<"here", "other">>)>>

(* Two descriptions, of which the first is there and empty.                 *)
News == <<Short(TRUE, FALSE), Silent, Extended(0, 0, FALSE, FALSE), Extended(0, 0, TRUE, TRUE)>>

Blank == <<Short(FALSE, TRUE), Component("video")>>
Elsewhere == <<Short(TRUE, TRUE), Component("video"), Crids(<<"here", "cit">>)>>

Event(eid, stop, descs) == [eid |-> eid, stop |-> stop, descs |-> descs]
Eit(version, events) == [sid |-> 7, version |-> version, events |-> events]

Schedule == Eit(2, <<Event(1, 2, Film), Event(2, 3, News)>>)
Present == Eit(1, <<Event(1, 2, Film)>>)
Following == Eit(3, <<Event(2, 3, News), Event(3, 5, <<>>)>>)
Yesterday == Eit(2, <<Event(4, -30, News)>>)
Late == Eit(1, <<Event(4, -20, Blank)>>)
Farther == Eit(2, <<Event(5, 8, Elsewhere)>>)
Empty == Eit(1, <<>>)

(* An event of the same number on another service.                          *)
Elsewhen == [Eit(1, <<Event(1, -40, Blank), Event(2, 4, News)>>) EXCEPT !.sid = 8]

MCSections == {Schedule, Present, Following, Yesterday, Late, Farther, Elsewhen, Empty}
MCUpdate == {Eit(1, <<Event(1, 2, Film)>>), Eit(2, <<Event(1, 3, Film)>>)}
=============================================================================
