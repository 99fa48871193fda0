---------------------------- MODULE MCEventList ----------------------------
(***************************************************************************)
(* Instances of EventList: every loop of three descriptors out of short    *)
(* ones in two languages, with names and texts that are there, absent or   *)
(* begin with a 0 or in an encoding that is reserved, and pictures, sounds *)
(* and identifiers.                                                        *)
(***************************************************************************)
EXTENDS EventList

Short(lang, name, text) == [tag |-> "short", lang |-> lang, name |-> name, text |-> text]

MCxmlify ==
  [s \in {"A", "B", "reserved", EMPTY} |->
     IF s = "A" THEN "a" ELSE IF s = "B" THEN "b" ELSE EMPTY]

MCDescriptors ==
  {Short("en", "A", "B"), Short("en", EMPTY, NULL), Short("fr", "B", NULL),
   Short("fr", NULL, "A"), Short("fr", "A", "A"), Short("en", "B", EMPTY), Short("de", "A", NULL),
   Short("fr", "reserved", "B"), Short("en", "A", "reserved"),
   [tag |-> "video", type |-> 1], [tag |-> "video", type |-> 3],
   [tag |-> "audio", lang |-> "en", type |-> 3], [tag |-> "audio", lang |-> "fr", type |-> INVALID],
   [tag |-> "crid", kind |-> "programme", ref |-> [id |-> 1, long |-> FALSE]],
   [tag |-> "crid", kind |-> "series", ref |-> [id |-> 2, long |-> TRUE]],
   [tag |-> "crid", kind |-> "other", ref |-> [id |-> 3, long |-> FALSE]]}

MCInputs == UNION {[1..n -> MCDescriptors] : n \in 0..3}
=============================================================================
