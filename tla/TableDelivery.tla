---------------------------- MODULE TableDelivery ----------------------------
(***************************************************************************)
(* What dvb_demux_read() promises about the tables it collects by version, *)
(* without sections, slots or memory (the comment at dvb/read.c:37-41):    *)
(* what it returns is a whole version of one sub-table, and it never goes  *)
(* back to a version older than one it has already taken up.               *)
(***************************************************************************)
EXTENDS Integers

CONSTANTS SubTable, MaxVersion, Last, NULL

VARIABLES
  adopted,   \* the version taken up of each sub-table, -1 for none yet
  out        \* the table just returned, or NULL

vars == <<adopted, out>>

Image(st, v) ==
  [of |-> st, version |-> v,
   sections |-> [i \in 0..Last[st][v] |-> [of |-> st, version |-> v, number |-> i]]]

Init ==
  /\ adopted = [st \in SubTable |-> -1]
  /\ out = NULL

(* A section of version v is taken in, or one of a version not taken up    *)
(* leaves things as they are; the table may be complete.                   *)
TakeIn(st, v) ==
  /\ v >= adopted[st]
  /\ adopted' = [adopted EXCEPT ![st] = v]
  /\ out' \in {NULL, Image(st, v)}

(* A section of some other kind.                                           *)
Quiet ==
  /\ out' = NULL
  /\ UNCHANGED adopted

Next ==
  \/ \E st \in SubTable, v \in 0..MaxVersion : TakeIn(st, v)
  \/ Quiet

Spec == Init /\ [][Next]_vars
=============================================================================
