---------------------------- MODULE MCLegacyGrab ----------------------------
(***************************************************************************)
(* Instances of LegacyGrab: sections of two to four octets in a buffer of  *)
(* four, one that is damaged, one whose length is, and one that is larger  *)
(* than the buffer.  A run has at most one of -H, -a, -A and channels.conf; *)
(* a pipe is read as "-", a path that is missing leads to the others.      *)
(***************************************************************************)
EXTENDS LegacyGrab

Section(size) == [size |-> size, states |-> size, good |-> TRUE]
Damaged(size, states) == [size |-> size, states |-> states, good |-> FALSE]

MCContents ==
  {<<Section(2), Section(4)>>, <<Section(3), Damaged(2, 3), Section(2)>>,
   <<Damaged(3, 5), Section(2)>>}

MCRuns ==
  {o \in Options :
    /\ Cardinality({f \in {"halt", "zap"} : o[f]}) + (IF o.atom = 0 THEN 0 ELSE 1) <= 1
    /\ (o.halt \/ o.restarts) => o.scan
    /\ o.path = "opens" => ~o.restarts /\ o.atom = 0
    /\ o.path = "missing" => o.stdin # "pipe"}
=============================================================================
