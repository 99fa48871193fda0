---------------------------- MODULE MCDemuxTable ----------------------------
(***************************************************************************)
(* Instances of DemuxTable: a service description table and the present/   *)
(* following events of one service, both collected, and a bouquet          *)
(* association table, which is not.                                        *)
(***************************************************************************)
EXTENDS DemuxTable, TLC

SdtActual  == [table_id |-> 66, cni |-> 1, ext3 |-> 1, ext8 |-> 9, ext10 |-> 0]
EitPresent == [table_id |-> 78, cni |-> 1, ext3 |-> 7, ext8 |-> 1, ext10 |-> 9]
Bat        == [table_id |-> 74, cni |-> 1, ext3 |-> 5, ext8 |-> 0, ext10 |-> 0]

MCThree == {SdtActual, EitPresent, Bat}
MCOne == {SdtActual}

(* An SDT of two sections that grows to three and shrinks again, events of *)
(* two sections and bouquets of one.                                       *)
MCLast ==
  [st \in SubTable |-> [v \in Version |->
     IF st = SdtActual THEN 1 + (v % 2) ELSE IF st = EitPresent THEN 1 ELSE 0]]
=============================================================================
