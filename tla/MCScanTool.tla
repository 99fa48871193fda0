----------------------------- MODULE MCScanTool -----------------------------
(***************************************************************************)
(* Instances of ScanTool: a network of two multiplexes that give the same  *)
(* channel number to two services, as regions that overlap do, and a       *)
(* multiplex of another network.                                           *)
(***************************************************************************)
EXTENDS ScanTool

M1 == <<1, 1>>
M2 == <<1, 2>>
Foreign == <<2, 1>>

Nit(version, cni) ==
  [table_id |-> NITActual, cni |-> cni, network |-> 5, version |-> version,
   ts |-> << [uri |-> M1, lcns |-> << [sid |-> 7, lcn |-> 1], [sid |-> 8, lcn |-> 2] >>],
             [uri |-> M2, lcns |-> << [sid |-> 7, lcn |-> 1], [sid |-> 9, lcn |-> 3] >>] >>]
NitSmall ==
  [table_id |-> NITActual, cni |-> TRUE, network |-> 5, version |-> 2,
   ts |-> << [uri |-> M1, lcns |-> << [sid |-> 7, lcn |-> 1], [sid |-> 7, lcn |-> 4] >>] >>]
NitOther == [Nit(1, TRUE) EXCEPT !.table_id = 65]

Sdt(id, cni, mux, services) == [table_id |-> id, cni |-> cni, uri |-> mux, services |-> services]
Tv(sid) == [sid |-> sid, type |-> "tv"]
Radio(sid) == [sid |-> sid, type |-> "radio"]
Bare(sid) == [sid |-> sid, type |-> "none"]

Sdt1 == Sdt(SDTActual, TRUE, M1, <<Tv(7), Bare(8)>>)
Sdt1Later == Sdt(SDTActual, TRUE, M1, <<Radio(8)>>)
Sdt2 == Sdt(SDTOther, TRUE, M2, <<Radio(7), [sid |-> 9, type |-> "other"]>>)
SdtEmpty == Sdt(SDTOther, TRUE, Foreign, <<>>)
SdtForeign == Sdt(SDTOther, TRUE, Foreign, <<Tv(7)>>)
SdtNext == Sdt(SDTOther, FALSE, M2, <<Radio(7)>>)
Bat == [table_id |-> 74]

MCNitTables == {Nit(1, TRUE), Nit(2, FALSE), NitSmall, NitOther}
MCSdtTables == {Sdt1, Sdt1Later, Sdt2, SdtEmpty, SdtForeign, SdtNext, Bat}
OnlyNit == {Nit(1, TRUE)}
BatAsWell == {Sdt1, Sdt2, Bat}
=============================================================================
