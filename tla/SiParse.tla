------------------------------ MODULE SiParse -------------------------------
(***************************************************************************)
(* dvb_parse_si() and the parsers of the tables that the tools read:       *)
(* dvb/si.c, dvb/nit.c, dvb/sdt.c.  A table is what its sections list one  *)
(* after the other; all sections of one table have the same                *)
(* current_next_indicator, which is part of the key they are collected     *)
(* under.                                                                  *)
(*                                                                         *)
(*   NIT  [table_id, cni, network, version, ts : Seq([uri, lcns])],        *)
(*        lcns : Seq([sid, lcn]), the logical_channel_descriptors          *)
(*   SDT  [table_id, cni, uri, services : Seq([sid, type])], where type is *)
(*        "none" for a service without descriptors                         *)
(*                                                                         *)
(* Names, the visible flag and the descriptors that are only reported are  *)
(* left out.  The parsers call back only if callbacks are given, which the *)
(* tools never do.                                                         *)
(***************************************************************************)
EXTENDS RegistryOps

NITActual == 64   \* 0x40
SDTActual == 66   \* 0x42
SDTOther == 70    \* 0x46
IsSdt(t) == t.table_id \in {SDTActual, SDTOther}

ServiceOf(mux, sid) == <<mux[1], mux[2], sid>>

-----------------------------------------------------------------------------
(* Mutant: the service is looked up before it is added.                     *)
NitServiceEarly(r, n, ts, entry) ==
  LET uri == ServiceOf(ts.uri, entry.sid)
  IN  NetworkSetService(ServiceLocateAdd(r, uri), n, ServiceLocate(r, uri), entry.lcn)

(* parse_nit_ts_logical_channel_descriptor(), one entry.                    *)
NitService(r, n, ts, entry) ==
  LET uri   == ServiceOf(ts.uri, entry.sid)
      added == ServiceLocateAdd(r, uri)
      svc   == ServiceLocate(added, uri)
  IN  NetworkSetService(ServiceSetMux(added, svc, MuxLocate(r, ts.uri)), n, svc, entry.lcn)

(* The logical_channel_descriptors of a transport stream, entry by entry.   *)
NitServices(r, n, ts) ==
  LET done[k \in 0..Len(ts.lcns)] ==
        IF k = 0 THEN r ELSE NitService(done[k - 1], n, ts, ts.lcns[k])
  IN  done[Len(ts.lcns)]

(* One turn of the transport stream loop.                                   *)
NitTransport(r, n, ts) ==
  LET platform == PlatformOf(ts.uri)
      added    == MuxLocateAdd(PlatformLocateAdd(r, platform), ts.uri)
      mux      == MuxLocate(added, ts.uri)
      linked   == MuxSetPlatform(added, mux, Find(added.platforms, platform))
  IN  NitServices(NetworkAddMux(linked, n, mux), n, ts)

(* The loop.                                                                *)
NitTransports(r, n, t) ==
  LET done[k \in 0..Len(t.ts)] ==
        IF k = 0 THEN r ELSE NitTransport(done[k - 1], n, t.ts[k])
  IN  done[Len(t.ts)]

ParseNit(r, t) ==
  LET known  == NetworkLocate(r, LocatedAs(t.network))
      old    == known # 0 /\ r.networks[known].version >= t.version
      opened == IF known # 0 THEN [r EXCEPT !.networks[known] = NetworkReset(@)]
                ELSE NetworkAdd(r, AddedAs(t.network))
      n      == IF known # 0 THEN known ELSE NetworkLocate(opened, AddedAs(t.network))
  IN  IF ~t.cni \/ old THEN r
      ELSE NitTransports(NetworkSetVersion(opened, n, t.version), n, t)

-----------------------------------------------------------------------------
(* Mutant: the multiplex is set after the descriptors, which a service may  *)
(* not have.                                                                *)
SdtServiceLate(r, mux, entry) ==
  LET uri   == ServiceOf(mux, entry.sid)
      added == MuxLocateAdd(ServiceAdd(r, uri), mux)
      svc   == ServiceLocate(added, uri)
  IN  IF entry.type = "none" THEN added
      ELSE ServiceSetType(ServiceSetMux(added, svc, MuxLocate(added, mux)), svc, entry.type)

(* One turn of the service loop: what is known of the service is reset, its *)
(* multiplex is set again, and the service_descriptor sets its type.        *)
SdtService(r, mux, entry) ==
  LET uri    == ServiceOf(mux, entry.sid)
      added  == MuxLocateAdd(ServiceAdd(r, uri), mux)
      svc    == ServiceLocate(added, uri)
      linked == ServiceSetMux(added, svc, MuxLocate(added, mux))
  IN  IF entry.type = "none" THEN linked ELSE ServiceSetType(linked, svc, entry.type)

SdtServices(r, t) ==
  LET done[k \in 0..Len(t.services)] ==
        IF k = 0 THEN r ELSE SdtService(done[k - 1], t.uri, t.services[k])
  IN  done[Len(t.services)]

ParseSdt(r, t) == IF ~t.cni THEN r ELSE SdtServices(r, t)

(* Any other table, the NIT of another network among them, is reported and  *)
(* left alone.                                                              *)
ParseSi(r, t) ==
  CASE t.table_id = NITActual -> ParseNit(r, t)
    [] IsSdt(t)               -> ParseSdt(r, t)
    [] OTHER                  -> r
=============================================================================
