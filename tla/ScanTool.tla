------------------------------ MODULE ScanTool ------------------------------
(***************************************************************************)
(* dvb2xrd.c and dvb2tva.c: a pass over PID 0x10 for the network, a pass   *)
(* over PID 0x11 for the services, then the output.  The two programs      *)
(* differ in the output only; the one of dvb2tva, tva_write_service() for  *)
(* every service, is modelled here.                                        *)
(*                                                                         *)
(* dvb_demux_read() is seen from its caller (DemuxRead and DemuxTable have *)
(* its inside): a call looks at the clock before each wait and returns     *)
(* NULL once the pass has lasted ServiceScan; a wait ends with a table, or *)
(* with too little for a table, or with an error, for which the call       *)
(* returns NULL as well.  Any table of the carousel may come next.         *)
(***************************************************************************)
EXTENDS SiParse

CONSTANTS
  NitTables,     \* what may be on PID 0x10
  SdtTables,     \* what may be on PID 0x11
  ServiceScan    \* -s: seconds that a pass may last; never 0

(* The types of service, as far as the output tells them apart.             *)
ServiceTypes == {"reserved", "tv", "radio", "other"}

(* What the parsers read of a table of theirs.                              *)
NitEntry == [sid : Nat, lcn : Nat]
NitStream == [uri : Nat \X Nat, lcns : Seq(NitEntry)]
NitTable ==
  [table_id : {NITActual}, cni : BOOLEAN, network : Nat, version : Nat, ts : Seq(NitStream)]
SdtEntry == [sid : Nat, type : ServiceTypes \cup {"none"}]
SdtTable ==
  [table_id : {SDTActual, SDTOther}, cni : BOOLEAN, uri : Nat \X Nat, services : Seq(SdtEntry)]

ASSUME ScanAssumption ==
  /\ ServiceScan \in Nat \ {0}
  /\ \A t \in NitTables \cup SdtTables :
       /\ t.table_id = NITActual => t \in NitTable
       /\ IsSdt(t) => t \in SdtTable

Unset == -1

VARIABLES
  pc,          \* "nit", "sdt", "write", "done"
  waiting,     \* the call is in its select()
  elapsed,     \* seconds since the pass began
  reg,         \* the registries
  matchflag,   \* 1, 0, or Unset until the first SDT
  ended,       \* how each pass ended, or "no"
  parsed,      \* history: the tables parse_si() was given
  out          \* the services written

vars == <<pc, waiting, elapsed, reg, matchflag, ended, parsed, out>>
pass == <<pc, elapsed, reg, matchflag, ended, parsed, out>>

Init ==
  /\ pc = "nit" /\ waiting = FALSE /\ elapsed = 0
  /\ reg = NoEntries /\ matchflag = Unset
  /\ ended = [nit |-> "no", sdt |-> "no"]
  /\ parsed = {} /\ out = <<>>

-----------------------------------------------------------------------------
(* The clock; it stops one second after the end of the pass, where nothing *)
(* depends on it any more.                                                 *)
Tick ==
  /\ pc \in {"nit", "sdt"} /\ elapsed <= ServiceScan
  /\ elapsed' = elapsed + 1
  /\ UNCHANGED <<pc, waiting, reg, matchflag, ended, parsed, out>>

(* The end of a pass: dvb_demux_close(), and the clock read for the next.  *)
EndPass(how) ==
  /\ ended' = [ended EXCEPT ![pc] = how]
  /\ pc' = IF pc = "nit" THEN "sdt" ELSE "write"
  /\ elapsed' = 0

(* Mutant: a wait is begun whatever the time is.                            *)
WaitAlways ==
  /\ pc \in {"nit", "sdt"} /\ ~waiting
  /\ waiting' = TRUE
  /\ UNCHANGED pass

Wait ==
  /\ pc \in {"nit", "sdt"} /\ ~waiting /\ elapsed < ServiceScan
  /\ waiting' = TRUE
  /\ UNCHANGED pass

NoTableYet ==
  /\ waiting
  /\ waiting' = FALSE
  /\ UNCHANGED pass

EndTime ==
  /\ pc \in {"nit", "sdt"} /\ ~waiting /\ elapsed >= ServiceScan
  /\ EndPass("late")
  /\ UNCHANGED <<waiting, reg, matchflag, parsed, out>>

ReadFails ==
  /\ waiting
  /\ waiting' = FALSE
  /\ EndPass("failed")
  /\ UNCHANGED <<reg, matchflag, parsed, out>>

(* read_nit(): the pass ends with the first table of this network.         *)
ReadNit(t) ==
  /\ pc = "nit" /\ waiting
  /\ waiting' = FALSE
  /\ reg' = ParseSi(reg, t)
  /\ parsed' = parsed \cup {t}
  /\ IF t.table_id = NITActual THEN EndPass("complete") ELSE UNCHANGED <<pc, elapsed, ended>>
  /\ UNCHANGED <<matchflag, out>>

(* Mutant: only the multiplex of this table is looked at.                   *)
CheckThisMux(r, mux) == \A i \in DOMAIN r.multiplexes :
  r.multiplexes[i].uri = mux => r.multiplexes[i].data

(* mux_foreach(check_mux): the flag stays 1 if every multiplex has data.   *)
CheckMuxes(r, mux) == \A i \in DOMAIN r.multiplexes : r.multiplexes[i].data

(* read_sdt(): the multiplex of the table is marked, if there is one.      *)
ReadSdt(t) ==
  /\ pc = "sdt" /\ waiting /\ IsSdt(t)
  /\ waiting' = FALSE
  /\ LET after == ParseSi(reg, t)
         mux   == MuxLocate(after, t.uri)
     IN  reg' = IF mux # 0 THEN MuxSetData(after, mux) ELSE after
  /\ parsed' = parsed \cup {t}
  /\ matchflag' = IF CheckMuxes(reg', t.uri) THEN 1 ELSE 0
  /\ IF matchflag' = 1 THEN EndPass("complete") ELSE UNCHANGED <<pc, elapsed, ended>>
  /\ UNCHANGED out

(* The continue of read_sdt() goes to the condition of the loop; matchflag *)
(* has no value before the first SDT.                                      *)
SkipTable(t) ==
  /\ pc = "sdt" /\ waiting /\ ~IsSdt(t)
  /\ waiting' = FALSE
  /\ \/ UNCHANGED <<pc, elapsed, ended>>
     \/ matchflag = Unset /\ EndPass("complete")
  /\ UNCHANGED <<reg, matchflag, parsed, out>>

-----------------------------------------------------------------------------
(* Mutant: the case labels of radio are missing.                            *)
WrittenTv(s) == s.type = "tv"

(* tva_write_service(): only television and radio are written.             *)
Written(s) == s.type \in {"tv", "radio"}
WriteService(written, s) == IF Written(s) THEN Append(written, s) ELSE written

(* service_foreach(tva_write_service), memory permitting.                  *)
WrittenServices(services) ==
  LET written[k \in 0..Len(services)] ==
        IF k = 0 THEN <<>> ELSE WriteService(written[k - 1], services[k])
  IN  written[Len(services)]

WriteServices ==
  /\ pc = "write"
  /\ pc' = "done"
  /\ out' = WrittenServices(reg.services)
  /\ UNCHANGED <<waiting, elapsed, reg, matchflag, ended, parsed>>

Tool ==
  \/ Wait \/ NoTableYet \/ EndTime \/ ReadFails \/ WriteServices
  \/ \E t \in NitTables : ReadNit(t)
  \/ \E t \in SdtTables : ReadSdt(t) \/ SkipTable(t)

Next == Tick \/ Tool

(* The kernel schedules the tool, and time passes.                         *)
Spec == Init /\ [][Next]_vars /\ WF_vars(Tool) /\ WF_vars(Tick)

-----------------------------------------------------------------------------
Platform == [uri : Nat]
Mux == [uri : Nat \X Nat, platform : Nat, data : BOOLEAN]
Service == [uri : Nat \X Nat \X Nat, mux : Nat, type : ServiceTypes]
Network == [uri : {"nid"} \X Nat, version : Int, mux : Seq(Nat),
            service : Seq([lcn : Nat, service : Nat])]
Registries == [platforms : Seq(Platform), multiplexes : Seq(Mux),
               services : Seq(Service), networks : Seq(Network)]

TypeOK ==
  /\ pc \in {"nit", "sdt", "write", "done"}
  /\ waiting \in BOOLEAN /\ (waiting => pc \in {"nit", "sdt"})
  /\ elapsed \in 0..(ServiceScan + 1)
  /\ matchflag \in {Unset, 0, 1}
  /\ ended \in [{"nit", "sdt"} -> {"no", "complete", "late", "failed"}]
  /\ parsed \subseteq NitTables \cup SdtTables
  /\ reg \in Registries /\ out \in Seq(Service)
  /\ \A i \in DOMAIN reg.networks : LET n == reg.networks[i] IN
       /\ \A k \in DOMAIN n.mux : n.mux[k] \in DOMAIN reg.multiplexes
       /\ \A k \in DOMAIN n.service : n.service[k].service \in DOMAIN reg.services

(***************************************************************************)
(* What the NIT said is what is registered, and the SDTs that come later   *)
(* leave it so although they reset the services it points to (nit.c:94-107,*)
(* sdt.c:67-69): the network lists the multiplexes of the NIT, and under   *)
(* each channel number the service the NIT gave it last, no other number.  *)
(***************************************************************************)
Positions(t) == UNION {{<<i, j>> : j \in DOMAIN t.ts[i].lcns} : i \in DOMAIN t.ts}
Before(p, q) == p[1] < q[1] \/ (p[1] = q[1] /\ p[2] < q[2])
Entry(t, p) == t.ts[p[1]].lcns[p[2]]

(* <<channel number, service>> for the last entry of each number           *)
Lineup(t) ==
  {<<Entry(t, p).lcn, ServiceOf(t.ts[p[1]].uri, Entry(t, p).sid)>> :
     p \in {q \in Positions(t) :
               ~\E later \in Positions(t) : Before(q, later) /\ Entry(t, later).lcn = Entry(t, q).lcn}}

NetworkMirrorsNit ==
  \A t \in {u \in parsed : u.table_id = NITActual /\ u.cni} :
    LET n == reg.networks[NetworkLocate(reg, AddedAs(t.network))]
    IN  /\ n.version = t.version
        /\ {reg.multiplexes[n.mux[k]].uri : k \in DOMAIN n.mux} = {t.ts[i].uri : i \in DOMAIN t.ts}
        /\ {<<n.service[k].lcn, reg.services[n.service[k].service].uri>> : k \in DOMAIN n.service}
             = Lineup(t)

(***************************************************************************)
(* Whatever order the tables come in, every service points to the          *)
(* multiplex of its name, so each channel of a network is on one of the    *)
(* multiplexes that the network lists (nit.c:244-246, sdt.c:67-69).        *)
(***************************************************************************)
ServicesOnTheirMux ==
  /\ \A i \in DOMAIN reg.services : LET s == reg.services[i] IN
       s.mux # 0 /\ reg.multiplexes[s.mux].uri = MuxOf(s.uri)
  /\ \A i \in DOMAIN reg.networks : LET n == reg.networks[i] IN
       \A k \in DOMAIN n.service : \E j \in DOMAIN n.mux :
         n.mux[j] = reg.services[n.service[k].service].mux

(***************************************************************************)
(* The second pass ends on an SDT as soon as it has had one of every       *)
(* multiplex that either pass found, and not before: no table but its own  *)
(* marks a multiplex, and what other tables add, reset or link unmarks     *)
(* none (dvb2xrd.c:164-176, 211-220).  An SDT that is not current counts,  *)
(* although nothing in it is parsed; one on the PID of the NIT would be    *)
(* parsed and mark nothing.                                                *)
(***************************************************************************)
Heard(uri) == \E t \in parsed : IsSdt(t) /\ t.uri = uri
Missing == {i \in DOMAIN reg.multiplexes : ~Heard(reg.multiplexes[i].uri)}
SdtsApart == \A t \in NitTables : ~IsSdt(t)

EndsWithLastMux ==
  /\ (ended.sdt = "complete" /\ matchflag # Unset) => Missing = {}
  /\ (pc = "sdt" /\ matchflag = 0 /\ SdtsApart) => Missing # {}

(***************************************************************************)
(* The document lists each television or radio service once: one that      *)
(* every SDT parsed gives such a type, and none that no SDT does           *)
(* (tvanytime.c:41-71, services.c:270-288).                                *)
(***************************************************************************)
TypesHeard(uri) ==
  UNION {{t.services[i].type : i \in {k \in DOMAIN t.services : ServiceOf(t.uri, t.services[k].sid) = uri}} :
           t \in {u \in parsed : IsSdt(u) /\ u.cni}}

OutputListsServices ==
  pc = "done" =>
    /\ \A i, j \in DOMAIN out : out[i].uri = out[j].uri => i = j
    /\ \A i \in DOMAIN out : out[i].type \in TypesHeard(out[i].uri)
    /\ \A i \in DOMAIN reg.services : LET heard == TypesHeard(reg.services[i].uri) IN
         heard # {} /\ heard \subseteq {"tv", "radio"} => \E j \in DOMAIN out : out[j].uri = reg.services[i].uri

(***************************************************************************)
(* The tool ends, whatever the carousel holds and even if nothing arrives: *)
(* each pass is bounded by its end time (dvb2xrd.c:153, 203).              *)
(***************************************************************************)
Terminates == <>(pc = "done")

(***************************************************************************)
(* "Stop each pass after SECS seconds if still incomplete" (dvb2xrd.c:65): *)
(* a second pass that is stopped neither by the time nor by an error has   *)
(* parsed an SDT of each multiplex.                                        *)
(***************************************************************************)
EveryMuxParsed ==
  ended.sdt = "complete" =>
    \A i \in DOMAIN reg.multiplexes : \E t \in parsed :
      IsSdt(t) /\ t.cni /\ t.uri = reg.multiplexes[i].uri
=============================================================================
