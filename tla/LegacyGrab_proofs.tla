--------------------------- MODULE LegacyGrab_proofs ---------------------------
(***************************************************************************)
(* For every input, every size of the buffer and whatever signal comes     *)
(* when: a run of tv_grab_dvb that succeeds has written a whole document,   *)
(* its buffer stays within bounds, and the sections of the scan go to the  *)
(* handler in order, each once, and all of them when nothing is damaged.   *)
(***************************************************************************)
EXTENDS LegacyGrab, WellFoundedInduction, TLAPS

Markup == {"<channel>", "<?xml>", "<tv>", "<feed>", "newline", "</tv>"}

(* The document between its head and its end, and the end that is last.     *)
Begun(o) ==
  /\ Len(o) >= 2 /\ o[1] = "<?xml>" /\ o[2] = "<tv>"
  /\ \A l \in DOMAIN o : l > 2 => o[l] = "newline"

Ended(o) == EndsAt(o, Len(o))

(* An end that the handler wrote once more.                                 *)
EndedTwice(o) ==
  /\ Len(o) - 1 \in DOMAIN o /\ EndsAt(o, Len(o) - 1) /\ o[Len(o)] = "</tv>"
  /\ alarm = 0 /\ handler = "finish_up"

(* The handler that ends the document is set after the head was written,    *)
(* and what a read() or a handler of the scan ends is the scan.              *)
Stages ==
  /\ opt \in Options /\ out \in Seq(Markup)
  /\ pc = "zap" => out = <<>>
  /\ pc \in {"zap", "loop", "read"} => phase = "scan"
  /\ phase \in {"scan", "listing"}
  /\ pc = "head" => phase = "listing"
  /\ phase = "scan" /\ pc # "zap" => opt.scan
  /\ handler = "finish_up" => phase = "listing" /\ pc \in {"close", "exit", "exited"}
  /\ pc \in {"close", "exit"} => phase = "listing"
  /\ pc = "poll" => opt.path = "missing" /\ opt.stdin = "device"
  /\ pc # "exited" => status = NULL

IInv ==
  /\ Stages
  /\ Asked /\ pc \notin {"exit", "exited"} =>
       IF phase = "scan" \/ pc = "head" THEN out = <<>> ELSE Begun(out)
  /\ Asked /\ pc = "exit" => Ended(out)
  /\ Asked /\ pc = "exited" /\ status = 0 => Ended(out) \/ EndedTwice(out)

LEMMA Blanks ==
  ASSUME NEW o \in Seq(Markup)
  PROVE  /\ Append(o, "newline") \in Seq(Markup) /\ Append(o, "</tv>") \in Seq(Markup)
         /\ Begun(o) => Begun(Append(o, "newline")) /\ Ended(Append(o, "</tv>"))
<1> DEFINE e == Len(o) + 1
           t == Append(o, "newline")
           w == Append(o, "</tv>")
<1>1. /\ Len(o) \in Nat /\ DOMAIN o = 1..Len(o)
      /\ t \in Seq(Markup) /\ DOMAIN t = DOMAIN o \cup {e} /\ t[e] = "newline" /\ Len(t) = e
      /\ \A i \in DOMAIN o : t[i] = o[i]
      /\ w \in Seq(Markup) /\ DOMAIN w = DOMAIN o \cup {e} /\ w[e] = "</tv>" /\ Len(w) = e
      /\ \A i \in DOMAIN o : w[i] = o[i] /\ i < e
  BY DEF Markup
<1>2. e = Len(o) + 1
  OBVIOUS
<1> HIDE DEF e, t, w
<1>3. ASSUME Begun(o) PROVE Begun(t) /\ Ended(w)
  <2>1. 1 \in DOMAIN o /\ 2 \in DOMAIN o /\ e > 2 /\ o[1] = "<?xml>" /\ o[2] = "<tv>"
    BY <1>1, <1>2, <1>3 DEF Begun
  <2>2. Begun(t)
    BY <1>1, <1>2, <1>3, <2>1 DEF Begun
  <2>3. \A l \in DOMAIN w : 2 < l /\ l < e => w[l] = "newline"
    BY <1>1, <1>2, <1>3 DEF Begun
  <2>. QED  BY <1>1, <2>1, <2>2, <2>3 DEF Ended, EndsAt
<1>. QED  BY <1>1, <1>3 DEF t, w

(* The end is written once more.                                            *)
LEMMA EndedAgain ==
  ASSUME NEW o \in Seq(Markup), Ended(o), NEW t, t = Append(o, "</tv>")
  PROVE  Len(t) - 1 \in DOMAIN t /\ EndsAt(t, Len(t) - 1) /\ t[Len(t)] = "</tv>"
<1> DEFINE e == Len(o)
<1>1. /\ e \in Nat /\ DOMAIN o = 1..e /\ DOMAIN t = 1..(e + 1) /\ Len(t) = e + 1
      /\ t[e + 1] = "</tv>" /\ \A i \in DOMAIN o : t[i] = o[i]
  OBVIOUS
<1>2. e > 2 /\ o[1] = "<?xml>" /\ o[2] = "<tv>" /\ o[e] = "</tv>"
      /\ \A l \in DOMAIN o : 2 < l /\ l < e => o[l] = "newline"
  BY DEF Ended, EndsAt
<1> HIDE DEF e
<1>3. (e + 1) - 1 = e
  BY <1>1
<1>4. EndsAt(t, e)
  BY <1>1, <1>2 DEF EndsAt
<1>. QED  BY <1>1, <1>2, <1>3, <1>4

LEMMA Heads ==
  ASSUME NEW o, o = <<>>
  PROVE  Begun(o \o <<"<?xml>", "<tv>">>)
BY DEF Begun

(* An alarm or the end of a read() ends the scan, or nothing changes.       *)
LEMMA ScanEnds ==
  ASSUME IInv, pc \in {"loop", "read"}, NEW why, EndScan(why), UNCHANGED <<opt, out, handler>>
  PROVE  IInv'
<1>1. Stages /\ phase = "scan" /\ opt.scan /\ status = NULL
  BY DEF IInv, Stages
<1>2. CASE opt.halt
  <2>1. ~Asked'
    BY <1>1, <1>2 DEF Asked
  <2>2. pc' = "exited" /\ phase' = phase
    BY <1>2 DEF EndScan, Exit
  <2>3. Stages'
    BY <1>1, <2>2 DEF Stages
  <2>. QED  BY <2>1, <2>2, <2>3 DEF IInv
<1>3. CASE ~opt.halt
  <2>1. pc' = "head" /\ phase' = "listing" /\ status' = status
    BY <1>3 DEF EndScan
  <2>2. Stages'
    BY <1>1, <2>1 DEF Stages
  <2>. QED  BY <1>1, <2>1, <2>2 DEF IInv, Asked
<1>. QED  BY <1>2, <1>3

(* What main() does once the input is open.                                 *)
LEMMA InputOpen ==
  ASSUME IInv, pc \in {"open", "poll"}, NEW device, Opened(device),
         UNCHANGED <<opt, phase, status>>,
         out' = out \/ (out' = Append(out, "newline") /\ pc = "poll")
  PROVE  IInv'
<1>1. Stages /\ out \in Seq(Markup) /\ status = NULL /\ (phase = "scan" => opt.scan)
      /\ handler # "finish_up"
  BY DEF IInv, Stages
<1>2. /\ out' \in Seq(Markup) /\ (Begun(out) => Begun(out'))
      /\ Asked /\ phase = "scan" => out' = out
  BY <1>1, Blanks DEF IInv, Stages, Asked
<1>3. /\ phase = "scan" => pc' = "loop" /\ handler' = "dummy"
      /\ phase # "scan" => pc' = "close"
  BY DEF Opened
<1>4. Stages'
  <2>1. CASE phase = "scan"
    BY <1>1, <1>2, <1>3, <2>1 DEF Stages
  <2>2. CASE phase # "scan"
    BY <1>1, <1>2, <1>3, <2>2 DEF Stages
  <2>. QED  BY <2>1, <2>2
<1>. QED  BY <1>2, <1>3, <1>4 DEF IInv, Asked

(* finish_up(), called: its two steps, and as the handler, when it may come *)
(* between them.                                                            *)
LEMMA CloseStep == IInv /\ Close => IInv'
<1> SUFFICES ASSUME IInv, Close PROVE IInv'
  OBVIOUS
<1> USE DEF signals
<1>1. /\ phase = "listing" /\ out \in Seq(Markup) /\ out' = Append(out, "</tv>") /\ pc' = "exit"
      /\ UNCHANGED <<opt, phase, handler, status>>
      /\ (Asked => Begun(out))
  BY DEF Close, IInv, Stages
<1>2. out' \in Seq(Markup) /\ (Begun(out) => Ended(out'))
  BY <1>1, Blanks
<1>3. Stages'
  BY <1>1, <1>2 DEF Close, IInv, Stages
<1>. QED  BY <1>1, <1>2, <1>3 DEF IInv, Asked

LEMMA LeaveStep == IInv /\ Leave => IInv'
<1> SUFFICES ASSUME IInv, Leave PROVE IInv'
  OBVIOUS
<1> USE DEF signals
<1>1. /\ pc' = "exited" /\ UNCHANGED <<opt, phase, handler, out>> /\ (Asked => Ended(out))
  BY DEF Leave, Exit, IInv
<1>2. Stages'
  BY <1>1 DEF Leave, IInv, Stages
<1>. QED  BY <1>1, <1>2 DEF IInv, Asked

LEMMA AlarmFinishesStep == IInv /\ AlarmFinishes => IInv'
<1> SUFFICES ASSUME IInv, AlarmFinishes PROVE IInv'
  OBVIOUS
<1> USE DEF signals
<1>1. /\ pc \in {"close", "exit"} /\ phase = "listing" /\ out \in Seq(Markup)
      /\ out' = Append(out, "</tv>") /\ pc' = "exited" /\ status' = 0
      /\ alarm' = 0 /\ handler' = "finish_up"
      /\ UNCHANGED <<opt, phase, handler>>
  BY DEF AlarmFinishes, Exit, IInv, Stages
<1>2. out' \in Seq(Markup)
  BY <1>1, Blanks
<1>3. Asked => Ended(out') \/ EndedTwice(out)'
  <2>1. CASE pc = "close"
    BY <1>1, <2>1, Blanks DEF IInv
  <2>2. CASE pc = "exit"
    <3>1. Asked => Ended(out)
      BY <2>2 DEF IInv
    <3>. QED  BY <1>1, <3>1, EndedAgain DEF EndedTwice
  <2>. QED  BY <1>1, <2>1, <2>2
<1>4. Stages'
  BY <1>1, <1>2 DEF IInv, Stages
<1>. QED  BY <1>1, <1>3, <1>4 DEF IInv, Asked

LEMMA InitInv == Init => IInv
<1> SUFFICES ASSUME Init PROVE IInv
  OBVIOUS
<1>1. opt \in Options /\ out = <<>> /\ pc = "zap" /\ phase = "scan" /\ handler = "default"
      /\ status = NULL
  BY DEF Init
<1>2. Stages
  BY <1>1 DEF Stages
<1>. QED  BY <1>1, <1>2 DEF IInv

LEMMA StepInv == IInv /\ [Next]_vars => IInv'
<1> SUFFICES ASSUME IInv, [Next]_vars PROVE IInv'
  OBVIOUS
<1> USE DEF input, signals, buffer
<1>1. CASE ReadZapInfo
  <2>1. /\ opt' = opt /\ handler' = handler /\ status' = status /\ status = NULL
        /\ handler # "finish_up" /\ opt \in Options /\ phase = "scan"
        /\ IF opt.scan THEN pc' = "open" /\ phase' = phase ELSE pc' = "head" /\ phase' = "listing"
    BY <1>1 DEF ReadZapInfo, IInv, Stages
  <2>2. out' \in Seq(Markup) /\ (~opt.zap => out' = <<>>)
    <3>1. CASE opt.zap
      BY <1>1, <3>1 DEF ReadZapInfo, Markup
    <3>2. CASE ~opt.zap
      BY <1>1, <3>2 DEF ReadZapInfo
    <3>. QED  BY <3>1, <3>2
  <2>3. Stages'
    BY <2>1, <2>2 DEF Stages
  <2>. QED  BY <2>1, <2>2, <2>3 DEF IInv, Asked
<1>2. CASE HeadOfDocument
  <2>1. /\ Stages /\ out \in Seq(Markup) /\ pc = "head" /\ pc' = "open" /\ phase = "listing"
        /\ UNCHANGED <<opt, phase, handler, status>> /\ opt.atom \in 0..2
    BY <1>2 DEF HeadOfDocument, IInv, Stages, Options
  <2>2. out' \in Seq(Markup) /\ (opt.atom = 0 => out' = out \o <<"<?xml>", "<tv>">>)
    <3>1. CASE opt.atom = 0
      <4>1. out' = out \o <<"<?xml>", "<tv>">>
        BY <1>2, <3>1 DEF HeadOfDocument
      <4>2. <<"<?xml>", "<tv>">> \in Seq(Markup)
        BY DEF Markup
      <4>. QED  BY <2>1, <4>1, <4>2
    <3>2. CASE opt.atom = 1
      <4>1. out' = out \o <<"<?xml>", "<feed>">>
        BY <1>2, <3>2 DEF HeadOfDocument
      <4>2. <<"<?xml>", "<feed>">> \in Seq(Markup)
        BY DEF Markup
      <4>. QED  BY <2>1, <3>2, <4>1, <4>2
    <3>3. CASE opt.atom = 2
      <4>1. out' = out \o <<>>
        BY <1>2, <3>3 DEF HeadOfDocument
      <4>. QED  BY <2>1, <3>3, <4>1
    <3>. QED  BY <2>1, <3>1, <3>2, <3>3
  <2>3. Stages'
    BY <2>1, <2>2 DEF Stages
  <2>4. Asked => Begun(out')
    BY <2>1, <2>2, Heads DEF IInv, Asked
  <2>. QED  BY <2>1, <2>3, <2>4 DEF IInv, Asked
<1>3. CASE OpenStdin
  BY <1>3, InputOpen DEF OpenStdin
<1>4. CASE OpenPath
  BY <1>4 DEF OpenPath, Exit, IInv, Stages, Asked
<1>5. CASE OpenMissing
  <2>1. CASE opt.stdin = "device"
    BY <1>5, <2>1 DEF OpenMissing, IInv, Stages, Asked
  <2>2. CASE opt.stdin # "device"
    BY <1>5, <2>2, InputOpen DEF OpenMissing
  <2>. QED  BY <2>1, <2>2
<1>6. CASE PollReady
  BY <1>6, InputOpen DEF PollReady
<1>7. CASE PollGivesUp
  <2>1. out' \in Seq(Markup)
    BY <1>7, Blanks DEF PollGivesUp, IInv, Stages
  <2>. QED  BY <1>7, <2>1 DEF PollGivesUp, Exit, IInv, Stages, Asked
<1>8. CASE Close
  BY <1>8, CloseStep
<1>17. CASE Leave
  BY <1>17, LeaveStep
<1>9. CASE AlarmFinishes
  BY <1>9, AlarmFinishesStep
<1>10. ASSUME NEW ok \in BOOLEAN, Handle(ok) PROVE IInv'
  <2>1. CASE ok
    <3>1. pc = "loop" /\ UNCHANGED <<opt, phase, pc, handler, out, status>>
      BY <1>10, <2>1 DEF Handle, Looping
    <3>. QED  BY <3>1 DEF IInv, Stages, Asked
  <2>2. CASE ~ok
    BY <1>10, <2>2, ScanEnds DEF Handle, Looping
  <2>. QED  BY <2>1, <2>2
<1>11. CASE Read
  <2>1. \/ \E why : EndScan(why)
        \/ pc' = "loop" /\ UNCHANGED <<phase, stopped, status>>
    BY <1>11 DEF Read
  <2>2. pc = "read" /\ UNCHANGED <<opt, out, handler>>
    BY <1>11 DEF Read
  <2>3. CASE \E why : EndScan(why)
    BY <2>2, <2>3, ScanEnds
  <2>4. CASE pc' = "loop" /\ UNCHANGED <<phase, stopped, status>>
    BY <2>2, <2>4 DEF IInv, Stages, Asked
  <2>. QED  BY <2>1, <2>3, <2>4
<1>12. CASE ReadFails
  BY <1>12, ScanEnds DEF ReadFails
<1>13. CASE AlarmInRead
  <2>1. CASE TimeUp
    BY <1>13, <2>1, ScanEnds DEF AlarmInRead
  <2>2. CASE ~TimeUp
    BY <1>13, <2>2 DEF AlarmInRead, IInv, Stages, Asked
  <2>. QED  BY <2>1, <2>2
<1>14. CASE AlarmInPoll
  BY <1>14 DEF AlarmInPoll, Exit, IInv, Stages, Asked
<1>15. CASE Look \/ BadCrc \/ ReadMore
  BY <1>15 DEF Look, BadCrc, ReadMore, Looping, IInv, Stages, Asked
<1>16. CASE AlarmUnheeded \/ Tick \/ Arrive \/ InputEnds \/ UNCHANGED vars
  BY <1>16 DEF AlarmUnheeded, Tick, Arrive, InputEnds, vars, IInv, Stages, Asked, EndedTwice
<1>. QED
  BY <1>1, <1>2, <1>3, <1>4, <1>5, <1>6, <1>7, <1>8, <1>9, <1>10, <1>11, <1>12, <1>13, <1>14,
     <1>15, <1>16, <1>17 DEF Next, Step, Alarm

(* main(), openInput() and the handlers (tv_grab_dvb.c:408): whenever the   *)
(* alarms come, and whatever the input holds, a run for XMLTV that succeeds *)
(* has written the head, the opening and the end of the document, in this   *)
(* order, with nothing before them; and nothing after them, unless an       *)
(* alarm between the end and exit() has the end written a second time.      *)
THEOREM WritesWhole == Spec => []WholeDocument
<1>1. IInv => WholeDocument
  <2> SUFFICES ASSUME IInv, status = 0, Asked
               PROVE  \E k \in DOMAIN out :
                        /\ EndsAt(out, k)
                        /\ k # Len(out) => /\ k + 1 = Len(out) /\ out[k + 1] = "</tv>"
                                           /\ alarm = 0 /\ handler = "finish_up"
    BY DEF WholeDocument
  <2>1. pc = "exited" /\ out \in Seq(Markup)
    BY LegacyAssumption DEF IInv, Stages
  <2>2. CASE Ended(out)
    <3>1. Len(out) \in DOMAIN out
      BY <2>1, <2>2 DEF Ended, EndsAt
    <3>. QED  BY <2>2, <3>1 DEF Ended
  <2>3. CASE EndedTwice(out)
    <3> DEFINE k == Len(out) - 1
    <3>1. k \in DOMAIN out /\ EndsAt(out, k) /\ k + 1 = Len(out)
      BY <2>1, <2>3 DEF EndedTwice
    <3> HIDE DEF k
    <3>. QED  BY <2>3, <3>1 DEF EndedTwice
  <2>. QED  BY <2>1, <2>2, <2>3 DEF IInv
<1>. QED  BY InitInv, StepInv, <1>1, PTL DEF Spec

-----------------------------------------------------------------------------
(* Induction on the sections of the input.                                  *)
LEMMA Induction ==
  ASSUME NEW last \in Nat, NEW T, 0 \in T, \A i \in 0..(last - 1) : i \in T => i + 1 \in T
  PROVE  last \in T
<1> DEFINE U == (0..last) \ T
<1> SUFFICES ASSUME U # {} PROVE FALSE
  OBVIOUS
<1>1. U \subseteq Nat
  OBVIOUS
<1>2. PICK x \in U : \A y \in U : ~(<<y, x>> \in OpToRel(<, Nat))
  BY <1>1, NatLessThanWellFounded, WFMin
<1>3. \A y \in U : ~(y < x)
  BY <1>1, <1>2 DEF OpToRel
<1>4. x - 1 \notin U /\ x # 0
  BY <1>3
<1>5. x - 1 \in 0..(last - 1) /\ x - 1 \in T
  BY <1>4
<1>. QED  BY <1>5

(* The places of the sections, as a recursion.                              *)
IsPlacesRun(g, k, c) == g = [i \in 0..k |-> IF i = 0 THEN 0 ELSE g[i - 1] + c[i].size]

PlacesRunGoes(f, last, c) ==
  f[0] = 0 /\ \A k \in 0..(last - 1) : f[k + 1] = f[k] + c[k + 1].size

LEMMA PlacesRun ==
  ASSUME NEW c, NEW E, c \in Seq(E)
  PROVE  PlacesRunGoes(Places(c), Len(c), c)
<1> DEFINE last == Len(c)
           T == {k \in 0..last : \E g : IsPlacesRun(g, k, c)}
<1>1. 0 \in T
  <2>1. IsPlacesRun([i \in 0..0 |-> 0], 0, c)
    BY DEF IsPlacesRun
  <2>. QED  BY <2>1
<1>2. ASSUME NEW k \in 0..(last - 1), k \in T PROVE k + 1 \in T
  <2>1. PICK g : IsPlacesRun(g, k, c)
    BY <1>2
  <2> DEFINE h == [i \in 0..(k + 1) |->
                     IF i = k + 1 THEN g[k] + c[k + 1].size ELSE g[i]]
  <2>2. IsPlacesRun(h, k + 1, c)
    <3> SUFFICES ASSUME NEW i \in 0..(k + 1)
                 PROVE  h[i] = IF i = 0 THEN 0 ELSE h[i - 1] + c[i].size
      BY DEF IsPlacesRun
    <3>1. CASE i = 0
      BY <2>1, <3>1 DEF IsPlacesRun
    <3>2. CASE i = k + 1
      BY <2>1, <3>2 DEF IsPlacesRun
    <3>3. CASE i \in 1..k
      BY <2>1, <3>3 DEF IsPlacesRun
    <3>. QED  BY <3>1, <3>2, <3>3
  <2> HIDE DEF h
  <2>. QED  BY <2>2
<1> HIDE DEF T
<1>3. last \in T
  BY <1>1, <1>2, Induction
<1>4. \E g : IsPlacesRun(g, last, c)
  BY <1>3 DEF T
<1> DEFINE f == CHOOSE g : IsPlacesRun(g, last, c)
<1>5. IsPlacesRun(f, last, c)
  BY <1>4
<1>6. Places(c) = f
  BY DEF Places, IsPlacesRun
<1> HIDE DEF f
<1>7. f[0] = 0
  <2>1. 0 \in 0..last
    OBVIOUS
  <2> HIDE DEF last
  <2>. QED  BY <1>5, <2>1 DEF IsPlacesRun
<1>8. ASSUME NEW k \in 0..(last - 1) PROVE f[k + 1] = f[k] + c[k + 1].size
  <2> DEFINE i == k + 1
  <2>1. i \in 0..last /\ i # 0 /\ i - 1 = k
    OBVIOUS
  <2> HIDE DEF i
  <2>2. f[i] = f[i - 1] + c[i].size
    BY <1>5, <2>1 DEF IsPlacesRun
  <2>. QED  BY <2>1, <2>2 DEF i
<1>9. PlacesRunGoes(f, last, c)
  BY <1>7, <1>8 DEF PlacesRunGoes
<1>. QED  BY <1>6, <1>9

(* Where the sections start grows from one to the next.                     *)
Grows(P, last) ==
  /\ \A k \in 0..last : P[k] \in Nat
  /\ \A k \in 0..last : \A j \in 0..(k - 1) : P[j] < P[k]

LEMMA PlacesGrow ==
  ASSUME NEW c \in Seq(InputSection)
  PROVE  Grows(Places(c), Len(c))
<1> DEFINE last == Len(c)
           P == Places(c)
           T == {k \in 0..last : P[k] \in Nat /\ \A j \in 0..(k - 1) : P[j] \in Nat /\ P[j] < P[k]}
<1>1. PlacesRunGoes(P, last, c)
  BY PlacesRun
<1>2. last \in Nat /\ \A k \in 0..(last - 1) : c[k + 1].size \in Nat /\ c[k + 1].size > 0
  <2>1. \A k \in 0..(last - 1) : c[k + 1] \in InputSection
    OBVIOUS
  <2>. QED  BY <2>1, LegacyAssumption DEF InputSection
<1> HIDE DEF last, P
<1>3. 0 \in T
  BY <1>1, <1>2 DEF PlacesRunGoes
<1>4. ASSUME NEW k \in 0..(last - 1), k \in T PROVE k + 1 \in T
  <2>1. P[k + 1] = P[k] + c[k + 1].size /\ c[k + 1].size \in Nat /\ c[k + 1].size > 0
    BY <1>1, <1>2 DEF PlacesRunGoes
  <2> DEFINE size == c[k + 1].size
  <2> HIDE DEF size
  <2>2. P[k + 1] \in Nat /\ P[k] \in Nat /\ P[k] < P[k + 1] /\ k + 1 \in 0..last
    BY <1>2, <1>4, <2>1 DEF size
  <2>3. ASSUME NEW j \in 0..k PROVE P[j] \in Nat /\ P[j] < P[k + 1]
    BY <1>4, <2>2
  <2>. QED  BY <2>2, <2>3
<1>5. ASSUME NEW m \in 0..last PROVE m \in T
  <2>1. m \in Nat /\ \A i \in 0..(m - 1) : i \in T => i + 1 \in T
    BY <1>2, <1>4, SMTT(30)
  <2> HIDE DEF T
  <2>. QED  BY <1>3, <2>1, Induction
<1>. QED  BY <1>5 DEF Grows, last, P

(* The section that starts where section i ended.                           *)
LEMMA SectionThere ==
  ASSUME NEW c \in Seq(InputSection), NEW i \in 1..Len(c), NEW place, place = Places(c)[i - 1]
  PROVE  /\ place \in Starts(c) /\ SectionAt(c, place) = c[i]
         /\ c[i] \in InputSection
         /\ place \in Nat /\ place + c[i].size = Places(c)[i]
<1> DEFINE P == Places(c)
<1>1. Grows(P, Len(c)) /\ PlacesRunGoes(P, Len(c), c)
  BY PlacesGrow, PlacesRun
<1>2. place \in Starts(c)
  BY DEF Starts
<1>3. DOMAIN c = 1..Len(c) /\ Len(c) \in Nat /\ c[i] \in InputSection
  OBVIOUS
<1> HIDE DEF P
<1>4. ASSUME NEW j \in 1..Len(c), P[j - 1] = place PROVE j = i
  <2>1. j - 1 \in 0..Len(c) /\ i - 1 \in 0..Len(c)
    BY <1>3
  <2>2. ~(j < i) /\ ~(i < j)
    BY <1>1, <1>3, <1>4, <2>1 DEF Grows, P
  <2>. QED  BY <2>2
<1>5. (CHOOSE j \in DOMAIN c : P[j - 1] = place) = i
  BY <1>3, <1>4 DEF P
<1>6. place \in Nat
  BY <1>1, <1>3 DEF Grows, P
<1>7. P[i] = P[i - 1] + c[i].size
  <2>1. i - 1 \in 0..(Len(c) - 1) /\ (i - 1) + 1 = i
    BY <1>3
  <2> DEFINE k == i - 1
  <2> HIDE DEF k
  <2>2. P[k + 1] = P[k] + c[k + 1].size
    BY <1>1, <2>1 DEF PlacesRunGoes, k
  <2>. QED  BY <2>1, <2>2 DEF k
<1>. QED  BY <1>2, <1>3, <1>5, <1>6, <1>7 DEF SectionAt, P

(* A place where a section starts is that of one of them.                   *)
LEMMA StartOfOne ==
  ASSUME NEW c \in Seq(InputSection), NEW place \in Starts(c)
  PROVE  \E i \in 1..Len(c) : place = Places(c)[i - 1]
BY DEF Starts

LEMMA SizeNat ==
  ASSUME NEW c \in Seq(InputSection)
  PROVE  Size(c) \in Nat
<1>1. Grows(Places(c), Len(c)) /\ Len(c) \in 0..Len(c)
  BY PlacesGrow
<1>. QED  BY <1>1 DEF Size, Grows

-----------------------------------------------------------------------------
(* What is moved to the front of the buffer before a read() stays there.    *)
Typed ==
  /\ TypeOK /\ head \in Nat
  /\ pc = "read" => offset = 0

(* The parts of it that a section in the buffer moves.                      *)
Held ==
  /\ n \in 0..BufSize /\ offset \in 0..BufSize /\ offset + n <= BufSize
  /\ head \in Nat /\ head + n <= arrived
  /\ length \in Header..MaxLength \cup {NULL}

(* The rest of it.                                                          *)
Around ==
  /\ opt \in Options /\ content \in Contents
  /\ arrived \in 0..Size(content) /\ eof \in BOOLEAN
  /\ phase \in {"scan", "listing"}
  /\ pc \in {"zap", "open", "poll", "loop", "read", "head", "close", "exit", "exited"}
  /\ timeout \in {0, Timeout} /\ to \in 0..Timeout /\ left \in 0..Scan
  /\ alarm \in 0..Scan \cup 0..Timeout \cup {NULL}
  /\ handler \in {"default", "dummy", "finish_up"}
  /\ (status = NULL) = (pc # "exited")

LEMMA TypedParts == Typed <=> Held /\ Around /\ (pc = "read" => offset = 0)
BY DEF Typed, TypeOK, Held, Around

LEMMA ContentIs == Typed => content \in Seq(InputSection) /\ Size(content) \in Nat /\ arrived \in Nat
BY LegacyAssumption, SizeNat DEF Typed, TypeOK

(* The end of the scan and that of the program have their types.            *)
LEMMA TypedEnd ==
  ASSUME Typed, pc \in {"loop", "read"}, NEW why, EndScan(why), Held',
         UNCHANGED <<opt, input, timeout, to, left, signals>>
  PROVE  Typed'
<1>1. Around /\ status = NULL
  BY TypedParts DEF Around
<1>2. /\ phase' \in {"scan", "listing"} /\ pc' \in {"head", "exited"}
      /\ (status' = NULL) = (pc' # "exited")
  <2>1. CASE opt.halt
    BY <1>1, <2>1, LegacyAssumption DEF EndScan, Exit, Around
  <2>2. CASE ~opt.halt
    BY <1>1, <2>2 DEF EndScan
  <2>. QED  BY <2>1, <2>2
<1>3. Around'
  BY <1>1, <1>2 DEF Around, input, signals
<1>4. pc' # "read"
  BY <1>2
<1>. QED  BY <1>3, <1>4, TypedParts DEF Typed, TypeOK, Held, Around

LEMMA HeldStays ==
  ASSUME Typed, UNCHANGED <<arrived, head, offset, n, length>>
  PROVE  Held'
BY TypedParts DEF Held

LEMMA Removed ==
  ASSUME Typed, length # NULL, n >= length, RemovePacket, UNCHANGED arrived
  PROVE  Held'
<1>1. length \in Nat /\ Held /\ arrived \in Nat
  BY TypedParts, ContentIs, LegacyAssumption DEF Held
<1>. QED  BY <1>1, LegacyAssumption DEF RemovePacket, Held

LEMMA TypedOpened ==
  ASSUME Typed, pc \in {"open", "poll"}, NEW device, Opened(device), timeout' \in {0, Timeout},
         to' \in 0..Timeout, UNCHANGED <<opt, input, phase, left, buffer, status>>
  PROVE  Typed'
<1> USE DEF input, signals, buffer
<1>1. Around /\ Held' /\ status = NULL
  BY TypedParts, HeldStays DEF Around
<1>2. pc' \in {"loop", "close"} /\ handler' \in {"default", "dummy", "finish_up"}
      /\ alarm' \in 0..Scan \cup 0..Timeout \cup {NULL}
  BY <1>1, LegacyAssumption DEF Opened, Around
<1>3. Around'
  BY <1>1, <1>2 DEF Around
<1>. QED  BY <1>1, <1>2, <1>3 DEF Typed, TypeOK, Held, Around

LEMMA InitTyped == Init => Typed
<1> SUFFICES ASSUME Init PROVE Typed
  OBVIOUS
<1>1. content \in Seq(InputSection) /\ Size(content) \in Nat
  BY LegacyAssumption, SizeNat DEF Init
<1>2. Around
  BY <1>1, LegacyAssumption DEF Init, Around
<1>3. Held
  BY <1>1, LegacyAssumption DEF Init, Held
<1>. QED  BY <1>2, <1>3, TypedParts DEF Init

LEMMA StepTyped == Typed /\ [Next]_vars => Typed'
<1> SUFFICES ASSUME Typed, [Next]_vars PROVE Typed'
  OBVIOUS
<1> USE DEF input, signals, buffer
<1>0. /\ Held /\ Around /\ (pc = "read" => offset = 0) /\ NULL \notin Nat
      /\ Header \in Nat /\ BufSize \in Nat /\ Scan \in Nat /\ Timeout \in Nat /\ MaxLength \in Nat
      /\ Header > 0 /\ Scan > 0 /\ Timeout > 0
  BY TypedParts, LegacyAssumption
<1>a. ASSUME Held', Around', pc' = "read" => offset' = 0 PROVE Typed'
  BY <1>a DEF Typed, TypeOK, Held, Around
<1>1. CASE ReadZapInfo
  <2>1. Held' /\ Around' /\ pc' # "read"
    BY <1>0, <1>1, HeldStays DEF ReadZapInfo, Around
  <2>. QED  BY <1>a, <2>1
<1>2. CASE HeadOfDocument
  <2>1. Held' /\ Around' /\ pc' # "read"
    BY <1>0, <1>2, HeldStays DEF HeadOfDocument, Around
  <2>. QED  BY <1>a, <2>1
<1>3. CASE OpenStdin
  <2>1. timeout' \in {0, Timeout} /\ to' \in 0..Timeout
    BY <1>0, <1>3 DEF OpenStdin, Around
  <2>. QED  BY <1>3, <2>1, TypedOpened DEF OpenStdin
<1>4. CASE OpenPath
  <2>1. Held' /\ Around' /\ pc' # "read"
    BY <1>0, <1>4, HeldStays DEF OpenPath, Exit, Around
  <2>. QED  BY <1>a, <2>1
<1>5. CASE OpenMissing
  <2>1. CASE opt.stdin = "device"
    <3>1. Held' /\ Around' /\ pc' # "read"
      BY <1>0, <1>5, <2>1, HeldStays DEF OpenMissing, Around
    <3>. QED  BY <1>a, <3>1
  <2>2. CASE opt.stdin # "device"
    BY <1>0, <1>5, <2>2, TypedOpened DEF OpenMissing, Around
  <2>. QED  BY <2>1, <2>2
<1>6. CASE PollReady
  <2>1. timeout' \in {0, Timeout} /\ to' \in 0..Timeout
    BY <1>0, <1>6 DEF PollReady, Around
  <2>. QED  BY <1>6, <2>1, TypedOpened DEF PollReady
<1>7. CASE PollGivesUp
  <2>1. Held' /\ Around' /\ pc' # "read"
    BY <1>0, <1>7, HeldStays DEF PollGivesUp, Exit, Around
  <2>. QED  BY <1>a, <2>1
<1>8. CASE Close
  <2>1. Held' /\ Around' /\ pc' # "read"
    BY <1>0, <1>8, HeldStays DEF Close, Around
  <2>. QED  BY <1>a, <2>1
<1>23. CASE Leave
  <2>1. Held' /\ Around' /\ pc' # "read"
    BY <1>0, <1>23, HeldStays DEF Leave, Exit, Around
  <2>. QED  BY <1>a, <2>1
<1>9. CASE Look
  <2>1. length' \in Header..MaxLength
    <3>1. CASE head \in Starts(content)
      <4>1. PICK i \in 1..Len(content) : head = Places(content)[i - 1]
        BY <3>1, ContentIs, StartOfOne
      <4>2. SectionAt(content, head) \in InputSection
        BY <4>1, ContentIs, SectionThere, SMTT(30)
      <4>. QED  BY <1>9, <3>1, <4>2 DEF Look, InputSection
    <3>2. CASE head \notin Starts(content)
      BY <1>9, <3>2 DEF Look
    <3>. QED  BY <3>1, <3>2
  <2>2. Held' /\ Around' /\ pc' = "loop"
    BY <1>0, <1>9, <2>1 DEF Look, Looping, Held, Around
  <2>. QED  BY <1>a, <2>2
<1>10. CASE BadCrc
  <2>1. Held'
    BY <1>10, Removed DEF BadCrc
  <2>2. Around' /\ pc' = "loop"
    BY <1>0, <1>10 DEF BadCrc, Looping, Around
  <2>. QED  BY <1>a, <2>1, <2>2
<1>11. ASSUME NEW ok \in BOOLEAN, Handle(ok) PROVE Typed'
  <2>1. CASE ok
    <3>1. Held'
      BY <1>11, <2>1, Removed DEF Handle
    <3>2. Around' /\ pc' = "loop"
      BY <1>0, <1>11, <2>1 DEF Handle, Looping, Around
    <3>. QED  BY <1>a, <3>1, <3>2
  <2>2. CASE ~ok
    BY <1>11, <2>2, HeldStays, TypedEnd DEF Handle, Looping
  <2>. QED  BY <2>1, <2>2
<1>12. CASE ReadMore
  <2>1. Held'
    BY <1>0, <1>12 DEF ReadMore, Held
  <2>2. Around' /\ offset' = 0
    BY <1>0, <1>12 DEF ReadMore, Looping, Around
  <2>. QED  BY <1>a, <2>1, <2>2
<1>13. CASE Read
  <2> DEFINE r == IF Available < Room THEN Available ELSE Room
  <2>1. r \in Nat /\ r <= Available /\ r <= Room
    BY <1>0, ContentIs DEF Available, Room, Held
  <2>2. /\ pc = "read" /\ offset = 0 /\ UNCHANGED <<opt, input, timeout, to, left, signals, offset, length>>
        /\ IF TimeUp THEN EndScan("timer") /\ head' = head + r /\ UNCHANGED n
           ELSE /\ n' = n + r /\ UNCHANGED head
                /\ \/ pc' = "loop" /\ UNCHANGED <<phase, stopped, status>>
                   \/ \E why : EndScan(why)
    BY <1>0, <1>13 DEF Read
  <2> HIDE DEF r
  <2>3. Held'
    BY <1>0, <2>1, <2>2, ContentIs, SMTT(30) DEF Held, Available, Room
  <2>4. CASE \E why : EndScan(why)
    BY <2>2, <2>3, <2>4, TypedEnd
  <2>5. CASE pc' = "loop" /\ UNCHANGED <<phase, stopped, status>>
    <3>1. Around'
      BY <1>0, <2>2, <2>5 DEF Around
    <3>. QED  BY <1>a, <2>3, <2>5, <3>1
  <2>. QED  BY <2>2, <2>4, <2>5
<1>14. CASE ReadFails
  <2>1. pc = "read" /\ \E why : EndScan(why)
    BY <1>14 DEF ReadFails
  <2>. QED  BY <1>14, <2>1, HeldStays, TypedEnd DEF ReadFails
<1>15. CASE AlarmInPoll
  <2>1. Held' /\ Around' /\ pc' # "read"
    BY <1>0, <1>15, HeldStays DEF AlarmInPoll, Exit, Around
  <2>. QED  BY <1>a, <2>1
<1>16. CASE AlarmInRead
  <2>0. /\ alarm' = NULL /\ pc = "read" /\ Held'
        /\ UNCHANGED <<opt, input, timeout, to, left, handler, offset>>
    BY <1>16, HeldStays DEF AlarmInRead
  <2>1. CASE TimeUp
    <3>1. /\ EndScan("timer") /\ status = NULL
      BY <1>0, <1>16, <2>0, <2>1 DEF AlarmInRead, Around
    <3>2. /\ phase' \in {"scan", "listing"} /\ pc' \in {"head", "exited"}
          /\ (status' = NULL) = (pc' # "exited")
      <4>1. CASE opt.halt
        BY <1>0, <3>1, <4>1 DEF EndScan, Exit, Around
      <4>2. CASE ~opt.halt
        BY <1>0, <3>1, <4>2 DEF EndScan
      <4>. QED  BY <4>1, <4>2
    <3>3. Around' /\ pc' # "read"
      BY <1>0, <2>0, <3>2 DEF Around
    <3>. QED  BY <1>a, <2>0, <3>3
  <2>2. CASE ~TimeUp
    <3>1. Around' /\ offset' = 0
      BY <1>0, <1>16, <2>0, <2>2 DEF AlarmInRead, Around
    <3>. QED  BY <1>a, <2>0, <3>1
  <2>. QED  BY <2>1, <2>2
<1>17. CASE AlarmUnheeded
  <2>1. Held' /\ Around' /\ UNCHANGED <<pc, offset>>
    BY <1>0, <1>17, HeldStays DEF AlarmUnheeded, Around
  <2>. QED  BY <1>0, <1>a, <2>1
<1>18. CASE AlarmFinishes
  <2>1. Held' /\ Around' /\ pc' # "read"
    BY <1>0, <1>18, HeldStays DEF AlarmFinishes, Exit, Around
  <2>. QED  BY <1>a, <2>1
<1>19. CASE Tick
  <2>1. left' \in 0..Scan /\ to' \in 0..Timeout /\ alarm' \in 0..Scan \cup 0..Timeout \cup {NULL}
    BY <1>0, <1>19 DEF Tick, Around
  <2>2. Held' /\ Around' /\ UNCHANGED <<pc, offset>>
    BY <1>0, <1>19, <2>1, HeldStays DEF Tick, Around
  <2>. QED  BY <1>0, <1>a, <2>2
<1>20. CASE Arrive
  <2>1. arrived' \in 0..Size(content) /\ arrived' > arrived /\ arrived' \in Nat
    BY <1>20, ContentIs DEF Arrive
  <2>2. Held' /\ Around' /\ UNCHANGED <<pc, offset>>
    BY <1>0, <1>20, <2>1, ContentIs DEF Arrive, Held, Around
  <2>. QED  BY <1>0, <1>a, <2>2
<1>21. CASE InputEnds
  <2>1. Held' /\ Around' /\ UNCHANGED <<pc, offset>>
    BY <1>0, <1>21, HeldStays DEF InputEnds, Around
  <2>. QED  BY <1>0, <1>a, <2>1
<1>22. CASE UNCHANGED vars
  BY <1>0, <1>22 DEF vars, Typed, TypeOK
<1>. QED
  BY <1>1, <1>2, <1>3, <1>4, <1>5, <1>6, <1>7, <1>8, <1>9, <1>10, <1>11, <1>12, <1>13, <1>14,
     <1>15, <1>16, <1>17, <1>18, <1>19, <1>20, <1>21, <1>22,
     <1>23 DEF Next, Step, Alarm

(* readEventTables() and openInput(): the octets at bhead lie in the        *)
(* buffer, whatever sizes the headers state and the reads have, and are     *)
(* never more than the input gave.                                          *)
THEOREM TypeCorrect == Spec => []TypeOK
<1>1. Typed => TypeOK
  BY DEF Typed
<1>. QED  BY InitTyped, StepTyped, <1>1, PTL DEF Spec

-----------------------------------------------------------------------------
(* The sections that were handled: each once and in order, all of them      *)
(* before x.                                                                *)
Ordered(h) ==
  /\ h \in Seq(Nat)
  /\ \A i \in DOMAIN h : h[i] \in Starts(content)
  /\ \A i, j \in DOMAIN h : i < j => h[i] < h[j]

Before(h, x) == \A i \in DOMAIN h : h[i] < x

(* bhead is where section i of the input ends, those up to it were handled, *)
(* and the length that was looked at is that of the next one.               *)
AlignedAt(i) ==
  /\ i \in 0..Len(content) /\ head = Places(content)[i]
  /\ ToSet(handled) = {Places(content)[k - 1] : k \in 1..i}
  /\ length # NULL => i < Len(content) /\ length = content[i + 1].size

Aligned == \E i : AlignedAt(i)

Scanning == phase = "scan" /\ pc # "exited"

(* The header at bhead states more than the buffer holds.                   *)
TooLong == length # NULL /\ length > BufSize

(* While the scan goes on it has not stopped, and the buffer begins with a  *)
(* section that was not handled; a read() is for one that is not all there. *)
Fed ==
  /\ Ordered(handled)
  /\ Scanning => stopped = "no" /\ Before(handled, head)
  /\ pc = "read" => Incomplete
  /\ stopped = "input" => eof
  /\ stopped = "full" => TooLong
  /\ Undamaged(content) =>
       /\ stopped # "full"
       /\ Scanning => Aligned
       /\ stopped = "input" /\ arrived = Size(content) => ToSet(handled) = Starts(content)

(* What the next section adds.                                              *)
LEMMA HandlesNext ==
  ASSUME Ordered(handled), Before(handled, head), head \in Nat, head \in Starts(content),
         handled' = Append(handled, head), UNCHANGED content
  PROVE  /\ Ordered(handled)' /\ ToSet(handled') = ToSet(handled) \cup {head}
         /\ \A x \in Nat : x > head => Before(handled', x)
<1> DEFINE h == Append(handled, head)
           e == Len(handled) + 1
<1>1. /\ e \in Nat \ {0} /\ DOMAIN handled = 1..(e - 1) /\ DOMAIN h = DOMAIN handled \cup {e}
      /\ h[e] = head /\ (\A i \in DOMAIN handled : h[i] = handled[i] /\ handled[i] \in Nat)
      /\ h \in Seq(Nat)
  BY DEF Ordered
<1> HIDE DEF h, e
<1>2. \A i \in DOMAIN h : h[i] \in Starts(content)
  BY <1>1 DEF Ordered
<1>3. \A i, j \in DOMAIN h : i < j => h[i] < h[j]
  BY <1>1 DEF Ordered, Before
<1>4. ToSet(h) = ToSet(handled) \cup {head}
  BY <1>1 DEF ToSet
<1>5. \A x \in Nat : x > head => Before(h, x)
  BY <1>1 DEF Before
<1>6. h = handled'
  BY DEF h
<1>7. Ordered(handled)'
  BY <1>1, <1>2, <1>3, <1>6 DEF Ordered
<1>. QED  BY <1>4, <1>5, <1>6, <1>7

(* The section at bhead of an input that is not damaged.                    *)
LEMMA SectionAtHead ==
  ASSUME Typed, Undamaged(content), NEW i, AlignedAt(i), i < Len(content)
  PROVE  /\ i \in Nat /\ i + 1 \in 1..Len(content)
         /\ head \in Starts(content) /\ Good
         /\ SectionAt(content, head).states = content[i + 1].size
         /\ content[i + 1].size \in Header..BufSize
         /\ head + content[i + 1].size = Places(content)[i + 1]
         /\ head + content[i + 1].size <= Size(content)
<1> DEFINE j == i + 1
<1>1. content \in Seq(InputSection)
  BY ContentIs
<1>2. i \in Nat /\ j \in 1..Len(content) /\ j - 1 = i /\ j \in 0..Len(content) /\ Len(content) \in Nat
  BY <1>1 DEF AlignedAt
<1>3. j \in DOMAIN content /\ head = Places(content)[j - 1]
  BY <1>1, <1>2 DEF AlignedAt
<1> HIDE DEF j
<1>4. /\ head \in Starts(content) /\ SectionAt(content, head) = content[j]
      /\ content[j] \in InputSection /\ head + content[j].size = Places(content)[j]
  BY <1>1, <1>2, <1>3, SectionThere
<1>5. content[j].good /\ content[j].states = content[j].size /\ content[j].size <= BufSize
  BY <1>3 DEF Undamaged
<1>6. content[j].size \in Header..BufSize
  BY <1>4, <1>5, LegacyAssumption DEF InputSection
<1>7. Places(content)[j] <= Size(content)
  <2>1. Grows(Places(content), Len(content))
    BY <1>1, PlacesGrow
  <2>2. j = Len(content) \/ j \in 0..(Len(content) - 1)
    BY <1>2
  <2>3. Places(content)[j] \in Nat /\ Size(content) \in Nat
    BY <1>1, <1>2, <2>1, SizeNat DEF Grows
  <2>4. Len(content) \in 0..Len(content)
    BY <1>2
  <2>5. CASE j = Len(content)
    BY <2>3, <2>5 DEF Size
  <2>6. CASE j \in 0..(Len(content) - 1)
    BY <2>1, <2>3, <2>4, <2>6 DEF Grows, Size
  <2>. QED  BY <2>2, <2>5, <2>6
<1>. QED  BY <1>2, <1>4, <1>5, <1>6, <1>7 DEF Good, j

(* What is left in the buffer before a read() is less than a section.       *)
LEMMA LessThanASection ==
  ASSUME Typed, Undamaged(content), NEW i, AlignedAt(i), Incomplete
  PROVE  /\ n < BufSize
         /\ head + n = Size(content) => i = Len(content)
<1>1. Len(content) \in Nat /\ i \in 0..Len(content)
  BY ContentIs DEF AlignedAt
<1>2. n \in Nat /\ head \in Nat /\ Header \in Nat /\ BufSize \in Nat /\ Header < BufSize
      /\ Size(content) \in Nat
  BY ContentIs, LegacyAssumption DEF Typed, TypeOK
<1>3. CASE i < Len(content)
  <2> DEFINE size == content[i + 1].size
  <2>1. size \in Header..BufSize /\ head + size <= Size(content)
    BY <1>3, SectionAtHead
  <2>2. n < size
    BY <1>2, <2>1 DEF Incomplete, AlignedAt
  <2> HIDE DEF size
  <2>. QED  BY <1>2, <2>1, <2>2
<1>4. CASE i = Len(content)
  BY <1>2, <1>4 DEF Incomplete, AlignedAt
<1>. QED  BY <1>1, <1>3, <1>4

(* The steps that leave the input and the buffer as they are, and do not    *)
(* begin a read().                                                          *)
LEMMA FedStays ==
  ASSUME Fed, UNCHANGED <<input, head, n, length, handled, stopped>>,
         Scanning' => Scanning, pc' = "read" => Incomplete
  PROVE  Fed'
<1> USE DEF input
<1>1. Incomplete' <=> Incomplete
  BY DEF Incomplete
<1>2. Ordered(handled)' /\ (Before(handled, head) => Before(handled, head)')
  BY DEF Fed, Ordered, Before
<1>3. Aligned => Aligned'
  BY DEF Aligned, AlignedAt
<1>. QED  BY <1>1, <1>2, <1>3 DEF Fed, TooLong

(* The end of the scan for another reason than the input.                   *)
LEMMA FedEnd ==
  ASSUME Fed, pc \in {"loop", "read"}, Scanning, NEW why, EndScan(why), why \notin {"input", "full"},
         UNCHANGED <<input, handled>>
  PROVE  Fed'
<1>1. ~Scanning' /\ pc' # "read" /\ stopped' = why
  BY DEF EndScan, Exit, Scanning
<1>2. Ordered(handled)'
  BY DEF Fed, Ordered, input
<1>. QED  BY <1>1, <1>2 DEF Fed, input

LEMMA InitFed == Init => Fed
<1> SUFFICES ASSUME Init PROVE Fed
  OBVIOUS
<1>1. /\ content \in Seq(InputSection) /\ handled = <<>> /\ head = 0 /\ length = NULL
      /\ stopped = "no" /\ pc = "zap"
  BY LegacyAssumption DEF Init
<1>2. Ordered(handled) /\ Before(handled, head)
  BY <1>1 DEF Ordered, Before
<1>3. AlignedAt(0)
  <2>1. Places(content)[0] = 0
    BY <1>1, PlacesRun DEF PlacesRunGoes
  <2>2. {Places(content)[k - 1] : k \in 1..0} = {} /\ ToSet(handled) = {}
    BY <1>1 DEF ToSet
  <2>3. 0 \in 0..Len(content)
    BY <1>1
  <2>. QED  BY <1>1, <2>1, <2>2, <2>3 DEF AlignedAt
<1>. QED  BY <1>1, <1>2, <1>3 DEF Fed, Aligned

(* What an undamaged input has at bhead goes to the handler, and the next   *)
(* section follows it.                                                      *)
LEMMA HandledAligned ==
  ASSUME Typed, Undamaged(content), NEW i, AlignedAt(i), length # NULL,
         Ordered(handled), Before(handled, head), handled' = Append(handled, head),
         RemovePacket, UNCHANGED content
  PROVE  AlignedAt(i + 1)'
<1> DEFINE j == i + 1
           P == Places(content)
<1>1. i < Len(content) /\ length = content[j].size /\ i \in 0..Len(content)
  BY DEF AlignedAt
<1>2. i \in Nat /\ j \in 1..Len(content) /\ head \in Starts(content) /\ head + length = P[j]
  BY <1>1, SectionAtHead
<1>3. ToSet(handled') = ToSet(handled) \cup {head}
  BY <1>2, HandlesNext DEF Typed
<1>4. ToSet(handled') = {P[k - 1] : k \in 1..i} \cup {P[j - 1]}
  BY <1>2, <1>3 DEF AlignedAt
<1>5. 1..j = 1..i \cup {j} /\ j \in 0..Len(content)
  BY <1>2
<1> HIDE DEF j, P
<1>6. ToSet(handled') = {P[k - 1] : k \in 1..j}
  BY <1>4, <1>5
<1>7. head' = P[j] /\ length' = NULL
  BY <1>2 DEF RemovePacket
<1>8. P = Places(content)'
  BY DEF P
<1>9. AlignedAt(j)'
  BY <1>5, <1>6, <1>7, <1>8 DEF AlignedAt
<1>. QED  BY <1>9 DEF j

LEMMA HandleFed ==
  ASSUME Typed, Fed, Scanning, NEW ok \in BOOLEAN, Handle(ok)
  PROVE  Fed'
<1> USE DEF input
<1>1. /\ pc = "loop" /\ length # NULL /\ head \in Starts(content) /\ head \in Nat
      /\ handled' = Append(handled, head) /\ UNCHANGED <<content, arrived, eof>>
      /\ Ordered(handled) /\ Before(handled, head)
  BY DEF Handle, Looping, Good, Typed, Fed
<1>2. Ordered(handled)' /\ (\A x \in Nat : x > head => Before(handled', x))
  BY <1>1, HandlesNext
<1>3. CASE ok
  <2>1. RemovePacket /\ UNCHANGED <<phase, pc, stopped>> /\ n >= length
    BY <1>3 DEF Handle
  <2>2. Scanning' /\ stopped' = "no" /\ pc' = "loop"
    BY <1>1, <2>1 DEF Fed, Scanning
  <2>3. head' \in Nat /\ head' > head
    BY <1>1, <2>1, LegacyAssumption DEF RemovePacket, Typed, TypeOK
  <2>4. ASSUME Undamaged(content) PROVE Aligned'
    <3>1. PICK i : AlignedAt(i)
      BY <2>4 DEF Fed, Aligned
    <3>2. AlignedAt(i + 1)'
      BY <1>1, <2>1, <2>4, <3>1, HandledAligned
    <3>. QED  BY <3>2 DEF Aligned
  <2>. QED  BY <1>1, <1>2, <2>2, <2>3, <2>4 DEF Fed
<1>4. CASE ~ok
  <2>1. ~Scanning' /\ stopped' = "handler" /\ pc' # "read"
    BY <1>4 DEF Handle, EndScan, Exit, Scanning
  <2>. QED  BY <1>1, <1>2, <2>1 DEF Fed
<1>. QED  BY <1>3, <1>4

LEMMA LookFed ==
  ASSUME Typed, Fed, Scanning, Look
  PROVE  Fed'
<1> USE DEF input
<1>1. /\ pc = "loop" /\ n >= Header /\ length' # NULL
      /\ UNCHANGED <<content, arrived, eof, phase, pc, head, n, handled, stopped>>
      /\ head \in Starts(content) => length' = SectionAt(content, head).states
  <2>1. length' # NULL
    <3>2. length' \in Header..MaxLength \/ head \in Starts(content)
      BY DEF Look
    <3>3. ASSUME head \in Starts(content) PROVE length' \in Nat
      <4>1. PICK i \in 1..Len(content) : head = Places(content)[i - 1]
        BY <3>3, ContentIs, StartOfOne
      <4>2. SectionAt(content, head) \in InputSection
        BY <4>1, ContentIs, SectionThere
      <4>. QED  BY <3>3, <4>2, LegacyAssumption DEF Look, InputSection
    <3>. QED  BY <3>2, <3>3, LegacyAssumption
  <2>. QED  BY <2>1 DEF Look, Looping
<1>2. Ordered(handled)' /\ Before(handled, head)' /\ stopped' = "no"
  BY <1>1 DEF Fed, Ordered, Before
<1>3. ASSUME Undamaged(content) PROVE Aligned'
  <2>1. PICK i : AlignedAt(i)
    BY <1>3 DEF Fed, Aligned
  <2>2. i < Len(content)
    <3>1. Len(content) \in Nat /\ i \in 0..Len(content) /\ Size(content) \in Nat
      BY <2>1, ContentIs DEF AlignedAt
    <3>2. head + n <= Size(content) /\ n > 0 /\ head \in Nat /\ n \in Nat
      BY <1>1, <3>1, LegacyAssumption DEF Typed, TypeOK
    <3>3. i # Len(content)
      BY <2>1, <3>1, <3>2 DEF AlignedAt, Size
    <3>. QED  BY <3>1, <3>3
  <2>3. length' = content[i + 1].size
    BY <1>1, <1>3, <2>1, <2>2, SectionAtHead
  <2>4. AlignedAt(i)'
    BY <1>1, <2>1, <2>2, <2>3 DEF AlignedAt
  <2>. QED  BY <2>4 DEF Aligned
<1>. QED  BY <1>1, <1>2, <1>3 DEF Fed, Scanning

(* The checksum of an undamaged section is right.                           *)
LEMMA BadCrcFed ==
  ASSUME Typed, Fed, Scanning, BadCrc
  PROVE  Fed'
<1> USE DEF input
<1>1. /\ pc = "loop" /\ length # NULL /\ n >= length /\ ~Good /\ RemovePacket
      /\ UNCHANGED <<content, arrived, eof, phase, pc, handled, stopped>>
  BY DEF BadCrc, Looping
<1>2. head' \in Nat /\ head' > head /\ head \in Nat
  BY <1>1, LegacyAssumption DEF RemovePacket, Typed, TypeOK
<1>3. Ordered(handled)' /\ Before(handled, head)' /\ stopped' = "no"
  <2>1. Ordered(handled) /\ Before(handled, head) /\ stopped = "no"
    BY DEF Fed
  <2>2. Before(handled, head)'
    BY <1>1, <1>2, <2>1 DEF Before, Ordered
  <2>. QED  BY <1>1, <2>1, <2>2 DEF Ordered
<1>4. ~Undamaged(content)
  <2> SUFFICES ASSUME Undamaged(content) PROVE FALSE
    OBVIOUS
  <2>1. PICK i : AlignedAt(i)
    BY DEF Fed, Aligned
  <2>2. i < Len(content)
    BY <1>1, <2>1 DEF AlignedAt
  <2>. QED  BY <1>1, <2>1, <2>2, SectionAtHead
<1>. QED  BY <1>1, <1>3, <1>4 DEF Fed, Scanning

LEMMA ReadFed ==
  ASSUME Typed, Fed, Scanning, Read
  PROVE  Fed'
<1> USE DEF input
<1> DEFINE r == IF Available < Room THEN Available ELSE Room
<1>1. /\ pc = "read" /\ (Available > 0 \/ eof \/ Room = 0)
      /\ UNCHANGED <<content, arrived, eof, length, handled>>
      /\ IF TimeUp THEN EndScan("timer") /\ head' = head + r /\ UNCHANGED n
         ELSE /\ n' = n + r /\ UNCHANGED head
              /\ IF r > 0 THEN pc' = "loop" /\ UNCHANGED <<phase, stopped, status>>
                 ELSE EndScan(IF Room = 0 THEN "full" ELSE "input")
  BY DEF Read
<1>2. /\ r \in Nat /\ Available \in Nat /\ Room \in Nat /\ n \in Nat /\ head \in Nat
      /\ BufSize \in Nat /\ arrived \in Nat
  BY ContentIs, LegacyAssumption DEF Available, Room, Typed, TypeOK
<1>3. CASE TimeUp
  <2>1. EndScan("timer")
    BY <1>1, <1>3
  <2>. QED  BY <1>1, <2>1, FedEnd
<1>4. CASE ~TimeUp /\ r > 0
  <2>1. pc' = "loop" /\ Scanning' /\ UNCHANGED <<head, stopped, phase>>
    BY <1>1, <1>4 DEF Scanning
  <2>2. Ordered(handled)' /\ Before(handled, head)' /\ stopped' = "no"
    BY <1>1, <2>1 DEF Fed, Ordered, Before
  <2>3. Aligned => Aligned'
    BY <1>1, <2>1 DEF Aligned, AlignedAt
  <2>. QED  BY <1>1, <2>1, <2>2, <2>3 DEF Fed
<1>5. CASE ~TimeUp /\ ~(r > 0)
  <2>1. r = 0 /\ EndScan(IF Room = 0 THEN "full" ELSE "input") /\ n' = n /\ UNCHANGED head
    BY <1>1, <1>2, <1>5
  <2>2. ~Scanning' /\ pc' # "read" /\ stopped' = IF Room = 0 THEN "full" ELSE "input"
    BY <2>1 DEF EndScan, Exit, Scanning
  <2>3. Room # 0 => Available = 0 /\ eof
    BY <1>1, <1>2, <2>1
  <2>6. Room = 0 => TooLong'
    <3>1. Incomplete /\ BufSize > Header /\ n = BufSize - Room
      BY <1>1, <1>2, LegacyAssumption DEF Fed, Room
    <3>2. length = NULL \/ length \in Nat
      BY LegacyAssumption DEF Typed, TypeOK
    <3>. QED  BY <1>1, <1>2, <3>1, <3>2, LegacyAssumption DEF Incomplete, TooLong
  <2>4. ASSUME Undamaged(content)
        PROVE  /\ Room # 0
               /\ arrived = Size(content) => ToSet(handled) = Starts(content)
    <3>1. PICK i : AlignedAt(i)
      BY <2>4 DEF Fed, Aligned
    <3>2. n < BufSize /\ (head + n = Size(content) => i = Len(content))
      BY <1>1, <2>4, <3>1, LessThanASection DEF Fed
    <3>3. Room # 0
      BY <1>2, <3>2 DEF Room
    <3>4. ASSUME arrived = Size(content) PROVE i = Len(content)
      BY <1>2, <2>3, <3>2, <3>3, <3>4 DEF Available
    <3>5. ASSUME i = Len(content) PROVE ToSet(handled) = Starts(content)
      <4>1. DOMAIN content = 1..i
        BY <3>5, ContentIs
      <4>. QED  BY <3>1, <4>1 DEF AlignedAt, Starts
    <3>. QED  BY <3>3, <3>4, <3>5
  <2>5. Ordered(handled)'
    BY <1>1 DEF Fed, Ordered
  <2>. QED  BY <1>1, <2>2, <2>3, <2>4, <2>5, <2>6 DEF Fed
<1>. QED  BY <1>3, <1>4, <1>5

LEMMA StepFed == IInv /\ Typed /\ Fed /\ [Next]_vars => Fed'
<1> SUFFICES ASSUME IInv, Typed, Fed, [Next]_vars PROVE Fed'
  OBVIOUS
<1> USE DEF input, signals, buffer
<1>1. pc \in {"zap", "loop", "read"} => Scanning
  BY DEF IInv, Stages, Scanning
<1>2. CASE ReadZapInfo \/ HeadOfDocument \/ OpenStdin \/ OpenPath \/ OpenMissing
           \/ PollReady \/ PollGivesUp \/ Close \/ Leave
  <2>1. UNCHANGED <<input, head, n, length, handled, stopped>> /\ pc' # "read"
    BY <1>2 DEF ReadZapInfo, HeadOfDocument, OpenStdin, OpenPath, OpenMissing, PollReady,
                PollGivesUp, Close, Leave, Opened, Exit
  <2>2. Scanning' => Scanning
    BY <1>2, <1>1 DEF ReadZapInfo, HeadOfDocument, OpenStdin, OpenPath, OpenMissing, PollReady,
                PollGivesUp, Close, Leave, Opened, Exit, Scanning
  <2>. QED  BY <2>1, <2>2, FedStays
<1>3. CASE Look
  BY <1>1, <1>3, LookFed DEF Look, Looping
<1>4. CASE BadCrc
  BY <1>1, <1>4, BadCrcFed DEF BadCrc, Looping
<1>5. ASSUME NEW ok \in BOOLEAN, Handle(ok) PROVE Fed'
  <2>1. Scanning
    BY <1>1, <1>5 DEF Handle, Looping
  <2>. QED  BY <1>5, <2>1, HandleFed
<1>6. CASE ReadMore
  <2>1. /\ UNCHANGED <<input, head, n, length, handled, stopped>> /\ Incomplete /\ Scanning
    BY <1>1, <1>6 DEF ReadMore, Looping
  <2>. QED  BY <2>1, FedStays
<1>7. CASE Read
  BY <1>1, <1>7, ReadFed DEF Read
<1>8. CASE ReadFails
  <2>1. pc = "read" /\ EndScan(IF TimeUp THEN "timer" ELSE "error") /\ UNCHANGED <<input, handled>>
    BY <1>8 DEF ReadFails
  <2>2. (IF TimeUp THEN "timer" ELSE "error") \notin {"input", "full"}
    OBVIOUS
  <2>. QED  BY <1>1, <2>1, <2>2, FedEnd
<1>9. CASE AlarmInRead
  <2>1. pc = "read" /\ UNCHANGED <<input, head, n, length, handled>>
    BY <1>9 DEF AlarmInRead
  <2>2. CASE TimeUp
    BY <1>1, <1>9, <2>1, <2>2, FedEnd DEF AlarmInRead
  <2>3. CASE ~TimeUp
    <3>1. UNCHANGED <<phase, pc, stopped>>
      BY <1>9, <2>3 DEF AlarmInRead
    <3>. QED  BY <2>1, <3>1, FedStays DEF Scanning, Fed
  <2>. QED  BY <2>2, <2>3
<1>10. CASE AlarmInPoll \/ AlarmFinishes
  <2>1. UNCHANGED <<input, head, n, length, handled, stopped>> /\ pc' = "exited"
    BY <1>10 DEF AlarmInPoll, AlarmFinishes, Exit
  <2>. QED  BY <2>1, FedStays DEF Scanning
<1>11. CASE AlarmUnheeded \/ Tick \/ UNCHANGED vars
  <2>1. UNCHANGED <<input, head, n, length, handled, stopped, phase, pc>>
    BY <1>11 DEF AlarmUnheeded, Tick, vars
  <2>. QED  BY <2>1, FedStays DEF Scanning, Fed
<1>12. CASE Arrive
  <2>1. UNCHANGED <<content, eof, head, n, length, handled, stopped, phase, pc>> /\ ~eof
    BY <1>12 DEF Arrive
  <2>2. Ordered(handled)' /\ (Before(handled, head) => Before(handled, head)')
    BY <2>1 DEF Fed, Ordered, Before
  <2>3. (Aligned => Aligned') /\ (Incomplete <=> Incomplete') /\ (Scanning' <=> Scanning)
        /\ (TooLong' <=> TooLong)
    BY <2>1 DEF Aligned, AlignedAt, Incomplete, Scanning, TooLong
  <2>. QED  BY <2>1, <2>2, <2>3 DEF Fed
<1>13. CASE InputEnds
  <2>1. UNCHANGED <<content, arrived, head, n, length, handled, stopped, phase, pc>> /\ eof'
        /\ ~eof
    BY <1>13 DEF InputEnds
  <2>2. Ordered(handled)' /\ (Before(handled, head) => Before(handled, head)')
    BY <2>1 DEF Fed, Ordered, Before
  <2>3. (Aligned => Aligned') /\ (Incomplete <=> Incomplete') /\ (Scanning' <=> Scanning)
        /\ (TooLong' <=> TooLong)
    BY <2>1 DEF Aligned, AlignedAt, Incomplete, Scanning, TooLong
  <2>. QED  BY <2>1, <2>2, <2>3 DEF Fed
<1>. QED
  BY <1>2, <1>3, <1>4, <1>5, <1>6, <1>7, <1>8, <1>9, <1>10, <1>11, <1>12, <1>13
  DEF Next, Step, Alarm

(* readEventTables() (tv_grab_dvb.c:233): whatever the sizes of the         *)
(* sections and of the reads, sections go to the handler in the order of    *)
(* the input and each once, the buffer is full only of a section that       *)
(* states more than it holds, which an undamaged input has not, and at the  *)
(* end of such an input all of it was handled.                              *)
THEOREM HandlesSections == Spec => []SectionsHandled
<1>1. IInv /\ Typed /\ Fed => SectionsHandled
  BY DEF Fed, Ordered, TooLong, SectionsHandled
<1>2. Init => IInv /\ Typed /\ Fed
  BY InitInv, InitTyped, InitFed
<1>3. IInv /\ Typed /\ Fed /\ [Next]_vars => (IInv /\ Typed /\ Fed)'
  BY StepInv, StepTyped, StepFed
<1>. QED  BY <1>1, <1>2, <1>3, PTL DEF Spec
=============================================================================
