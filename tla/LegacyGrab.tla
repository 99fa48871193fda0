----------------------------- MODULE LegacyGrab ------------------------------
(***************************************************************************)
(* main() of tv_grab_dvb: the channels of channels.conf, the scan for      *)
(* services (-S), the head of the document, openInput() and the end of the *)
(* document, with readEventTables(), which cuts its input into sections.   *)
(* The call of it for the events is commented out (tv_grab_dvb.c:473;      *)
(* EitGrab has what it would do); the scan still has one.                  *)
(*                                                                         *)
(* openInput() takes the pointer that dvb_demux_open_path() returns for a  *)
(* descriptor: the null pointer of a path that cannot be opened is the     *)
(* standard input, and no other pointer is a descriptor that is open.      *)
(*                                                                         *)
(* The input is a sequence of sections [size, states, good]: what it has,  *)
(* what its header states, and whether the checksum is right.  Taken from  *)
(* anywhere else, a header states whatever it may and the checksum is      *)
(* wrong.                                                                  *)
(***************************************************************************)
EXTENDS Integers, SequencesExt

CONSTANTS
  Runs,        \* the options and surroundings it is run with
  Contents,    \* what the input may hold
  Header,      \* sizeof(struct si_tab): 3
  BufSize,     \* sizeof(buf): 4096
  MaxLength,   \* Header + 4095, more than the buffer holds
  Scan,        \* -S, in seconds
  Timeout,     \* -t
  NULL

InputSection ==
  [size : Header..MaxLength, states : Header..MaxLength, good : BOOLEAN]

ASSUME LegacyAssumption ==
  /\ Header \in Nat \ {0} /\ BufSize \in Nat /\ BufSize > Header
  /\ MaxLength \in Nat /\ MaxLength >= BufSize
  /\ Scan \in Nat \ {0} /\ Timeout \in Nat \ {0} /\ NULL \notin Nat
  /\ Contents \subseteq Seq(InputSection)

VARIABLES
  opt,         \* the options and what the program finds, see Options
  content,     \* what the input holds
  arrived, eof,  \* how many octets of it have come, and whether more will
  phase, pc,   \* "scan" or "listing", and where the program is in it
  timeout, to, \* the global, and the polls that are left
  left,        \* seconds until `until`, the second the scan ends in
  alarm, handler,   \* alarm(2) and signal(2)
  head,        \* the place of bhead in the input
  offset, n,   \* the place of bhead in buf, and the octets from there on
  length,      \* what the header at bhead states, once it was looked at
  handled,     \* the places of the sections that went to the handler
  stopped,     \* why the scan ended: "no", "input", "full", "timer", "handler", "error"
  out,         \* the document
  status       \* of the process: NULL, 0, 1, or "killed"

input == <<content, arrived, eof>>
signals == <<alarm, handler>>
buffer == <<head, offset, n, length, handled, stopped>>
vars == <<opt, input, phase, pc, timeout, to, left, signals, buffer, out, status>>

(* do_options().  A bad value or an unknown option ends it with usage().    *)
Options ==
  [scan : BOOLEAN, halt : BOOLEAN, atom : 0..2,
   zap : BOOLEAN,                              \* channels.conf is there
   path : {"dash", "opens", "missing"},        \* -i
   stdin : {"device", "pipe", "file"},
   restarts : BOOLEAN]    \* whether signal() has read() started again, as the C library has it

(* Where section i of the input ends, which is where the next one starts.   *)
Places(c) ==
  LET place[i \in 0..Len(c)] == IF i = 0 THEN 0 ELSE place[i - 1] + c[i].size
  IN place

Size(c) == Places(c)[Len(c)]
Starts(c) == {Places(c)[i - 1] : i \in DOMAIN c}
SectionAt(c, place) == c[CHOOSE i \in DOMAIN c : Places(c)[i - 1] = place]

Init ==
  /\ opt \in Runs \cap Options /\ content \in Contents
  /\ arrived = IF opt.stdin = "file" THEN Size(content) ELSE 0
  /\ eof = (opt.stdin = "file")
  /\ phase = "scan" /\ pc = "zap" /\ timeout = Timeout /\ to = 0 /\ left = 0
  /\ alarm = NULL /\ handler = "default"
  /\ head = 0 /\ offset = 0 /\ n = 0 /\ length = NULL /\ handled = <<>> /\ stopped = "no"
  /\ out = <<>> /\ status = NULL

-----------------------------------------------------------------------------
Exit(s) == pc' = "exited" /\ status' = s

(* The channels come before the head of the document.                       *)
ReadZapInfo ==
  /\ pc = "zap"
  /\ out' = IF opt.zap THEN <<"<channel>">> ELSE <<>>
  /\ IF opt.scan THEN pc' = "open" /\ left' = Scan /\ UNCHANGED phase
     ELSE pc' = "head" /\ phase' = "listing" /\ UNCHANGED left
  /\ UNCHANGED <<opt, input, timeout, to, signals, buffer, status>>

HeadOfDocument ==
  /\ pc = "head"
  /\ out' = out \o CASE opt.atom = 0 -> <<"<?xml>", "<tv>">>
                     [] opt.atom = 1 -> <<"<?xml>", "<feed>">>
                     [] opt.atom = 2 -> <<>>
  /\ pc' = "open"
  /\ UNCHANGED <<opt, input, phase, timeout, to, left, signals, buffer, status>>

(* What main() does with the input that is open: the scan, or, since the    *)
(* call that reads the events is commented out, the end of the document.   *)
(* Of a device, openInput() has set the alarm that ends the listing.        *)
(* Mutant: the alarm of the scan ends the document.                         *)
OpenedFinishing(device) ==
  IF phase = "scan" THEN pc' = "loop" /\ handler' = "finish_up" /\ alarm' = Scan
  ELSE /\ pc' = "close"
       /\ IF device THEN handler' = "finish_up" /\ alarm' = Timeout ELSE UNCHANGED signals

Opened(device) ==
  IF phase = "scan" THEN pc' = "loop" /\ handler' = "dummy" /\ alarm' = Scan
  ELSE /\ pc' = "close"
       /\ IF device THEN handler' = "finish_up" /\ alarm' = Timeout ELSE UNCHANGED signals

(* openInput(), up to the descriptor.                                       *)
OpenStdin ==
  /\ pc = "open" /\ opt.path = "dash"
  /\ Opened(FALSE)
  /\ UNCHANGED <<opt, input, phase, timeout, to, left, buffer, out, status>>

OpenPath ==
  /\ pc = "open" /\ opt.path = "opens"
  /\ Exit(1)
  /\ UNCHANGED <<opt, input, phase, timeout, to, left, signals, buffer, out>>

OpenMissing ==
  /\ pc = "open" /\ opt.path = "missing"
  /\ IF opt.stdin = "device" THEN pc' = "poll" /\ to' = timeout /\ UNCHANGED <<timeout, signals>>
     ELSE Opened(FALSE) /\ timeout' = 0 /\ UNCHANGED to
  /\ UNCHANGED <<opt, input, phase, left, buffer, out, status>>

(* poll() finds data, or has none until the last of its seconds (Tick).     *)
PollReady ==
  /\ pc = "poll" /\ to > 0 /\ (arrived > head + n \/ eof)
  /\ Opened(TRUE) /\ out' = Append(out, "newline") /\ to' = 0
  /\ UNCHANGED <<opt, input, phase, timeout, left, buffer, status>>

PollGivesUp ==
  /\ pc = "poll" /\ to = 0
  /\ Exit(1) /\ out' = Append(out, "newline")
  /\ UNCHANGED <<opt, input, phase, timeout, to, left, signals, buffer>>

(* finish_up(), called: the end of the document and, in a step of its own,  *)
(* exit(); the alarm may come between.                                      *)
Close ==
  /\ pc = "close"
  /\ pc' = "exit" /\ out' = Append(out, "</tv>")
  /\ UNCHANGED <<opt, input, phase, timeout, to, left, signals, buffer, status>>

Leave ==
  /\ pc = "exit"
  /\ Exit(0)
  /\ UNCHANGED <<opt, input, phase, timeout, to, left, signals, buffer, out>>

-----------------------------------------------------------------------------
(* readEventTables().                                                       *)
Looping == pc = "loop"

(* The header at bhead, once enough of it is there.                         *)
Look ==
  /\ Looping /\ n >= Header /\ length = NULL
  /\ length' \in IF head \in Starts(content) THEN {SectionAt(content, head).states}
                 ELSE Header..MaxLength
  /\ UNCHANGED <<opt, input, phase, pc, timeout, to, left, signals,
                 head, offset, n, handled, stopped, out, status>>

Good == head \in Starts(content) /\ SectionAt(content, head).good

(* The end of the scan.                                                     *)
EndScan(why) ==
  /\ stopped' = why
  /\ IF opt.halt THEN Exit(0) /\ UNCHANGED phase
     ELSE pc' = "head" /\ phase' = "listing" /\ UNCHANGED status

RemovePacket ==
  /\ head' = head + length /\ offset' = offset + length
  /\ n' = n - length /\ length' = NULL

(* A checksum that is wrong: what is skipped is what the header states,     *)
(* although the comment says bytewise.                                      *)
BadCrc ==
  /\ Looping /\ length # NULL /\ n >= length /\ ~Good
  /\ RemovePacket
  /\ UNCHANGED <<opt, input, phase, pc, timeout, to, left, signals,
                 handled, stopped, out, status>>

Handle(ok) ==
  /\ Looping /\ length # NULL /\ n >= length /\ Good
  /\ handled' = Append(handled, head)
  /\ IF ok THEN RemovePacket /\ UNCHANGED <<phase, pc, stopped, status>>
     ELSE EndScan("handler") /\ UNCHANGED <<head, offset, n, length>>
  /\ UNCHANGED <<opt, input, timeout, to, left, signals, out>>

(* Mutant: a section that ends where the data does is waited for.           *)
IncompleteLong == IF length = NULL THEN n < Header ELSE n <= length

(* "Table is too small", or the rest of the section is missing.             *)
Incomplete == IF length = NULL THEN n < Header ELSE n < length

(* Mutant: what is left stays where it is.                                  *)
ReadMoreInPlace ==
  /\ Looping /\ Incomplete
  /\ pc' = "read"
  /\ UNCHANGED <<opt, input, phase, timeout, to, left, signals, buffer, out, status>>

ReadMore ==
  /\ Looping /\ Incomplete
  /\ offset' = 0
  /\ pc' = "read"
  /\ UNCHANGED <<opt, input, phase, timeout, to, left, signals,
                 head, n, length, handled, stopped, out, status>>

Available == arrived - (head + n)
Room == BufSize - n
TimeUp == left = 0

(* read() returns what is there and fits; a full buffer asks for nothing,   *)
(* which looks like the end of the input.  What was read when the time was  *)
(* up is dropped.                                                           *)
Read ==
  /\ pc = "read" /\ (Available > 0 \/ eof \/ Room = 0)
  /\ LET r == IF Available < Room THEN Available ELSE Room
     IN IF TimeUp
          THEN EndScan("timer") /\ head' = head + r /\ UNCHANGED n
          ELSE /\ n' = n + r
               /\ IF r > 0 THEN pc' = "loop" /\ UNCHANGED <<phase, stopped, status>>
                  ELSE EndScan(IF Room = 0 THEN "full" ELSE "input")
               /\ UNCHANGED head
  /\ UNCHANGED <<opt, input, timeout, to, left, signals, offset, length, handled, out>>

ReadFails ==
  /\ pc = "read"
  /\ EndScan(IF TimeUp THEN "timer" ELSE "error")
  /\ UNCHANGED <<opt, input, timeout, to, left, signals, head, offset, n, length,
                 handled, out>>

-----------------------------------------------------------------------------
(* SIGALRM while poll() waits: never started again, and taken for an error. *)
AlarmInPoll ==
  /\ alarm = 0 /\ handler = "dummy" /\ pc = "poll"
  /\ alarm' = NULL /\ Exit(1)
  /\ UNCHANGED <<opt, input, phase, timeout, to, left, handler, buffer, out>>

(* Mutant: a read() that was interrupted is always tried again.             *)
AlarmInReadAgain ==
  /\ alarm = 0 /\ handler = "dummy" /\ pc = "read" /\ ~opt.restarts
  /\ alarm' = NULL
  /\ UNCHANGED <<opt, input, phase, pc, timeout, to, left, handler, buffer, out, status>>

(* While read() waits: started again, or the time is looked at.             *)
AlarmInRead ==
  /\ alarm = 0 /\ handler = "dummy" /\ pc = "read" /\ ~opt.restarts
  /\ alarm' = NULL
  /\ IF TimeUp THEN EndScan("timer") ELSE UNCHANGED <<phase, pc, stopped, status>>
  /\ UNCHANGED <<opt, input, timeout, to, left, handler,
                 head, offset, n, length, handled, out>>

AlarmUnheeded ==
  /\ alarm = 0 /\ handler = "dummy"
  /\ pc \notin {"poll", "exited"} /\ (pc = "read" => opt.restarts)
  /\ alarm' = NULL
  /\ UNCHANGED <<opt, input, phase, pc, timeout, to, left, handler, buffer, out, status>>

(* finish_up() as a handler: no second alarm is set, so it is one step.     *)
AlarmFinishes ==
  /\ alarm = 0 /\ handler = "finish_up" /\ pc # "exited"
  /\ out' = Append(out, "</tv>") /\ Exit(0)
  /\ UNCHANGED <<opt, input, phase, timeout, to, left, signals, buffer>>

(* A second passes; a poll that waited is over.                             *)
Tick ==
  /\ pc # "exited" /\ alarm # 0
  /\ left' = IF left > 0 THEN left - 1 ELSE 0
  /\ alarm' = IF alarm = NULL THEN NULL ELSE alarm - 1
  /\ to' = IF pc = "poll" /\ to > 0 THEN to - 1 ELSE to
  /\ UNCHANGED <<opt, input, phase, pc, timeout, handler, buffer, out, status>>

Arrive ==
  /\ pc # "exited" /\ ~eof
  /\ arrived' \in (arrived + 1)..Size(content)
  /\ UNCHANGED <<opt, content, eof, phase, pc, timeout, to, left, signals, buffer, out, status>>

(* A device never ends.                                                     *)
InputEnds ==
  /\ pc # "exited" /\ opt.stdin = "pipe" /\ ~eof
  /\ eof' = TRUE
  /\ UNCHANGED <<opt, content, arrived, phase, pc, timeout, to, left, signals, buffer, out, status>>

Step ==
  \/ ReadZapInfo \/ HeadOfDocument \/ OpenStdin \/ OpenPath \/ OpenMissing
  \/ PollReady \/ PollGivesUp \/ Close \/ Leave
  \/ Look \/ BadCrc \/ (\E ok \in BOOLEAN : Handle(ok)) \/ ReadMore \/ Read

Alarm == AlarmInPoll \/ AlarmInRead \/ AlarmUnheeded \/ AlarmFinishes

Next == Step \/ ReadFails \/ Alarm \/ Tick \/ Arrive \/ InputEnds

Spec == Init /\ [][Next]_vars

(* The process runs, time passes, and a signal that is due is delivered.    *)
FairSpec == Spec /\ WF_vars(Step) /\ WF_vars(Alarm) /\ WF_vars(Tick)

-----------------------------------------------------------------------------
(* The octets at bhead are in the buffer, and what the buffer held is not   *)
(* taken for more than the input gave.                                      *)
TypeOK ==
  /\ opt \in Options /\ content \in Contents
  /\ arrived \in 0..Size(content) /\ eof \in BOOLEAN
  /\ phase \in {"scan", "listing"}
  /\ pc \in {"zap", "open", "poll", "loop", "read", "head", "close", "exit", "exited"}
  /\ timeout \in {0, Timeout} /\ to \in 0..Timeout /\ left \in 0..Scan
  /\ alarm \in 0..Scan \cup 0..Timeout \cup {NULL} /\ handler \in {"default", "dummy", "finish_up"}
  /\ n \in 0..BufSize /\ offset \in 0..BufSize /\ offset + n <= BufSize
  /\ head + n <= arrived
  /\ length \in Header..MaxLength \cup {NULL}
  /\ (status = NULL) = (pc # "exited")

(* readEventTables() (tv_grab_dvb.c:233): sections go to the handler in the *)
(* order of the input and each once; and when an input without damage has   *)
(* come to its end, all of them have.  The buffer is full only of a section *)
(* that states more than it holds; an input without damage has none.        *)
Undamaged(c) == \A i \in DOMAIN c : c[i].good /\ c[i].states = c[i].size /\ c[i].size <= BufSize

SectionsHandled ==
  /\ \A i \in DOMAIN handled : handled[i] \in Starts(content)
  /\ \A i, j \in DOMAIN handled : i < j => handled[i] < handled[j]
  /\ Undamaged(content) /\ stopped = "input" /\ arrived = Size(content) =>
       ToSet(handled) = Starts(content)
  /\ stopped = "full" => length # NULL /\ length > BufSize
  /\ Undamaged(content) => stopped # "full"

(* main(), openInput() and the handlers (tv_grab_dvb.c:408): a run for      *)
(* XMLTV that succeeds has written the head, nothing in front of it, and    *)
(* the end, whatever signal came when.  Nothing comes after the end, unless *)
(* the alarm that ends a listing from a device came between the end and     *)
(* exit() (tv_grab_dvb.c:225-226): then finish_up() writes a second one.    *)
(* Not asked of a run that halts after the scan, has a channels.conf, or    *)
(* scans a device: each prints something else, or something first.          *)
Asked ==
  /\ ~(opt.scan /\ opt.halt) /\ opt.atom = 0 /\ ~opt.zap
  /\ ~(opt.scan /\ opt.path = "missing" /\ opt.stdin = "device")

EndsAt(o, k) ==
  /\ k > 2 /\ o[1] = "<?xml>" /\ o[2] = "<tv>" /\ o[k] = "</tv>"
  /\ \A l \in DOMAIN o : 2 < l /\ l < k => o[l] = "newline"

WholeDocument ==
  status = 0 /\ Asked =>
    \E k \in DOMAIN out :
      /\ EndsAt(out, k)
      /\ k # Len(out) =>
           k + 1 = Len(out) /\ out[k + 1] = "</tv>" /\ alarm = 0 /\ handler = "finish_up"

(* readEventTables() and openInput(): the program ends; with a scan, when   *)
(* the alarm finds it waiting in a read() that is not started again, and    *)
(* else when the input ends.                                                *)
LostAlarm == alarm = 0 /\ ~(pc = "read" /\ ~opt.restarts)

Ends == (opt.scan /\ <>LostAlarm => <>eof) => <>(pc = "exited")
=============================================================================
