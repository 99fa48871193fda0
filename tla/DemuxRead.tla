------------------------------ MODULE DemuxRead ------------------------------
(***************************************************************************)
(* dvb_demux_read() of dvb/read.c: the loop that cuts a stream of bytes    *)
(* into sections, and the clock, select() and read() around it.  What      *)
(* becomes of a section is DemuxTable's matter: here it completes a table  *)
(* or it does not.                                                         *)
(*                                                                         *)
(* The stream is a carousel of N bytes, any of Carousels.  All the loop    *)
(* can tell of a byte is what it decodes to if a section is taken to start *)
(* there, so that is what a byte is.                                       *)
(***************************************************************************)
EXTENDS Integers

CONSTANTS
  Header,      \* sizeof(si_tab_t): 3
  MaxLen,      \* the largest section_length: 4095
  Shift,       \* how far bufstart may move before the buffer is moved: 1024
  BufSize,     \* sizeof(context->buf): 8192
  N,           \* the bytes of a carousel
  Carousels,   \* what may be on the air, see Carousel
  Timeouts,    \* the values of context->timeout a caller sets
  Untils,      \* the end times a caller passes, 0 for none
  MaxNow,      \* bound: the clock stops there, past every end time
  MaxBacklog,  \* bound: bytes waiting in the kernel
  MaxSignals,  \* bound: signals that interrupt a select()
  StrayBits,   \* whether the uninitialised fd_set names other descriptors
  NULL

ByteRecord == [pes: BOOLEAN, len: 0..MaxLen, crc: BOOLEAN]

Offset == 0..(N - 1)

(* byte[o] is the section that starts at offset o; the broadcaster's own    *)
(* start at the offsets of boundary, and may come damaged.                  *)
Carousel == [byte: [Offset -> ByteRecord], boundary: SUBSET Offset]

(* The largest section still fits when bufstart is just short of Shift.    *)
ASSUME SizeAssumption ==
  /\ Header \in Nat \ {0} /\ MaxLen \in Nat /\ Shift \in Nat \ {0}
  /\ BufSize \in Nat /\ Shift + Header + MaxLen - 1 <= BufSize

ASSUME StreamAssumption ==
  N \in Nat \ {0} /\ Carousels \subseteq Carousel

ASSUME ClockAssumption ==
  /\ MaxNow \in Nat /\ MaxBacklog \in Nat /\ MaxSignals \in Nat
  /\ StrayBits \in BOOLEAN
  /\ Timeouts \subseteq Nat /\ Untils \subseteq 0..MaxNow

ASSUME NullAssumption == NULL \notin Nat

VARIABLES
  carousel,  \* what is on the air, the same at all times
  pc,        \* "idle" between calls, else where the call is
  bufstart, bufend, need,
  pos,       \* the offset of the next byte read() will return
  backlog,   \* bytes that have arrived and were not read
  closed,    \* the descriptor has nothing more to give after the backlog
  now, until, timeout,
  signals,   \* signals so far, counted up to MaxSignals
  left,      \* seconds until select() gives up, NULL if it never does
  result,    \* what the last call returned: a table, or the null pointer
  quiet,     \* select() has timed out and no byte was read since
  handed,    \* whether this call has handed over a section
  aligned    \* whether this call began where a section starts

buffer == <<bufstart, bufend>>
device == <<pos, backlog, closed>>
params == <<until, timeout>>
ghosts == <<quiet, handed, aligned>>
vars == <<carousel, pc, buffer, need, device, now, signals, params, left, result, ghosts>>

-----------------------------------------------------------------------------
Byte == carousel.byte
Boundary == carousel.boundary

Size == bufend - bufstart

(* The offset of the byte at bufstart, and what it decodes to.             *)
Start == (pos - Size) % N

At == Byte[Start]

Init ==
  /\ carousel \in Carousels
  /\ pc = "idle"
  /\ bufstart = 0 /\ bufend = 0 /\ need = Header
  /\ pos \in Offset /\ backlog = 0 /\ closed = FALSE
  /\ now = 0 /\ signals = 0 /\ until = 0 /\ timeout = 0 /\ left = NULL
  /\ result = "none" /\ quiet = FALSE /\ handed = FALSE /\ aligned = FALSE

(* dvb_demux_set_timeout() and the entry of dvb_demux_read().  What the    *)
(* buffer held is forgotten: its indices are local to the call.            *)
Call ==
  /\ pc = "idle"
  /\ until' \in Untils /\ timeout' \in Timeouts
  /\ need' = Header /\ bufstart' = 0 /\ bufend' = 0
  /\ pc' = "loop"
  /\ quiet' = FALSE /\ handed' = FALSE /\ aligned' = (pos \in Boundary)
  /\ UNCHANGED <<carousel, device, now, signals, left, result>>

Return(r) == pc' = "idle" /\ result' = r

(* Mutant: the buffer is never moved back.                                  *)
MovedNever(f) == f

(* The memmove at the top of the loop.                                     *)
Moved(f) == IF bufstart >= Shift THEN f - bufstart ELSE f

MoveBack ==
  /\ bufstart' = Moved(bufstart)
  /\ bufend' = Moved(bufend)

(* How long select() may wait: until the end time or for the timeout,      *)
(* whichever is sooner.                                                    *)
Patience ==
  CASE timeout # 0 /\ until # 0 -> IF until - now > timeout THEN timeout ELSE until - now
    [] timeout # 0 /\ until = 0 -> timeout
    [] timeout = 0 /\ until # 0 -> until - now
    [] OTHER -> NULL

(* Mutant: the end time is not looked at before waiting.                    *)
DemandAlways(n) ==
  /\ need' = n
  /\ pc' = "select" /\ left' = Patience
  /\ MoveBack
  /\ UNCHANGED <<carousel, device, now, signals, params, result, ghosts>>

(* More bytes are needed: give up if the end time has come, else wait.     *)
Demand(n) ==
  /\ need' = n
  /\ IF until # 0 /\ now >= until
       THEN Return("none") /\ UNCHANGED left
       ELSE pc' = "select" /\ left' = Patience /\ UNCHANGED result
  /\ MoveBack
  /\ UNCHANGED <<carousel, device, now, signals, params, ghosts>>

NeedHeader ==
  /\ pc = "loop" /\ Size < Header
  /\ Demand(Header - Size)

(* Mutant: the bytes already in the buffer are asked for again.             *)
NeedBodyWhole ==
  /\ pc = "loop" /\ Size >= Header /\ ~At.pes
  /\ Size < Header + At.len
  /\ Demand(Header + At.len)

NeedBody ==
  /\ pc = "loop" /\ Size >= Header /\ ~At.pes
  /\ Size < Header + At.len
  /\ Demand(Header + At.len - Size)

SkipPes ==
  /\ pc = "loop" /\ Size >= Header /\ At.pes
  /\ bufstart' = 0 /\ bufend' = 0
  /\ UNCHANGED <<carousel, pc, need, device, now, signals, params, left, result, ghosts>>

HaveSection == pc = "loop" /\ Size >= Header /\ ~At.pes /\ Size >= Header + At.len

(* Mutant: a bad checksum leaves the start where it is.                     *)
BadCrcStays ==
  /\ HaveSection /\ ~At.crc
  /\ bufstart' = Moved(bufstart) /\ bufend' = Moved(bufend)
  /\ UNCHANGED <<carousel, pc, need, device, now, signals, params, left, result, ghosts>>

(* Bytewise: the next byte is tried as the start of a section.             *)
BadCrc ==
  /\ HaveSection /\ ~At.crc
  /\ bufstart' = Moved(bufstart) + 1 /\ bufend' = Moved(bufend)
  /\ UNCHANGED <<carousel, pc, need, device, now, signals, params, left, result, ghosts>>

(* The section goes to dvb_demux_read_section(), which may complete a      *)
(* table.  Everything in the buffer is dropped, not only the section.      *)
HandSection(complete) ==
  /\ HaveSection /\ At.crc
  /\ bufstart' = Moved(bufend) /\ bufend' = Moved(bufend)
  /\ handed' = TRUE
  /\ IF complete THEN Return("table") ELSE UNCHANGED <<pc, result>>
  /\ UNCHANGED <<carousel, need, device, now, signals, params, left, quiet, aligned>>

(* select() found the descriptor readable.                                 *)
SelectReady ==
  /\ pc = "select" /\ (backlog > 0 \/ closed)
  /\ pc' = "read" /\ left' = NULL
  /\ UNCHANGED <<carousel, buffer, need, device, now, signals, params, result, ghosts>>

(* fds is never cleared, so other bits of it are whatever the stack held:  *)
(* a ready descriptor among them ends the wait early, a closed one fails.  *)
SelectSpurious ==
  /\ pc = "select" /\ StrayBits
  /\ pc' = "read" /\ left' = NULL
  /\ UNCHANGED <<carousel, buffer, need, device, now, signals, params, result, ghosts>>

SelectFails ==
  /\ pc = "select" /\ StrayBits
  /\ Return("none") /\ left' = NULL
  /\ UNCHANGED <<carousel, buffer, need, device, now, signals, params, ghosts>>

SelectInterrupted ==
  /\ pc = "select" /\ signals < MaxSignals
  /\ pc' = "loop" /\ left' = NULL /\ signals' = signals + 1
  /\ UNCHANGED <<carousel, buffer, need, device, now, params, result, ghosts>>

(* select() returns 0, a case the code does not tell from 1.               *)
SelectTimesOut ==
  /\ pc = "select" /\ left = 0
  /\ pc' = "read" /\ left' = NULL /\ quiet' = TRUE
  /\ UNCHANGED <<carousel, buffer, need, device, now, signals, params, result, handed, aligned>>

(* read() returns at most what was asked, and may return less.             *)
ReadBytes(n) ==
  /\ pc = "read"
  /\ n \in 1..backlog /\ n <= need
  /\ pc' = "loop" /\ bufend' = bufend + n
  /\ pos' = (pos + n) % N /\ backlog' = backlog - n
  /\ quiet' = FALSE
  /\ UNCHANGED <<carousel, bufstart, need, closed, now, signals, params, left, result, handed, aligned>>

(* EWOULDBLOCK: the descriptor was opened with O_NONBLOCK.                 *)
ReadNothing ==
  /\ pc = "read" /\ backlog = 0 /\ ~closed
  /\ pc' = "loop"
  /\ UNCHANGED <<carousel, buffer, need, device, now, signals, params, left, result, ghosts>>

ReadEnd ==
  /\ pc = "read" /\ backlog = 0 /\ closed
  /\ Return("none")
  /\ UNCHANGED <<carousel, buffer, need, device, now, signals, params, left, ghosts>>

(* Any other error, such as an overflow of the kernel's own buffer.        *)
ReadFails ==
  /\ pc = "read"
  /\ Return("none")
  /\ UNCHANGED <<carousel, buffer, need, device, now, signals, params, left, ghosts>>

-----------------------------------------------------------------------------
(* The environment: bytes arrive, the input ends, a second passes.         *)
Arrive ==
  /\ backlog < MaxBacklog /\ ~closed
  /\ backlog' = backlog + 1
  /\ UNCHANGED <<carousel, pc, buffer, need, pos, closed, now, signals, params, left, result, ghosts>>

Close ==
  /\ closed' = TRUE
  /\ UNCHANGED <<carousel, pc, buffer, need, pos, backlog, now, signals, params, left, result, ghosts>>

Waiting == pc = "select" /\ left # NULL /\ left > 0

Tick ==
  /\ now' = IF now < MaxNow THEN now + 1 ELSE now
  /\ left' = IF Waiting THEN left - 1 ELSE left
  /\ UNCHANGED <<carousel, pc, buffer, need, device, signals, params, result, ghosts>>

Loop == NeedHeader \/ NeedBody \/ SkipPes \/ BadCrc \/ \E c \in BOOLEAN : HandSection(c)

Select ==
  \/ SelectReady \/ SelectSpurious \/ SelectFails \/ SelectInterrupted
  \/ SelectTimesOut

Read == (\E n \in 1..MaxBacklog : ReadBytes(n)) \/ ReadNothing \/ ReadEnd \/ ReadFails

Next == Call \/ Loop \/ Select \/ Read \/ Arrive \/ Close \/ Tick

Spec == Init /\ [][Next]_vars

(* The process runs, its system calls return when they can, and time       *)
(* passes.  Nothing forces a byte to arrive, a signal or an error.         *)
FairSpec ==
  /\ Spec
  /\ WF_vars(Loop) /\ WF_vars(SelectReady) /\ WF_vars(SelectTimesOut)
  /\ WF_vars(Read) /\ WF_vars(Tick)

-----------------------------------------------------------------------------
TypeOK ==
  /\ carousel \in Carousels
  /\ pc \in {"idle", "loop", "select", "read"}
  /\ bufstart \in Nat /\ bufend \in Nat /\ need \in Nat
  /\ pos \in Offset /\ backlog \in 0..MaxBacklog /\ closed \in BOOLEAN
  /\ now \in 0..MaxNow /\ signals \in 0..MaxSignals
  /\ until \in Untils \cup {0} /\ timeout \in Timeouts \cup {0}
  /\ left \in Nat \cup {NULL}
  /\ result \in {"table", "none"}
  /\ quiet \in BOOLEAN /\ handed \in BOOLEAN /\ aligned \in BOOLEAN

(***************************************************************************)
(* Every byte read() is asked for fits in the buffer, at least one is      *)
(* asked for, and the section examined lies between the two indices        *)
(* (read.c:65-99, 168-174).  The memmove at Shift is what makes it so.     *)
(***************************************************************************)
BufferBounds ==
  /\ bufstart <= bufend /\ bufend <= BufSize
  /\ pc \in {"select", "read"} => need >= 1 /\ bufend + need <= BufSize

(***************************************************************************)
(* On a carousel without errors, whose sections follow one another without *)
(* a gap, a call that begins at a section boundary stays on it and never   *)
(* holds a byte of the next section, so dropping the whole buffer after a  *)
(* section loses nothing; and a call that returned a table leaves the      *)
(* stream at a boundary, so that what the next call, which begins with an  *)
(* empty buffer, does not see is nothing (read.c:57-58, 110-116).          *)
(***************************************************************************)
Undamaged ==
  \A o \in Boundary :
    /\ Byte[o].crc /\ ~Byte[o].pes
    /\ (o + Header + Byte[o].len) % N \in Boundary

StaysAligned ==
  Undamaged =>
    /\ (pc # "idle" /\ aligned) => Start \in Boundary /\ Size <= Header + At.len
    /\ (pc = "idle" /\ aligned /\ result = "table" /\ handed) => pos \in Boundary

(***************************************************************************)
(* A call that is given an end time returns: "Read until either 'until'    *)
(* ..." (read.c:37), even on a carousel that never completes a table.      *)
(***************************************************************************)
EndTimeHonoured == (pc # "idle" /\ until # 0) ~> (pc = "idle")

(***************************************************************************)
(* In a broadcast that does not pause, and that repeats a section whose    *)
(* checksum is right, a call comes to such a section or returns, wherever  *)
(* it begins and whatever lengths the damaged sections and the middles of  *)
(* sections state: moving on by a byte after a bad checksum (read.c:103-   *)
(* 108) finds it.  Not so if anything looks like the start of a PES packet *)
(* (read.c:86-91): what is dropped there may begin with a section, each    *)
(* time round.                                                             *)
(***************************************************************************)
SomeGood == \E o \in Offset : Byte[o].crc
NoStartCode == \A o \in Offset : ~Byte[o].pes

Resynchronises ==
  (SomeGood /\ NoStartCode /\ WF_vars(Arrive)) => ((pc # "idle" /\ ~handed) ~> (pc = "idle" \/ handed))

(***************************************************************************)
(* "Read until ... the specified timeout is reached" (read.c:37): once no  *)
(* byte came for the timeout, the call returns or a byte comes after all.  *)
(***************************************************************************)
TimeoutHonoured == quiet ~> (pc = "idle" \/ ~quiet)
=============================================================================
