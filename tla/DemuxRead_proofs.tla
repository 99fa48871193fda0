-------------------------- MODULE DemuxRead_proofs --------------------------
(***************************************************************************)
(* Proofs about the read loop, for every stream and every size of header,  *)
(* payload, shift and buffer that SizeAssumption allows: the code's 3,     *)
(* 4095, 1024 and 8192 among them.                                         *)
(***************************************************************************)
EXTENDS DemuxRead, TLAPS

USE SizeAssumption

LEMMA ModRange ==
  ASSUME NEW a \in Int, NEW n \in Nat \ {0}
  PROVE  a % n \in 0..(n - 1)
BY SMT

(* What the byte at bufstart decodes to is always defined.                  *)
LEMMA AtTyped ==
  ASSUME TypeOK
  PROVE  /\ Size \in Int
         /\ At.pes \in BOOLEAN /\ At.crc \in BOOLEAN /\ At.len \in 0..MaxLen
<1>1. Size \in Int /\ pos - Size \in Int
  BY StreamAssumption DEF TypeOK, Offset, Size
<1>2. Start \in Offset
  BY <1>1, ModRange, StreamAssumption DEF Start, Offset
<1>3. Byte \in [Offset -> ByteRecord]
  BY StreamAssumption DEF TypeOK, Carousel, Byte
<1>4. QED
  BY <1>1, <1>2, <1>3 DEF At, ByteRecord

LEMMA PatienceTyped ==
  ASSUME TypeOK, until = 0 \/ now < until
  PROVE  Patience \in Nat \cup {NULL}
<1>1. now \in Nat /\ until \in Nat /\ timeout \in Nat
  BY ClockAssumption DEF TypeOK
<1>2. CASE timeout # 0 /\ until # 0
  BY <1>1, <1>2 DEF Patience
<1>3. CASE timeout # 0 /\ until = 0
  BY <1>1, <1>3 DEF Patience
<1>4. CASE timeout = 0 /\ until # 0
  BY <1>1, <1>4 DEF Patience
<1>5. CASE timeout = 0 /\ until = 0
  BY <1>1, <1>5 DEF Patience
<1>6. QED
  BY <1>2, <1>3, <1>4, <1>5

(* The memmove keeps what is between the indices and brings the first of    *)
(* them below Shift.                                                        *)
LEMMA MoveFacts ==
  ASSUME TypeOK, bufstart <= bufend, bufend <= BufSize
  PROVE  /\ Moved(bufstart) \in 0..(Shift - 1)
         /\ Moved(bufend) \in Nat
         /\ Moved(bufend) - Moved(bufstart) = Size
         /\ Moved(bufend) <= BufSize
BY DEF TypeOK, Moved, Size

LEMMA DemandFacts ==
  ASSUME TypeOK, BufferBounds,
         NEW n \in Nat \ {0}, Size + n <= Header + MaxLen, Demand(n)
  PROVE  TypeOK' /\ BufferBounds'
<1>1. /\ Moved(bufstart) \in 0..(Shift - 1)
      /\ Moved(bufend) \in Nat
      /\ Moved(bufend) - Moved(bufstart) = Size
      /\ Moved(bufend) <= BufSize
  BY MoveFacts DEF BufferBounds
<1>2. bufstart' = Moved(bufstart) /\ bufend' = Moved(bufend) /\ need' = n
  BY DEF Demand, MoveBack
<1>3. bufstart' \in Nat /\ bufend' \in Nat /\ need' \in Nat \ {0}
  BY <1>1, <1>2
<1>4. bufstart' <= bufend' /\ bufend' <= BufSize
  BY <1>1, <1>2 DEF BufferBounds, TypeOK, Size
<1>5. bufend' + need' <= BufSize
  BY <1>1, <1>2, <1>3 DEF Size, TypeOK
<1>6. /\ pc' \in {"idle", "select"}
      /\ result' \in {"table", "none"}
      /\ left' \in Nat \cup {NULL}
  <2>1. CASE until # 0 /\ now >= until
    BY <2>1 DEF Demand, Return, TypeOK
  <2>2. CASE until = 0 \/ now < until
    <3>1. ~(until # 0 /\ now >= until)
      BY <2>2, ClockAssumption DEF TypeOK
    <3>2. QED
      BY <2>2, <3>1, PatienceTyped DEF Demand, TypeOK
  <2>3. QED
    BY <2>1, <2>2, ClockAssumption DEF TypeOK
<1>7. UNCHANGED <<carousel, pos, backlog, closed, now, signals, until, timeout, quiet, handed, aligned>>
  BY DEF Demand, device, params, ghosts
<1>8. TypeOK'
  BY <1>3, <1>6, <1>7 DEF TypeOK
<1>9. need' >= 1
  BY <1>3
<1>10. BufferBounds'
  BY <1>4, <1>5, <1>9, Zenon DEF BufferBounds
<1>11. QED
  BY <1>8, <1>10

LEMMA BoundsInit == Init => TypeOK /\ BufferBounds
<1> SUFFICES ASSUME Init PROVE TypeOK /\ BufferBounds
  OBVIOUS
<1>1. TypeOK
  <2>1. carousel \in Carousels /\ pos \in Offset
    BY DEF Init
  <2>2. backlog \in 0..MaxBacklog /\ now \in 0..MaxNow /\ signals \in 0..MaxSignals
    BY ClockAssumption DEF Init
  <2>3. /\ bufstart \in Nat /\ bufend \in Nat /\ need \in Nat
        /\ until \in Untils \cup {0} /\ timeout \in Timeouts \cup {0}
        /\ left \in Nat \cup {NULL}
    BY DEF Init
  <2>4. /\ pc \in {"idle", "loop", "select", "read"}
        /\ result \in {"table", "none"}
    BY DEF Init
  <2>5. /\ closed \in BOOLEAN /\ quiet \in BOOLEAN
        /\ handed \in BOOLEAN /\ aligned \in BOOLEAN
    BY DEF Init
  <2>6. QED
    BY <2>1, <2>2, <2>3, <2>4, <2>5 DEF TypeOK
<1>2. BufferBounds
  BY DEF Init, BufferBounds
<1>3. QED
  BY <1>1, <1>2

LEMMA BoundsNext == TypeOK /\ BufferBounds /\ [Next]_vars => TypeOK' /\ BufferBounds'
<1> SUFFICES ASSUME TypeOK, BufferBounds, [Next]_vars
             PROVE  TypeOK' /\ BufferBounds'
  OBVIOUS
<1> USE DEF device, params, ghosts, buffer, Return
<1>0. /\ Size \in Nat /\ At.len \in 0..MaxLen
      /\ Moved(bufstart) \in 0..(Shift - 1)
      /\ Moved(bufend) \in Nat
      /\ Moved(bufend) - Moved(bufstart) = Size
      /\ Moved(bufend) <= BufSize
  BY AtTyped, MoveFacts DEF BufferBounds, TypeOK, Size
<1>1. CASE Call
  <2>1. aligned' \in BOOLEAN
    BY <1>1 DEF Call
  <2>2. TypeOK'
    BY <1>1, <2>1 DEF Call, TypeOK
  <2>3. BufferBounds'
    BY <1>1 DEF Call, BufferBounds
  <2>4. QED
    BY <2>2, <2>3
<1>2. CASE NeedHeader
  <2>1. Header - Size \in Nat \ {0} /\ Size + (Header - Size) <= Header + MaxLen
    BY <1>0, <1>2 DEF NeedHeader
  <2>2. QED
    BY <1>2, <2>1, DemandFacts DEF NeedHeader
<1>3. CASE NeedBody
  <2>1. /\ Header + At.len - Size \in Nat \ {0}
        /\ Size + (Header + At.len - Size) <= Header + MaxLen
    BY <1>0, <1>3 DEF NeedBody
  <2>2. QED
    BY <1>3, <2>1, DemandFacts DEF NeedBody
<1>4. CASE SkipPes
  BY <1>4 DEF SkipPes, TypeOK, BufferBounds
<1>5. CASE BadCrc
  <2>1. Size >= 1
    BY <1>0, <1>5 DEF BadCrc, HaveSection
  <2>2. bufstart' \in Nat /\ bufend' \in Nat /\ bufstart' <= bufend' /\ bufend' <= BufSize
    BY <1>0, <1>5, <2>1 DEF BadCrc
  <2>3. QED
    BY <1>5, <2>2 DEF BadCrc, HaveSection, TypeOK, BufferBounds
<1>6. ASSUME NEW c \in BOOLEAN, HandSection(c)
      PROVE  TypeOK' /\ BufferBounds'
  <2>1. bufstart' \in Nat /\ bufend' \in Nat /\ bufstart' <= bufend' /\ bufend' <= BufSize
    BY <1>0, <1>6 DEF HandSection
  <2>2. pc' \in {"idle", "loop"} /\ result' \in {"table", "none"}
    BY <1>6 DEF HandSection, HaveSection, TypeOK
  <2>3. QED
    BY <1>6, <2>1, <2>2 DEF HandSection, TypeOK, BufferBounds
<1>7. CASE SelectReady \/ SelectSpurious \/ SelectFails \/ SelectInterrupted
  BY <1>7, ClockAssumption DEF SelectReady, SelectSpurious, SelectFails, SelectInterrupted,
              TypeOK, BufferBounds
<1>8. CASE SelectTimesOut
  BY <1>8 DEF SelectTimesOut, TypeOK, BufferBounds
<1>9. ASSUME NEW n \in 1..MaxBacklog, ReadBytes(n)
      PROVE  TypeOK' /\ BufferBounds'
  <2>1. n <= backlog /\ n <= need /\ backlog \in 0..MaxBacklog
    BY <1>9, ClockAssumption DEF ReadBytes, TypeOK
  <2>2. backlog' \in 0..MaxBacklog
    BY <1>9, <2>1, ClockAssumption DEF ReadBytes
  <2>3. bufend' \in Nat /\ bufend' <= BufSize /\ bufstart' <= bufend'
    BY <1>9, <2>1, ClockAssumption DEF ReadBytes, TypeOK, BufferBounds
  <2>4. pos' \in Offset
    <3>1. pos + n \in Int
      BY ClockAssumption, StreamAssumption DEF TypeOK, Offset
    <3>2. QED
      BY <1>9, <3>1, ModRange, StreamAssumption DEF ReadBytes, Offset
  <2>5. TypeOK'
    BY <1>9, <2>2, <2>3, <2>4 DEF ReadBytes, TypeOK
  <2>6. BufferBounds'
    BY <1>9, <2>3 DEF ReadBytes, BufferBounds
  <2>7. QED
    BY <2>5, <2>6
<1>10. CASE ReadNothing \/ ReadEnd \/ ReadFails
  BY <1>10 DEF ReadNothing, ReadEnd, ReadFails, TypeOK, BufferBounds
<1>11. CASE Arrive \/ Close
  <2>1. backlog' \in 0..MaxBacklog
    BY <1>11, ClockAssumption DEF Arrive, Close, TypeOK
  <2>2. TypeOK'
    BY <1>11, <2>1 DEF Arrive, Close, TypeOK
  <2>3. BufferBounds'
    BY <1>11 DEF Arrive, Close, BufferBounds
  <2>4. QED
    BY <2>2, <2>3
<1>12. CASE Tick
  <2>1. now' \in 0..MaxNow
    BY <1>12, ClockAssumption DEF Tick, TypeOK
  <2>2. left' \in Nat \cup {NULL}
    BY <1>12 DEF Tick, Waiting, TypeOK
  <2>3. TypeOK'
    BY <1>12, <2>1, <2>2 DEF Tick, TypeOK
  <2>4. BufferBounds'
    BY <1>12 DEF Tick, BufferBounds
  <2>5. QED
    BY <2>3, <2>4
<1>13. CASE UNCHANGED vars
  BY <1>13 DEF vars, TypeOK, BufferBounds
<1>14. QED
  BY <1>1, <1>2, <1>3, <1>4, <1>5, <1>6, <1>7, <1>8, <1>9, <1>10, <1>11,
     <1>12, <1>13 DEF Next, Loop, Select, Read

(* The loop's indices, clock and waits keep their types: in particular the  *)
(* seconds passed to select() are never negative.                           *)
THEOREM TypeCorrect == Spec => []TypeOK
BY BoundsInit, BoundsNext, PTL DEF Spec

(* No stream, however damaged, makes read() write past the buffer or the    *)
(* loop examine bytes that were not read.                                   *)
THEOREM WithinBuffer == Spec => []BufferBounds
BY BoundsInit, BoundsNext, PTL DEF Spec

-----------------------------------------------------------------------------
(* The remainder is the only one.                                           *)
LEMMA ModUnique ==
  ASSUME NEW n \in Nat \ {0}, NEW q \in Int, NEW r \in 0..(n - 1), NEW x \in Int, x = n * q + r
  PROVE  x % n = r
<1> DEFINE k == (x \div n) - q
<1>1. x = n * (x \div n) + (x % n) /\ (x % n) \in 0..(n - 1) /\ x \div n \in Int
  BY SMT
<1>2. k \in Int /\ r - (x % n) = n * k
  BY <1>1
<1>3. r - (x % n) < n /\ r - (x % n) > -n
  BY <1>1
<1> HIDE DEF k
<1>4. k = 0
  <2>1. CASE k >= 1
    <3>1. n * k >= n
      BY <1>2, <2>1
    <3>. QED  BY <1>1, <1>2, <1>3, <3>1
  <2>2. CASE k <= -1
    <3>1. n * k <= -n
      BY <1>2, <2>2
    <3>. QED  BY <1>1, <1>2, <1>3, <3>1
  <2>. QED  BY <1>2, <2>1, <2>2
<1>. QED  BY <1>1, <1>2, <1>4

LEMMA ModTwice ==
  ASSUME NEW n \in Nat \ {0}, NEW a \in Int, NEW b \in Int
  PROVE  ((a % n) + b) % n = (a + b) % n
<1> DEFINE r == ((a % n) + b) % n
           q == ((a % n) + b) \div n
           m == a \div n
<1>1. a = n * m + (a % n) /\ m \in Int /\ (a % n) \in Int
  BY SMT
<1>2. (a % n) + b = n * q + r /\ q \in Int /\ r \in 0..(n - 1)
  BY <1>1, SMT
<1> HIDE DEF r, q, m
<1> DEFINE s == m + q
           x == a + b
<1>3. x = n * s + r /\ x \in Int /\ s \in Int
  BY <1>1, <1>2
<1> HIDE DEF s, x
<1>4. x % n = r
  BY <1>2, <1>3, ModUnique
<1>. QED  BY <1>4 DEF r, x

LEMMA ModSmall ==
  ASSUME NEW n \in Nat \ {0}, NEW x \in 0..(n - 1)
  PROVE  x % n = x
BY SMT

LEMMA ModBack ==
  ASSUME NEW n \in Nat \ {0}, NEW p \in 0..(n - 1), NEW s \in Nat
  PROVE  (((p - s) % n) + s) % n = p
<1> DEFINE a == p - s
<1>1. a \in Int /\ a + s = p /\ s \in Int
  OBVIOUS
<1> HIDE DEF a
<1>2. ((a % n) + s) % n = (a + s) % n
  BY <1>1, ModTwice
<1>. QED  BY <1>1, <1>2, ModSmall DEF a

(* Where the bytes are that the loop looks at, in the carousel.             *)
LEMMA StartFacts ==
  ASSUME TypeOK, bufstart <= bufend
  PROVE  /\ pos \in Nat /\ Size \in Nat /\ Start \in Offset
         /\ Size = 0 => Start = pos
         /\ (Start + Size) % N = pos
<1>1. pos \in 0..(N - 1) /\ Size \in Nat /\ N \in Nat \ {0}
  BY StreamAssumption DEF TypeOK, Offset, Size
<1>2. Start \in 0..(N - 1)
  BY <1>1, ModRange DEF Start
<1>3. pos % N = pos
  BY <1>1, ModSmall
<1>4. (((pos - Size) % N) + Size) % N = pos
  <2>1. \A s \in Nat : (((pos - s) % N) + s) % N = pos
    BY <1>1, ModBack
  <2>. QED  BY <1>1, <2>1
<1>. QED  BY <1>1, <1>2, <1>3, <1>4 DEF Start, Offset

AlignedInv == Undamaged =>
  /\ (pc # "idle" /\ aligned) =>
       /\ Start \in Boundary /\ Size <= Header + At.len
       /\ pc \in {"select", "read"} => Size + need <= Header + At.len
  /\ (pc = "idle" /\ aligned /\ result = "table" /\ handed) => pos \in Boundary

(* What is due where a section of the broadcaster starts.                   *)
LEMMA Due ==
  ASSUME TypeOK, Undamaged, bufstart <= bufend, Start \in Boundary
  PROVE  /\ At.crc /\ ~At.pes
         /\ Size = Header + At.len => pos \in Boundary
<1>1. At.crc /\ ~At.pes /\ (Start + Header + At.len) % N \in Boundary
  BY DEF Undamaged, At
<1>2. Start \in Nat /\ At.len \in Nat /\ (Start + Size) % N = pos
  BY StartFacts, AtTyped, StreamAssumption DEF Offset
<1>3. Size = Header + At.len => Start + Header + At.len = Start + Size
  BY <1>2
<1>. QED  BY <1>1, <1>2, <1>3

LEMMA SameAir ==
  carousel' = carousel => Byte' = Byte /\ Boundary' = Boundary /\ (Undamaged' <=> Undamaged)
BY DEF Byte, Boundary, Undamaged

LEMMA SamePlace ==
  Size' = Size /\ pos' = pos /\ carousel' = carousel => Start' = Start /\ At' = At
BY DEF Start, At, Byte

(* A wait for n bytes, none of them of the next section.                    *)
LEMMA DemandAligned ==
  ASSUME TypeOK, BufferBounds, AlignedInv, pc = "loop", NEW n \in Nat, Demand(n),
         aligned => Size + n <= Header + At.len
  PROVE  AlignedInv'
<1>1. Moved(bufend) - Moved(bufstart) = Size
  BY MoveFacts DEF BufferBounds
<1>2. Size' = Size /\ pos' = pos /\ carousel' = carousel
  BY <1>1 DEF Demand, MoveBack, device, Size
<1>3. Start' = Start /\ At' = At
  BY <1>2, SamePlace
<1>4. /\ aligned' = aligned /\ need' = n
      /\ pc' = "select" \/ (pc' = "idle" /\ result' = "none")
  BY DEF Demand, Return, ghosts
<1>. QED  BY <1>2, <1>3, <1>4, SameAir DEF AlignedInv

(* The buffer is empty where a section starts.                              *)
LEMMA EmptyAligned ==
  ASSUME TypeOK, carousel' = carousel, bufstart' = bufend', bufend' \in Nat, pos' = pos,
         pc' \in {"loop", "idle"},
         Undamaged /\ aligned' => pos \in Boundary
  PROVE  AlignedInv'
<1>1. pos \in 0..(N - 1) /\ N \in Nat \ {0}
  BY StreamAssumption DEF TypeOK, Offset
<1>2. Size' = 0
  <2>1. \A a, b : a \in Nat /\ b = a => a - b = 0
    OBVIOUS
  <2>. QED  BY <2>1, Zenon DEF Size
<1>3. Start' = pos
  BY <1>1, <1>2, ModSmall DEF Start
<1>4. At'.len \in Nat
  <2>1. Byte' \in [Offset -> ByteRecord]
    BY StreamAssumption, SameAir DEF TypeOK, Carousel, Byte
  <2>. QED  BY <1>1, <1>3, <2>1 DEF At, Offset, ByteRecord
<1>5. Boundary' = Boundary /\ (Undamaged' <=> Undamaged)
  BY SameAir
<1>6. Undamaged' /\ aligned' => Start' \in Boundary' /\ pos' \in Boundary'
  BY <1>3, <1>5
<1>7. Size' <= Header + At'.len
  BY <1>2, <1>4
<1>. QED  BY <1>6, <1>7 DEF AlignedInv

LEMMA AlignedNext == TypeOK /\ BufferBounds /\ AlignedInv /\ [Next]_vars => AlignedInv'
<1> SUFFICES ASSUME TypeOK, BufferBounds, AlignedInv, [Next]_vars
             PROVE  AlignedInv'
  OBVIOUS
<1> USE DEF device, params, ghosts, buffer, Return
<1>0. /\ Size \in Nat /\ At.len \in Nat /\ Moved(bufend) \in Nat
      /\ bufstart <= bufend /\ Moved(bufend) - Moved(bufstart) = Size
  BY AtTyped, MoveFacts DEF BufferBounds, TypeOK, Size
<1>1. CASE Call
  BY <1>1, EmptyAligned DEF Call
<1>2. CASE NeedHeader
  <2>1. pc = "loop" /\ Header - Size \in Nat /\ Size + (Header - Size) <= Header + At.len
    BY <1>0, <1>2 DEF NeedHeader
  <2>. QED  BY <1>2, <2>1, DemandAligned DEF NeedHeader
<1>3. CASE NeedBody
  <2>1. /\ pc = "loop" /\ Header + At.len - Size \in Nat
        /\ Size + (Header + At.len - Size) <= Header + At.len
    BY <1>0, <1>3 DEF NeedBody
  <2>. QED  BY <1>3, <2>1, DemandAligned DEF NeedBody
<1>4. CASE SkipPes \/ BadCrc
  <2>1. pc = "loop" /\ (At.pes \/ ~At.crc)
    BY <1>4 DEF SkipPes, BadCrc, HaveSection
  <2>2. ~(Undamaged /\ aligned)
    BY <1>0, <2>1, Due DEF AlignedInv
  <2>3. carousel' = carousel /\ aligned' = aligned /\ pc' = "loop"
    BY <1>4, <2>1 DEF SkipPes, BadCrc
  <2>. QED  BY <2>2, <2>3, SameAir DEF AlignedInv
<1>5. ASSUME NEW c \in BOOLEAN, HandSection(c)
      PROVE  AlignedInv'
  <2>1. pc = "loop" /\ Size >= Header + At.len
    BY <1>5 DEF HandSection, HaveSection
  <2>2. Undamaged /\ aligned => pos \in Boundary
    <3>1. Undamaged /\ aligned => Start \in Boundary /\ Size = Header + At.len
      BY <1>0, <2>1 DEF AlignedInv
    <3>. QED  BY <1>0, <3>1, Due
  <2>3. /\ bufstart' = bufend' /\ bufend' \in Nat /\ pos' = pos /\ aligned' = aligned
        /\ pc' \in {"loop", "idle"} /\ carousel' = carousel
    BY <1>0, <1>5, <2>1 DEF HandSection
  <2>. QED  BY <2>2, <2>3, EmptyAligned
<1>6. ASSUME NEW n \in 1..MaxBacklog, ReadBytes(n)
      PROVE  AlignedInv'
  <2>1. n \in Nat /\ n <= need /\ need \in Nat /\ pos \in Int /\ N \in Nat \ {0}
    BY <1>6, ClockAssumption, StreamAssumption DEF ReadBytes, TypeOK, Offset
  <2>2. Size' = Size + n /\ pos' = (pos + n) % N
    BY <1>0, <1>6, <2>1 DEF ReadBytes, Size, TypeOK
  <2>3. Start' = Start
    <3>1. \A a, b \in Int : ((a % N) + b) % N = (a + b) % N
      BY <2>1, ModTwice
    <3>2. pos + n \in Int /\ -(Size + n) \in Int
      BY <1>0, <2>1
    <3>3. (((pos + n) % N) + (-(Size + n))) % N = ((pos + n) + (-(Size + n))) % N
      BY <3>1, <3>2, Zenon
    <3>4. /\ ((pos + n) % N) + (-(Size + n)) = ((pos + n) % N) - (Size + n)
          /\ (pos + n) + (-(Size + n)) = pos - Size
      BY <1>0, <2>1, <3>2, ModRange
    <3>5. Start' = (((pos + n) % N) - (Size + n)) % N
      BY <2>2 DEF Start
    <3>. QED  BY <3>3, <3>4, <3>5 DEF Start
  <2>4. pc' = "loop" /\ aligned' = aligned /\ pc = "read" /\ carousel' = carousel
    BY <1>6 DEF ReadBytes
  <2>5. At' = At
    BY <2>3, <2>4, SameAir DEF At
  <2>6. Boundary' = Boundary /\ (Undamaged' <=> Undamaged)
    BY <2>4, SameAir
  <2>7. ASSUME Undamaged, aligned
        PROVE  Start' \in Boundary' /\ Size' <= Header + At'.len
    <3>1. Start \in Boundary /\ Size + need <= Header + At.len
      BY <2>4, <2>7 DEF AlignedInv
    <3>2. Size' <= Header + At.len
      BY <1>0, <2>1, <2>2, <3>1
    <3>. QED  BY <2>3, <2>5, <2>6, <3>1, <3>2
  <2>. QED  BY <2>4, <2>6, <2>7 DEF AlignedInv
<1>7. CASE \/ SelectReady \/ SelectSpurious \/ SelectFails \/ SelectInterrupted \/ SelectTimesOut
           \/ ReadNothing \/ ReadEnd \/ ReadFails
  <2>1. Size' = Size /\ pos' = pos /\ carousel' = carousel
    BY <1>7 DEF SelectReady, SelectSpurious, SelectFails, SelectInterrupted, SelectTimesOut,
                ReadNothing, ReadEnd, ReadFails, Size
  <2>2. Start' = Start /\ At' = At
    BY <2>1, SamePlace
  <2>3. /\ aligned' = aligned /\ need' = need /\ pc \in {"select", "read"}
        /\ pc' \in {"loop", "read"} \/ (pc' = "idle" /\ result' = "none")
    BY <1>7 DEF SelectReady, SelectSpurious, SelectFails, SelectInterrupted, SelectTimesOut,
                ReadNothing, ReadEnd, ReadFails
  <2>. QED  BY <2>1, <2>2, <2>3, SameAir DEF AlignedInv
<1>8. CASE Arrive \/ Close \/ Tick \/ UNCHANGED vars
  <2>1. Size' = Size /\ pos' = pos /\ carousel' = carousel
    BY <1>8 DEF Arrive, Close, Tick, vars, Size
  <2>2. Start' = Start /\ At' = At
    BY <2>1, SamePlace
  <2>3. aligned' = aligned /\ need' = need /\ pc' = pc /\ result' = result /\ handed' = handed
    BY <1>8 DEF Arrive, Close, Tick, vars
  <2>. QED  BY <2>1, <2>2, <2>3, SameAir DEF AlignedInv
<1>. QED
  BY <1>1, <1>2, <1>3, <1>4, <1>5, <1>6, <1>7, <1>8 DEF Next, Loop, Select, Read

(* On a carousel without errors a call that begins where a section starts   *)
(* never holds a byte of the next one, so that dropping the whole buffer    *)
(* (read.c:110) loses nothing, whatever the sizes of sections and reads.    *)
THEOREM KeepsAligned == Spec => []StaysAligned
<1>1. Init => AlignedInv
  BY DEF Init, AlignedInv
<1>2. AlignedInv => StaysAligned
  BY DEF AlignedInv, StaysAligned
<1>. QED  BY <1>1, <1>2, AlignedNext, BoundsInit, BoundsNext, PTL DEF Spec
=============================================================================
