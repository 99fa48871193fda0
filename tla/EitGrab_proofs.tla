---------------------------- MODULE EitGrab_proofs ----------------------------
(***************************************************************************)
(* The invariants of EitGrab for every set of sections and every timeout:  *)
(* nothing is printed twice, programmes are closed in turn, and what is    *)
(* printed of an event, whatever its descriptors are, is of its type and   *)
(* well formed.                                                            *)
(*                                                                         *)
(* The first two do not depend on what the lines of a programme are.  The  *)
(* last two do: the second half of the module follows parseDescription()   *)
(* through its rounds (DescriptorTyped, TurnsTyped, RoundsTyped), a        *)
(* sequence of sequences being put together one by one (FlatGoes).         *)
(***************************************************************************)
EXTENDS EitGrab, SequenceTheorems, FiniteSetTheorems, WellFoundedInduction, TLAPS

Printed ==
  [key: EventKey, version: Nat, stop: {e.stop : e \in Events},
   lines: {LinesOf[ds] : ds \in Descriptors} \cup {<<>>}, closed: BOOLEAN]

(* The shape of the state, as far as the loop goes.                         *)
Shape ==
  /\ ignore_updates \in BOOLEAN
  /\ pc \in {"read", "loop", "print", "end"}
  /\ pc \in {"loop", "print"} => section \in Sections /\ at \in DOMAIN section.events
  /\ channels = [k \in DOMAIN channels |-> channels[k]]
  /\ \A k \in DOMAIN channels : channels[k] \in Nat
  /\ out \in Seq(Printed)

(* What was printed is remembered, in that version or an older one: the     *)
(* version remembered only ever goes down.                                  *)
Remembered ==
  \A i \in DOMAIN out :
    out[i].key \in DOMAIN channels /\ channels[out[i].key] <= out[i].version

IInv == Shape /\ Remembered /\ OncePerVersion /\ ClosedInTurn

-----------------------------------------------------------------------------
(* The event the loop is at is one of the input.                            *)
LEMMA AtEvent ==
  ASSUME section \in Sections, at \in DOMAIN section.events
  PROVE  /\ event \in Events /\ key \in EventKey /\ event.descs \in Descriptors
         /\ section.version \in Nat /\ section.events \in Seq(Events)
<1>1. event \in Events
  BY DEF event, Events
<1>2. key \in EventKey
  BY DEF key, event, EventKey
<1>3. event.descs \in Descriptors
  BY <1>1 DEF Descriptors
<1>. QED  BY <1>1, <1>2, <1>3, GrabAssumption

(* Taking an event that was not seen keeps what is remembered, and the      *)
(* versions printed of it are newer than its own.                           *)
LEMMA RememberKeeps ==
  ASSUME Shape, Remembered, Remember
  PROVE  /\ channels' = [k \in DOMAIN channels' |-> channels'[k]]
         /\ \A k \in DOMAIN channels' : channels'[k] \in Nat
         /\ key \in DOMAIN channels' /\ channels'[key] = section.version
         /\ \A i \in DOMAIN out :
              /\ out[i].key \in DOMAIN channels' /\ channels'[out[i].key] <= out[i].version
              /\ out[i].key = key => key \in DOMAIN channels /\ out[i].version > section.version
<1>1. section \in Sections /\ at \in DOMAIN section.events
  BY DEF Shape, Remember
<1>2. section.version \in Nat /\ key \in EventKey
  BY <1>1, AtEvent
<1>3. /\ DOMAIN channels' = DOMAIN channels \cup {key}
      /\ \A k \in DOMAIN channels' : channels'[k] = IF k = key THEN section.version ELSE channels[k]
  BY DEF Remember
<1>4. channels' = [k \in DOMAIN channels' |-> channels'[k]]
  BY DEF Remember
<1>5. \A k \in DOMAIN channels' : channels'[k] \in Nat
  BY <1>2, <1>3 DEF Shape
<1>6. ASSUME NEW i \in DOMAIN out
      PROVE  /\ out[i].key \in DOMAIN channels' /\ channels'[out[i].key] <= out[i].version
             /\ out[i].key = key => key \in DOMAIN channels /\ out[i].version > section.version
  <2>1. out[i].key \in DOMAIN channels /\ channels[out[i].key] <= out[i].version
    BY DEF Remembered
  <2>2. out[i].version \in Nat
    <3>1. out[i] \in Printed
      BY DEF Shape
    <3>. QED  BY <3>1 DEF Printed
  <2>3. CASE out[i].key = key
    <3>1. channels[key] \in Nat /\ ~(channels[key] <= section.version)
      BY <2>1, <2>3 DEF Remember, Seen, Shape
    <3>. QED  BY <1>2, <1>3, <2>1, <2>2, <2>3, <3>1
  <2>4. CASE out[i].key # key
    BY <1>3, <2>1, <2>4
  <2>. QED  BY <2>3, <2>4
<1>. QED  BY <1>3, <1>4, <1>5, <1>6

(* A step that takes an event and prints nothing.                           *)
LEMMA TakenQuietly ==
  ASSUME IInv, Remember,
         out' = out, programme_count' = programme_count,
         ignore_updates' = ignore_updates, pc' = "read"
  PROVE  IInv'
<1>0. pc = "loop"
  BY DEF Remember
<1>1. Shape'
  BY RememberKeeps DEF IInv, Shape
<1>2. Remembered'
  BY RememberKeeps DEF IInv, Remembered
<1>3. OncePerVersion'
  BY DEF IInv, OncePerVersion
<1>4. ClosedInTurn'
  BY <1>0 DEF IInv, ClosedInTurn
<1>. QED  BY <1>1, <1>2, <1>3, <1>4 DEF IInv

(* event_alloc() fails for an update.                                       *)
LEMMA UpdateLost ==
  ASSUME IInv, NoMemory, key \in DOMAIN channels
  PROVE  IInv'
<1>1. section \in Sections /\ at \in DOMAIN section.events
  BY DEF IInv, Shape, NoMemory
<1>2. section.version \in Nat
  BY <1>1, AtEvent
<1>3. /\ channels' = [channels EXCEPT ![key] = section.version]
      /\ out' = out /\ programme_count' = programme_count
      /\ ignore_updates' = ignore_updates /\ pc' = "end"
  BY DEF NoMemory, FinishUp, options
<1>4. channels[key] \in Nat /\ ~(channels[key] <= section.version)
  BY DEF NoMemory, Seen, IInv, Shape
<1>5. DOMAIN channels' = DOMAIN channels /\ channels'[key] = section.version
      /\ \A k \in DOMAIN channels : k # key => channels'[k] = channels[k]
  BY <1>3
<1>6. Shape'
  <2>1. channels' = [k \in DOMAIN channels' |-> channels'[k]]
    BY <1>3
  <2>. QED  BY <1>2, <1>3, <1>5, <2>1 DEF IInv, Shape
<1>7. Remembered'
  <2>1. \A i \in DOMAIN out : out[i].version \in Nat
    <3>1. \A i \in DOMAIN out : out[i] \in Printed
      BY DEF IInv, Shape
    <3>. QED  BY <3>1 DEF Printed
  <2>2. ASSUME NEW i \in DOMAIN out
        PROVE  channels'[out[i].key] <= out[i].version /\ out[i].key \in DOMAIN channels
    BY <1>2, <1>4, <1>5, <2>1 DEF IInv, Remembered
  <2>. QED  BY <1>3, <1>5, <2>2 DEF Remembered
<1>8. OncePerVersion' /\ ClosedInTurn'
  BY <1>3 DEF IInv, OncePerVersion, ClosedInTurn
<1>. QED  BY <1>6, <1>7, <1>8 DEF IInv

(* A step that leaves what is remembered and printed alone.                 *)
LEMMA Quiet ==
  ASSUME IInv,
         channels' = channels, out' = out, programme_count' = programme_count,
         ignore_updates' = ignore_updates,
         pc' \in {"read", "loop", "print", "end"},
         pc' \in {"loop", "print"} => section' \in Sections /\ at' \in DOMAIN section'.events,
         pc' \in {"read", "loop"} => pc \in {"read", "loop"}
  PROVE  IInv'
<1>1. Shape'
  BY DEF IInv, Shape
<1>2. Remembered' /\ OncePerVersion'
  BY DEF IInv, Remembered, OncePerVersion
<1>3. ClosedInTurn'
  BY DEF IInv, ClosedInTurn
<1>. QED  BY <1>1, <1>2, <1>3 DEF IInv

(* <programme>: what is new of the event was not printed before.            *)
LEMMA BeginKeeps ==
  ASSUME IInv, Begin
  PROVE  IInv'
<1> DEFINE new == [key |-> key, version |-> section.version, stop |-> event.stop,
                   lines |-> <<>>, closed |-> FALSE]
<1>1. Remember /\ pc = "loop" /\ section \in Sections /\ at \in DOMAIN section.events
  BY DEF Begin, Taken, Remember, IInv, Shape
<1>2. new \in Printed
  BY <1>1, AtEvent DEF Printed
<1>3. out \in Seq(Printed) /\ out' = Append(out, new)
  BY DEF IInv, Shape, Begin
<1> HIDE DEF new
<1>4. /\ out' \in Seq(Printed) /\ Len(out') = Len(out) + 1 /\ Len(out) \in Nat
      /\ DOMAIN out = 1..Len(out) /\ DOMAIN out' = 1..(Len(out) + 1)
      /\ \A i \in DOMAIN out : out'[i] = out[i]
      /\ out'[Len(out) + 1] = new
  BY <1>2, <1>3
<1>5. /\ new.key = key /\ new.version = section.version /\ new.closed = FALSE
      /\ section.version \in Nat
  BY <1>1, AtEvent DEF new
<1>6. /\ \A k \in DOMAIN channels' : channels'[k] \in Nat
      /\ key \in DOMAIN channels' /\ channels'[key] = section.version
      /\ \A i \in DOMAIN out :
           /\ out[i].key \in DOMAIN channels' /\ channels'[out[i].key] <= out[i].version
           /\ out[i].key = key => key \in DOMAIN channels /\ out[i].version > section.version
  BY <1>1, RememberKeeps DEF IInv
<1>7. Shape'
  <2>1. channels' = [k \in DOMAIN channels' |-> channels'[k]]
    BY <1>1, RememberKeeps DEF IInv
  <2>. QED  BY <1>1, <1>4, <1>6, <2>1 DEF IInv, Shape, Begin, options
<1>8. Remembered'
  BY <1>4, <1>5, <1>6 DEF Remembered
<1>9. OncePerVersion'
  <2>1. \A i \in DOMAIN out : out[i].version \in Nat
    <3>1. \A i \in DOMAIN out : out[i] \in Printed
      BY <1>3
    <3>. QED  BY <3>1 DEF Printed
  <2>2. \A i \in DOMAIN out : out[i].key = key =>
          ~ignore_updates' /\ out[i].version # section.version
    BY <1>5, <1>6, <2>1 DEF Begin, Taken, options
  <2>3. \A i, j \in DOMAIN out : (i # j /\ out[i].key = out[j].key) =>
          ~ignore_updates' /\ out[i].version # out[j].version
    BY DEF IInv, OncePerVersion, Begin, options
  <2>. QED  BY <1>4, <1>5, <2>2, <2>3 DEF OncePerVersion
<1>10. ClosedInTurn'
  <2>1. \A i \in DOMAIN out : out[i].closed
    BY <1>1 DEF IInv, ClosedInTurn
  <2>2. programme_count' = Len(out') /\ pc' = "print"
    BY <1>4 DEF IInv, ClosedInTurn, Begin
  <2>. QED  BY <1>4, <2>1, <2>2 DEF ClosedInTurn
<1>. QED  BY <1>7, <1>8, <1>9, <1>10 DEF IInv

(* The lines of the last programme are printed, and it may be closed.       *)
LEMMA PrintKeeps ==
  ASSUME IInv, pc = "print", NEW shut \in BOOLEAN,
         out' = [out EXCEPT ![Len(out)].lines = LinesOf[event.descs],
                            ![Len(out)].closed = IF shut THEN TRUE ELSE @],
         channels' = channels, programme_count' = programme_count,
         ignore_updates' = ignore_updates, section' = section,
         pc' \in {"read", "loop", "end"},
         pc' = "loop" => at' \in DOMAIN section.events,
         pc' \in {"read", "loop"} => shut
  PROVE  IInv'
<1>1. section \in Sections /\ at \in DOMAIN section.events
  BY DEF IInv, Shape
<1>2. event.descs \in Descriptors
  BY <1>1, AtEvent
<1>3. out \in Seq(Printed) /\ Len(out) \in Nat /\ DOMAIN out = 1..Len(out)
  BY DEF IInv, Shape
<1>4. DOMAIN out' = DOMAIN out
  OBVIOUS
<1>5. \A i \in DOMAIN out : i # Len(out) => out'[i] = out[i]
  BY <1>3
<1>6. ASSUME NEW i \in DOMAIN out
      PROVE  /\ out'[i] \in Printed /\ out'[i].key = out[i].key
             /\ out'[i].version = out[i].version
             /\ out'[i].closed = IF shut /\ i = Len(out) THEN TRUE ELSE out[i].closed
  <2>1. out[i] \in Printed
    BY <1>3
  <2>2. CASE i = Len(out)
    <3>1. out'[i] = [out[i] EXCEPT !.lines = LinesOf[event.descs],
                                   !.closed = IF shut THEN TRUE ELSE @]
      BY <1>3, <2>2
    <3>2. LinesOf[event.descs] \in {LinesOf[ds] : ds \in Descriptors} \cup {<<>>}
      BY <1>2
    <3>. QED  BY <2>1, <2>2, <3>1, <3>2 DEF Printed
  <2>3. CASE i # Len(out)
    BY <1>5, <2>1, <2>3
  <2>. QED  BY <2>2, <2>3
<1>7. out' \in Seq(Printed) /\ Len(out') = Len(out)
  <2>1. out' = [i \in 1..Len(out) |-> out'[i]]
    BY <1>3
  <2>2. out' \in [1..Len(out) -> Printed]
    BY <1>3, <1>6, <2>1
  <2>3. out' \in Seq(Printed)
    <3>1. out' \in UNION {[1..n -> Printed] : n \in Nat}
      BY <1>3, <2>2
    <3>. QED  BY <3>1, SeqDef, Zenon
  <2>4. Len(out') \in Nat /\ DOMAIN out' = 1..Len(out')
    BY <2>3, LenProperties
  <2>. QED  BY <1>3, <1>4, <2>3, <2>4
<1>8. Shape'
  BY <1>1, <1>7 DEF IInv, Shape
<1>9. Remembered'
  BY <1>4, <1>6 DEF IInv, Remembered
<1>10. OncePerVersion'
  BY <1>4, <1>6 DEF IInv, OncePerVersion
<1>11. ClosedInTurn'
  BY <1>3, <1>4, <1>6, <1>7 DEF IInv, ClosedInTurn
<1>. QED  BY <1>8, <1>9, <1>10, <1>11 DEF IInv

-----------------------------------------------------------------------------
LEMMA InitHolds == Init => IInv
<1> SUFFICES ASSUME Init PROVE IInv
  OBVIOUS
<1>1. out = <<>> /\ Len(out) = 0 /\ DOMAIN out = {} /\ out \in Seq(Printed)
  BY EmptySeq DEF Init
<1>2. Shape
  BY <1>1 DEF Init, Shape
<1>3. Remembered /\ OncePerVersion /\ ClosedInTurn
  BY <1>1 DEF Init, Remembered, OncePerVersion, ClosedInTurn
<1>. QED  BY <1>2, <1>3 DEF IInv

LEMMA StepHolds == IInv /\ [Next]_vars => IInv'
<1> SUFFICES ASSUME IInv, [Next]_vars PROVE IInv'
  OBVIOUS
<1> USE DEF options, counts
<1>0. Shape
  BY DEF IInv
<1>1. ASSUME NEW s \in Sections, Section(s) PROVE IInv'
  <2>1. s.events # <<>> => 1 \in DOMAIN s.events
    BY GrabAssumption, EmptySeq, LenProperties
  <2>. QED  BY <1>1, <2>1, Quiet DEF Section
<1>2. CASE InputEnds
  BY <1>2, Quiet DEF InputEnds, FinishUp
<1>3. CASE SkipSeen
  BY <1>3, Quiet DEF SkipSeen
<1>4. CASE SkipUpdate
  BY <1>4, TakenQuietly DEF SkipUpdate
<1>5. CASE NoMemory
  <2>1. CASE key \in DOMAIN channels
    BY <1>5, <2>1, UpdateLost
  <2>2. CASE key \notin DOMAIN channels
    BY <1>5, <2>2, Quiet DEF NoMemory, FinishUp
  <2>. QED  BY <2>1, <2>2
<1>6. CASE NoDescriptors
  BY <1>6, TakenQuietly DEF NoDescriptors, Taken
<1>7. CASE InvalidDate
  BY <1>7, TakenQuietly DEF InvalidDate, Taken
<1>8. CASE NoTitle
  BY <1>8, TakenQuietly DEF NoTitle, Taken
<1>9. CASE Begin
  BY <1>9, BeginKeeps
<1>10. CASE Finish
  <2>1. /\ pc = "print"
        /\ out' = [out EXCEPT ![Len(out)].lines = LinesOf[event.descs],
                              ![Len(out)].closed = IF TRUE THEN TRUE ELSE @]
    BY <1>10 DEF Finish
  <2>2. pc' = "loop" => at' \in DOMAIN section.events
    <3>1. section \in Sections /\ at \in DOMAIN section.events
      BY <1>0, <2>1 DEF Shape
    <3>2. DOMAIN section.events = 1..Len(section.events) /\ Len(section.events) \in Nat
      BY <3>1, GrabAssumption, LenProperties
    <3>. QED  BY <1>10, <3>1, <3>2 DEF Finish
  <2>. QED  BY <1>10, <2>1, <2>2, PrintKeeps DEF Finish
<1>11. CASE ExitInside
  <2>1. /\ pc = "print"
        /\ out' = [out EXCEPT ![Len(out)].lines = LinesOf[event.descs],
                              ![Len(out)].closed = IF FALSE THEN TRUE ELSE @]
    BY <1>11 DEF ExitInside
  <2>. QED  BY <1>11, <2>1, PrintKeeps DEF ExitInside
<1>12. CASE Tick
  BY <1>0, <1>12, Quiet DEF Tick, Shape
<1>13. CASE Alarm
  BY <1>13, Quiet DEF Alarm
<1>14. CASE UNCHANGED vars
  BY <1>0, <1>14, Quiet DEF vars, Shape
<1>. QED
  BY <1>1, <1>2, <1>3, <1>4, <1>5, <1>6, <1>7, <1>8, <1>9, <1>10, <1>11, <1>12, <1>13, <1>14
  DEF Next, Parse

(***************************************************************************)
(* No event is printed twice, and with -u at most once in each version,    *)
(* whatever sections come in whatever order (dvb-eit.c:75-89, 101-108).    *)
(***************************************************************************)
THEOREM PrintsOnce == Spec => []OncePerVersion
<1>1. IInv => OncePerVersion
  BY DEF IInv
<1>. QED  BY <1>1, InitHolds, StepHolds, PTL DEF Spec

(***************************************************************************)
(* Every programme but the one being printed is closed, and the status     *)
(* line counts what was printed (dvb-eit.c:148, 173-174).                  *)
(***************************************************************************)
THEOREM ClosesInTurn == Spec => []ClosedInTurn
<1>1. IInv => ClosedInTurn
  BY DEF IInv
<1>. QED  BY <1>1, InitHolds, StepHolds, PTL DEF Spec

-----------------------------------------------------------------------------
(* Induction on the lines that were printed.                                *)
LEMMA Induction ==
  ASSUME NEW n \in Nat, NEW T, 0 \in T, \A i \in 0..(n - 1) : i \in T => i + 1 \in T
  PROVE  n \in T
<1> DEFINE U == (0..n) \ T
<1> SUFFICES ASSUME U # {} PROVE FALSE
  OBVIOUS
<1>1. U \subseteq Nat
  OBVIOUS
<1>2. PICK x \in U : \A y \in U : ~(<<y, x>> \in OpToRel(<, Nat))
  BY <1>1, NatLessThanWellFounded, WFMin
<1>3. \A y \in U : ~(y < x)
  BY <1>1, <1>2 DEF OpToRel
<1>4. x - 1 \notin U /\ x # 0
  BY <1>3
<1>5. x - 1 \in 0..(n - 1) /\ x - 1 \in T
  BY <1>4
<1>. QED  BY <1>5

LEMMA Smallest ==
  ASSUME NEW U, U \subseteq Nat, U # {}
  PROVE  \E x \in U : \A y \in U : x <= y
<1>1. PICK x \in U : \A y \in U : ~(<<y, x>> \in OpToRel(<, Nat))
  BY NatLessThanWellFounded, WFMin
<1>2. \A y \in U : ~(y < x)
  BY <1>1 DEF OpToRel
<1>3. \A y \in U : x <= y
  BY <1>2
<1>. QED  BY <1>3

(* Sequences one behind the other.                                          *)
Behind(x, y) == x \o y

IsFlat(g, k, s) ==
  g = [i \in 1..k |-> IF i = 1 THEN s[i] ELSE Behind(g[i - 1], s[i])]

FlatGoes(f, last, s) ==
  f[0] = <<>> /\ \A k \in 0..(last - 1) : f[k + 1] = Behind(f[k], s[k + 1])

LEMMA Flat ==
  ASSUME NEW s, NEW E, s \in Seq(Seq(E))
  PROVE  \E f : FlatGoes(f, Len(s), s) /\ FlattenSeq(s) = f[Len(s)]
<1> DEFINE last == Len(s)
<1>0. last \in Nat
  OBVIOUS
<1>1. CASE last = 0
  <2>1. FlattenSeq(s) = s /\ s = <<>>
    BY <1>1 DEF FlattenSeq
  <2> DEFINE f == [i \in {0} |-> <<>>]
  <2>2. FlatGoes(f, 0, s) /\ f[0] = <<>>
    BY DEF FlatGoes
  <2> HIDE DEF f
  <2>. QED  BY <1>1, <2>1, <2>2
<1>2. CASE last # 0
  <2> DEFINE T == {k \in 0..(last - 1) : \E g : IsFlat(g, k + 1, s)}
  <2>1. 0 \in T
    <3>1. IsFlat([i \in 1..1 |-> s[1]], 1, s)
      BY DEF IsFlat
    <3>. QED  BY <1>0, <1>2, <3>1
  <2>2. ASSUME NEW k \in 0..((last - 1) - 1), k \in T PROVE k + 1 \in T
    <3>1. PICK g : IsFlat(g, k + 1, s)
      BY <2>2
    <3> DEFINE n == k + 1
               h == [i \in 1..(n + 1) |-> IF i = n + 1 THEN Behind(g[n], s[n + 1]) ELSE g[i]]
    <3>2. n \in Nat /\ n >= 1 /\ n \in 0..(last - 1)
      BY <1>0
    <3> HIDE DEF n
    <3>3. IsFlat(g, n, s)
      BY <3>1 DEF n
    <3>4. IsFlat(h, n + 1, s)
      <4> SUFFICES ASSUME NEW i \in 1..(n + 1)
                   PROVE  h[i] = IF i = 1 THEN s[i] ELSE Behind(h[i - 1], s[i])
        BY DEF IsFlat
      <4>1. CASE i = n + 1
        BY <3>2, <4>1
      <4>2. CASE i = 1
        BY <3>2, <3>3, <4>2 DEF IsFlat
      <4>3. CASE i \in 2..n
        BY <3>2, <3>3, <4>3 DEF IsFlat
      <4>. QED  BY <3>2, <4>1, <4>2, <4>3
    <3> HIDE DEF h
    <3>. QED  BY <3>2, <3>4 DEF n
  <2> HIDE DEF T
  <2>3. last - 1 \in T
    BY <1>0, <1>2, <2>1, <2>2, Induction
  <2>4. \E g : IsFlat(g, last, s)
    <3>1. (last - 1) + 1 = last
      BY <1>0
    <3>. QED  BY <2>3, <3>1 DEF T
  <2> DEFINE f == CHOOSE g : IsFlat(g, last, s)
  <2>5. IsFlat(f, last, s)
    BY <2>4
  <2>6. FlattenSeq(s) = f[last]
    BY <1>2 DEF FlattenSeq, IsFlat, Behind
  <2> HIDE DEF f, last
  <2> DEFINE h == [i \in 0..last |-> IF i = 0 THEN <<>> ELSE f[i]]
  <2>7. h[0] = <<>> /\ h[last] = f[last] /\ \A i \in 1..last : h[i] = f[i]
    BY <1>0, <1>2
  <2>8. ASSUME NEW k \in 0..(last - 1) PROVE h[k + 1] = Behind(h[k], s[k + 1])
    <3> DEFINE i == k + 1
    <3>1. i \in 1..last /\ i - 1 = k
      BY <1>0
    <3> HIDE DEF i, h
    <3>2. f[i] = IF i = 1 THEN s[i] ELSE Behind(f[i - 1], s[i])
      BY <2>5, <3>1 DEF IsFlat
    <3>3. CASE i = 1
      <4>1. h[i] = s[i] /\ h[k] = <<>>
        BY <2>7, <3>1, <3>2, <3>3
      <4>2. s[i] \in Seq(E)
        BY <3>1 DEF last
      <4>3. <<>> \o s[i] = s[i]
        BY <4>2, ConcatEmptySeq
      <4>. QED  BY <4>1, <4>3 DEF Behind, i
    <3>4. CASE i # 1
      <4>1. i - 1 \in 1..last
        BY <1>0, <3>1, <3>4
      <4>. QED  BY <2>7, <3>1, <3>2, <3>4, <4>1 DEF i
    <3>. QED  BY <3>3, <3>4
  <2>9. FlatGoes(h, last, s)
    <3> HIDE DEF h
    <3>. QED  BY <2>7, <2>8 DEF FlatGoes
  <2> HIDE DEF h
  <2>. QED  BY <2>6, <2>7, <2>9 DEF last
<1>. QED  BY <1>1, <1>2

(* What two sequences have behind one another.                              *)
Both(a, p, t, K) ==
  /\ a \in Seq(K) /\ p \in Seq(K) /\ t \in Seq(K)
  /\ Len(a) \in Nat /\ Len(p) \in Nat /\ Len(t) = Len(a) + Len(p)
  /\ \A k \in 1..Len(a) : t[k] = a[k]
  /\ \A k \in 1..Len(p) : t[Len(a) + k] = p[k]

LEMMA BothAre ==
  ASSUME NEW K, NEW a \in Seq(K), NEW p \in Seq(K), NEW t, t = Behind(a, p)
  PROVE  Both(a, p, t, K)
BY DEF Both, Behind

(* A set of sequences that are as good one behind the other.                *)
Closed(S, K) == S \subseteq Seq(K) /\ <<>> \in S /\ \A a, p \in S : Behind(a, p) \in S

LEMMA FlatIn ==
  ASSUME NEW K, NEW S, Closed(S, K), NEW s \in Seq(S), NEW f, FlatGoes(f, Len(s), s),
         NEW n \in 0..Len(s)
  PROVE  f[n] \in S
<1> DEFINE T == {k \in 0..n : f[k] \in S}
<1>1. Len(s) \in Nat /\ n \in Nat
  OBVIOUS
<1>2. 0 \in T
  BY <1>1 DEF FlatGoes, Closed
<1>3. ASSUME NEW k \in 0..(n - 1), k \in T PROVE k + 1 \in T
  <2>1. k \in 0..(Len(s) - 1) /\ k + 1 \in 1..Len(s) /\ k + 1 \in 0..n
    BY <1>1
  <2>2. f[k + 1] = Behind(f[k], s[k + 1]) /\ f[k] \in S /\ s[k + 1] \in S
    BY <1>3, <2>1 DEF FlatGoes
  <2>3. f[k + 1] \in S
    BY <2>2 DEF Closed
  <2>. QED  BY <2>1, <2>3
<1> HIDE DEF T
<1>4. n \in T
  BY <1>1, <1>2, <1>3, Induction
<1>. QED  BY <1>4 DEF T

LEMMA Mapped ==
  ASSUME NEW g, NEW n \in Nat, DOMAIN g = 1..n, g = [i \in 1..n |-> g[i]],
         NEW S, \A i \in 1..n : g[i] \in S
  PROVE  g \in Seq(S) /\ Len(g) = n
<1>1. g \in [1..n -> S]
  OBVIOUS
<1>2. g \in UNION {[1..m -> S] : m \in Nat}
  BY <1>1
<1>3. g \in Seq(S)
  BY <1>2, SeqDef, Zenon
<1>4. Len(g) \in Nat /\ DOMAIN g = 1..Len(g)
  BY <1>3, LenProperties
<1>. QED  BY <1>3, <1>4

LEMMA FlattenIn ==
  ASSUME NEW K, NEW S, Closed(S, K), NEW s \in Seq(S)
  PROVE  FlattenSeq(s) \in S
<1>1. s \in Seq(Seq(K))
  <2>1. Len(s) \in Nat /\ DOMAIN s = 1..Len(s) /\ s = [i \in 1..Len(s) |-> s[i]]
    OBVIOUS
  <2>2. \A i \in 1..Len(s) : s[i] \in Seq(K)
    BY <2>1 DEF Closed
  <2>. QED  BY <2>1, <2>2, Mapped
<1>2. PICK f : FlatGoes(f, Len(s), s) /\ FlattenSeq(s) = f[Len(s)]
  BY <1>1, Flat
<1>3. Len(s) \in 0..Len(s)
  OBVIOUS
<1>. QED  BY <1>2, <1>3, FlatIn

LEMMA AllClosed ==
  ASSUME NEW K
  PROVE  Closed(Seq(K), K)
<1>1. <<>> \in Seq(K)
  <2> DEFINE e == <<>>
  <2> HIDE DEF e
  <2>1. e \in Seq(K)
    BY DEF e
  <2>. QED  BY <2>1 DEF e
<1>2. ASSUME NEW a \in Seq(K), NEW p \in Seq(K) PROVE Behind(a, p) \in Seq(K)
  BY BothAre DEF Both
<1>. QED  BY <1>1, <1>2 DEF Closed

-----------------------------------------------------------------------------
Has(w, x) == \E n \in DOMAIN w : w[n] = x

LEMMA HasBehind ==
  ASSUME NEW K, NEW a, NEW p, NEW t, Both(a, p, t, K), NEW x
  PROVE  /\ Has(t, x) <=> Has(a, x) \/ Has(p, x)
         /\ Once(a, x) /\ Once(p, x) /\ ~(Has(a, x) /\ Has(p, x)) => Once(t, x)
<1> DEFINE l == Len(a)
           m == Len(p)
<1>1. DOMAIN a = 1..l /\ DOMAIN p = 1..m /\ DOMAIN t = 1..(l + m) /\ l \in Nat /\ m \in Nat
      /\ (\A k \in 1..l : t[k] = a[k]) /\ \A k \in 1..m : t[l + k] = p[k]
  BY DEF Both
<1> HIDE DEF l, m
<1>2. \A n \in 1..(l + m) : n \in 1..l \/ (n - l \in 1..m /\ t[n] = p[n - l] /\ l + (n - l) = n)
  <2> SUFFICES ASSUME NEW n \in 1..(l + m), n \notin 1..l
               PROVE  n - l \in 1..m /\ t[n] = p[n - l] /\ l + (n - l) = n
    OBVIOUS
  <2>1. n - l \in 1..m /\ l + (n - l) = n
    BY <1>1
  <2> DEFINE k == n - l
  <2> HIDE DEF k
  <2>2. t[l + k] = p[k]
    BY <1>1, <2>1 DEF k
  <2>. QED  BY <2>1, <2>2 DEF k
<1>3. \A k \in 1..m : l + k \in 1..(l + m)
  BY <1>1
<1>4. \A k \in 1..l : k \in 1..(l + m)
  BY <1>1
<1>5. Has(t, x) <=> Has(a, x) \/ Has(p, x)
  <2>1. Has(t, x) => Has(a, x) \/ Has(p, x)
    BY <1>1, <1>2 DEF Has
  <2>2. Has(a, x) => Has(t, x)
    BY <1>1, <1>4 DEF Has
  <2>3. Has(p, x) => Has(t, x)
    BY <1>1, <1>3 DEF Has
  <2>. QED  BY <2>1, <2>2, <2>3
<1>6. ASSUME Once(a, x), Once(p, x), ~(Has(a, x) /\ Has(p, x)) PROVE Once(t, x)
  <2> SUFFICES ASSUME NEW i \in 1..(l + m), NEW j \in 1..(l + m), t[i] = x, t[j] = x PROVE i = j
    BY <1>1 DEF Once
  <2>1. CASE i \in 1..l /\ j \in 1..l
    BY <1>1, <1>6, <2>1 DEF Once
  <2>2. CASE i \notin 1..l /\ j \notin 1..l
    <3>1. i - l \in DOMAIN p /\ p[i - l] = x
      BY <1>1, <1>2, <2>2
    <3>2. j - l \in DOMAIN p /\ p[j - l] = x
      BY <1>1, <1>2, <2>2
    <3>3. i - l = j - l
      BY <1>6, <3>1, <3>2 DEF Once
    <3>. QED  BY <1>1, <3>3
  <2>3. CASE i \in 1..l /\ j \notin 1..l
    <3>1. a[i] = x /\ i \in DOMAIN a
      BY <1>1, <2>3
    <3>2. j - l \in DOMAIN p /\ p[j - l] = x
      BY <1>1, <1>2, <2>3
    <3>. QED  BY <1>6, <3>1, <3>2 DEF Has
  <2>4. CASE i \notin 1..l /\ j \in 1..l
    <3>1. a[j] = x /\ j \in DOMAIN a
      BY <1>1, <2>4
    <3>2. i - l \in DOMAIN p /\ p[i - l] = x
      BY <1>1, <1>2, <2>4
    <3>. QED  BY <1>6, <3>1, <3>2 DEF Has
  <2>. QED  BY <2>1, <2>2, <2>3, <2>4
<1>. QED  BY <1>5, <1>6

-----------------------------------------------------------------------------
(* The lines of each round.                                                 *)
Kinds(r) ==
  IF r = 0 THEN {"title", "comment"}
  ELSE IF r = 1 THEN {"sub-title"}
  ELSE IF r = 2 THEN {"<desc>", "text", "</desc>"}
  ELSE IF r = 3 THEN {"category"}
  ELSE IF r = 4 THEN {"language", "comment"}
  ELSE IF r = 5 THEN {"video", "crid", "exit"}
  ELSE IF r = 6 THEN {"audio"}
  ELSE {"subtitles", "rating"}

LEMMA KindsAreLines == \A r \in 0..7 : Kinds(r) \subseteq Line
BY DEF Kinds, Line

LEMMA LinesTyped ==
  ASSUME NEW K, NEW x \in K, NEW c
  PROVE  Lines(c, x) \in Seq(K)
<1>1. <<>> \in Seq(K) /\ <<x>> \in Seq(K)
  <2>1. <<>> \in Seq(K)
    BY AllClosed DEF Closed
  <2>2. <<x>> \in Seq(K)
    OBVIOUS
  <2>. QED  BY <2>1, <2>2
<1>. QED  BY <1>1 DEF Lines

LEMMA LongTyped ==
  ASSUME NEW d
  PROVE  LongLines(d) \in Seq({"<desc>", "text", "</desc>"})
<1> DEFINE K == {"<desc>", "text", "</desc>"}
           some == d.number # 0 \/ d.last # 0 \/ d.items \/ d.text
           a == Lines(some /\ d.number = 0, "<desc>")
           b == Lines(d.items, "text")
           c == Lines(d.text, "text")
           e == Lines(some /\ d.number = d.last, "</desc>")
<1>1. LongLines(d) = a \o b \o c \o e
  BY DEF LongLines
<1>2. a \in Seq(K) /\ b \in Seq(K) /\ c \in Seq(K) /\ e \in Seq(K)
  BY LinesTyped
<1> HIDE DEF a, b, c, e
<1>. QED  BY <1>1, <1>2

LEMMA ContentTyped ==
  ASSUME NEW d, NEW C, d.codes \in Seq(C)
  PROVE  ContentLines(d) \in Seq({"category"})
<1> DEFINE codes == d.codes
           printed == {i \in 1..(Len(codes) - 1) :
                         /\ codes[i].code > 0 /\ codes[i].named
                         /\ \A j \in 1..(i - 1) : codes[j].code # codes[i].code}
           g == [i \in DOMAIN codes |-> Lines(i \in printed, "category")]
<1>1. ContentLines(d) = FlattenSeq(g)
  BY DEF ContentLines
<1>2. DOMAIN codes = 1..Len(codes) /\ Len(codes) \in Nat
  OBVIOUS
<1>3. DOMAIN g = 1..Len(codes) /\ g = [i \in 1..Len(codes) |-> g[i]]
  BY <1>2
<1>4. \A i \in 1..Len(codes) : g[i] \in Seq({"category"})
  BY <1>2, LinesTyped
<1> HIDE DEF g, codes
<1>5. g \in Seq(Seq({"category"}))
  BY <1>2, <1>3, <1>4, Mapped
<1>. QED  BY <1>1, <1>5, FlattenIn, AllClosed

LEMMA RatingTyped ==
  ASSUME NEW d, NEW C, d.ratings \in Seq(C)
  PROVE  RatingLines(d) \in Seq({"subtitles", "rating"})
<1> DEFINE K == {"subtitles", "rating"}
           g == [i \in DOMAIN d.ratings |-> Lines(d.ratings[i] \in 1..15, "rating")]
           n == Len(d.ratings)
<1>1. RatingLines(d) = FlattenSeq(g)
  BY DEF RatingLines
<1>2. DOMAIN d.ratings = 1..n /\ n \in Nat
  OBVIOUS
<1>3. DOMAIN g = 1..n /\ g = [i \in 1..n |-> g[i]]
  BY <1>2
<1>4. \A i \in 1..n : g[i] \in Seq(K)
  BY <1>2, LinesTyped
<1> HIDE DEF g, n, K
<1>5. g \in Seq(Seq(K))
  BY <1>2, <1>3, <1>4, Mapped
<1>6. FlattenSeq(g) \in Seq(K)
  BY <1>5, FlattenIn, AllClosed
<1>. QED  BY <1>1, <1>6 DEF K

LEMMA CridTyped ==
  ASSUME NEW d, NEW C, d.places \in Seq(C), NEW K, "crid" \in K, "exit" \in K
  PROVE  CridLines(d) \in Seq(K)
<1> DEFINE g == [i \in DOMAIN d.places |->
                   CASE d.places[i] = "here" -> <<"crid">>
                     [] d.places[i] = "cit"  -> <<"exit">>
                     [] OTHER                -> <<>>]
           n == Len(d.places)
<1>1. CridLines(d) = FlattenSeq(g)
  BY DEF CridLines
<1>2. DOMAIN d.places = 1..n /\ n \in Nat
  OBVIOUS
<1>3. DOMAIN g = 1..n /\ g = [i \in 1..n |-> g[i]]
  BY <1>2
<1>4. \A i \in 1..n : g[i] \in Seq(K)
  <2>1. <<"crid">> \in Seq(K) /\ <<"exit">> \in Seq(K)
    OBVIOUS
  <2>2. <<>> \in Seq(K)
    BY AllClosed DEF Closed
  <2> DEFINE e == <<>>
             u == <<"crid">>
             v == <<"exit">>
  <2>3. \A i \in 1..n : g[i] = e \/ g[i] = u \/ g[i] = v
    BY <1>2
  <2> HIDE DEF e, u, v, g
  <2>4. e \in Seq(K) /\ u \in Seq(K) /\ v \in Seq(K)
    BY <2>1, <2>2 DEF e, u, v
  <2>. QED  BY <2>3, <2>4
<1> HIDE DEF g, n
<1>5. g \in Seq(Seq(K))
  BY <1>2, <1>3, <1>4, Mapped
<1>6. FlattenSeq(g) \in Seq(K)
  BY <1>5, FlattenIn, AllClosed
<1>. QED  BY <1>1, <1>6

LEMMA ComponentTyped ==
  ASSUME NEW ds, NEW i, NEW r \in 0..7
  PROVE  ComponentLines(ds, i, r) \in Seq(Kinds(r))
<1> DEFINE w == ComponentLines(ds, i, r)
           c == FirstOfStream(ds, i)
<1>0. \A K : <<>> \in Seq(K)
  BY AllClosed DEF Closed
<1>1. CASE r = 4
  <2> DEFINE la == <<"language">>
             co == <<"comment">>
             e == <<>>
  <2>1. w = la \/ w = co \/ w = e
    BY <1>1 DEF ComponentLines
  <2>2. la \in Seq(Kinds(r)) /\ co \in Seq(Kinds(r))
    BY <1>1 DEF Kinds
  <2> HIDE DEF w, la, co, e
  <2>. QED  BY <1>0, <2>1, <2>2 DEF e, w
<1>2. CASE r = 5
  <2> DEFINE v == Lines(c, "video")
             e == <<>>
  <2>1. w = v \/ w = e
    BY <1>2 DEF ComponentLines
  <2>2. v \in Seq(Kinds(r))
    BY <1>2, LinesTyped DEF Kinds
  <2> HIDE DEF w, v, e
  <2>. QED  BY <1>0, <2>1, <2>2 DEF e, w
<1>3. CASE r = 6
  <2> DEFINE v == Lines(c, "audio")
             e == <<>>
  <2>1. w = v \/ w = e
    BY <1>3 DEF ComponentLines
  <2>2. v \in Seq(Kinds(r))
    BY <1>3, LinesTyped DEF Kinds
  <2> HIDE DEF w, v, e
  <2>. QED  BY <1>0, <2>1, <2>2 DEF e, w
<1>4. CASE r = 7
  <2> DEFINE v == <<"subtitles">>
             e == <<>>
  <2>1. w = v \/ w = e
    BY <1>4 DEF ComponentLines
  <2>2. v \in Seq(Kinds(r))
    BY <1>4 DEF Kinds
  <2> HIDE DEF w, v, e
  <2>. QED  BY <1>0, <2>1, <2>2 DEF e, w
<1>5. CASE r \in 0..3
  <2>1. w = <<>>
    BY <1>5 DEF ComponentLines
  <2> HIDE DEF w
  <2> DEFINE e == <<>>
  <2> HIDE DEF e
  <2>2. e \in Seq(Kinds(r))
    BY <1>0 DEF e
  <2>. QED  BY <2>1, <2>2 DEF e, w
<1>. QED  BY <1>1, <1>2, <1>3, <1>4, <1>5

LEMMA OfDescriptor ==
  ASSUME NEW d \in Descriptor
  PROVE  /\ d.tag = "content" => d.codes \in Seq([code : 0..255, named : BOOLEAN])
         /\ d.tag = "rating" => d.ratings \in Seq(0..255)
         /\ d.tag = "crids" => d.places \in Seq({"here", "cit", "other"})
         /\ d.tag = "extended" => d.number \in 0..15 /\ d.last \in 0..15
         /\ d.tag = "component" => d.stream \in {"video", "audio", "teletext", "other"}
<1>1. \A x \in [tag : {"short"}, name : BOOLEAN, text : BOOLEAN] : x.tag = "short"
  OBVIOUS
<1>2. \A x \in [tag : {"extended"}, number : 0..15, last : 0..15, items : BOOLEAN, text : BOOLEAN] :
        x.tag = "extended" /\ x.number \in 0..15 /\ x.last \in 0..15
  OBVIOUS
<1>3. \A x \in [tag : {"component"}, stream : {"video", "audio", "teletext", "other"}] :
        x.tag = "component" /\ x.stream \in {"video", "audio", "teletext", "other"}
  OBVIOUS
<1>4. \A x \in [tag : {"content"}, codes : Seq([code : 0..255, named : BOOLEAN])] :
        x.tag = "content" /\ x.codes \in Seq([code : 0..255, named : BOOLEAN])
  OBVIOUS
<1>5. \A x \in [tag : {"rating"}, ratings : Seq(0..255)] : x.tag = "rating" /\ x.ratings \in Seq(0..255)
  OBVIOUS
<1>6. \A x \in [tag : {"crids"}, places : Seq({"here", "cit", "other"})] :
        x.tag = "crids" /\ x.places \in Seq({"here", "cit", "other"})
  OBVIOUS
<1>7. \A x \in [tag : {"silent", "unknown"}] : x.tag \in {"silent", "unknown"}
  OBVIOUS
<1>. QED  BY <1>1, <1>2, <1>3, <1>4, <1>5, <1>6, <1>7 DEF Descriptor

(* What one turn of the loop prints, in each round.                         *)
LEMMA DescriptorTyped ==
  ASSUME NEW ds \in Seq(Descriptor), NEW i \in DOMAIN ds, NEW r \in 0..7
  PROVE  DescriptorLines(ds, i, r) \in Seq(Kinds(r))
<1> DEFINE d == ds[i]
           w == DescriptorLines(ds, i, r)
<1>1. d \in Descriptor
  OBVIOUS
<1>2. w = CASE d.tag = "short" /\ r = 0    -> Lines(d.name, "title")
        [] d.tag = "short" /\ r = 1    -> Lines(d.text, "sub-title")
        [] d.tag = "extended" /\ r = 2 -> LongLines(d)
        [] d.tag = "content" /\ r = 3  -> ContentLines(d)
        [] d.tag = "component"             -> ComponentLines(ds, i, r)
        [] d.tag = "crids" /\ r = 5    -> CridLines(d)
        [] d.tag = "rating" /\ r = 7   -> RatingLines(d)
        [] d.tag = "unknown" /\ r = 0  -> <<"comment">>
        [] OTHER                           -> <<>>
  BY DEF DescriptorLines
<1>3. Lines(d.name, "title") \in Seq({"title", "comment"})
  BY LinesTyped
<1>4. Lines(d.text, "sub-title") \in Seq({"sub-title"})
  BY LinesTyped
<1>5. LongLines(d) \in Seq({"<desc>", "text", "</desc>"})
  BY LongTyped
<1>6. d.tag = "content" => ContentLines(d) \in Seq({"category"})
  BY <1>1, OfDescriptor, ContentTyped
<1>7. ComponentLines(ds, i, r) \in Seq(Kinds(r))
  BY ComponentTyped
<1>8. d.tag = "crids" => CridLines(d) \in Seq({"video", "crid", "exit"})
  BY <1>1, OfDescriptor, CridTyped
<1>9. d.tag = "rating" => RatingLines(d) \in Seq({"subtitles", "rating"})
  BY <1>1, OfDescriptor, RatingTyped
<1> DEFINE co == <<"comment">>
           e == <<>>
<1>10. co \in Seq({"title", "comment"})
  OBVIOUS
<1>11. e \in Seq(Kinds(r))
  BY AllClosed DEF Closed
<1>12. \/ w = e \/ w = ComponentLines(ds, i, r)
       \/ r = 0 /\ w = Lines(d.name, "title")
       \/ r = 0 /\ w = co
       \/ r = 1 /\ w = Lines(d.text, "sub-title")
       \/ r = 2 /\ w = LongLines(d)
       \/ r = 3 /\ d.tag = "content" /\ w = ContentLines(d)
       \/ r = 5 /\ d.tag = "crids" /\ w = CridLines(d)
       \/ r = 7 /\ d.tag = "rating" /\ w = RatingLines(d)
  BY <1>2
<1> HIDE DEF d, w, e, co
<1>13. CASE r = 0
  <2>1. Kinds(r) = {"title", "comment"}
    BY <1>13 DEF Kinds
  <2>. QED  BY <1>3, <1>7, <1>10, <1>11, <1>12, <1>13, <2>1 DEF w
<1>14. CASE r = 1
  <2>1. Kinds(r) = {"sub-title"}
    BY <1>14 DEF Kinds
  <2>. QED  BY <1>4, <1>7, <1>11, <1>12, <1>14, <2>1 DEF w
<1>15. CASE r = 2
  <2>1. Kinds(r) = {"<desc>", "text", "</desc>"}
    BY <1>15 DEF Kinds
  <2>. QED  BY <1>5, <1>7, <1>11, <1>12, <1>15, <2>1 DEF w
<1>16. CASE r = 3
  <2>1. Kinds(r) = {"category"}
    BY <1>16 DEF Kinds
  <2>. QED  BY <1>6, <1>7, <1>11, <1>12, <1>16, <2>1 DEF w
<1>17. CASE r = 5
  <2>1. Kinds(r) = {"video", "crid", "exit"}
    BY <1>17 DEF Kinds
  <2>. QED  BY <1>8, <1>7, <1>11, <1>12, <1>17, <2>1 DEF w
<1>18. CASE r = 7
  <2>1. Kinds(r) = {"subtitles", "rating"}
    BY <1>18 DEF Kinds
  <2>. QED  BY <1>9, <1>7, <1>11, <1>12, <1>18, <2>1 DEF w
<1>19. CASE r = 4 \/ r = 6
  BY <1>7, <1>11, <1>12, <1>19 DEF w
<1>. QED  BY <1>13, <1>14, <1>15, <1>16, <1>17, <1>18, <1>19

(* The turns of one round, and the eight rounds.                            *)
Turns(ds, r) == [i \in DOMAIN ds |-> DescriptorLines(ds, i, r)]
Round(ds, r) == FlattenSeq(Turns(ds, r))
Rounds(ds) == [n \in 1..8 |-> Round(ds, n - 1)]

LEMMA TurnsTyped ==
  ASSUME NEW ds \in Seq(Descriptor), NEW r \in 0..7
  PROVE  /\ Turns(ds, r) \in Seq(Seq(Kinds(r))) /\ Len(Turns(ds, r)) = Len(ds)
         /\ Round(ds, r) \in Seq(Kinds(r))
<1> DEFINE g == Turns(ds, r)
           n == Len(ds)
<1>1. DOMAIN ds = 1..n /\ n \in Nat
  OBVIOUS
<1>2. DOMAIN g = 1..n /\ g = [i \in 1..n |-> g[i]]
  BY <1>1 DEF Turns
<1>3. \A i \in 1..n : g[i] \in Seq(Kinds(r))
  BY <1>1, DescriptorTyped DEF Turns
<1> HIDE DEF g
<1>4. g \in Seq(Seq(Kinds(r))) /\ Len(g) = n
  BY <1>1, <1>2, <1>3, Mapped
<1>5. FlattenSeq(g) \in Seq(Kinds(r))
  BY <1>4, FlattenIn, AllClosed
<1>. QED  BY <1>4, <1>5 DEF Round, g

LEMMA RoundsTyped ==
  ASSUME NEW ds \in Seq(Descriptor)
  PROVE  /\ Rounds(ds) \in Seq(Seq(Line)) /\ Len(Rounds(ds)) = 8
         /\ AllLines(ds) = FlattenSeq(Rounds(ds)) /\ AllLines(ds) \in Seq(Line)
         /\ \A n \in 1..8 : Rounds(ds)[n] = Round(ds, n - 1)
<1> DEFINE g == Rounds(ds)
<1>1. AllLines(ds) = FlattenSeq(g)
  BY DEF AllLines, Rounds, Round, Turns
<1>2. DOMAIN g = 1..8 /\ g = [n \in 1..8 |-> g[n]] /\ \A n \in 1..8 : g[n] = Round(ds, n - 1)
  BY DEF Rounds
<1>3. ASSUME NEW n \in 1..8 PROVE g[n] \in Seq(Line)
  <2> DEFINE r == n - 1
             w == Round(ds, r)
  <2>1. r \in 0..7
    OBVIOUS
  <2>2. g[n] = w
    BY <1>2
  <2> HIDE DEF r, g
  <2>3. w \in Seq(Kinds(r)) /\ Kinds(r) \subseteq Line
    BY <2>1, TurnsTyped, KindsAreLines
  <2> HIDE DEF w
  <2>4. \A i \in 1..Len(w) : w[i] \in Line
    BY <2>3
  <2>5. DOMAIN w = 1..Len(w) /\ w = [i \in 1..Len(w) |-> w[i]] /\ Len(w) \in Nat
    BY <2>3
  <2>6. w \in Seq(Line)
    BY <2>4, <2>5, Mapped
  <2>. QED  BY <2>2, <2>6
<1> HIDE DEF g
<1>4. g \in Seq(Seq(Line)) /\ Len(g) = 8
  BY <1>2, <1>3, Mapped
<1>5. FlattenSeq(g) \in Seq(Line)
  BY <1>4, FlattenIn, AllClosed
<1>. QED  BY <1>1, <1>2, <1>4, <1>5 DEF g

LEMMA BodyTyped ==
  ASSUME NEW ds \in Seq(Descriptor)
  PROVE  Body(ds) \in Seq(Line)
<1> DEFINE all == AllLines(ds)
           n == SelectInSeq(all, LAMBDA l : l = "exit")
<1>1. all \in Seq(Line)
  BY RoundsTyped
<1>2. CASE ~Exits(ds)
  BY <1>1, <1>2 DEF Body
<1>3. CASE Exits(ds)
  <2> DEFINE I == {i \in 1..Len(all) : all[i] = "exit"}
  <2>1. I # {}
    BY <1>1, <1>3 DEF Exits, Contains
  <2>2. n = Min(I)
    BY <2>1 DEF SelectInSeq
  <2>3. n \in I
    <3>1. I \subseteq Nat
      BY <1>1
    <3>2. \E x \in I : \A y \in I : x <= y
      BY <2>1, <3>1, Smallest
    <3>. QED  BY <2>2, <3>2 DEF Min
  <2>4. Body(ds) = SubSeq(all, 1, n - 1)
    BY <1>3 DEF Body
  <2> HIDE DEF n, all
  <2>5. n \in 1..Len(all)
    BY <2>3
  <2>. QED  BY <1>1, <2>4, <2>5, SubSeqProperties
<1>. QED  BY <1>2, <1>3

-----------------------------------------------------------------------------
LEMMA NotIn ==
  ASSUME NEW K, NEW w \in Seq(K), NEW x, x \notin K
  PROVE  ~Has(w, x) /\ Once(w, x)
<1>1. \A n \in DOMAIN w : w[n] \in K
  OBVIOUS
<1>. QED  BY <1>1 DEF Has, Once

LEMMA EmptyHas ==
  ASSUME NEW w, w = <<>>, NEW x
  PROVE  ~Has(w, x) /\ Once(w, x)
BY DEF Has, Once

LEMMA LinesHas ==
  ASSUME NEW c, NEW y, NEW x, NEW w, w = Lines(c, y)
  PROVE  Once(w, x) /\ (Has(w, x) => c /\ x = y)
<1>1. CASE c
  <2>1. w = <<y>>
    BY <1>1 DEF Lines
  <2>2. DOMAIN w = 1..1 /\ w[1] = y
    BY <2>1
  <2>3. \A m, n \in DOMAIN w : m = n
    BY <2>2
  <2>4. Once(w, x)
    BY <2>3 DEF Once
  <2>5. Has(w, x) => x = y
    BY <2>2 DEF Has
  <2>. QED  BY <1>1, <2>4, <2>5
<1>2. CASE ~c
  <2>1. w = <<>>
    BY <1>2 DEF Lines
  <2>. QED  BY <2>1, EmptyHas
<1>. QED  BY <1>1, <1>2

(* A sequence that has a line is in one that has the sequence.              *)
LEMMA FlattenHas ==
  ASSUME NEW K, NEW s \in Seq(Seq(K)), NEW m \in 1..Len(s), NEW x, Has(s[m], x)
  PROVE  Has(FlattenSeq(s), x)
<1>1. PICK f : FlatGoes(f, Len(s), s) /\ FlattenSeq(s) = f[Len(s)]
  BY Flat
<1> DEFINE last == Len(s)
           T == {k \in 0..last : m <= k => Has(f[k], x)}
<1>2. last \in Nat /\ m \in Nat /\ m >= 1 /\ m <= last
  OBVIOUS
<1>3. 0 \in T
  BY <1>2
<1>4. ASSUME NEW k \in 0..(last - 1), k \in T PROVE k + 1 \in T
  <2> DEFINE a == f[k]
             p == s[k + 1]
             t == f[k + 1]
  <2>1. t = Behind(a, p) /\ k + 1 \in 1..last /\ k \in 0..last /\ k + 1 \in 0..last
    BY <1>1, <1>2 DEF FlatGoes
  <2>2. a \in Seq(K) /\ p \in Seq(K)
    BY <1>1, <2>1, FlatIn, AllClosed
  <2>3. m <= k + 1 => Has(a, x) \/ Has(p, x)
    BY <1>2, <1>4
  <2> HIDE DEF a, p, t
  <2>4. Both(a, p, t, K)
    BY <2>1, <2>2, BothAre
  <2>5. Has(t, x) <=> Has(a, x) \/ Has(p, x)
    BY <2>4, HasBehind
  <2>6. m <= k + 1 => Has(t, x)
    BY <2>3, <2>5
  <2>. QED  BY <2>1, <2>6 DEF t
<1> HIDE DEF T
<1>5. last \in T
  BY <1>2, <1>3, <1>4, Induction
<1>. QED  BY <1>1, <1>2, <1>5 DEF T

(* One of the sequences has a line, once.                                   *)
LEMMA FlattenOnce ==
  ASSUME NEW K, NEW s \in Seq(Seq(K)), NEW x, NEW m,
         \A k \in 1..Len(s) : Once(s[k], x) /\ (Has(s[k], x) => k = m)
  PROVE  Once(FlattenSeq(s), x)
<1>1. PICK f : FlatGoes(f, Len(s), s) /\ FlattenSeq(s) = f[Len(s)]
  BY Flat
<1> DEFINE last == Len(s)
           T == {k \in 0..last : Once(f[k], x) /\ (Has(f[k], x) => m \in 1..k)}
<1>2. last \in Nat
  OBVIOUS
<1>3. 0 \in T
  <2> DEFINE e == f[0]
  <2>1. e = <<>>
    BY <1>1 DEF FlatGoes
  <2> HIDE DEF e
  <2>2. ~Has(e, x) /\ Once(e, x)
    BY <2>1, EmptyHas
  <2>. QED  BY <1>2, <2>2 DEF e
<1>4. ASSUME NEW k \in 0..(last - 1), k \in T PROVE k + 1 \in T
  <2> DEFINE a == f[k]
             p == s[k + 1]
             t == f[k + 1]
  <2>1. t = Behind(a, p) /\ k + 1 \in 1..last /\ k \in 0..last /\ k + 1 \in 0..last
    BY <1>1, <1>2 DEF FlatGoes
  <2>2. a \in Seq(K) /\ p \in Seq(K)
    BY <1>1, <2>1, FlatIn, AllClosed
  <2>3. /\ Once(a, x) /\ (Has(a, x) => m \in 1..k)
        /\ Once(p, x) /\ (Has(p, x) => m = k + 1)
    BY <1>4, <2>1
  <2> HIDE DEF a, p, t
  <2>4. Both(a, p, t, K)
    BY <2>1, <2>2, BothAre
  <2>5. ~(Has(a, x) /\ Has(p, x))
    BY <1>2, <2>3
  <2>6. Once(t, x) /\ (Has(t, x) => Has(a, x) \/ Has(p, x))
    BY <2>3, <2>4, <2>5, HasBehind
  <2>7. Has(t, x) => m \in 1..(k + 1)
    BY <1>2, <2>3, <2>6
  <2>. QED  BY <2>1, <2>6, <2>7 DEF t
<1> HIDE DEF T
<1>5. last \in T
  BY <1>2, <1>3, <1>4, Induction
<1>. QED  BY <1>1, <1>5 DEF T

(* The round a stream is printed in, and what one turn prints of it.        *)
StreamRound(x, r) == (x = "video" /\ r = 5) \/ (x = "audio" /\ r = 6)

LEMMA StreamTurn ==
  ASSUME NEW ds \in Seq(Descriptor), NEW i \in DOMAIN ds, NEW x, NEW r, StreamRound(x, r),
         NEW w, w = DescriptorLines(ds, i, r)
  PROVE  /\ Once(w, x)
         /\ Has(w, x) => ds[i].tag = "component" /\ ds[i].stream = x /\ FirstOfStream(ds, i)
<1> DEFINE d == ds[i]
           first == FirstOfStream(ds, i)
<1>1. d \in Descriptor
  OBVIOUS
<1>2. r \in 0..7 /\ r \in {5, 6} /\ x \in {"video", "audio"}
  BY DEF StreamRound
<1>3. CASE d.tag = "component" /\ d.stream = x
  <2>1. w = Lines(first, x)
    BY <1>2, <1>3 DEF DescriptorLines, ComponentLines, StreamRound
  <2> HIDE DEF first
  <2>. QED  BY <1>3, <2>1, LinesHas DEF first
<1>4. CASE d.tag = "crids" /\ r = 5
  <2>1. w = CridLines(d)
    BY <1>4 DEF DescriptorLines
  <2>2. w \in Seq({"crid", "exit"})
    BY <1>1, <1>4, <2>1, OfDescriptor, CridTyped
  <2>3. x \notin {"crid", "exit"}
    BY <1>2
  <2>. QED  BY <2>2, <2>3, NotIn
<1>5. CASE ~(d.tag = "component" /\ d.stream = x) /\ ~(d.tag = "crids" /\ r = 5)
  <2>1. w = <<>>
    <3>1. CASE d.tag = "component"
      <4>1. d.stream # x
        BY <1>5, <3>1
      <4>. QED  BY <1>2, <3>1, <4>1 DEF DescriptorLines, ComponentLines, StreamRound
    <3>2. CASE d.tag # "component"
      BY <1>2, <1>5, <3>2 DEF DescriptorLines
    <3>. QED  BY <3>1, <3>2
  <2>. QED  BY <2>1, EmptyHas
<1>. QED  BY <1>3, <1>4, <1>5

LEMMA StreamOnce ==
  ASSUME NEW ds \in Seq(Descriptor), NEW x, NEW r, StreamRound(x, r)
  PROVE  Once(Round(ds, r), x)
<1> DEFINE s == Turns(ds, r)
           n == Len(ds)
           Of(i) == ds[i].tag = "component" /\ ds[i].stream = x
<1>1. r \in 0..7
  BY DEF StreamRound
<1>2. s \in Seq(Seq(Kinds(r))) /\ Len(s) = n /\ n \in Nat /\ DOMAIN ds = 1..n
  BY <1>1, TurnsTyped, SMTT(30)
<1>3. ASSUME NEW i \in 1..n
      PROVE  Once(s[i], x) /\ (Has(s[i], x) => Of(i) /\ \A j \in 1..(i - 1) : ~Of(j))
  <2> DEFINE w == s[i]
  <2>1. w = DescriptorLines(ds, i, r)
    BY <1>2 DEF Turns
  <2> HIDE DEF w, s
  <2>2. Once(w, x) /\ (Has(w, x) => ds[i].tag = "component" /\ ds[i].stream = x /\ FirstOfStream(ds, i))
    BY <1>2, <2>1, StreamTurn
  <2>. QED  BY <2>2 DEF FirstOfStream, w
<1> HIDE DEF s, Of
<1>4. CASE \E m \in 1..n : Has(s[m], x)
  <2>1. PICK m \in 1..n : Has(s[m], x)
    BY <1>4
  <2>2. ASSUME NEW k \in 1..n, Has(s[k], x) PROVE k = m
    <3>1. Of(k) /\ Of(m) /\ (\A j \in 1..(k - 1) : ~Of(j)) /\ \A j \in 1..(m - 1) : ~Of(j)
      BY <1>3, <2>1, <2>2
    <3>2. ~(k < m) /\ ~(m < k)
      BY <1>2, <3>1
    <3>. QED  BY <1>2, <3>2
  <2>3. \A k \in 1..Len(s) : Once(s[k], x) /\ (Has(s[k], x) => k = m)
    BY <1>2, <1>3, <2>2
  <2>4. Once(FlattenSeq(s), x)
    BY <1>2, <2>3, FlattenOnce
  <2>. QED  BY <2>4 DEF Round, s
<1>5. CASE ~\E m \in 1..n : Has(s[m], x)
  <2>1. \A k \in 1..Len(s) : Once(s[k], x) /\ (Has(s[k], x) => k = 0)
    BY <1>2, <1>3, <1>5
  <2>2. Once(FlattenSeq(s), x)
    BY <1>2, <2>1, FlattenOnce
  <2>. QED  BY <2>2 DEF Round, s
<1>. QED  BY <1>4, <1>5

LEMMA PrintsStreamOnce ==
  ASSUME NEW ds \in Seq(Descriptor), NEW x, NEW r, StreamRound(x, r)
  PROVE  Once(AllLines(ds), x)
<1> DEFINE s == Rounds(ds)
<1>1. s \in Seq(Seq(Line)) /\ Len(s) = 8 /\ AllLines(ds) = FlattenSeq(s)
      /\ \A n \in 1..8 : s[n] = Round(ds, n - 1)
  BY RoundsTyped
<1> HIDE DEF s
<1>2. ASSUME NEW k \in 1..8 PROVE Once(s[k], x) /\ (Has(s[k], x) => k = r + 1)
  <2> DEFINE q == k - 1
             w == Round(ds, q)
  <2>1. q \in 0..7 /\ s[k] = w
    BY <1>1
  <2>2. CASE k = r + 1
    <3>1. q = r
      BY <2>2 DEF StreamRound
    <3>. QED  BY <2>1, <2>2, <3>1, StreamOnce
  <2>3. CASE k # r + 1
    <3>1. q # r
      BY <2>3 DEF StreamRound
    <3> HIDE DEF q
    <3>2. x \notin Kinds(q)
      BY <2>1, <3>1 DEF Kinds, StreamRound
    <3>3. w \in Seq(Kinds(q))
      BY <2>1, TurnsTyped
    <3> HIDE DEF w
    <3>4. ~Has(w, x) /\ Once(w, x)
      BY <3>2, <3>3, NotIn
    <3>. QED  BY <2>1, <3>4
  <2>. QED  BY <2>2, <2>3
<1>3. \A k \in 1..Len(s) : Once(s[k], x) /\ (Has(s[k], x) => k = r + 1)
  BY <1>1, <1>2
<1>4. Once(FlattenSeq(s), x)
  BY <1>1, <1>3, FlattenOnce
<1>. QED  BY <1>1, <1>4

-----------------------------------------------------------------------------
(* A title with nothing but comments before it.                             *)
Leads(w) == \E n \in DOMAIN w : w[n] = "title" /\ \A m \in 1..(n - 1) : w[m] = "comment"

LEMMA LeadsBehind ==
  ASSUME NEW K, NEW a, NEW p, NEW t, Both(a, p, t, K), Leads(a)
  PROVE  Leads(t)
<1>1. DOMAIN a = 1..Len(a) /\ DOMAIN t = 1..(Len(a) + Len(p)) /\ Len(a) \in Nat /\ Len(p) \in Nat
  BY DEF Both
<1>2. PICK n \in DOMAIN a : a[n] = "title" /\ \A m \in 1..(n - 1) : a[m] = "comment"
  BY DEF Leads
<1>3. n \in DOMAIN t /\ t[n] = "title"
  BY <1>1, <1>2 DEF Both
<1>4. \A m \in 1..(n - 1) : m \in 1..Len(a)
  BY <1>1
<1>5. \A m \in 1..(n - 1) : t[m] = "comment"
  BY <1>2, <1>4 DEF Both
<1>. QED  BY <1>3, <1>5 DEF Leads

LEMMA FirstTitle ==
  ASSUME NEW w \in Seq({"title", "comment"}), Has(w, "title")
  PROVE  Leads(w)
<1> DEFINE U == {n \in DOMAIN w : w[n] = "title"}
<1>1. U \subseteq Nat /\ U # {}
  BY DEF Has
<1>2. PICK n \in U : \A y \in U : n <= y
  BY <1>1, Smallest
<1>3. ASSUME NEW m \in 1..(n - 1) PROVE w[m] = "comment"
  <2>1. m \in DOMAIN w /\ m \notin U
    BY <1>2
  <2>. QED  BY <2>1
<1>. QED  BY <1>2, <1>3 DEF Leads

LEMMA TitleRound ==
  ASSUME NEW ds \in Seq(Descriptor), Titled(ds)
  PROVE  Leads(Round(ds, 0))
<1> DEFINE s == Turns(ds, 0)
           x == "title"
<1>1. s \in Seq(Seq({"title", "comment"})) /\ Len(s) = Len(ds) /\ Round(ds, 0) \in Seq({"title", "comment"})
  <2> DEFINE r == 0
  <2>1. r \in 0..7 /\ Kinds(r) = {"title", "comment"}
    BY DEF Kinds
  <2> HIDE DEF r
  <2>2. Turns(ds, r) \in Seq(Seq(Kinds(r))) /\ Len(Turns(ds, r)) = Len(ds) /\ Round(ds, r) \in Seq(Kinds(r))
    BY <2>1, TurnsTyped
  <2>. QED  BY <2>1, <2>2 DEF r
<1>2. PICK m \in DOMAIN ds : ds[m].tag = "short" /\ ds[m].name
  BY DEF Titled
<1>3. s[m] = <<x>>
  BY <1>2 DEF Turns, DescriptorLines, Lines
<1>4. m \in 1..Len(s)
  BY <1>1
<1> DEFINE w == s[m]
<1> HIDE DEF s
<1>5. Has(w, x)
  <2>1. DOMAIN w = 1..1 /\ w[1] = x
    BY <1>3
  <2>. QED  BY <2>1 DEF Has
<1>6. Has(FlattenSeq(s), x)
  BY <1>1, <1>4, <1>5, FlattenHas
<1>. QED  BY <1>1, <1>6, FirstTitle DEF Round, s

LEMMA PrintsTitleFirst ==
  ASSUME NEW ds \in Seq(Descriptor), Titled(ds)
  PROVE  Leads(AllLines(ds))
<1> DEFINE s == Rounds(ds)
<1>1. s \in Seq(Seq(Line)) /\ Len(s) = 8 /\ AllLines(ds) = FlattenSeq(s) /\ s[1] = Round(ds, 0)
  BY RoundsTyped
<1> HIDE DEF s
<1>2. PICK f : FlatGoes(f, Len(s), s) /\ FlattenSeq(s) = f[Len(s)]
  BY <1>1, Flat
<1> DEFINE T == {k \in 0..8 : k = 0 \/ Leads(f[k])}
<1>3. 0 \in T
  OBVIOUS
<1>4. ASSUME NEW k \in 0..(8 - 1), k \in T PROVE k + 1 \in T
  <2> DEFINE a == f[k]
             p == s[k + 1]
             t == f[k + 1]
  <2>1. t = Behind(a, p) /\ k + 1 \in 1..8 /\ k \in 0..8 /\ k + 1 \in 0..8 /\ k \in 0..Len(s)
    BY <1>1, <1>2 DEF FlatGoes
  <2>2. a \in Seq(Line) /\ p \in Seq(Line)
    <3>0. \A i \in 1..8 : s[i] \in Seq(Line)
      <4> SUFFICES ASSUME NEW i \in 1..8 PROVE s[i] \in Seq(Line)
        OBVIOUS
      <4>1. s \in Seq(Seq(Line)) /\ i \in 1..Len(s)
        BY <1>1
      <4>. QED  BY <4>1, ElementOfSeq
    <3>1. p \in Seq(Line)
      BY <2>1, <3>0
    <3>2. Closed(Seq(Line), Line)
      BY AllClosed
    <3>3. a \in Seq(Line)
      BY <1>1, <1>2, <2>1, <3>2, FlatIn
    <3>. QED  BY <3>1, <3>3
  <2>3. CASE k = 0
    <3>1. a = <<>> /\ p = Round(ds, 0)
      BY <1>1, <1>2, <2>3 DEF FlatGoes
    <3> HIDE DEF a, p
    <3>2. t = p
      BY <2>1, <2>2, <3>1, ConcatEmptySeq DEF Behind
    <3>. QED  BY <2>1, <3>1, <3>2, TitleRound
  <2>4. CASE k # 0
    <3>1. Leads(a)
      BY <1>4, <2>4
    <3> HIDE DEF a, p, t
    <3>2. Leads(t)
      BY <2>1, <2>2, <3>1, BothAre, LeadsBehind
    <3>. QED  BY <2>1, <3>2 DEF t
  <2>. QED  BY <2>3, <2>4
<1> HIDE DEF T
<1>5. 8 \in T
  BY <1>3, <1>4, Induction
<1>. QED  BY <1>1, <1>2, <1>5 DEF T

-----------------------------------------------------------------------------
(* What Nested asks of each line, and whether a description is left open.   *)
Inner(w) ==
  \A n \in DOMAIN w :
    /\ w[n] = "<desc>" => ~OpenAt(w, n)
    /\ w[n] \in {"text", "</desc>"} => OpenAt(w, n)

Open(w) == OpenAt(w, Len(w) + 1)

LEMMA NestedIs == \A w : Nested(w) <=> Inner(w) /\ ~Open(w)
BY DEF Nested, Inner, Open

(* What comes before a line tells whether it is inside of a description.    *)
LEMMA SameOpen ==
  ASSUME NEW l \in Nat, NEW a, NEW t, \A k \in 1..l : t[k] = a[k], NEW n \in 1..(l + 1)
  PROVE  OpenAt(t, n) <=> OpenAt(a, n)
<1>1. \A k \in 1..(n - 1) : t[k] = a[k]
  OBVIOUS
<1>2. \A m \in 1..(n - 1) : \A k \in (m + 1)..(n - 1) : k \in 1..(n - 1)
  OBVIOUS
<1>. QED  BY <1>1, <1>2 DEF OpenAt

LEMMA ShiftOpen ==
  ASSUME NEW l \in Nat, NEW a, NEW p, NEW t, \A k \in 1..l : t[k] = a[k],
         NEW n \in Nat \ {0}, \A k \in 1..(n - 1) : t[l + k] = p[k], ~OpenAt(a, l + 1)
  PROVE  OpenAt(t, l + n) <=> OpenAt(p, n)
<1>1. ASSUME OpenAt(p, n) PROVE OpenAt(t, l + n)
  <2>1. PICK m \in 1..(n - 1) : p[m] = "<desc>" /\ \A k \in (m + 1)..(n - 1) : p[k] # "</desc>"
    BY <1>1 DEF OpenAt
  <2>2. l + m \in 1..((l + n) - 1) /\ t[l + m] = "<desc>"
    BY <2>1
  <2>3. ASSUME NEW k \in ((l + m) + 1)..((l + n) - 1) PROVE t[k] # "</desc>"
    <3> DEFINE j == k - l
    <3>1. j \in (m + 1)..(n - 1) /\ j \in 1..(n - 1) /\ l + j = k
      OBVIOUS
    <3> HIDE DEF j
    <3>2. t[l + j] # "</desc>"
      BY <2>1, <3>1
    <3>. QED  BY <3>1, <3>2
  <2>. QED  BY <2>2, <2>3 DEF OpenAt
<1>2. ASSUME OpenAt(t, l + n) PROVE OpenAt(p, n)
  <2>1. PICK m \in 1..((l + n) - 1) :
          t[m] = "<desc>" /\ \A k \in (m + 1)..((l + n) - 1) : t[k] # "</desc>"
    BY <1>2 DEF OpenAt
  <2>2. m \notin 1..l
    <3> SUFFICES ASSUME m \in 1..l PROVE FALSE
      OBVIOUS
    <3>1. a[m] = "<desc>" /\ m \in 1..((l + 1) - 1)
      BY <2>1
    <3>2. ASSUME NEW k \in (m + 1)..((l + 1) - 1) PROVE a[k] # "</desc>"
      <4>1. k \in 1..l /\ k \in (m + 1)..((l + n) - 1)
        OBVIOUS
      <4>. QED  BY <2>1, <4>1
    <3>. QED  BY <3>1, <3>2 DEF OpenAt
  <2> DEFINE j == m - l
  <2>3. j \in 1..(n - 1) /\ l + j = m
    BY <2>2
  <2> HIDE DEF j
  <2>4. p[j] = "<desc>"
    BY <2>1, <2>3
  <2>5. ASSUME NEW k \in (j + 1)..(n - 1) PROVE p[k] # "</desc>"
    <3>1. l + k \in (m + 1)..((l + n) - 1) /\ k \in 1..(n - 1)
      BY <2>3
    <3>. QED  BY <2>1, <3>1
  <2>. QED  BY <2>3, <2>4, <2>5 DEF OpenAt
<1>. QED  BY <1>1, <1>2

LEMMA NestedBehind ==
  ASSUME NEW K, NEW a, NEW p, NEW t, Both(a, p, t, K), Nested(a), Nested(p)
  PROVE  Nested(t)
<1> DEFINE l == Len(a)
           m == Len(p)
<1>1. DOMAIN a = 1..l /\ DOMAIN p = 1..m /\ DOMAIN t = 1..(l + m) /\ l \in Nat /\ m \in Nat
      /\ (\A k \in 1..l : t[k] = a[k]) /\ (\A k \in 1..m : t[l + k] = p[k]) /\ Len(t) = l + m
  BY DEF Both
<1>2. Inner(a) /\ Inner(p) /\ ~OpenAt(a, l + 1) /\ ~OpenAt(p, m + 1)
  BY NestedIs DEF Open
<1> HIDE DEF l, m
<1>3. ASSUME NEW n \in 1..(m + 1) PROVE OpenAt(t, l + n) <=> OpenAt(p, n)
  <2>1. n \in Nat \ {0} /\ \A k \in 1..(n - 1) : k \in 1..m
    BY <1>1
  <2>. QED  BY <1>1, <1>2, <2>1, ShiftOpen
<1>4. ASSUME NEW n \in 1..(l + m)
      PROVE  /\ t[n] = "<desc>" => ~OpenAt(t, n)
             /\ t[n] \in {"text", "</desc>"} => OpenAt(t, n)
  <2>1. CASE n \in 1..l
    <3>1. n \in 1..(l + 1) /\ t[n] = a[n]
      BY <1>1, <2>1
    <3>2. OpenAt(t, n) <=> OpenAt(a, n)
      BY <1>1, <3>1, SameOpen
    <3>. QED  BY <1>1, <1>2, <2>1, <3>1, <3>2 DEF Inner
  <2>2. CASE n \notin 1..l
    <3> DEFINE j == n - l
    <3>1. j \in 1..m /\ l + j = n /\ j \in 1..(m + 1)
      BY <1>1, <2>2
    <3> HIDE DEF j
    <3>2. t[n] = p[j] /\ (OpenAt(t, n) <=> OpenAt(p, j))
      BY <1>1, <1>3, <3>1
    <3>. QED  BY <1>1, <1>2, <3>1, <3>2 DEF Inner
  <2>. QED  BY <2>1, <2>2
<1>5. ~OpenAt(t, Len(t) + 1)
  <2>1. l + (m + 1) = Len(t) + 1 /\ m + 1 \in 1..(m + 1)
    BY <1>1
  <2>2. ~OpenAt(t, l + (m + 1))
    BY <1>2, <1>3, <2>1
  <2>. QED  BY <2>1, <2>2
<1>. QED  BY <1>1, <1>4, <1>5, NestedIs DEF Inner, Open

NestedLines == {w \in Seq(Line) : Nested(w)}

LEMMA NestedClosed == Closed(NestedLines, Line)
<1>1. <<>> \in NestedLines
  <2> DEFINE e == <<>>
  <2>1. e \in Seq(Line)
    BY AllClosed DEF Closed
  <2>2. DOMAIN e = {} /\ Len(e) = 0 /\ 1..((0 + 1) - 1) = {}
    OBVIOUS
  <2> HIDE DEF e
  <2>3. Nested(e)
    BY <2>2 DEF Nested, OpenAt
  <2>. QED  BY <2>1, <2>3 DEF NestedLines, e
<1>2. ASSUME NEW a \in NestedLines, NEW p \in NestedLines PROVE Behind(a, p) \in NestedLines
  <2> DEFINE t == Behind(a, p)
  <2>1. a \in Seq(Line) /\ p \in Seq(Line) /\ Nested(a) /\ Nested(p)
    BY DEF NestedLines
  <2>2. Both(a, p, t, Line)
    BY <2>1, BothAre
  <2> HIDE DEF t
  <2>3. Nested(t) /\ t \in Seq(Line)
    BY <2>1, <2>2, NestedBehind DEF Both
  <2>. QED  BY <2>3 DEF NestedLines, t
<1>. QED  BY <1>1, <1>2 DEF Closed, NestedLines

(* Lines that are no part of a description.                                 *)
LEMMA PlainNested ==
  ASSUME NEW K, K \cap {"<desc>", "text", "</desc>"} = {}, NEW w \in Seq(K)
  PROVE  Nested(w)
<1>1. Len(w) \in Nat /\ DOMAIN w = 1..Len(w) /\ \A n \in 1..Len(w) : w[n] \in K
  OBVIOUS
<1>2. \A n \in 1..Len(w) : w[n] \notin {"<desc>", "text", "</desc>"}
  BY <1>1
<1>3. ~OpenAt(w, Len(w) + 1)
  BY <1>1, <1>2 DEF OpenAt
<1>. QED  BY <1>1, <1>2, <1>3 DEF Nested

(* One line more, if a condition holds.                                     *)
Adds(a, t, c, y) ==
  /\ Inner(t)
  /\ Open(t) <=> IF c THEN y = "<desc>" \/ (y # "</desc>" /\ Open(a)) ELSE Open(a)

LEMMA AddLine ==
  ASSUME NEW K, NEW a \in Seq(K), NEW y \in K, NEW c, NEW t, t = Behind(a, Lines(c, y)), Inner(a),
         (c /\ y = "<desc>") => ~Open(a), (c /\ y \in {"text", "</desc>"}) => Open(a)
  PROVE  Adds(a, t, c, y) /\ t \in Seq(K)
<1>1. CASE ~c
  <2>1. t = a
    BY <1>1, ConcatEmptySeq DEF Lines, Behind
  <2>. QED  BY <1>1, <2>1 DEF Adds
<1>2. CASE c
  <2> DEFINE l == Len(a)
             p == <<y>>
  <2>1. t = Behind(a, p) /\ p \in Seq(K) /\ Len(p) = 1 /\ p[1] = y
    BY <1>2 DEF Lines
  <2> HIDE DEF p
  <2>2. Both(a, p, t, K)
    BY <2>1, BothAre
  <2>3. /\ l \in Nat /\ DOMAIN a = 1..l /\ DOMAIN t = 1..(l + 1) /\ Len(t) = l + 1
        /\ (\A k \in 1..l : t[k] = a[k]) /\ t[l + 1] = y /\ t \in Seq(K)
    BY <2>1, <2>2 DEF Both
  <2> HIDE DEF l
  <2>4. \A n \in 1..(l + 1) : OpenAt(t, n) <=> OpenAt(a, n)
    BY <2>3, SameOpen
  <2>5. Open(a) <=> OpenAt(a, l + 1)
    BY DEF Open, l
  <2>6. Inner(t)
    <3> SUFFICES ASSUME NEW n \in 1..(l + 1)
                 PROVE  /\ t[n] = "<desc>" => ~OpenAt(t, n)
                        /\ t[n] \in {"text", "</desc>"} => OpenAt(t, n)
      BY <2>3 DEF Inner
    <3>1. CASE n \in 1..l
      BY <2>3, <2>4, <3>1 DEF Inner
    <3>2. CASE n = l + 1
      BY <1>2, <2>3, <2>4, <2>5, <3>2
    <3>. QED  BY <2>3, <3>1, <3>2
  <2>7. Open(t) <=> OpenAt(t, (l + 1) + 1)
    BY <2>3 DEF Open
  <2>8. OpenAt(t, (l + 1) + 1) <=> y = "<desc>" \/ (y # "</desc>" /\ OpenAt(t, l + 1))
    <3>1. ASSUME y = "<desc>" PROVE OpenAt(t, (l + 1) + 1)
      <4>1. l + 1 \in 1..(((l + 1) + 1) - 1) /\ ((l + 1) + 1)..(((l + 1) + 1) - 1) = {}
        BY <2>3
      <4>. QED  BY <2>3, <3>1, <4>1 DEF OpenAt
    <3>2. ASSUME y # "</desc>", OpenAt(t, l + 1) PROVE OpenAt(t, (l + 1) + 1)
      <4>1. PICK m \in 1..((l + 1) - 1) :
              t[m] = "<desc>" /\ \A k \in (m + 1)..((l + 1) - 1) : t[k] # "</desc>"
        BY <3>2 DEF OpenAt
      <4>2. m \in 1..(((l + 1) + 1) - 1)
        BY <2>3
      <4>3. \A k \in (m + 1)..(((l + 1) + 1) - 1) : k \in (m + 1)..((l + 1) - 1) \/ k = l + 1
        BY <2>3
      <4>. QED  BY <2>3, <3>2, <4>1, <4>2, <4>3 DEF OpenAt
    <3>3. ASSUME OpenAt(t, (l + 1) + 1), y # "<desc>" PROVE y # "</desc>" /\ OpenAt(t, l + 1)
      <4>1. PICK m \in 1..(((l + 1) + 1) - 1) :
              t[m] = "<desc>" /\ \A k \in (m + 1)..(((l + 1) + 1) - 1) : t[k] # "</desc>"
        BY <3>3 DEF OpenAt
      <4>2. m \in 1..((l + 1) - 1) /\ l + 1 \in (m + 1)..(((l + 1) + 1) - 1)
        BY <2>3, <3>3, <4>1
      <4>3. \A k \in (m + 1)..((l + 1) - 1) : k \in (m + 1)..(((l + 1) + 1) - 1)
        BY <2>3
      <4>. QED  BY <2>3, <4>1, <4>2, <4>3 DEF OpenAt
    <3>. QED  BY <3>1, <3>2, <3>3
  <2>9. Open(t) <=> (y = "<desc>" \/ (y # "</desc>" /\ Open(a)))
    <3>1. OpenAt(t, l + 1) <=> OpenAt(a, l + 1)
      BY <2>3, <2>4
    <3>. QED  BY <2>5, <2>7, <2>8, <3>1
  <2>. QED  BY <1>2, <2>3, <2>6, <2>9 DEF Adds
<1>. QED  BY <1>1, <1>2

LEMMA BehindBehind ==
  ASSUME NEW K, NEW u \in Seq(K), NEW v \in Seq(K), NEW w \in Seq(K)
  PROVE  Behind(Behind(u, v), w) = Behind(u, Behind(v, w)) /\ Behind(u, v) \in Seq(K)
BY ConcatAssociative, ConcatProperties, SMTT(30) DEF Behind

(* An extended descriptor opens a description if it is the first of its     *)
(* group, and leaves one open unless it is the last.                        *)
LEMMA AddLong ==
  ASSUME NEW d, d.number \in 0..15, d.last \in 0..15, NEW a \in Seq(Line), Inner(a),
         Open(a) <=> d.number # 0, NEW t, t = Behind(a, LongLines(d))
  PROVE  Inner(t) /\ (Open(t) <=> d.number # d.last)
<1> DEFINE some == d.number # 0 \/ d.last # 0 \/ d.items \/ d.text
           c1 == some /\ d.number = 0
           c4 == some /\ d.number = d.last
           l1 == Lines(c1, "<desc>")
           l2 == Lines(d.items, "text")
           l3 == Lines(d.text, "text")
           l4 == Lines(c4, "</desc>")
           a1 == Behind(a, l1)
           a2 == Behind(a1, l2)
           a3 == Behind(a2, l3)
           a4 == Behind(a3, l4)
<1>1. "<desc>" \in Line /\ "text" \in Line /\ "</desc>" \in Line
  BY DEF Line
<1>2. l1 \in Seq(Line) /\ l2 \in Seq(Line) /\ l3 \in Seq(Line) /\ l4 \in Seq(Line)
  BY <1>1, LinesTyped
<1>3. t = a4
  <2> DEFINE v1 == Behind(l1, l2)
             v2 == Behind(v1, l3)
             v3 == Behind(v2, l4)
  <2>1. t = Behind(a, v3)
    BY DEF LongLines, Behind
  <2> HIDE DEF l1, l2, l3, l4
  <2>2. v1 \in Seq(Line) /\ v2 \in Seq(Line) /\ v3 \in Seq(Line)
    BY <1>2, BehindBehind
  <2>3. Behind(a, v1) = a2
    BY <1>2, BehindBehind
  <2>4. Behind(a, v2) = Behind(Behind(a, v1), l3)
    BY <1>2, <2>2, BehindBehind
  <2>5. Behind(a, v3) = Behind(Behind(a, v2), l4)
    BY <1>2, <2>2, BehindBehind
  <2>. QED  BY <2>1, <2>3, <2>4, <2>5
<1> HIDE DEF some
<1>4. Adds(a, a1, c1, "<desc>") /\ a1 \in Seq(Line)
  <2> HIDE DEF a1, c1
  <2>1. c1 => ~Open(a)
    BY DEF c1
  <2>. QED  BY <1>1, <2>1, AddLine DEF a1
<1>5. Inner(a1) /\ (Open(a1) <=> some)
  BY <1>4 DEF Adds, some
<1>6. Adds(a1, a2, d.items, "text") /\ a2 \in Seq(Line)
  <2> HIDE DEF a2, a1
  <2>1. d.items => Open(a1)
    BY <1>5 DEF some
  <2>. QED  BY <1>1, <1>4, <1>5, <2>1, AddLine DEF a2
<1>7. Inner(a2) /\ (Open(a2) <=> some)
  BY <1>5, <1>6 DEF Adds
<1>8. Adds(a2, a3, d.text, "text") /\ a3 \in Seq(Line)
  <2> HIDE DEF a3, a2
  <2>1. d.text => Open(a2)
    BY <1>7 DEF some
  <2>. QED  BY <1>1, <1>6, <1>7, <2>1, AddLine DEF a3
<1>9. Inner(a3) /\ (Open(a3) <=> some)
  BY <1>7, <1>8 DEF Adds
<1>10. Adds(a3, a4, c4, "</desc>")
  <2> HIDE DEF a4, a3, c4
  <2>1. c4 => Open(a3)
    BY <1>9 DEF c4
  <2>. QED  BY <1>1, <1>8, <1>9, <2>1, AddLine DEF a4
<1> HIDE DEF a3, a4
<1>11. Open(a4) <=> d.number # d.last
  <2>1. Open(a4) <=> ~c4 /\ some
    BY <1>9, <1>10 DEF Adds
  <2>. QED  BY <2>1 DEF some
<1>. QED  BY <1>3, <1>10, <1>11 DEF Adds

LEMMA Largest ==
  ASSUME NEW k \in Nat, NEW U, U \subseteq 0..k, U # {}
  PROVE  \E x \in U : \A y \in U : y <= x
<1> DEFINE V == {k - y : y \in U}
<1>1. V \subseteq Nat /\ V # {}
  <2>1. \A y \in U : k - y \in Nat
    OBVIOUS
  <2>2. PICK y \in U : TRUE
    OBVIOUS
  <2>3. k - y \in V
    BY <2>2
  <2>. QED  BY <2>1, <2>3
<1>2. PICK v \in V : \A z \in V : v <= z
  BY <1>1, Smallest
<1>3. PICK x \in U : v = k - x
  OBVIOUS
<1>4. \A y \in U : k - x <= k - y
  BY <1>2, <1>3
<1> HIDE DEF V
<1>5. ASSUME NEW y \in U PROVE y <= x
  <2>1. x \in Nat /\ y \in Nat
    BY SMTT(30)
  <2>2. k - x <= k - y
    BY <1>4
  <2>. QED  BY <2>1, <2>2
<1>. QED  BY <1>5

(* The extended descriptors that are there, the last of them up to k, and   *)
(* whether it leaves its group unfinished.                                  *)
Long(ds) == {i \in DOMAIN ds : ds[i].tag = "extended"}
Latest(ds, k, j) == j \in Long(ds) /\ j <= k /\ \A i \in Long(ds) : i <= k => i <= j
Unfinished(ds, k) == \E j \in Long(ds) : Latest(ds, k, j) /\ ds[j].number # ds[j].last

(* Descriptors that are in order go on with a group that is unfinished and  *)
(* begin one otherwise.                                                     *)
LEMMA InOrderNext ==
  ASSUME NEW ds \in Seq(Descriptor), InOrder(ds), NEW k \in Nat, k + 1 \in Long(ds)
  PROVE  /\ Unfinished(ds, k) <=> ds[k + 1].number # 0
         /\ Unfinished(ds, k + 1) <=> ds[k + 1].number # ds[k + 1].last
<1> DEFINE i == k + 1
           U == {j \in Long(ds) : j <= k}
<1>0. Long(ds) \subseteq Nat \ {0} /\ i \in Nat
  BY DEF Long
<1>1. /\ \A n \in Long(ds) : (\A j \in Long(ds) : n <= j) => ds[n].number = 0
      /\ \A j, n \in Long(ds) :
           j < n /\ (\A m \in Long(ds) : m <= j \/ n <= m) =>
             IF ds[j].number = ds[j].last THEN ds[n].number = 0
             ELSE ds[n].number = ds[j].number + 1 /\ ds[n].last = ds[j].last
  BY DEF InOrder, Long
<1>2. \A j \in Long(ds) : ds[j].number \in 0..15 /\ ds[j].last \in 0..15
  <2>1. \A j \in Long(ds) : ds[j] \in Descriptor /\ ds[j].tag = "extended"
    BY DEF Long
  <2>. QED  BY <2>1, OfDescriptor
<1> HIDE DEF i
<1>3. i \in Long(ds) /\ i = k + 1
  BY DEF i
<1>4. Unfinished(ds, i) <=> ds[i].number # ds[i].last
  <2>1. Latest(ds, i, i)
    BY <1>0, <1>3 DEF Latest
  <2>2. \A j \in Long(ds) : Latest(ds, i, j) => j = i
    BY <1>0, <1>3 DEF Latest
  <2>. QED  BY <1>3, <2>1, <2>2 DEF Unfinished
<1>5. CASE U = {}
  <2>1. \A j \in Long(ds) : i <= j
    BY <1>0, <1>3, <1>5
  <2>2. ds[i].number = 0
    BY <1>1, <1>3, <2>1
  <2>3. ~Unfinished(ds, k)
    BY <1>5 DEF Unfinished, Latest
  <2>. QED  BY <1>4, <2>2, <2>3 DEF i
<1>6. CASE U # {}
  <2>1. PICK j \in U : \A n \in U : n <= j
    <3>1. U \subseteq 0..k
      BY <1>0
    <3>. QED  BY <1>6, <3>1, Largest
  <2>2. j \in Long(ds) /\ j < i /\ j <= k
    BY <1>0, <1>3
  <2>3. \A m \in Long(ds) : m <= j \/ i <= m
    BY <1>0, <1>3, <2>1
  <2>4. IF ds[j].number = ds[j].last THEN ds[i].number = 0
        ELSE ds[i].number = ds[j].number + 1 /\ ds[i].last = ds[j].last
    BY <1>1, <1>3, <2>2, <2>3
  <2>5. Latest(ds, k, j)
    BY <2>1, <2>2 DEF Latest
  <2>6. \A n \in Long(ds) : Latest(ds, k, n) => n = j
    BY <1>0, <2>2, <2>5 DEF Latest
  <2>7. Unfinished(ds, k) <=> ds[j].number # ds[j].last
    BY <2>2, <2>5, <2>6 DEF Unfinished
  <2>8. Unfinished(ds, k) <=> ds[i].number # 0
    <3>1. ds[j].number + 1 # 0
      BY <1>2, <2>2, SMTT(30)
    <3> HIDE DEF U
    <3>. QED  BY <2>4, <2>7, <3>1
  <2>. QED  BY <1>4, <2>8 DEF i
<1>. QED  BY <1>5, <1>6

LEMMA InOrderEnds ==
  ASSUME NEW ds \in Seq(Descriptor), InOrder(ds)
  PROVE  ~Unfinished(ds, Len(ds))
<1> SUFFICES ASSUME NEW j \in Long(ds), Latest(ds, Len(ds), j) PROVE ds[j].number = ds[j].last
  BY DEF Unfinished
<1>1. \A i \in Long(ds) : i <= Len(ds)
  BY DEF Long
<1>2. \A i \in Long(ds) : i <= j
  BY <1>1 DEF Latest
<1>. QED  BY <1>2 DEF InOrder, Long

(* The round of the descriptions.                                           *)
LEMMA LongRound ==
  ASSUME NEW ds \in Seq(Descriptor), InOrder(ds)
  PROVE  Nested(Round(ds, 2))
<1> DEFINE r == 2
           s == Turns(ds, r)
           n == Len(ds)
<1>1. r \in 0..7 /\ Kinds(r) \subseteq Line
  BY DEF Kinds, Line
<1>2. n \in Nat /\ DOMAIN ds = 1..n /\ Long(ds) \subseteq 1..n
  BY DEF Long
<1>3. s \in Seq(Seq(Kinds(r))) /\ Len(s) = n
  <2> HIDE DEF r
  <2>. QED  BY <1>1, TurnsTyped
<1>4. \A i \in 1..n : s[i] = DescriptorLines(ds, i, r)
  BY <1>2 DEF Turns
<1>5. \A i \in 1..n : s[i] = IF i \in Long(ds) THEN LongLines(ds[i]) ELSE <<>>
  <2> SUFFICES ASSUME NEW i \in 1..n
               PROVE  DescriptorLines(ds, i, r) = IF i \in Long(ds) THEN LongLines(ds[i]) ELSE <<>>
    BY <1>4
  <2>1. CASE i \in Long(ds)
    BY <2>1 DEF Long, DescriptorLines
  <2>2. CASE i \notin Long(ds)
    <3>1. ComponentLines(ds, i, r) = <<>>
      BY DEF ComponentLines
    <3>2. ds[i].tag # "extended"
      BY <1>2, <2>2 DEF Long
    <3>. QED  BY <2>2, <3>1, <3>2 DEF DescriptorLines
  <2>. QED  BY <2>1, <2>2
<1>6. s \in Seq(Seq(Line))
  <2> HIDE DEF s
  <2>1. \A i \in 1..n : s[i] \in Seq(Kinds(r))
    BY <1>3, ElementOfSeq
  <2>2. ASSUME NEW i \in 1..n PROVE s[i] \in Seq(Line)
    <3> DEFINE w == s[i]
    <3>1. w \in Seq(Kinds(r))
      BY <2>1
    <3> HIDE DEF w, r
    <3>2. Len(w) \in Nat /\ DOMAIN w = 1..Len(w) /\ w = [m \in 1..Len(w) |-> w[m]]
          /\ \A m \in 1..Len(w) : w[m] \in Line
      BY <1>1, <3>1
    <3>3. w \in Seq(Line)
      BY <3>2, Mapped
    <3>. QED  BY <3>3 DEF w
  <2>3. DOMAIN s = 1..n /\ s = [m \in 1..n |-> s[m]]
    BY <1>3
  <2>. QED  BY <1>2, <2>2, <2>3, Mapped
<1> HIDE DEF r, s, n
<1>7. PICK f : FlatGoes(f, n, s) /\ FlattenSeq(s) = f[n]
  BY <1>3, <1>6, Flat
<1> DEFINE T == {k \in 0..n : Inner(f[k]) /\ (Open(f[k]) <=> Unfinished(ds, k))}
<1>8. 0 \in T
  <2> DEFINE e == f[0]
  <2>1. e = <<>>
    BY <1>7 DEF FlatGoes
  <2> HIDE DEF e
  <2>2. e \in NestedLines
    BY <2>1, NestedClosed DEF Closed
  <2>3. Inner(e) /\ ~Open(e)
    BY <2>2, NestedIs DEF NestedLines
  <2>4. ~Unfinished(ds, 0)
    BY <1>2 DEF Unfinished, Latest
  <2>. QED  BY <1>2, <2>3, <2>4 DEF e
<1>9. ASSUME NEW k \in 0..(n - 1), k \in T PROVE k + 1 \in T
  <2> DEFINE i == k + 1
             a == f[k]
             t == f[i]
  <2>1. t = Behind(a, s[i]) /\ i \in 1..n /\ i \in 0..n /\ k \in 0..n /\ k \in Nat
    BY <1>2, <1>7 DEF FlatGoes
  <2>2. Inner(a) /\ (Open(a) <=> Unfinished(ds, k))
    BY <1>9
  <2>3. a \in Seq(Line)
    <3>1. Closed(Seq(Line), Line)
      BY AllClosed
    <3>. QED  BY <1>3, <1>6, <1>7, <2>1, <3>1, FlatIn
  <2>4. CASE i \in Long(ds)
    <3> DEFINE d == ds[i]
    <3>1. d.number \in 0..15 /\ d.last \in 0..15
      BY <1>2, <2>1, <2>4, OfDescriptor DEF Long
    <3>2. /\ Unfinished(ds, k) <=> d.number # 0
          /\ Unfinished(ds, i) <=> d.number # d.last
      BY <2>1, <2>4, InOrderNext
    <3>3. t = Behind(a, LongLines(d))
      BY <1>5, <2>1, <2>4
    <3> HIDE DEF d, a, t
    <3>4. Inner(t) /\ (Open(t) <=> d.number # d.last)
      BY <2>2, <2>3, <3>1, <3>2, <3>3, AddLong
    <3>. QED  BY <2>1, <3>2, <3>4 DEF t
  <2>5. CASE i \notin Long(ds)
    <3>1. s[i] = <<>>
      BY <1>5, <2>1, <2>5
    <3> DEFINE p == s[i]
    <3> HIDE DEF a, t, p
    <3>2. t = a
      BY <2>1, <2>3, <3>1, ConcatEmptySeq DEF Behind, p
    <3>3. \A j \in Long(ds) : j <= i <=> j <= k
      BY <1>2, <2>1, <2>5
    <3>4. Unfinished(ds, i) <=> Unfinished(ds, k)
      BY <3>3 DEF Unfinished, Latest
    <3>. QED  BY <2>1, <2>2, <3>2, <3>4 DEF t
  <2>. QED  BY <2>4, <2>5
<1> HIDE DEF T
<1>10. n \in T
  BY <1>2, <1>8, <1>9, Induction
<1>11. Inner(f[n]) /\ ~Open(f[n])
  BY <1>10, InOrderEnds DEF T, n
<1>. QED  BY <1>7, <1>11, NestedIs DEF Round, s, r

LEMMA PrintsNested ==
  ASSUME NEW ds \in Seq(Descriptor), InOrder(ds)
  PROVE  Nested(AllLines(ds))
<1> DEFINE s == Rounds(ds)
<1>1. s \in Seq(Seq(Line)) /\ Len(s) = 8 /\ AllLines(ds) = FlattenSeq(s)
      /\ \A n \in 1..8 : s[n] = Round(ds, n - 1)
  BY RoundsTyped
<1> HIDE DEF s
<1>2. ASSUME NEW n \in 1..8 PROVE s[n] \in NestedLines
  <2> DEFINE r == n - 1
             w == Round(ds, r)
  <2>1. r \in 0..7 /\ s[n] = w
    BY <1>1
  <2>2. s[n] \in Seq(Line)
    <3>1. n \in 1..Len(s)
      BY <1>1
    <3>. QED  BY <1>1, <3>1, ElementOfSeq
  <2>3. CASE r = 2
    BY <2>1, <2>2, <2>3, LongRound DEF NestedLines
  <2>4. CASE r # 2
    <3> HIDE DEF r
    <3>1. Kinds(r) \cap {"<desc>", "text", "</desc>"} = {}
      BY <2>1, <2>4 DEF Kinds
    <3>2. w \in Seq(Kinds(r))
      BY <2>1, TurnsTyped
    <3> HIDE DEF w
    <3>3. Nested(w)
      BY <3>1, <3>2, PlainNested
    <3>. QED  BY <2>1, <2>2, <3>3 DEF NestedLines
  <2>. QED  BY <2>3, <2>4
<1>3. s \in Seq(NestedLines)
  <2>1. DOMAIN s = 1..8 /\ s = [n \in 1..8 |-> s[n]]
    BY <1>1
  <2>. QED  BY <1>2, <2>1, Mapped
<1>4. FlattenSeq(s) \in NestedLines
  BY <1>3, NestedClosed, FlattenIn
<1>. QED  BY <1>1, <1>4 DEF NestedLines

(* The rounds print their kinds of lines in the order of the tags.          *)
Upto(w, k) ==
  /\ InTagOrder(w)
  /\ \A n \in DOMAIN w : \A j \in 1..8 : w[n] \in TagOrder[j] => j <= k

LEMMA KindsPlaced ==
  ASSUME NEW k \in 0..7, NEW x \in Kinds(k), NEW j \in 1..8, x \in TagOrder[j]
  PROVE  j = k + 1
<1>1. k = 0 \/ k = 1 \/ k = 2 \/ k = 3 \/ k = 4 \/ k = 5 \/ k = 6 \/ k = 7
  OBVIOUS
<1>2. j = 1 \/ j = 2 \/ j = 3 \/ j = 4 \/ j = 5 \/ j = 6 \/ j = 7 \/ j = 8
  OBVIOUS
<1>. QED  BY <1>1, <1>2 DEF Kinds, TagOrder

LEMMA UptoBehind ==
  ASSUME NEW k \in 0..7, NEW a, NEW p, NEW t, Both(a, p, t, Line), Upto(a, k),
         \A n \in DOMAIN p : p[n] \in Kinds(k)
  PROVE  Upto(t, k + 1)
<1>0. DOMAIN TagOrder = 1..8 /\ Len(TagOrder) = 8
  BY DEF TagOrder
<1>1. /\ DOMAIN a = 1..Len(a) /\ DOMAIN p = 1..Len(p) /\ DOMAIN t = 1..(Len(a) + Len(p))
      /\ Len(a) \in Nat /\ Len(p) \in Nat
  BY DEF Both
<1>2. \A n \in DOMAIN t : (n \in DOMAIN a /\ t[n] = a[n])
                          \/ (n - Len(a) \in DOMAIN p /\ n > Len(a) /\ t[n] = p[n - Len(a)])
  BY <1>1 DEF Both
<1>3. ASSUME NEW n \in DOMAIN t, NEW j \in 1..8, t[n] \in TagOrder[j]
      PROVE  (n \in DOMAIN a /\ t[n] = a[n] /\ j <= k) \/ (n > Len(a) /\ j = k + 1)
  <2>1. CASE n \in DOMAIN a /\ t[n] = a[n]
    BY <1>3, <2>1 DEF Upto
  <2>2. CASE n - Len(a) \in DOMAIN p /\ n > Len(a) /\ t[n] = p[n - Len(a)]
    <3> DEFINE x == t[n]
    <3>1. x \in Kinds(k) /\ x \in TagOrder[j]
      BY <1>3, <2>2
    <3> HIDE DEF x
    <3>2. j = k + 1
      BY <3>1, KindsPlaced
    <3>. QED  BY <2>2, <3>2
  <2>. QED  BY <1>2, <2>1, <2>2
<1>4. InTagOrder(t)
  <2> SUFFICES ASSUME NEW m \in DOMAIN t, NEW n \in DOMAIN t, NEW i \in 1..8, NEW j \in 1..8,
                      m < n, t[m] \in TagOrder[i], t[n] \in TagOrder[j]
               PROVE  i <= j
    <3>1. \A n \in DOMAIN t : \A m \in 1..(n - 1) : m \in DOMAIN t /\ m < n
      BY <1>1
    <3>2. \A j \in 1..8 : \A i \in (j + 1)..8 : i \in 1..8 /\ ~(i <= j)
      OBVIOUS
    <3>. QED  BY <1>0, <3>1, <3>2 DEF InTagOrder
  <2>1. CASE n \in DOMAIN a /\ t[n] = a[n]
    <3>1. m \in DOMAIN a /\ t[m] = a[m]
      BY <1>1, <1>2, <2>1
    <3>2. m \in 1..(n - 1)
      BY <1>1
    <3>3. \A h \in (j + 1)..8 : a[m] \notin TagOrder[h]
      BY <1>0, <2>1, <3>2 DEF Upto, InTagOrder
    <3>4. j < i => i \in (j + 1)..8
      OBVIOUS
    <3>. QED  BY <3>1, <3>3, <3>4
  <2>2. CASE n > Len(a) /\ j = k + 1
    <3>1. i <= k + 1
      BY <1>3
    <3>. QED  BY <2>2, <3>1
  <2>. QED  BY <1>3, <2>1, <2>2
<1>5. \A n \in DOMAIN t : \A j \in 1..8 : t[n] \in TagOrder[j] => j <= k + 1
  BY <1>3
<1>. QED  BY <1>4, <1>5 DEF Upto

LEMMA PrintsInOrder ==
  ASSUME NEW ds \in Seq(Descriptor)
  PROVE  InTagOrder(AllLines(ds))
<1> DEFINE s == Rounds(ds)
<1>1. s \in Seq(Seq(Line)) /\ Len(s) = 8 /\ AllLines(ds) = FlattenSeq(s)
      /\ \A n \in 1..8 : s[n] = Round(ds, n - 1)
  BY RoundsTyped
<1> HIDE DEF s
<1>2. PICK f : FlatGoes(f, Len(s), s) /\ FlattenSeq(s) = f[Len(s)]
  BY <1>1, Flat
<1> DEFINE T == {k \in 0..8 : Upto(f[k], k)}
<1>3. 0 \in T
  <2> DEFINE e == f[0]
  <2>1. DOMAIN e = {}
    BY <1>2 DEF FlatGoes
  <2> HIDE DEF e
  <2>2. Upto(e, 0)
    BY <2>1 DEF Upto, InTagOrder
  <2>. QED  BY <2>2 DEF e
<1>4. ASSUME NEW k \in 0..(8 - 1), k \in T PROVE k + 1 \in T
  <2> DEFINE a == f[k]
             p == s[k + 1]
             t == f[k + 1]
  <2>1. t = Behind(a, p) /\ k + 1 \in 1..8 /\ k \in 0..7 /\ k + 1 \in 0..8 /\ k \in 0..Len(s)
        /\ Upto(a, k) /\ (k + 1) - 1 = k
    BY <1>1, <1>2, <1>4 DEF FlatGoes
  <2>2. p \in Seq(Line)
    <3>1. k + 1 \in 1..Len(s)
      BY <1>1, <2>1
    <3>. QED  BY <1>1, <3>1, ElementOfSeq
  <2>3. a \in Seq(Line)
    <3>1. Closed(Seq(Line), Line)
      BY AllClosed
    <3>. QED  BY <1>1, <1>2, <2>1, <3>1, FlatIn
  <2>4. p \in Seq(Kinds(k))
    <3> DEFINE w == Round(ds, k)
    <3>1. p = w
      BY <1>1, <2>1
    <3>2. w \in Seq(Kinds(k))
      BY <2>1, TurnsTyped
    <3>. QED  BY <3>1, <3>2
  <2> HIDE DEF a, p, t
  <2>5. Both(a, p, t, Line)
    BY <2>1, <2>2, <2>3, BothAre
  <2>6. \A n \in DOMAIN p : p[n] \in Kinds(k)
    BY <2>4
  <2>7. Upto(t, k + 1)
    BY <2>1, <2>5, <2>6, UptoBehind
  <2>. QED  BY <2>1, <2>7 DEF t
<1> HIDE DEF T
<1>5. 8 \in T
  BY <1>3, <1>4, Induction
<1> DEFINE w == f[8]
<1>6. Upto(w, 8) /\ AllLines(ds) = w
  BY <1>1, <1>2, <1>5 DEF T
<1> HIDE DEF w
<1>. QED  BY <1>6 DEF Upto

-----------------------------------------------------------------------------
(* What is printed of an event that has a title and does not end the        *)
(* program.                                                                 *)
LEMMA BodyWellFormed ==
  ASSUME NEW ds \in Descriptors, Titled(ds), ~ExitsIn[ds]
  PROVE  /\ Leads(LinesOf[ds]) /\ Once(LinesOf[ds], "video") /\ Once(LinesOf[ds], "audio")
         /\ InTagOrder(LinesOf[ds])
         /\ InOrder(ds) => Nested(LinesOf[ds])
<1>1. ds \in Seq(Descriptor)
  BY GrabAssumption DEF Descriptors
<1>2. LinesOf[ds] = AllLines(ds)
  BY DEF LinesOf, ExitsIn, Body
<1>3. Once(AllLines(ds), "video") /\ Once(AllLines(ds), "audio")
  BY <1>1, PrintsStreamOnce DEF StreamRound
<1>4. Leads(AllLines(ds))
  BY <1>1, PrintsTitleFirst
<1>5. InOrder(ds) => Nested(AllLines(ds))
  BY <1>1, PrintsNested
<1>6. InTagOrder(AllLines(ds))
  BY <1>1, PrintsInOrder
<1>. QED  BY <1>2, <1>3, <1>4, <1>5, <1>6

(* The rest of the state.                                                   *)
Rest ==
  /\ ignore_bad_dates \in BOOLEAN
  /\ input \in {"device", "file", "stdin"}
  /\ DOMAIN channels \subseteq EventKey
  /\ programme_count \in Nat /\ update_count \in Nat /\ invalid_date_count \in Nat
  /\ alarm \in 0..Timeout \cup {NULL} /\ (input = "file" => alarm = NULL)
  /\ ended \in {"no", "</tv>", "exit", "killed"} /\ (ended = "no") = (pc # "end")

(* A programme is begun for an event with a title, and closed when all of   *)
(* the event has been printed.                                              *)
Told(p) == \E ds \in Descriptors : Titled(ds) /\ ~ExitsIn[ds] /\ p.lines = LinesOf[ds]

Printing ==
  /\ pc = "print" => Titled(event.descs) /\ ~out[Len(out)].closed
  /\ \A i \in DOMAIN out : out[i].closed => Told(out[i])

LEMMA RestInit == Init => Rest /\ Printing
<1> SUFFICES ASSUME Init PROVE Rest /\ Printing
  OBVIOUS
<1>1. Timeout \in 0..Timeout
  BY GrabAssumption
<1>2. Rest
  BY <1>1 DEF Init, Rest
<1>3. Printing
  <2>1. DOMAIN out = {}
    BY DEF Init
  <2>. QED  BY <2>1 DEF Init, Printing
<1>. QED  BY <1>2, <1>3

LEMMA RememberRest ==
  ASSUME IInv, Rest, Remember
  PROVE  DOMAIN channels' \subseteq EventKey /\ update_count' \in Nat
<1>1. section \in Sections /\ at \in DOMAIN section.events
  BY DEF IInv, Shape, Remember
<1>2. key \in EventKey
  BY <1>1, AtEvent
<1>3. DOMAIN channels' = DOMAIN channels \cup {key}
  BY DEF Remember
<1>4. update_count' \in Nat
  BY DEF Remember, Rest
<1>. QED  BY <1>2, <1>3, <1>4 DEF Rest

LEMMA RefreshRest ==
  ASSUME Rest, RefreshAlarm, input' = input
  PROVE  alarm' \in 0..Timeout \cup {NULL} /\ (input' = "file" => alarm' = NULL)
<1>1. Timeout \in 0..Timeout
  BY GrabAssumption
<1>. QED  BY <1>1 DEF RefreshAlarm

LEMMA RestKeeps ==
  ASSUME IInv, Rest, [Next]_vars
  PROVE  Rest'
<1> USE DEF options, counts
<1>1. ASSUME NEW s \in Sections, Section(s) PROVE Rest'
  BY <1>1 DEF Section, Rest
<1>2. CASE InputEnds
  BY <1>2 DEF InputEnds, FinishUp, Rest
<1>3. CASE SkipSeen
  BY <1>3 DEF SkipSeen, Rest
<1>4. CASE SkipUpdate
  BY <1>4, RememberRest DEF SkipUpdate, Remember, Rest
<1>5. CASE NoMemory
  <2>1. DOMAIN channels' \subseteq EventKey /\ update_count' \in Nat
    BY <1>5 DEF NoMemory, Rest
  <2>. QED  BY <1>5, <2>1 DEF NoMemory, FinishUp, Rest
<1>6. ASSUME Taken, UNCHANGED <<options, ended>>, pc' # "end",
             programme_count' \in Nat, invalid_date_count' \in Nat
      PROVE  Rest'
  <2>1. DOMAIN channels' \subseteq EventKey /\ update_count' \in Nat
    BY <1>6, RememberRest DEF Taken
  <2>2. alarm' \in 0..Timeout \cup {NULL} /\ (input' = "file" => alarm' = NULL)
    BY <1>6, RefreshRest DEF Taken
  <2>3. pc = "loop"
    BY <1>6 DEF Taken, Remember
  <2>. QED  BY <1>6, <2>1, <2>2, <2>3 DEF Rest
<1>7. CASE NoDescriptors
  BY <1>6, <1>7 DEF NoDescriptors, Rest
<1>8. CASE InvalidDate
  BY <1>6, <1>8 DEF InvalidDate, Rest
<1>9. CountDate => invalid_date_count' \in Nat
  BY DEF CountDate, Rest
<1>10. CASE NoTitle
  BY <1>6, <1>9, <1>10 DEF NoTitle, Rest
<1>11. CASE Begin
  BY <1>6, <1>9, <1>11 DEF Begin, Rest
<1>12. CASE Finish
  BY <1>12 DEF Finish, Rest
<1>13. CASE ExitInside
  BY <1>13 DEF ExitInside, Rest
<1>14. CASE Tick
  <2>1. alarm' \in 0..Timeout
    BY <1>14, GrabAssumption DEF Tick, Rest
  <2>. QED  BY <1>14, <2>1 DEF Tick, Rest
<1>15. CASE Alarm
  BY <1>15 DEF Alarm, Rest
<1>16. CASE UNCHANGED vars
  BY <1>16 DEF vars, Rest
<1>. QED
  BY <1>1, <1>2, <1>3, <1>4, <1>5, <1>7, <1>8, <1>10, <1>11, <1>12, <1>13, <1>14, <1>15, <1>16
  DEF Next, Parse

(* Of the programmes printed, the last is changed when it is closed, and a  *)
(* new one is open.                                                         *)
LEMMA PrintingKeeps ==
  ASSUME IInv, Printing, [Next]_vars
  PROVE  Printing'
<1> USE DEF options, counts
<1>0. out \in Seq(Printed) /\ Len(out) \in Nat /\ DOMAIN out = 1..Len(out)
  BY DEF IInv, Shape
<1>1. ASSUME out' = out, pc' # "print" PROVE Printing'
  BY <1>1 DEF Printing, Told
<1>2. CASE Begin
  <2> DEFINE new == [key |-> key, version |-> section.version, stop |-> event.stop,
                     lines |-> <<>>, closed |-> FALSE]
  <2>1. section \in Sections /\ at \in DOMAIN section.events
    BY <1>2 DEF Begin, Taken, Remember, IInv, Shape
  <2>2. new \in Printed /\ new.closed = FALSE
    BY <2>1, AtEvent DEF Printed
  <2>3. out' = Append(out, new) /\ section' = section /\ at' = at /\ Titled(event.descs)
    BY <1>2 DEF Begin
  <2> HIDE DEF new
  <2>4. DOMAIN out' = 1..(Len(out) + 1) /\ (\A i \in DOMAIN out : out'[i] = out[i])
        /\ out'[Len(out) + 1] = new /\ Len(out') = Len(out) + 1
    BY <1>0, <2>2, <2>3
  <2>5. Titled(event'.descs)
    BY <2>3 DEF event
  <2>6. \A i \in DOMAIN out' : out'[i].closed => i \in DOMAIN out
    BY <1>0, <2>2, <2>4
  <2>7. \A i \in DOMAIN out' : out'[i].closed => Told(out'[i])
    BY <2>4, <2>6 DEF Printing
  <2>8. Printing' <=> ((pc' = "print" => Titled(event'.descs) /\ ~out'[Len(out')].closed)
                        /\ \A i \in DOMAIN out' : out'[i].closed => Told(out'[i]))
    BY DEF Printing, Told
  <2>. QED  BY <2>2, <2>4, <2>5, <2>7, <2>8
<1>3. ASSUME pc = "print", pc' # "print", NEW shut \in BOOLEAN, shut => ~ExitsIn[event.descs],
             out' = [out EXCEPT ![Len(out)].lines = LinesOf[event.descs],
                                ![Len(out)].closed = IF shut THEN TRUE ELSE @]
      PROVE  Printing'
  <2>1. event.descs \in Descriptors /\ Titled(event.descs)
    BY <1>3, AtEvent DEF IInv, Shape, Printing
  <2>2. DOMAIN out' = DOMAIN out /\ \A i \in DOMAIN out : i # Len(out) => out'[i] = out[i]
    BY <1>3
  <2>3. ASSUME NEW i \in DOMAIN out, out'[i].closed PROVE Told(out'[i])
    <3>1. CASE i # Len(out)
      BY <2>2, <2>3, <3>1 DEF Printing
    <3>2. CASE i = Len(out)
      <4> DEFINE p == out[i]
      <4>1. out'[i] = [p EXCEPT !.lines = LinesOf[event.descs],
                                !.closed = IF shut THEN TRUE ELSE @]
        BY <1>3, <3>2
      <4>2. p \in Printed
        BY <1>0
      <4>3. out'[i].lines = LinesOf[event.descs] /\ (~shut => out'[i].closed = p.closed)
        BY <4>1, <4>2 DEF Printed
      <4>4. CASE shut
        BY <1>3, <2>1, <4>3, <4>4 DEF Told
      <4>5. CASE ~shut
        BY <1>3, <2>3, <3>2, <4>3, <4>5 DEF Printing
      <4>. QED  BY <4>4, <4>5
    <3>. QED  BY <3>1, <3>2
  <2>4. Printing' <=> ((pc' = "print" => Titled(event'.descs) /\ ~out'[Len(out')].closed)
                        /\ \A i \in DOMAIN out' : out'[i].closed => Told(out'[i]))
    BY DEF Printing, Told
  <2>. QED  BY <1>3, <2>2, <2>3, <2>4
<1>4. CASE Finish
  <2>1. out' = [out EXCEPT ![Len(out)].lines = LinesOf[event.descs],
                           ![Len(out)].closed = IF TRUE THEN TRUE ELSE @]
    BY <1>4 DEF Finish
  <2>. QED  BY <1>3, <1>4, <2>1 DEF Finish
<1>5. CASE ExitInside
  <2>1. out' = [out EXCEPT ![Len(out)].lines = LinesOf[event.descs],
                           ![Len(out)].closed = IF FALSE THEN TRUE ELSE @]
    BY <1>5 DEF ExitInside
  <2>. QED  BY <1>3, <1>5, <2>1 DEF ExitInside
<1>6. CASE UNCHANGED <<section, at, pc, out>>
  BY <1>6 DEF Printing, Told, event
<1>7. ASSUME NEW s \in Sections, Section(s) PROVE Printing'
  BY <1>1, <1>7 DEF Section
<1>8. CASE InputEnds \/ SkipSeen \/ SkipUpdate \/ NoMemory \/ NoDescriptors \/ InvalidDate
           \/ NoTitle \/ Alarm
  BY <1>1, <1>8 DEF InputEnds, SkipSeen, SkipUpdate, NoMemory, NoDescriptors, InvalidDate,
                    NoTitle, Alarm, FinishUp
<1>9. CASE Tick \/ UNCHANGED vars
  BY <1>6, <1>9 DEF Tick, vars
<1>. QED  BY <1>2, <1>4, <1>5, <1>7, <1>8, <1>9 DEF Next, Parse

LEMMA AllInit == Init => IInv /\ Rest /\ Printing
BY InitHolds, RestInit

LEMMA AllKeeps == IInv /\ Rest /\ Printing /\ [Next]_vars => (IInv /\ Rest /\ Printing)'
BY StepHolds, RestKeeps, PrintingKeeps

(***************************************************************************)
(* The state is of its types, whatever order sections come in: what is     *)
(* counted, the alarm, which a file does not have, how the program ended,  *)
(* and what is printed of a programme (dvb-eit.c:60-175, 316-420).         *)
(***************************************************************************)
THEOREM TypeCorrect == Spec => []TypeOK
<1>1. ASSUME IInv, Rest PROVE TypeOK
  <2>1. Printed \subseteq Programme
    <3> SUFFICES ASSUME NEW p \in Printed PROVE p \in Programme
      OBVIOUS
    <3>1. \A ds \in Descriptors : LinesOf[ds] \in Seq(Line)
      BY BodyTyped, GrabAssumption DEF LinesOf, Descriptors
    <3>2. p.lines \in Seq(Line)
      <4>1. <<>> \in Seq(Line)
        BY AllClosed DEF Closed
      <4>2. p.lines \in {LinesOf[ds] : ds \in Descriptors} \cup {<<>>}
        BY DEF Printed
      <4>. QED  BY <3>1, <4>1, <4>2
    <3>3. p.stop \in Int
      BY GrabAssumption DEF Printed
    <3>4. p = [key |-> p.key, version |-> p.version, stop |-> p.stop,
               lines |-> p.lines, closed |-> p.closed]
          /\ p.key \in EventKey /\ p.version \in Nat /\ p.closed \in BOOLEAN
      BY DEF Printed
    <3>. QED  BY <3>2, <3>3, <3>4 DEF Programme
  <2>2. out \in Seq(Programme)
    <3>1. out \in Seq(Printed)
      BY <1>1 DEF IInv, Shape
    <3>2. Len(out) \in Nat /\ DOMAIN out = 1..Len(out) /\ out = [i \in 1..Len(out) |-> out[i]]
          /\ \A i \in 1..Len(out) : out[i] \in Programme
      BY <2>1, <3>1
    <3>. QED  BY <3>2, Mapped
  <2>. QED  BY <1>1, <2>2 DEF IInv, Shape, Rest, TypeOK
<1>. QED  BY <1>1, AllInit, AllKeeps, PTL DEF Spec

(***************************************************************************)
(* Every programme that was closed has its title first, what follows in    *)
(* the order of TagOrder, one video and one audio element at most, and its *)
(* descriptions opened and closed in turn if the extended descriptors of   *)
(* the input come in order: whatever else the descriptors of an event are, *)
(* and however they are mixed (dvb-eit.c:143, 231-316, 372-416).           *)
(***************************************************************************)
THEOREM WritesWellFormed == Spec => []WellFormed
<1>1. ASSUME Printing PROVE WellFormed
  <2>1. ASSUME NEW i \in DOMAIN out, out[i].closed
        PROVE  /\ Leads(out[i].lines)
               /\ Once(out[i].lines, "video") /\ Once(out[i].lines, "audio")
               /\ InTagOrder(out[i].lines)
               /\ (\A ds \in Descriptors : InOrder(ds)) => Nested(out[i].lines)
    <3>1. PICK ds \in Descriptors : Titled(ds) /\ ~ExitsIn[ds] /\ out[i].lines = LinesOf[ds]
      BY <1>1, <2>1 DEF Printing, Told
    <3>. QED  BY <3>1, BodyWellFormed
  <2>2. TitleFirst
    BY <2>1 DEF TitleFirst, Leads
  <2>3. TagsInOrder /\ Balanced /\ OneStream
    BY <2>1 DEF TagsInOrder, Balanced, OneStream
  <2>. QED  BY <2>2, <2>3 DEF WellFormed
<1>. QED  BY <1>1, AllInit, AllKeeps, PTL DEF Spec
===============================================================================
