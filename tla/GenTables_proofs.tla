--------------------------- MODULE GenTables_proofs ---------------------------
(***************************************************************************)
(* What gentables makes of a file, for files of any length, blocks nested  *)
(* to any depth, fields of any width, and any number of tags.              *)
(*                                                                         *)
(* No two structures get the same name.  The names in use are the current  *)
(* one, the tag that is pending, and those that push_attrs() saved in the  *)
(* blocks below the innermost.  They are apart from one another, and the   *)
(* number that each would give next is ahead of all it has given.          *)
(*                                                                         *)
(* The members of a structure keep to their octets and are mirrored, and   *)
(* all members join to the fields that were declared.  The pending members *)
(* are packed (PackedMore: the pieces of a field fill the open octet first *)
(* and end in the last), write_table() turns packed members octet by octet *)
(* (StructTurned), and pieces join to the field they are of (JoinedPieces).*)
(***************************************************************************)
EXTENDS GenTables, SequenceTheorems, FiniteSetTheorems, WellFoundedInduction, TLAPS

(* o is a sequence.                                                         *)
Sequence(o) == o \in Seq({o[k] : k \in DOMAIN o})

(* t is s and x behind it.                                                  *)
Appended(s, x, t) ==
  /\ Sequence(t)
  /\ DOMAIN t = DOMAIN s \cup {Len(s) + 1} /\ Len(s) + 1 \notin DOMAIN s
  /\ \A k \in DOMAIN s : t[k] = s[k]
  /\ t[Len(s) + 1] = x

Frames == [attrs : [ident : Nat, seq : Nat], elseif : BOOLEAN]

(* The shape of the state: f is the fieldset_t, o what was written, st the  *)
(* stack, and u how many names the file has used.                           *)
Shape(f, o, st, u) ==
  /\ u \in Nat
  /\ f = [ident |-> f.ident, next_tag |-> f.next_tag, seq |-> f.seq,
          members |-> f.members, nbits |-> f.nbits]
  /\ f.ident \in 0..u /\ f.next_tag \in 0..u /\ f.seq \in Nat
  /\ Sequence(o)
  /\ \A k \in DOMAIN o : o[k].ident \in 1..u /\ o[k].seq \in Nat
  /\ st \in Seq(Frames)
  /\ \A i \in DOMAIN st : st[i].attrs.ident \in 0..u
  /\ (st = <<>>) = (f.ident = NULL)

(* The names that are saved and will come back.                             *)
Live(st) == {i \in DOMAIN st : i < Len(st) /\ st[i].attrs.ident # NULL}

Apart(f, st) ==
  /\ f.next_tag # NULL => f.next_tag # f.ident
  /\ \A i \in Live(st) : st[i].attrs.ident # f.ident /\ st[i].attrs.ident # f.next_tag
  /\ \A i, j \in Live(st) : i # j => st[i].attrs.ident # st[j].attrs.ident

Ahead(f, o, st) ==
  \A k \in DOMAIN o :
    /\ o[k].ident = f.ident => o[k].seq < f.seq
    /\ o[k].ident # f.next_tag
    /\ \A i \in Live(st) : o[k].ident = st[i].attrs.ident => o[k].seq < st[i].attrs.seq

Once(o) == \A i, j \in DOMAIN o : i # j => <<o[i].ident, o[i].seq>> # <<o[j].ident, o[j].seq>>

Good(f, o, st, u) == Shape(f, o, st, u) /\ Apart(f, st) /\ Ahead(f, o, st) /\ Once(o)

IInv == Good(fields, out, stack, used)

-----------------------------------------------------------------------------
LEMMA AsSeq ==
  ASSUME NEW S, NEW n \in Nat, NEW t \in [1..n -> S]
  PROVE  t \in Seq(S)
<1>1. Seq(S) = UNION {[1..m -> S] : m \in Nat}
  BY SeqDef
<1>. QED  BY <1>1, Zenon

(* One structure more.                                                      *)
LEMMA OneMore ==
  ASSUME NEW s, NEW x, NEW t, Sequence(s), t = s \o <<x>>
  PROVE  Appended(s, x, t)
<1> DEFINE R == {s[k] : k \in DOMAIN s} \cup {x}
<1>1. s \in Seq(R) /\ <<x>> \in Seq(R)
  <2>1. s \in [1..Len(s) -> {s[k] : k \in DOMAIN s}] /\ Len(s) \in Nat
    BY LenProperties DEF Sequence
  <2>2. s \in [1..Len(s) -> R]
    BY <2>1
  <2>3. s \in Seq(R)
    BY <2>1, <2>2, AsSeq
  <2>. QED  BY <2>3
<1>2. /\ t \in Seq(R) /\ Len(t) = Len(s) + 1 /\ Len(s) \in Nat
      /\ DOMAIN t = 1..Len(t) /\ DOMAIN s = 1..Len(s)
      /\ \A k \in 1..Len(s) : t[k] = s[k]
      /\ t[Len(s) + 1] = x
  BY <1>1
<1>3. t \in Seq({t[k] : k \in DOMAIN t})
  <2>1. t \in [1..Len(t) -> {t[k] : k \in DOMAIN t}] /\ Len(t) \in Nat
    <3>1. t \in [1..Len(t) -> R] /\ Len(t) \in Nat
      BY <1>2, LenProperties
    <3>. QED  BY <3>1
  <2>. QED  BY <2>1, AsSeq
<1>. QED  BY <1>2, <1>3 DEF Sequence, Appended

(* write_table() gives the current name its next number, which is new.      *)
LEMMA Writing ==
  ASSUME NEW f, NEW o, NEW st, NEW u, Good(f, o, st, u), st # <<>>
  PROVE  Good(AfterWriting(f), o \o Written(f), st, u)
<1> DEFINE g == AfterWriting(f)
           p == o \o Written(f)
<1>1. CASE f.members = <<>>
  <2>1. g = f /\ Written(f) = <<>>
    BY <1>1 DEF AfterWriting, Written
  <2>2. p = o
    BY <2>1 DEF Good, Shape
  <2>. QED  BY <2>1, <2>2
<1>2. CASE f.members # <<>>
  <2> DEFINE x == [ident |-> f.ident, seq |-> f.seq, struct |-> Struct(f.members)]
  <2>1. /\ g.ident = f.ident /\ g.next_tag = f.next_tag /\ g.seq = f.seq + 1
        /\ g = [ident |-> g.ident, next_tag |-> g.next_tag, seq |-> g.seq,
                members |-> g.members, nbits |-> g.nbits]
    BY <1>2 DEF AfterWriting, Good, Shape
  <2>2. p = o \o <<x>>
    BY <1>2 DEF Written
  <2>3. /\ Sequence(p)
        /\ DOMAIN p = DOMAIN o \cup {Len(o) + 1} /\ Len(o) + 1 \notin DOMAIN o
        /\ \A k \in DOMAIN o : p[k] = o[k]
        /\ p[Len(o) + 1] = x
    <3>1. Sequence(o)
      BY DEF Good, Shape
    <3> HIDE DEF p, x
    <3>2. Appended(o, x, p)
      BY <2>2, <3>1, OneMore
    <3>. QED  BY <3>2 DEF Appended
  <2>4. x.ident = f.ident /\ x.seq = f.seq
    OBVIOUS
  <2> HIDE DEF g, p, x
  <2>9. f.ident \in Nat /\ f.ident # NULL /\ f.seq \in Nat /\ f.next_tag # f.ident
    BY DEF Good, Shape, Apart, NULL
  <2>5. Shape(g, p, st, u)
    BY <2>1, <2>3, <2>4 DEF Good, Shape, NULL
  <2>6. Apart(g, st)
    BY <2>1 DEF Good, Apart
  <2>7. Ahead(g, p, st)
    <3>1. ASSUME NEW k \in DOMAIN o
          PROVE  /\ p[k].ident = g.ident => p[k].seq < g.seq
                 /\ p[k].ident # g.next_tag
                 /\ \A i \in Live(st) : p[k].ident = st[i].attrs.ident => p[k].seq < st[i].attrs.seq
      <4>1. p[k] = o[k] /\ o[k].seq \in Nat
        BY <2>3 DEF Good, Shape
      <4>. QED  BY <2>1, <2>9, <4>1 DEF Good, Ahead
    <3>2. /\ x.seq < g.seq /\ x.ident # g.next_tag
          /\ \A i \in Live(st) : x.ident # st[i].attrs.ident
      BY <2>1, <2>4, <2>9 DEF Good, Apart
    <3>. QED  BY <2>3, <3>1, <3>2 DEF Ahead
  <2>8. Once(p)
    <3>1. \A k \in DOMAIN o : o[k].ident = x.ident => o[k].seq < x.seq
      BY <2>4 DEF Good, Ahead
    <3>2. \A k \in DOMAIN o : <<o[k].ident, o[k].seq>> # <<x.ident, x.seq>>
      BY <3>1, <2>4, <2>9 DEF Good, Shape
    <3>3. Once(o)
      BY DEF Good
    <3>. QED  BY <2>3, <3>2, <3>3 DEF Once
  <2>. QED  BY <2>5, <2>6, <2>7, <2>8 DEF Good, g, p
<1>. QED  BY <1>1, <1>2

(* What a block changes at its start: the current frame gets what           *)
(* push_attrs() saves, and the block, if it is entered, a frame of its own.  *)
LEMMA Pushing ==
  ASSUME NEW f, NEW o, NEW st, NEW u, Good(f, o, st, u), st # <<>>,
         NEW more \in {<<>>} \cup {<<Frame(e)>> : e \in BOOLEAN}
  PROVE  Good(Tagged(f), o, [st EXCEPT ![Len(st)].attrs = Saved(f)] \o more, u)
<1> DEFINE g == Tagged(f)
           n == Len(st)
           base == [st EXCEPT ![n].attrs = Saved(f)]
           t == base \o more
<1>1. /\ st \in Seq(Frames) /\ n \in Nat \ {0} /\ DOMAIN st = 1..n
      /\ u \in Nat /\ f.ident \in 1..u /\ f.next_tag \in 0..u /\ f.seq \in Nat
  BY DEF Good, Shape, NULL
<1>2. /\ Saved(f) \in [ident : Nat, seq : Nat] /\ Saved(f).ident \in 0..u
      /\ f.next_tag = NULL => Saved(f).ident = NULL
      /\ f.next_tag # NULL => Saved(f).ident = f.ident /\ Saved(f).seq = f.seq
  BY <1>1 DEF Saved, NoAttrs, NULL
<1>3. /\ base \in Seq(Frames) /\ Len(base) = n
      /\ base[n].attrs = Saved(f) /\ \A i \in 1..(n - 1) : base[i] = st[i]
  <2>0. st[n] \in Frames
    BY <1>1
  <2> HIDE DEF n
  <2>1. /\ [st[n] EXCEPT !.attrs = Saved(f)] \in Frames
        /\ [st[n] EXCEPT !.attrs = Saved(f)].attrs = Saved(f)
    BY <1>2, <2>0 DEF Frames
  <2>2. base = [st EXCEPT ![n] = [st[n] EXCEPT !.attrs = Saved(f)]]
    OBVIOUS
  <2>. QED  BY <1>1, <2>1, <2>2
<1>4. more \in Seq(Frames) /\ Len(more) \in 0..1 /\ (more # <<>> => more[1].attrs = NoAttrs /\ Len(more) = 1)
      /\ (more = <<>> => Len(more) = 0)
  <2>1. \A e \in BOOLEAN : Frame(e) \in Frames /\ Frame(e).attrs = NoAttrs
    BY DEF Frame, Frames, NoAttrs, NULL
  <2>2. CASE more = <<>>
    BY <2>2
  <2>3. ASSUME NEW e \in BOOLEAN, more = <<Frame(e)>>
        PROVE  more \in Seq(Frames) /\ Len(more) = 1 /\ more[1].attrs = NoAttrs
    BY <2>1, <2>3
  <2>. QED  BY <2>2, <2>3
<1>5. /\ t \in Seq(Frames) /\ Len(t) = n + Len(more) /\ DOMAIN t = 1..Len(t) /\ t # <<>>
      /\ \A i \in 1..(n - 1) : t[i] = st[i]
      /\ t[n].attrs = Saved(f)
      /\ Len(more) = 1 => t[n + 1].attrs = NoAttrs
  <2> HIDE DEF base, n, g
  <2>1. /\ t \in Seq(Frames) /\ Len(t) = n + Len(more) /\ DOMAIN t = 1..Len(t)
    BY <1>1, <1>3, <1>4, SMTT(60)
  <2>2. \A i \in 1..n : t[i] = base[i]
    BY <1>1, <1>3, <1>4, SMTT(60)
  <2>3. Len(more) = 1 => t[n + 1] = more[1]
    BY <1>1, <1>3, <1>4, SMTT(30)
  <2>4. t # <<>>
    BY <2>1, <1>1, <1>4
  <2>. QED  BY <1>1, <1>3, <1>4, <2>1, <2>2, <2>3, <2>4
<1>6. /\ g = [ident |-> g.ident, next_tag |-> g.next_tag, seq |-> g.seq,
              members |-> g.members, nbits |-> g.nbits]
      /\ g.next_tag = NULL
      /\ f.next_tag = NULL => g = f
      /\ f.next_tag # NULL => g.ident = f.next_tag /\ g.seq = 0
  BY DEF Tagged, Good, Shape, NULL
<1> HIDE DEF g, base, t
<1>7. Shape(g, o, t, u)
  <2>1. \A i \in DOMAIN t : t[i].attrs.ident \in 0..u
    <3>1. \A i \in 1..(n - 1) : t[i].attrs.ident \in 0..u
      BY <1>1, <1>5 DEF Good, Shape
    <3>2. t[n].attrs.ident \in 0..u /\ (Len(more) = 1 => t[n + 1].attrs.ident \in 0..u)
      BY <1>1, <1>2, <1>5 DEF NoAttrs, NULL
    <3> HIDE DEF n
    <3>3. DOMAIN t \subseteq 1..(n + 1) /\ (n + 1 \in DOMAIN t => Len(more) = 1)
      <4>1. CASE Len(more) = 0
        BY <1>1, <1>5, <4>1
      <4>2. CASE Len(more) = 1
        BY <1>1, <1>5, <4>2
      <4>. QED  BY <1>4, <4>1, <4>2
    <3>. QED  BY <1>1, <3>1, <3>2, <3>3
  <2>2. g.ident \in 1..u /\ g.seq \in Nat
    BY <1>1, <1>6 DEF NULL
  <2>. QED  BY <1>1, <1>5, <1>6, <2>1, <2>2 DEF Good, Shape, NULL
<1>8. \A i \in Live(t) :
        \/ i \in Live(st) /\ t[i] = st[i]
        \/ i = n /\ f.next_tag # NULL /\ t[i].attrs.ident = f.ident /\ t[i].attrs.seq = f.seq
  <2> SUFFICES ASSUME NEW i \in Live(t)
               PROVE  \/ i \in Live(st) /\ t[i] = st[i]
                      \/ i = n /\ f.next_tag # NULL /\ t[i].attrs.ident = f.ident /\ t[i].attrs.seq = f.seq
    OBVIOUS
  <2>0. i \in DOMAIN t /\ i < Len(t) /\ t[i].attrs.ident # NULL
    BY DEF Live
  <2>1. i \in 1..n
    <3> HIDE DEF n
    <3>1. CASE Len(more) = 0
      BY <1>1, <1>5, <2>0, <3>1
    <3>2. CASE Len(more) = 1
      BY <1>1, <1>5, <2>0, <3>2
    <3>. QED  BY <1>4, <3>1, <3>2
  <2>2. CASE i = n
    BY <1>2, <1>5, <2>0, <2>1, <2>2
  <2>3. CASE i # n
    BY <1>1, <1>5, <2>0, <2>1, <2>3 DEF Live
  <2>. QED  BY <2>2, <2>3
<1>9. Apart(g, t)
  BY <1>1, <1>6, <1>8, SMTT(40) DEF Good, Apart, Live, NULL
<1>10. Ahead(g, o, t)
  <2> SUFFICES ASSUME NEW k \in DOMAIN o
               PROVE  /\ o[k].ident = g.ident => o[k].seq < g.seq
                      /\ o[k].ident # g.next_tag
                      /\ \A i \in Live(t) : o[k].ident = t[i].attrs.ident => o[k].seq < t[i].attrs.seq
    BY DEF Ahead
  <2>1. /\ o[k].ident = f.ident => o[k].seq < f.seq
        /\ o[k].ident # f.next_tag
        /\ \A i \in Live(st) : o[k].ident = st[i].attrs.ident => o[k].seq < st[i].attrs.seq
    BY DEF Good, Ahead
  <2>2. o[k].ident # NULL
    BY DEF Good, Shape, NULL
  <2>. QED  BY <1>6, <1>8, <2>1, <2>2
<1>. QED  BY <1>7, <1>9, <1>10 DEF Good, g, base, t

(* The end of a block that is not the outermost.                            *)
LEMMA Popping ==
  ASSUME NEW f, NEW o, NEW st, NEW u, Good(f, o, st, u), st # <<>>, Len(st) # 1
  PROVE  Good(Restored(f, st[Len(st) - 1].attrs), o, Front(st), u)
<1> DEFINE n == Len(st)
           a == st[n - 1].attrs
           g == Restored(f, a)
           t == Front(st)
<1>1. /\ st \in Seq(Frames) /\ n \in Nat /\ n > 1 /\ DOMAIN st = 1..n
      /\ u \in Nat /\ f.ident \in 1..u /\ f.next_tag \in 0..u /\ f.seq \in Nat
  <2>1. st \in Seq(Frames) /\ n \in Nat /\ DOMAIN st = 1..n /\ n # 0
    BY DEF Good, Shape
  <2>2. u \in Nat /\ f.ident \in 1..u /\ f.next_tag \in 0..u /\ f.seq \in Nat
    BY DEF Good, Shape, NULL
  <2>. QED  BY <2>1, <2>2
<1>2. t \in Seq(Frames) /\ Len(t) = n - 1 /\ DOMAIN t = 1..(n - 1) /\ t # <<>>
      /\ \A i \in 1..(n - 1) : t[i] = st[i]
  <2>1. t = SubSeq(st, 1, n - 1)
    BY DEF Front
  <2> HIDE DEF t, g, a
  <2>2. t \in Seq(Frames) /\ Len(t) = n - 1
    BY <1>1, <2>1
  <2>3. \A i \in 1..(n - 1) : t[i] = st[i]
    BY <1>1, <2>1
  <2>4. DOMAIN t = 1..(n - 1) /\ t # <<>>
    BY <1>1, <2>2
  <2>. QED  BY <2>2, <2>3, <2>4
<1>3. a \in [ident : Nat, seq : Nat] /\ a.ident \in 0..u
  <2>1. n - 1 \in DOMAIN st /\ st[n - 1] \in Frames
    BY <1>1
  <2>. QED  BY <2>1 DEF Frames, Good, Shape
<1>4. /\ g = [ident |-> g.ident, next_tag |-> g.next_tag, seq |-> g.seq,
              members |-> g.members, nbits |-> g.nbits]
      /\ g.next_tag = f.next_tag
      /\ a.ident = NULL => g = f
      /\ a.ident # NULL => g.ident = a.ident /\ g.seq = a.seq
  BY DEF Restored, Good, Shape
<1>5. a.ident # NULL => n - 1 \in Live(st)
  BY <1>1 DEF Live
<1>6. \A i \in Live(t) : i \in Live(st) /\ i # n - 1 /\ t[i] = st[i]
  BY <1>1, <1>2 DEF Live
<1>7. Shape(g, o, t, u)
  <2>1. g.ident \in 1..u /\ g.seq \in Nat
    BY <1>1, <1>3, <1>4 DEF NULL
  <2>2. \A i \in DOMAIN t : t[i].attrs.ident \in 0..u
    BY <1>1, <1>2 DEF Good, Shape
  <2> HIDE DEF g, t, a, n
  <2>. QED  BY <1>1, <1>2, <1>4, <2>1, <2>2 DEF Good, Shape, NULL
<1>8. Apart(g, t)
  <2> HIDE DEF g, t
  <2>. QED  BY <1>4, <1>5, <1>6 DEF Good, Apart
<1>9. Ahead(g, o, t)
  <2> HIDE DEF g, t
  <2>. QED  BY <1>4, <1>5, <1>6 DEF Good, Ahead
<1>. QED  BY <1>7, <1>8, <1>9 DEF Good

(* The end of a section.                                                    *)
LEMMA Leaving ==
  ASSUME NEW f, NEW o, NEW st, NEW u, Good(f, o, st, u), Len(st) = 1
  PROVE  Good(NoFields, o, Front(st), u)
<1>1. Front(st) = <<>>
  BY DEF Front, Good, Shape
<1>2. Live(<<>>) = {}
  BY DEF Live
<1>. QED  BY <1>1, <1>2 DEF Good, Shape, Apart, Ahead, NoFields, NULL, Frames

(* A tag, and the name of a section, are names that were not used.           *)
LEMMA Naming ==
  ASSUME NEW f, NEW o, NEW st, NEW u, Good(f, o, st, u)
  PROVE  Good([f EXCEPT !.next_tag = u + 1], o, st, u + 1)
<1> DEFINE g == [f EXCEPT !.next_tag = u + 1]
<1>1. /\ g = [ident |-> g.ident, next_tag |-> g.next_tag, seq |-> g.seq,
              members |-> g.members, nbits |-> g.nbits]
      /\ g.ident = f.ident /\ g.next_tag = u + 1 /\ g.seq = f.seq
  BY DEF Good, Shape
<1> HIDE DEF g
<1>2. Shape(g, o, st, u + 1)
  BY <1>1 DEF Good, Shape
<1>3. Apart(g, st)
  BY <1>1 DEF Good, Shape, Apart, Live
<1>4. Ahead(g, o, st)
  BY <1>1 DEF Good, Shape, Ahead
<1>. QED  BY <1>2, <1>3, <1>4 DEF Good, g

LEMMA Entering ==
  ASSUME NEW f, NEW o, NEW u, Good(f, o, <<>>, u)
  PROVE  Good(Tagged([f EXCEPT !.ident = u + 1]), o, <<Frame(FALSE)>>, u + 1)
<1> DEFINE g == Tagged([f EXCEPT !.ident = u + 1])
           t == <<Frame(FALSE)>>
<1>1. /\ g = [ident |-> g.ident, next_tag |-> g.next_tag, seq |-> g.seq,
              members |-> g.members, nbits |-> g.nbits]
      /\ g.next_tag = NULL
      /\ f.next_tag = NULL => g.ident = u + 1 /\ g.seq = f.seq
      /\ f.next_tag # NULL => g.ident = f.next_tag /\ g.seq = 0
  BY DEF Tagged, Good, Shape, NULL
<1>2. t \in Seq(Frames) /\ t # <<>> /\ Len(t) = 1 /\ t[1].attrs.ident = 0 /\ DOMAIN t = {1}
  BY DEF Frame, Frames, NoAttrs, NULL
<1>3. Live(t) = {}
  BY <1>2 DEF Live, NULL
<1> HIDE DEF g, t
<1>4. Shape(g, o, t, u + 1)
  BY <1>1, <1>2 DEF Good, Shape, NULL
<1>5. Apart(g, t)
  BY <1>1, <1>3 DEF Apart
<1>6. Ahead(g, o, t)
  BY <1>1, <1>3 DEF Good, Shape, Ahead, NULL
<1>. QED  BY <1>4, <1>5, <1>6 DEF Good, g, t

(* Members and tags that are dropped change no name.                        *)
LEMMA Filling ==
  ASSUME NEW f, NEW g, NEW o, NEW st, NEW u, Good(f, o, st, u),
         g = [ident |-> f.ident, next_tag |-> g.next_tag, seq |-> f.seq,
              members |-> g.members, nbits |-> g.nbits],
         g.next_tag \in {f.next_tag, NULL}
  PROVE  Good(g, o, st, u)
<1>1. g.ident = f.ident /\ g.seq = f.seq
  OBVIOUS
<1>2. Shape(g, o, st, u)
  BY <1>1 DEF Good, Shape, NULL
<1>3. Apart(g, st)
  BY <1>1 DEF Good, Apart, Live
<1>4. Ahead(g, o, st)
  BY <1>1 DEF Good, Shape, Ahead, NULL
<1>. QED  BY <1>2, <1>3, <1>4 DEF Good

-----------------------------------------------------------------------------
LEMMA InitGood == Init => IInv
<1> SUFFICES ASSUME Init PROVE IInv
  OBVIOUS
<1>1. Live(<<>>) = {}
  BY DEF Live
<1>2. <<>> \in Seq(Frames) /\ DOMAIN <<>> = {}
  OBVIOUS
<1>4. \A S : <<>> \in Seq(S)
  OBVIOUS
<1>5. NoFields.ident = 0 /\ NoFields.next_tag = 0 /\ NoFields.seq = 0
  BY DEF NoFields, NULL
<1>6. NoFields = [ident |-> NoFields.ident, next_tag |-> NoFields.next_tag, seq |-> NoFields.seq,
                  members |-> NoFields.members, nbits |-> NoFields.nbits]
  BY DEF NoFields, NULL
<1>3. Shape(NoFields, <<>>, <<>>, 0)
  <2> DEFINE e == <<>>
  <2>1. e \in Seq({e[k] : k \in DOMAIN e})
    BY <1>4
  <2>2. \A k \in DOMAIN e : e[k].ident \in 1..0 /\ e[k].seq \in Nat
    BY <1>2
  <2>3. \A i \in DOMAIN e : e[i].attrs.ident \in 0..0
    BY <1>2
  <2>4. 0 \in Nat /\ 0 \in 0..0
    OBVIOUS
  <2>5. e \in Seq(Frames) /\ (e = <<>>) = (NoFields.ident = NULL)
    BY <1>2, <1>5 DEF NULL
  <2> HIDE DEF e
  <2>6. Shape(NoFields, e, e, 0)
    BY <1>5, <1>6, <2>1, <2>2, <2>3, <2>4, <2>5 DEF Shape, Sequence
  <2>. QED  BY <2>6 DEF e
<1>. QED  BY <1>1, <1>3 DEF Init, IInv, Good, Apart, Ahead, Once, NoFields, NULL

LEMMA OpenGood ==
  ASSUME IInv, NEW heads, NEW elseif \in BOOLEAN, Open(heads, elseif)
  PROVE  IInv'
<1> DEFINE g == AfterWriting(fields)
           p == out \o Written(fields)
<1>1. PICK more \in {<<>>} \cup {<<Frame(e)>> : e \in BOOLEAN} :
        stack' = [stack EXCEPT ![Len(stack)].attrs = Saved(g)] \o more
  BY DEF Open
<1>2. Good(g, p, stack, used) /\ stack # <<>>
  BY Writing DEF IInv, Open, AtTop
<1>3. out' = p /\ fields' = Tagged(g) /\ used' = used
  BY DEF Open
<1> HIDE DEF g, p
<1>. QED  BY <1>1, <1>2, <1>3, Pushing DEF IInv

LEMMA StepGood == IInv /\ [Next]_vars => IInv'
<1> SUFFICES ASSUME IInv, [Next]_vars PROVE IInv'
  OBVIOUS
<1>1. CASE Comment
  BY <1>1 DEF Comment, IInv
<1>2. CASE Swallowed
  BY <1>2 DEF Swallowed, IInv
<1>3. CASE Attribute
  <2>1. fields' = [fields EXCEPT !.next_tag = used + 1] /\ used' = used + 1
        /\ out' = out /\ stack' = stack
    BY <1>3 DEF Attribute
  <2>. QED  BY <2>1, Naming DEF IInv
<1>4. CASE Section
  <2>1. /\ fields' = Tagged([fields EXCEPT !.ident = used + 1]) /\ used' = used + 1
        /\ out' = out /\ stack' = <<Frame(FALSE)>> /\ stack = <<>>
    BY <1>4 DEF Section, AtTop
  <2>. QED  BY <2>1, Entering DEF IInv
<1>5. CASE Block \/ For \/ If \/ Else \/ ElseIf
  <2>1. \E heads : \E elseif \in BOOLEAN : Open(heads, elseif)
    BY <1>5 DEF Block, For, If, Else, ElseIf
  <2>. QED  BY <2>1, OpenGood
<1>6. CASE While
  <2> DEFINE g == AfterWriting(fields)
             p == out \o Written(fields)
  <2>1. Good(g, p, stack, used)
    BY <1>6, Writing DEF IInv, While, AtTop
  <2>2. fields' = [g EXCEPT !.next_tag = NULL] /\ out' = p /\ stack' = stack /\ used' = used
    BY <1>6 DEF While
  <2> HIDE DEF g, p
  <2>3. /\ fields' = [ident |-> g.ident, next_tag |-> fields'.next_tag, seq |-> g.seq,
                      members |-> fields'.members, nbits |-> fields'.nbits]
        /\ fields'.next_tag = NULL
    BY <2>1, <2>2 DEF Good, Shape
  <2>4. Good(fields', p, stack, used)
    BY <2>1, <2>3, Filling
  <2>. QED  BY <2>2, <2>4 DEF IInv
<1>7. ASSUME NEW f \in Fields, Field(f) PROVE IInv'
  <2>1. CASE fields.next_tag # NULL
    BY <1>7, <2>1 DEF Field, Fail, IInv
  <2>2. CASE fields.next_tag = NULL
    <3>1. out' = out /\ stack' = stack /\ used' = used /\ fields' = add_field(fields, f.name, f.bits)
      BY <1>7, <2>2 DEF Field
    <3>2. /\ fields' = [ident |-> fields.ident, next_tag |-> fields'.next_tag, seq |-> fields.seq,
                        members |-> fields'.members, nbits |-> fields'.nbits]
          /\ fields'.next_tag = fields.next_tag
      BY <3>1 DEF add_field, IInv, Good, Shape
    <3>3. Good(fields', out, stack, used)
      BY <3>2, Filling DEF IInv
    <3>. QED  BY <3>1, <3>3 DEF IInv
  <2>. QED  BY <2>1, <2>2
<1>8. CASE Descriptor
  <2>1. CASE fields.next_tag # NULL
    BY <1>8, <2>1 DEF Descriptor, Fail, IInv
  <2>2. CASE fields.next_tag = NULL
    BY <1>8, <2>2, Writing DEF Descriptor, AtTop, IInv
  <2>. QED  BY <2>1, <2>2
<1>9. CASE Close
  <2> DEFINE g == AfterWriting(fields)
             p == out \o Written(fields)
  <2>1. Good(g, p, stack, used) /\ stack # <<>>
    BY <1>9, Writing DEF IInv, Close, AtTop
  <2>2. /\ out' = p /\ stack' = Front(stack) /\ used' = used
        /\ fields' = IF Len(stack) = 1 THEN NoFields
                     ELSE Restored(g, stack[Len(stack) - 1].attrs)
    BY <1>9 DEF Close
  <2> HIDE DEF g, p
  <2>3. CASE Len(stack) = 1
    BY <2>1, <2>2, <2>3, Leaving DEF IInv
  <2>4. CASE Len(stack) # 1
    BY <2>1, <2>2, <2>4, Popping DEF IInv
  <2>. QED  BY <2>3, <2>4
<1>10. CASE Misplaced
  BY <1>10 DEF Misplaced, Fail, IInv
<1>11. CASE EndOfFile
  BY <1>11 DEF EndOfFile, IInv
<1>12. CASE UNCHANGED vars
  BY <1>12 DEF vars, IInv
<1>. QED  BY <1>1, <1>2, <1>3, <1>4, <1>5, <1>6, <1>7, <1>8, <1>9, <1>10, <1>11, <1>12 DEF Next

(* Numbers tell two structures apart that are of one name or of two names  *)
(* that are apart.                                                         *)
Spelt == [base : STRING, numbers : Seq(Nat)]

LEMMA NumberedIs ==
  ASSUME NEW a \in Spelt, NEW m \in Nat
  PROVE  /\ Numbered(a, m).base = a.base /\ Numbered(a, m).numbers = Append(a.numbers, m)
         /\ Len(Numbered(a, m).numbers) = Len(a.numbers) + 1
         /\ Numbered(a, m).numbers[Len(a.numbers) + 1] = m
         /\ \A k \in 1..Len(a.numbers) : Numbered(a, m).numbers[k] = a.numbers[k]
<1>1. a.numbers \in Seq(Nat)
  BY DEF Spelt
<1>. QED  BY <1>1 DEF Numbered

LEMMA NumbersSame ==
  ASSUME NEW a \in Spelt, NEW b \in Spelt, NEW m \in Nat, NEW n \in Nat,
         Numbered(a, m) = Numbered(b, n)
  PROVE  a = b /\ m = n
<1>1. /\ a.numbers \in Seq(Nat) /\ a = [base |-> a.base, numbers |-> a.numbers]
      /\ b.numbers \in Seq(Nat) /\ b = [base |-> b.base, numbers |-> b.numbers]
  BY DEF Spelt
<1> DEFINE x == Numbered(a, m)
           y == Numbered(b, n)
<1>x. /\ x.base = a.base /\ Len(x.numbers) = Len(a.numbers) + 1
      /\ x.numbers[Len(a.numbers) + 1] = m
      /\ \A k \in 1..Len(a.numbers) : x.numbers[k] = a.numbers[k]
  BY NumberedIs
<1>y. /\ y.base = b.base /\ Len(y.numbers) = Len(b.numbers) + 1
      /\ y.numbers[Len(b.numbers) + 1] = n
      /\ \A k \in 1..Len(b.numbers) : y.numbers[k] = b.numbers[k]
  BY NumberedIs
<1>z. x = y
  OBVIOUS
<1> HIDE DEF x, y
<1>n. Len(a.numbers) \in Nat /\ Len(b.numbers) \in Nat
  BY <1>1
<1>2. Len(a.numbers) = Len(b.numbers) /\ a.base = b.base
  BY <1>x, <1>y, <1>z, <1>n
<1>3. m = n /\ \A k \in 1..Len(a.numbers) : a.numbers[k] = b.numbers[k]
  BY <1>x, <1>y, <1>z, <1>2
<1>4. a.numbers = b.numbers
  BY <1>1, <1>2, <1>3, SeqEqual
<1>. QED  BY <1>1, <1>2, <1>3, <1>4

LEMMA NumberMeets ==
  ASSUME NEW a \in Spelt, NEW b \in Spelt, NEW n \in Nat, n # 0, a = Numbered(b, n)
  PROVE  Meet(a, b)
<1> DEFINE k == Len(b.numbers) + 1
<1>1. k \in 1..Len(a.numbers) /\ a.numbers[k] = n
  <2>1. b.numbers \in Seq(Nat)
    BY DEF Spelt
  <2>. QED  BY <2>1, NumberedIs
<1> HIDE DEF k
<1>. QED  BY <1>1 DEF Meet

LEMMA NamesTellApart ==
  ASSUME NEW x, NEW y, x.ident \in 1..used, y.ident \in 1..used,
         x.seq \in Nat, y.seq \in Nat, used \in 0..MaxNames,
         x.ident # y.ident \/ x.seq # y.seq, NamesApart
  PROVE  StructName(x) # StructName(y)
<1> DEFINE a == Spelling[x.ident]
           b == Spelling[y.ident]
<1>1. a \in Spelt /\ b \in Spelt
  BY GenAssumption DEF Spelt
<1>2. x.ident # y.ident => ~Meet(a, b) /\ ~Meet(b, a)
  BY DEF NamesApart
<1>3. x.ident # y.ident => a # b
  BY <1>2 DEF Meet
<1>4. /\ StructName(x) = IF x.seq = 0 THEN a ELSE Numbered(a, x.seq)
      /\ StructName(y) = IF y.seq = 0 THEN b ELSE Numbered(b, y.seq)
  BY DEF StructName
<1>5. x.ident = y.ident => a = b
  OBVIOUS
<1> HIDE DEF a, b
<1>6. CASE x.seq = 0 /\ y.seq = 0
  BY <1>3, <1>4, <1>6
<1>7. CASE x.seq # 0 /\ y.seq # 0
  <2> SUFFICES ASSUME Numbered(a, x.seq) = Numbered(b, y.seq) PROVE FALSE
    BY <1>4, <1>7
  <2>1. a = b /\ x.seq = y.seq
    BY <1>1, NumbersSame
  <2>. QED  BY <1>3, <2>1
<1>8. CASE x.seq = 0 /\ y.seq # 0
  <2> SUFFICES ASSUME a = Numbered(b, y.seq) PROVE FALSE
    BY <1>4, <1>8
  <2>1. Meet(a, b)
    BY <1>1, <1>8, NumberMeets
  <2>2. a = b
    BY <1>2, <1>5, <2>1
  <2>3. Len(Numbered(b, y.seq).numbers) = Len(b.numbers) + 1
    BY <1>1, NumberedIs
  <2>4. Len(b.numbers) \in Nat
    BY <1>1 DEF Spelt
  <2>. QED  BY <2>2, <2>3, <2>4
<1>9. CASE x.seq # 0 /\ y.seq = 0
  <2> SUFFICES ASSUME b = Numbered(a, x.seq) PROVE FALSE
    BY <1>4, <1>9
  <2>1. Meet(b, a)
    BY <1>1, <1>9, NumberMeets
  <2>2. a = b
    BY <1>2, <1>5, <2>1
  <2>3. Len(Numbered(a, x.seq).numbers) = Len(a.numbers) + 1
    BY <1>1, NumberedIs
  <2>4. Len(a.numbers) \in Nat
    BY <1>1 DEF Spelt
  <2>. QED  BY <2>2, <2>3, <2>4
<1>. QED  BY <1>6, <1>7, <1>8, <1>9

-----------------------------------------------------------------------------
(* Induction on the members and structures that were done.                  *)
LEMMA Induction ==
  ASSUME NEW n \in Nat, NEW T, 0 \in T, \A i \in 0..(n - 1) : i \in T => i + 1 \in T
  PROVE  n \in T
<1> DEFINE U == (0..n) \ T
<1> SUFFICES ASSUME U # {} PROVE FALSE
  OBVIOUS
<1>1. U \subseteq Nat
  OBVIOUS
<1>2. PICK x \in U : \A y \in U : ~(<<y, x>> \in OpToRel(<, Nat))
  BY <1>1, NatLessThanWellFounded, WFMin
<1>3. \A y \in U : ~(y < x)
  BY <1>1, <1>2 DEF OpToRel
<1>4. x - 1 \notin U /\ x # 0
  BY <1>3
<1>5. x - 1 \in 0..(n - 1) /\ x - 1 \in T
  BY <1>4
<1>. QED  BY <1>5

(* The bits of the members, as a recursion.                                 *)
IsBitsRun(g, k, ms) ==
  g = [i \in 0..k |-> IF i = 0 THEN 0 ELSE g[i - 1] + ms[i].bits]

BitsRunGoes(f, last, ms) ==
  f[0] = 0 /\ \A k \in 0..(last - 1) : f[k + 1] = f[k] + ms[k + 1].bits

LEMMA BitsRun ==
  ASSUME NEW ms, NEW E, ms \in Seq(E)
  PROVE  BitsRunGoes(Bits(ms), Len(ms), ms)
<1> DEFINE last == Len(ms)
           T == {k \in 0..last : \E g : IsBitsRun(g, k, ms)}
<1>1. 0 \in T
  <2>1. IsBitsRun([i \in 0..0 |-> 0], 0, ms)
    BY DEF IsBitsRun
  <2>. QED  BY <2>1
<1>2. ASSUME NEW k \in 0..(last - 1), k \in T PROVE k + 1 \in T
  <2>1. PICK g : IsBitsRun(g, k, ms)
    BY <1>2
  <2> DEFINE h == [i \in 0..(k + 1) |->
                     IF i = k + 1 THEN g[k] + ms[k + 1].bits ELSE g[i]]
  <2>2. IsBitsRun(h, k + 1, ms)
    <3> SUFFICES ASSUME NEW i \in 0..(k + 1)
                 PROVE  h[i] = IF i = 0 THEN 0 ELSE h[i - 1] + ms[i].bits
      BY DEF IsBitsRun
    <3>1. CASE i = 0
      BY <2>1, <3>1 DEF IsBitsRun
    <3>2. CASE i = k + 1
      BY <2>1, <3>2 DEF IsBitsRun
    <3>3. CASE i \in 1..k
      BY <2>1, <3>3 DEF IsBitsRun
    <3>. QED  BY <3>1, <3>2, <3>3
  <2> HIDE DEF h
  <2>. QED  BY <2>2
<1> HIDE DEF T
<1>3. last \in T
  BY <1>1, <1>2, Induction
<1>4. \E g : IsBitsRun(g, last, ms)
  BY <1>3 DEF T
<1> DEFINE f == CHOOSE g : IsBitsRun(g, last, ms)
<1>5. IsBitsRun(f, last, ms)
  BY <1>4
<1>6. Bits(ms) = f
  BY DEF Bits, IsBitsRun
<1> HIDE DEF f
<1>7. f[0] = 0
  <2>1. 0 \in 0..last
    OBVIOUS
  <2> HIDE DEF last
  <2>. QED  BY <1>5, <2>1 DEF IsBitsRun
<1>8. ASSUME NEW k \in 0..(last - 1) PROVE f[k + 1] = f[k] + ms[k + 1].bits
  <2> DEFINE i == k + 1
  <2>1. i \in 0..last /\ i # 0 /\ i - 1 = k
    OBVIOUS
  <2> HIDE DEF i
  <2>2. f[i] = f[i - 1] + ms[i].bits
    BY <1>5, <2>1 DEF IsBitsRun
  <2>. QED  BY <2>1, <2>2 DEF i
<1>9. BitsRunGoes(f, last, ms)
  BY <1>7, <1>8 DEF BitsRunGoes
<1>. QED  BY <1>6, <1>9

(* What the compiler sees of a structure, member for member.                *)
Empty == [big |-> <<>>, little |-> <<>>, section |-> <<>>, nbits |-> 0]

IsStructRun(g, k, ms) ==
  g = [i \in 0..k |-> IF i = 0 THEN Empty ELSE StructStep(g[i - 1], ms[i])]

StructRunGoes(f, last, ms) ==
  f[0] = Empty /\ \A k \in 0..(last - 1) : f[k + 1] = StructStep(f[k], ms[k + 1])

LEMMA StructRun ==
  ASSUME NEW ms, NEW E, ms \in Seq(E)
  PROVE  \E f : StructRunGoes(f, Len(ms), ms) /\ Struct(ms) = f[Len(ms)]
<1> DEFINE last == Len(ms)
           T == {k \in 0..last : \E g : IsStructRun(g, k, ms)}
<1>1. 0 \in T
  <2>1. IsStructRun([i \in 0..0 |-> Empty], 0, ms)
    BY DEF IsStructRun
  <2>. QED  BY <2>1
<1>2. ASSUME NEW k \in 0..(last - 1), k \in T PROVE k + 1 \in T
  <2>1. PICK g : IsStructRun(g, k, ms)
    BY <1>2
  <2> DEFINE h == [i \in 0..(k + 1) |->
                     IF i = k + 1 THEN StructStep(g[k], ms[k + 1]) ELSE g[i]]
  <2>2. IsStructRun(h, k + 1, ms)
    <3> SUFFICES ASSUME NEW i \in 0..(k + 1)
                 PROVE  h[i] = IF i = 0 THEN Empty ELSE StructStep(h[i - 1], ms[i])
      BY DEF IsStructRun
    <3>1. CASE i = 0
      BY <2>1, <3>1 DEF IsStructRun
    <3>2. CASE i = k + 1
      BY <2>1, <3>2 DEF IsStructRun
    <3>3. CASE i \in 1..k
      BY <2>1, <3>3 DEF IsStructRun
    <3>. QED  BY <3>1, <3>2, <3>3
  <2> HIDE DEF h
  <2>. QED  BY <2>2
<1> HIDE DEF T
<1>3. last \in T
  BY <1>1, <1>2, Induction
<1>4. \E g : IsStructRun(g, last, ms)
  BY <1>3 DEF T
<1> DEFINE f == CHOOSE g : IsStructRun(g, last, ms)
<1>5. IsStructRun(f, last, ms)
  BY <1>4
<1>6. Struct(ms) = f[last]
  BY DEF Struct, IsStructRun, Empty
<1> HIDE DEF f
<1>7. f[0] = Empty
  <2>1. 0 \in 0..last
    OBVIOUS
  <2> HIDE DEF last
  <2>. QED  BY <1>5, <2>1 DEF IsStructRun
<1>8. ASSUME NEW k \in 0..(last - 1) PROVE f[k + 1] = StructStep(f[k], ms[k + 1])
  <2> DEFINE i == k + 1
  <2>1. i \in 0..last /\ i # 0 /\ i - 1 = k
    OBVIOUS
  <2> HIDE DEF i
  <2>2. f[i] = StructStep(f[i - 1], ms[i])
    BY <1>5, <2>1 DEF IsStructRun
  <2>. QED  BY <2>1, <2>2 DEF i
<1>. QED  BY <1>6, <1>7, <1>8 DEF StructRunGoes

(* The fields that members join to.                                         *)
IsJoinedRun(g, k, ms) ==
  g = [i \in 0..k |-> IF i = 0 THEN [done |-> <<>>, bits |-> 0] ELSE JoinStep(g[i - 1], ms[i])]

JoinedRunGoes(f, last, ms) ==
  f[0] = [done |-> <<>>, bits |-> 0] /\ \A k \in 0..(last - 1) : f[k + 1] = JoinStep(f[k], ms[k + 1])

LEMMA JoinedRun ==
  ASSUME NEW ms, NEW E, ms \in Seq(E)
  PROVE  \E f : JoinedRunGoes(f, Len(ms), ms) /\ Joined(ms) = f[Len(ms)]
<1> DEFINE last == Len(ms)
           T == {k \in 0..last : \E g : IsJoinedRun(g, k, ms)}
<1>1. 0 \in T
  <2>1. IsJoinedRun([i \in 0..0 |-> [done |-> <<>>, bits |-> 0]], 0, ms)
    BY DEF IsJoinedRun
  <2>. QED  BY <2>1
<1>2. ASSUME NEW k \in 0..(last - 1), k \in T PROVE k + 1 \in T
  <2>1. PICK g : IsJoinedRun(g, k, ms)
    BY <1>2
  <2> DEFINE h == [i \in 0..(k + 1) |->
                     IF i = k + 1 THEN JoinStep(g[k], ms[k + 1]) ELSE g[i]]
  <2>2. IsJoinedRun(h, k + 1, ms)
    <3> SUFFICES ASSUME NEW i \in 0..(k + 1)
                 PROVE  h[i] = IF i = 0 THEN [done |-> <<>>, bits |-> 0] ELSE JoinStep(h[i - 1], ms[i])
      BY DEF IsJoinedRun
    <3>1. CASE i = 0
      BY <2>1, <3>1 DEF IsJoinedRun
    <3>2. CASE i = k + 1
      BY <2>1, <3>2 DEF IsJoinedRun
    <3>3. CASE i \in 1..k
      BY <2>1, <3>3 DEF IsJoinedRun
    <3>. QED  BY <3>1, <3>2, <3>3
  <2> HIDE DEF h
  <2>. QED  BY <2>2
<1> HIDE DEF T
<1>3. last \in T
  BY <1>1, <1>2, Induction
<1>4. \E g : IsJoinedRun(g, last, ms)
  BY <1>3 DEF T
<1> DEFINE f == CHOOSE g : IsJoinedRun(g, last, ms)
<1>5. IsJoinedRun(f, last, ms)
  BY <1>4
<1>6. Joined(ms) = f[last]
  BY DEF Joined, IsJoinedRun
<1> HIDE DEF f
<1>7. f[0] = [done |-> <<>>, bits |-> 0]
  <2>1. 0 \in 0..last
    OBVIOUS
  <2> HIDE DEF last
  <2>. QED  BY <1>5, <2>1 DEF IsJoinedRun
<1>8. ASSUME NEW k \in 0..(last - 1) PROVE f[k + 1] = JoinStep(f[k], ms[k + 1])
  <2> DEFINE i == k + 1
  <2>1. i \in 0..last /\ i # 0 /\ i - 1 = k
    OBVIOUS
  <2> HIDE DEF i
  <2>2. f[i] = JoinStep(f[i - 1], ms[i])
    BY <1>5, <2>1 DEF IsJoinedRun
  <2>. QED  BY <2>1, <2>2 DEF i
<1>. QED  BY <1>6, <1>7, <1>8 DEF JoinedRunGoes

(* The members of the structures that were written.                         *)
More(w, x) == w \o x.struct.big

IsAllRun(g, k, o) == g = [i \in 0..k |-> IF i = 0 THEN <<>> ELSE More(g[i - 1], o[i])]

AllRunGoes(f, last, o) ==
  f[0] = <<>> /\ \A k \in 0..(last - 1) : f[k + 1] = More(f[k], o[k + 1])

LEMMA AllRun ==
  ASSUME NEW o, NEW E, o \in Seq(E)
  PROVE  \E f : AllRunGoes(f, Len(o), o) /\ AllMembers(o) = f[Len(o)]
<1> DEFINE last == Len(o)
           T == {k \in 0..last : \E g : IsAllRun(g, k, o)}
<1>1. 0 \in T
  <2>1. IsAllRun([i \in 0..0 |-> <<>>], 0, o)
    BY DEF IsAllRun
  <2>. QED  BY <2>1
<1>2. ASSUME NEW k \in 0..(last - 1), k \in T PROVE k + 1 \in T
  <2>1. PICK g : IsAllRun(g, k, o)
    BY <1>2
  <2> DEFINE h == [i \in 0..(k + 1) |->
                     IF i = k + 1 THEN More(g[k], o[k + 1]) ELSE g[i]]
  <2>2. IsAllRun(h, k + 1, o)
    <3> SUFFICES ASSUME NEW i \in 0..(k + 1)
                 PROVE  h[i] = IF i = 0 THEN <<>> ELSE More(h[i - 1], o[i])
      BY DEF IsAllRun
    <3>1. CASE i = 0
      BY <2>1, <3>1 DEF IsAllRun
    <3>2. CASE i = k + 1
      BY <2>1, <3>2 DEF IsAllRun
    <3>3. CASE i \in 1..k
      BY <2>1, <3>3 DEF IsAllRun
    <3>. QED  BY <3>1, <3>2, <3>3
  <2> HIDE DEF h
  <2>. QED  BY <2>2
<1> HIDE DEF T
<1>3. last \in T
  BY <1>1, <1>2, Induction
<1>4. \E g : IsAllRun(g, last, o)
  BY <1>3 DEF T
<1> DEFINE f == CHOOSE g : IsAllRun(g, last, o)
<1>5. IsAllRun(f, last, o)
  BY <1>4
<1>6. AllMembers(o) = f[last]
  BY DEF AllMembers, IsAllRun, More
<1> HIDE DEF f
<1>7. f[0] = <<>>
  <2>1. 0 \in 0..last
    OBVIOUS
  <2> HIDE DEF last
  <2>. QED  BY <1>5, <2>1 DEF IsAllRun
<1>8. ASSUME NEW k \in 0..(last - 1) PROVE f[k + 1] = More(f[k], o[k + 1])
  <2> DEFINE i == k + 1
  <2>1. i \in 0..last /\ i # 0 /\ i - 1 = k
    OBVIOUS
  <2> HIDE DEF i
  <2>2. f[i] = More(f[i - 1], o[i])
    BY <1>5, <2>1 DEF IsAllRun
  <2>. QED  BY <2>1, <2>2 DEF i
<1>. QED  BY <1>6, <1>7, <1>8 DEF AllRunGoes

-----------------------------------------------------------------------------
(* The octets that the bits of a field fall into.                           *)
Rem(nbits) == 8 - (nbits % 8)
Count(bits, nbits) == IF bits <= Rem(nbits) THEN 1 ELSE 1 + ((bits - Rem(nbits)) + 7) \div 8
Before(bits, nbits, i) ==
  IF i = 0 THEN 0 ELSE IF i = Count(bits, nbits) THEN bits ELSE Rem(nbits) + 8 * (i - 1)

ArePieces(p, id, bits, nbits) ==
  /\ p \in Seq(Member) /\ Len(p) = Count(bits, nbits) /\ Count(bits, nbits) \in Nat \ {0}
  /\ \A i \in 1..Count(bits, nbits) :
       /\ p[i].ident = id /\ (p[i].part[2] = 0) = (i = Count(bits, nbits))
       /\ Before(bits, nbits, i) = Before(bits, nbits, i - 1) + p[i].bits
       /\ ((nbits + Before(bits, nbits, i - 1)) % 8) + p[i].bits <= 8

LEMMA Counting ==
  ASSUME NEW bits \in Nat \ {0}, NEW nbits \in Nat
  PROVE  /\ Rem(nbits) \in 1..8 /\ Count(bits, nbits) \in Nat \ {0}
         /\ (nbits + Rem(nbits)) % 8 = 0
         /\ Count(bits, nbits) = 1 => bits <= Rem(nbits)
         /\ Count(bits, nbits) # 1 =>
              /\ Count(bits, nbits) >= 2
              /\ (bits - Rem(nbits)) - 8 * (Count(bits, nbits) - 2) \in 1..8
<1> DEFINE r == Rem(nbits)
           x == bits - r
           q == (x + 7) \div 8
<1>1. r \in 1..8 /\ (nbits + r) % 8 = 0
  BY DEF Rem
<1>2. CASE bits <= r
  BY <1>1, <1>2 DEF Count
<1>3. CASE ~(bits <= r)
  <2>1. x \in Nat /\ x > 0
    BY <1>1, <1>3
  <2>2. Count(bits, nbits) = 1 + q
    BY <1>3 DEF Count
  <2> HIDE DEF x, r
  <2>3. q \in Nat /\ q >= 1 /\ x - 8 * (q - 1) \in 1..8
    BY <2>1
  <2>. QED  BY <1>1, <2>2, <2>3 DEF x, r
<1>. QED  BY <1>2, <1>3

LEMMA PiecesFit ==
  ASSUME NEW id \in {f.name : f \in Fields} \X Nat, NEW bits \in Nat \ {0}, NEW nbits \in Nat
  PROVE  ArePieces(Pieces(id, bits, nbits), id, bits, nbits)
<1> DEFINE r == Rem(nbits)
           count == Count(bits, nbits)
           width(i) == IF count = 1 THEN bits ELSE IF i = 1 THEN r
                       ELSE IF i < count THEN 8 ELSE (bits - r) - 8 * (count - 2)
           p == [i \in 1..count |-> [ident |-> id, part |-> Part(count, i), bits |-> width(i)]]
<1>1. Pieces(id, bits, nbits) = p
  BY DEF Pieces, Count, Rem
<1>2. /\ r \in 1..8 /\ count \in Nat \ {0} /\ (nbits + r) % 8 = 0
      /\ count = 1 => bits <= r
      /\ count # 1 => count >= 2 /\ (bits - r) - 8 * (count - 2) \in 1..8
  BY Counting
<1> DEFINE rest == (bits - r) - 8 * (count - 2)
<1>3. r = 8 - (nbits % 8)
  BY DEF Rem
<1> HIDE DEF r, count
<1>4. ASSUME NEW i \in 1..count
      PROVE  /\ width(i) \in 1..8
             /\ Before(bits, nbits, i) = Before(bits, nbits, i - 1) + width(i)
             /\ ((nbits + Before(bits, nbits, i - 1)) % 8) + width(i) <= 8
             /\ Part(count, i) \in {"whole", "hilo", "number"} \X Nat
             /\ (Part(count, i)[2] = 0) = (i = count)
  <2>1. Part(count, i) \in {"whole", "hilo", "number"} \X Nat /\ (Part(count, i)[2] = 0) = (i = count)
    BY <1>2 DEF Part
  <2>2. CASE count = 1
    <3>1. i = 1 /\ Before(bits, nbits, i) = bits /\ Before(bits, nbits, i - 1) = 0 /\ width(i) = bits
      BY <1>2, <2>2 DEF Before, count
    <3>. QED  BY <1>2, <1>3, <2>1, <2>2, <3>1
  <2>3. CASE count # 1 /\ i = 1
    <3>1. Before(bits, nbits, i) = r /\ Before(bits, nbits, i - 1) = 0 /\ width(i) = r
      BY <1>2, <2>3 DEF Before, count, r
    <3>. QED  BY <1>2, <1>3, <2>1, <2>3, <3>1
  <2>4. CASE count # 1 /\ i # 1
    <3>1. /\ Before(bits, nbits, i - 1) = r + 8 * (i - 2)
      BY <1>2, <2>4 DEF Before, count, r
    <3>2. (nbits + (r + 8 * (i - 2))) % 8 = 0
      <4> DEFINE a == nbits + r
                 k == i - 2
      <4>1. a % 8 = 0 /\ a \in Int /\ k \in Int
        BY <1>2
      <4> HIDE DEF a, k
      <4>2. (a + 8 * k) % 8 = 0
        BY <4>1
      <4>3. nbits + (r + 8 * (i - 2)) = a + 8 * k
        BY <1>2 DEF a, k
      <4>. QED  BY <4>2, <4>3
    <3>3. CASE i < count
      <4>1. Before(bits, nbits, i) = r + 8 * (i - 1) /\ width(i) = 8
        BY <1>2, <2>4, <3>3 DEF Before, count, r
      <4>. QED  BY <1>2, <2>1, <3>1, <3>2, <4>1
    <3>4. CASE i = count
      <4>1. Before(bits, nbits, i) = bits /\ width(i) = rest
        BY <1>2, <2>4, <3>4 DEF Before, count, r
      <4>2. rest \in 1..8 /\ bits = (r + 8 * (count - 2)) + rest
        BY <1>2, <2>4
      <4> HIDE DEF width, rest
      <4>3. Before(bits, nbits, i) = Before(bits, nbits, i - 1) + width(i)
        BY <3>1, <3>4, <4>1, <4>2
      <4>4. ((nbits + Before(bits, nbits, i - 1)) % 8) + width(i) <= 8
        BY <3>1, <3>2, <4>1, <4>2
      <4>. QED  BY <2>1, <4>1, <4>2, <4>3, <4>4
    <3>5. i < count \/ i = count
      BY <1>2
    <3> HIDE DEF width, rest
    <3>. QED  BY <3>3, <3>4, <3>5
  <2>. QED  BY <2>2, <2>3, <2>4
<1> HIDE DEF width, rest
<1>5. p \in Seq(Member) /\ Len(p) = count
  <2>1. \A i \in 1..count : [ident |-> id, part |-> Part(count, i), bits |-> width(i)] \in Member
    BY <1>4 DEF Member
  <2>. QED  BY <1>2, <2>1
<1>6. \A i \in 1..count : /\ p[i].ident = id /\ (p[i].part[2] = 0) = (i = count)
                          /\ p[i].bits = width(i)
  BY <1>4
<1> HIDE DEF p
<1>7. ArePieces(p, id, bits, nbits)
  BY <1>2, <1>4, <1>5, <1>6 DEF ArePieces, count
<1>. QED  BY <1>1, <1>7

-----------------------------------------------------------------------------
(* Members that stay within their octets, n bits in all.                    *)
Packed(ms, n) ==
  /\ ms \in Seq(Member) /\ n \in Nat /\ Bits(ms)[Len(ms)] = n
  /\ \A k \in 1..Len(ms) : (Bits(ms)[k - 1] % 8) + ms[k].bits <= 8

LEMMA NonePacked == Packed(<<>>, 0)
<1> DEFINE e == <<>>
<1>1. e \in Seq(Member) /\ Len(e) = 0
  OBVIOUS
<1> HIDE DEF e
<1>2. Bits(e)[0] = 0
  BY <1>1, BitsRun DEF BitsRunGoes
<1>. QED  BY <1>1, <1>2 DEF Packed, e

(* What two sequences have behind one another.                              *)
Both(a, p, t) ==
  /\ a \in Seq(Member) /\ p \in Seq(Member) /\ t \in Seq(Member)
  /\ Len(a) \in Nat /\ Len(p) \in Nat /\ Len(t) = Len(a) + Len(p)
  /\ \A k \in 1..Len(a) : t[k] = a[k]
  /\ \A k \in 1..Len(p) : t[Len(a) + k] = p[k]

LEMMA BothAre ==
  ASSUME NEW a \in Seq(Member), NEW p \in Seq(Member), NEW t, t = a \o p
  PROVE  Both(a, p, t)
BY DEF Both

LEMMA BitsBefore ==
  ASSUME NEW a, NEW p, NEW t, Both(a, p, t), NEW n \in 0..Len(a)
  PROVE  Bits(t)[n] = Bits(a)[n]
<1> DEFINE T == {k \in 0..n : Bits(t)[k] = Bits(a)[k]}
<1>1. BitsRunGoes(Bits(a), Len(a), a) /\ BitsRunGoes(Bits(t), Len(t), t)
  BY BitsRun DEF Both
<1>2. Len(a) \in Nat /\ Len(t) = Len(a) + Len(p) /\ Len(p) \in Nat /\ n \in Nat
  BY DEF Both
<1>3. 0 \in T
  BY <1>1, <1>2 DEF BitsRunGoes
<1>4. ASSUME NEW k \in 0..(n - 1), k \in T PROVE k + 1 \in T
  <2>1. k \in 0..(Len(a) - 1) /\ k \in 0..(Len(t) - 1) /\ k + 1 \in 1..Len(a) /\ k + 1 \in 0..n
    BY <1>2
  <2>2. Bits(t)[k + 1] = Bits(t)[k] + t[k + 1].bits /\ Bits(a)[k + 1] = Bits(a)[k] + a[k + 1].bits
    BY <1>1, <2>1 DEF BitsRunGoes
  <2>3. t[k + 1] = a[k + 1]
    BY <2>1 DEF Both
  <2>. QED  BY <1>4, <2>1, <2>2, <2>3
<1> HIDE DEF T
<1>5. n \in T
  BY <1>2, <1>3, <1>4, Induction
<1>. QED  BY <1>5 DEF T

(* The pieces of a field, behind what has n bits.                           *)
LEMMA BitsOfPieces ==
  ASSUME NEW a, NEW p, NEW t, Both(a, p, t), NEW n \in Nat, Bits(a)[Len(a)] = n,
         NEW id, NEW bits, ArePieces(p, id, bits, n), NEW m \in 0..Len(p)
  PROVE  Bits(t)[Len(a) + m] = n + Before(bits, n, m)
<1> DEFINE l == Len(a)
           T == {k \in 0..m : Bits(t)[l + k] = n + Before(bits, n, k)}
<1>1. BitsRunGoes(Bits(t), Len(t), t) /\ l \in Nat /\ Len(p) \in Nat /\ Len(t) = l + Len(p)
  BY BitsRun DEF Both
<1>2. Bits(t)[l] = n
  BY <1>1, BitsBefore
<1>3. Len(p) = Count(bits, n) /\ Before(bits, n, 0) = 0
  BY DEF ArePieces, Before
<1> HIDE DEF l
<1>4. 0 \in T
  BY <1>1, <1>2, <1>3
<1>5. ASSUME NEW k \in 0..(m - 1), k \in T PROVE k + 1 \in T
  <2>1. l + k \in 0..(Len(t) - 1) /\ (l + k) + 1 = l + (k + 1) /\ k + 1 \in 1..Len(p) /\ k + 1 \in 0..m
    BY <1>1
  <2>2. Bits(t)[l + (k + 1)] = Bits(t)[l + k] + t[l + (k + 1)].bits
    <3> DEFINE j == l + k
    <3> HIDE DEF j
    <3>1. Bits(t)[j + 1] = Bits(t)[j] + t[j + 1].bits
      BY <1>1, <2>1 DEF BitsRunGoes, j
    <3>. QED  BY <2>1, <3>1 DEF j
  <2>3. t[l + (k + 1)] = p[k + 1]
    BY <2>1 DEF Both, l
  <2> DEFINE i == k + 1
  <2>4. i \in 1..Count(bits, n) /\ i - 1 = k
    BY <1>3, <2>1
  <2> HIDE DEF i
  <2>5. Before(bits, n, i) = Before(bits, n, i - 1) + p[i].bits
    BY <2>4 DEF ArePieces
  <2>6. Before(bits, n, k) \in Int /\ p[i].bits \in Int
    <3>2. p[i] \in Member
      BY <1>3, <2>4 DEF ArePieces
    <3>3. p[i].bits \in 1..8
      BY <3>2 DEF Member
    <3>4. Before(bits, n, k) \in Int
      <4>1. CASE k = 0
        BY <4>1 DEF Before
      <4>2. CASE k # 0
        <5>1. k # Count(bits, n) /\ Rem(n) \in Int
          BY <1>3, <2>1, <4>2 DEF Rem
        <5>. QED  BY <4>2, <5>1 DEF Before
      <4>. QED  BY <4>1, <4>2
    <3>. QED  BY <3>3, <3>4
  <2>7. Bits(t)[l + i] = (n + Before(bits, n, k)) + p[i].bits
    BY <1>5, <2>2, <2>3 DEF i
  <2>8. Bits(t)[l + i] = n + Before(bits, n, i)
    BY <2>4, <2>5, <2>6, <2>7
  <2>. QED  BY <2>1, <2>8 DEF i
<1>6. m \in Nat
  BY <1>1
<1> HIDE DEF T
<1>7. m \in T
  BY <1>4, <1>5, <1>6, Induction
<1>. QED  BY <1>7 DEF T, l

LEMMA PackedMore ==
  ASSUME NEW a, NEW n, Packed(a, n), NEW id, NEW bits \in Nat \ {0}, NEW p, ArePieces(p, id, bits, n),
         NEW t, t = a \o p
  PROVE  Packed(t, n + bits)
<1> DEFINE l == Len(a)
<1>1. Both(a, p, t) /\ n \in Nat /\ Bits(a)[Len(a)] = n
  BY BothAre DEF Packed, ArePieces
<1>2. l \in Nat /\ Len(p) \in Nat \ {0} /\ Len(p) = Count(bits, n) /\ Len(t) = l + Len(p)
  BY <1>1 DEF Both, ArePieces
<1>3. Bits(t)[Len(t)] = n + bits
  <2>1. Len(p) \in 0..Len(p) /\ Before(bits, n, Len(p)) = bits
    BY <1>2 DEF Before
  <2>. QED  BY <1>1, <1>2, <2>1, BitsOfPieces
<1> HIDE DEF l
<1>4. ASSUME NEW k \in 1..Len(t) PROVE (Bits(t)[k - 1] % 8) + t[k].bits <= 8
  <2>1. CASE k <= l
    <3>1. k \in 1..l /\ k - 1 \in 0..l
      BY <1>2, <2>1
    <3>2. Bits(t)[k - 1] = Bits(a)[k - 1]
      BY <1>1, <3>1, BitsBefore DEF l
    <3>3. t[k] = a[k]
      BY <1>1, <3>1 DEF Both, l
    <3>. QED  BY <3>1, <3>2, <3>3 DEF Packed, l
  <2>2. CASE ~(k <= l)
    <3> DEFINE i == k - l
    <3>1. i \in 1..Len(p) /\ i - 1 \in 0..Len(p) /\ l + i = k /\ l + (i - 1) = k - 1
      BY <1>2, <2>2
    <3> HIDE DEF i
    <3>2. Bits(t)[l + (i - 1)] = n + Before(bits, n, i - 1)
      BY <1>1, <3>1, BitsOfPieces DEF l
    <3>3. t[l + i] = p[i]
      BY <1>1, <3>1 DEF Both, l
    <3>4. ((n + Before(bits, n, i - 1)) % 8) + p[i].bits <= 8
      BY <1>2, <3>1 DEF ArePieces
    <3>. QED  BY <3>1, <3>2, <3>3, <3>4
  <2>. QED  BY <2>1, <2>2
<1>. QED  BY <1>1, <1>3, <1>4 DEF Packed, Both

-----------------------------------------------------------------------------
(* A name has a number that is free: each that is taken has a member.       *)
LEMMA FreeNumber ==
  ASSUME NEW ms \in Seq(Member), NEW name
  PROVE  \E c \in Nat : FreeIdent(ms, name) = <<name, c>>
<1> DEFINE Taken(c) == \E i \in DOMAIN ms : ms[i].ident = <<name, c>> /\ ms[i].part = <<"whole", 0>>
           n == Len(ms)
           free == {c \in 0..n : ~Taken(c)}
<1>1. n \in Nat /\ DOMAIN ms = 1..n
  OBVIOUS
<1>2. free # {}
  <2> SUFFICES ASSUME \A c \in 0..n : Taken(c) PROVE FALSE
    OBVIOUS
  <2> DEFINE f == [c \in 0..n |-> CHOOSE i \in 1..n : ms[i].ident = <<name, c>>]
  <2>1. \A c \in 0..n : f[c] \in 1..n /\ ms[f[c]].ident = <<name, c>>
    <3> SUFFICES ASSUME NEW c \in 0..n PROVE f[c] \in 1..n /\ ms[f[c]].ident = <<name, c>>
      OBVIOUS
    <3>1. \E i \in 1..n : ms[i].ident = <<name, c>>
      BY <1>1
    <3> HIDE DEF n, Taken, free
    <3>. QED  BY <3>1
  <2> HIDE DEF f
  <2>2. \A c, d \in 0..n : f[c] = f[d] => c = d
    <3> SUFFICES ASSUME NEW c \in 0..n, NEW d \in 0..n, f[c] = f[d] PROVE c = d
      OBVIOUS
    <3> HIDE DEF n, Taken, free
    <3>1. <<name, c>> = <<name, d>>
      BY <2>1
    <3>. QED  BY <3>1
  <2>3. f \in [0..n -> 1..n]
    BY <2>1 DEF f
  <2>4. f \in Injection(0..n, 1..n)
    BY <2>2, <2>3 DEF Injection, IsInjective
  <2>5. IsFiniteSet(1..n) /\ Cardinality(1..n) = n /\ Cardinality(0..n) = n + 1
    <3> HIDE DEF n
    <3>1. IsFiniteSet(1..n) /\ Cardinality(1..n) = IF 1 > n THEN 0 ELSE n - 1 + 1
      BY <1>1, FS_Interval
    <3>2. Cardinality(0..n) = IF 0 > n THEN 0 ELSE n - 0 + 1
      BY <1>1, FS_Interval
    <3>. QED  BY <1>1, <3>1, <3>2
  <2>6. Cardinality(0..n) <= Cardinality(1..n)
    BY <2>4, <2>5, FS_Injection
  <2>. QED  BY <1>1, <2>5, <2>6
<1>3. PICK c \in free : \A d \in free : ~(<<d, c>> \in OpToRel(<, Nat))
  <2>1. free \subseteq Nat
    BY <1>1
  <2>. QED  BY <1>2, <2>1, NatLessThanWellFounded, WFMin
<1>4. c \in Nat /\ \A d \in free : ~(d < c)
  <2>1. c \in free /\ free \subseteq Nat
    BY <1>1
  <2> HIDE DEF free
  <2>. QED  BY <1>3, <2>1 DEF OpToRel
<1>5. c \in 0..n /\ ~Taken(c) /\ \A d \in 0..(c - 1) : Taken(d)
  <2>1. c \in 0..n /\ ~Taken(c)
    BY <1>3
  <2>2. ASSUME NEW d \in 0..(c - 1), ~Taken(d) PROVE FALSE
    <3>1. d \in 0..n /\ d < c
      BY <1>1, <2>1
    <3>2. d \in free
      BY <2>2, <3>1
    <3>. QED  BY <1>4, <3>1, <3>2
  <2> HIDE DEF Taken
  <2>. QED  BY <2>1, <2>2
<1>6. \E x \in 0..n : ~Taken(x) /\ \A d \in 0..(x - 1) : Taken(d)
  BY <1>5
<1> DEFINE x == CHOOSE y \in 0..n : ~Taken(y) /\ \A d \in 0..(y - 1) : Taken(d)
<1>7. x \in 0..n
  <2> HIDE DEF Taken, n
  <2>. QED  BY <1>6
<1>8. FreeIdent(ms, name) = <<name, x>>
  BY DEF FreeIdent
<1>9. x \in Nat
  <2> HIDE DEF x, n
  <2>. QED  BY <1>1, <1>7
<1> HIDE DEF x
<1>. QED  BY <1>8, <1>9

(* add_field() keeps the members packed, and adds the pieces of the field.  *)
LEMMA FieldAdded ==
  ASSUME NEW fs, Packed(fs.members, fs.nbits), NEW f \in Fields,
         fs = [ident |-> fs.ident, next_tag |-> fs.next_tag, seq |-> fs.seq,
               members |-> fs.members, nbits |-> fs.nbits],
         NEW g, g = add_field(fs, f.name, f.bits), NEW width, width = IF f.bits = 0 THEN 8 ELSE f.bits
  PROVE  /\ Packed(g.members, g.nbits)
         /\ width \in Nat \ {0}
         /\ \E p, c : /\ g.members = fs.members \o p
                      /\ ArePieces(p, <<f.name, c>>, width, fs.nbits)
<1> DEFINE id == FreeIdent(fs.members, f.name)
           p == Pieces(id, width, fs.nbits)
<1>1. width \in Nat \ {0}
  BY GenAssumption
<1>2. PICK c \in Nat : id = <<f.name, c>>
  BY FreeNumber DEF Packed
<1>3. ArePieces(p, id, width, fs.nbits)
  <2>1. id \in {h.name : h \in Fields} \X Nat
    BY <1>2
  <2>2. fs.nbits \in Nat
    BY DEF Packed
  <2>. QED  BY <1>1, <2>1, <2>2, PiecesFit
<1>4. g.members = fs.members \o p /\ g.nbits = fs.nbits + width
  BY DEF add_field
<1> HIDE DEF p, id
<1>5. Packed(g.members, g.nbits)
  BY <1>1, <1>3, <1>4, PackedMore
<1>. QED  BY <1>1, <1>2, <1>3, <1>4, <1>5

-----------------------------------------------------------------------------
(* Member i of the other half is the mirror image within its octet, which   *)
(* members a to b fill.                                                     *)
Mirror(little, ms, i) ==
  \E a, b \in 1..Len(little) :
    /\ a <= i /\ i <= b /\ Bits(ms)[a - 1] % 8 = 0 /\ Bits(ms)[b] = Bits(ms)[a - 1] + 8
    /\ little[i] = ms[(a + b) - i]

(* After member k: the members of whole octets are in both halves, and      *)
(* those of the octet that is open wait in the section.                     *)
Turned(big, little, section, nbits, ms, k) ==
  /\ nbits = Bits(ms)[k]
  /\ big \in Seq(Member) /\ Len(big) = k /\ \A j \in 1..k : big[j] = ms[j]
  /\ little \in Seq(Member) /\ section \in Seq(Member) /\ Len(little) + Len(section) = k
  /\ \A j \in 1..Len(section) : section[j] = ms[Len(little) + j]
  /\ (section = <<>>) <=> (Bits(ms)[k] % 8 = 0)
  /\ section # <<>> => Bits(ms)[Len(little)] % 8 = 0 /\ Bits(ms)[k] < Bits(ms)[Len(little)] + 8
                       /\ Bits(ms)[Len(little)] <= Bits(ms)[k]
  /\ \A i \in 1..Len(little) : Mirror(little, ms, i)

TurnedTo(s, ms, k) ==
  /\ Turned(s.big, s.little, s.section, s.nbits, ms, k)
  /\ s = [big |-> s.big, little |-> s.little, section |-> s.section, nbits |-> s.nbits]

LEMMA BitsNat ==
  ASSUME NEW ms \in Seq(Member), NEW n \in 0..Len(ms)
  PROVE  Bits(ms)[n] \in Nat
<1> DEFINE T == {k \in 0..n : Bits(ms)[k] \in Nat}
<1>1. BitsRunGoes(Bits(ms), Len(ms), ms) /\ Len(ms) \in Nat /\ n \in Nat
  BY BitsRun
<1>2. 0 \in T
  BY <1>1 DEF BitsRunGoes
<1>3. ASSUME NEW k \in 0..(n - 1), k \in T PROVE k + 1 \in T
  <2>1. k \in 0..(Len(ms) - 1) /\ k + 1 \in 0..n /\ k + 1 \in 1..Len(ms)
    BY <1>1
  <2>2. ms[k + 1] \in Member
    BY <2>1
  <2>3. Bits(ms)[k + 1] = Bits(ms)[k] + ms[k + 1].bits
    BY <1>1, <2>1 DEF BitsRunGoes
  <2>4. ms[k + 1].bits \in 1..8
    BY <2>2 DEF Member
  <2> DEFINE j == k + 1
  <2> HIDE DEF j
  <2>5. Bits(ms)[k] \in Nat
    BY <1>3
  <2>6. Bits(ms)[j] = Bits(ms)[k] + ms[j].bits /\ ms[j].bits \in 1..8 /\ j \in 0..n
    BY <2>1, <2>3, <2>4 DEF j
  <2> DEFINE x == Bits(ms)[k]
             b == ms[j].bits
  <2>9. x \in Nat /\ b \in 1..8 /\ Bits(ms)[j] = x + b
    BY <2>5, <2>6
  <2> HIDE DEF x, b
  <2>7. Bits(ms)[j] \in Nat
    BY <2>9
  <2>8. j \in T
    BY <2>6, <2>7
  <2>. QED  BY <2>8 DEF j
<1> HIDE DEF T
<1>4. n \in T
  BY <1>1, <1>2, <1>3, Induction
<1>. QED  BY <1>4 DEF T

(* The next member, and how far the bits go with it.                        *)
LEMMA NextMember ==
  ASSUME NEW ms, NEW n, Packed(ms, n), NEW k \in 0..(Len(ms) - 1)
  PROVE  /\ ms[k + 1] \in Member /\ ms[k + 1].bits \in 1..8
         /\ Bits(ms)[k] \in Nat /\ Bits(ms)[k + 1] = Bits(ms)[k] + ms[k + 1].bits
         /\ (Bits(ms)[k] % 8) + ms[k + 1].bits <= 8
<1> DEFINE j == k + 1
<1>1. ms \in Seq(Member) /\ Len(ms) \in Nat /\ j \in 1..Len(ms) /\ k \in 0..Len(ms) /\ j - 1 = k
  BY DEF Packed
<1>2. Bits(ms)[k + 1] = Bits(ms)[k] + ms[k + 1].bits
  BY <1>1, BitsRun DEF BitsRunGoes
<1>3. ms[j] \in Member /\ ms[j].bits \in 1..8
  <2>1. ms[j] \in Member
    BY <1>1
  <2>. QED  BY <2>1 DEF Member
<1>4. Bits(ms)[k] \in Nat
  BY <1>1, BitsNat
<1> HIDE DEF j
<1>5. (Bits(ms)[j - 1] % 8) + ms[j].bits <= 8
  BY <1>1 DEF Packed
<1>. QED  BY <1>1, <1>2, <1>3, <1>4, <1>5 DEF j

LEMMA Octets ==
  ASSUME NEW x \in Nat, NEW y \in Nat, NEW b \in 1..8, (x % 8) + b <= 8,
         y % 8 = 0, y <= x, x < y + 8
  PROVE  /\ y <= x + b /\ x + b <= y + 8
         /\ (x + b) % 8 = 0 <=> x + b = y + 8
         /\ (x + b) % 8 # 0 <=> x + b < y + 8
OBVIOUS

(* Place i counted from the end of an octet of m members, behind l others.  *)
LEMMA FromTheEnd ==
  ASSUME NEW l \in Nat, NEW m \in Nat \ {0}, NEW j, l + m = j, NEW i \in 1..j, i > l
  PROVE  LET h == i - l
             g == (m - h) + 1
         IN /\ h \in 1..m /\ g \in 1..m /\ l + h = i /\ l + g = ((l + 1) + j) - i
            /\ l + 1 \in 1..j /\ j \in 1..j /\ (l + 1) - 1 = l /\ l + 1 <= i /\ i <= j
OBVIOUS

(* A member behind a sequence.                                              *)
Longer(q, m, t) ==
  /\ t \in Seq(Member) /\ Len(q) \in Nat /\ Len(t) = Len(q) + 1 /\ t # <<>>
  /\ \A j \in 1..Len(q) : t[j] = q[j]
  /\ t[Len(q) + 1] = m

LEMMA LongerIs ==
  ASSUME NEW q \in Seq(Member), NEW m \in Member, NEW t, t = Append(q, m)
  PROVE  Longer(q, m, t)
BY DEF Longer

(* An octet of its own.                                                     *)
LEMMA TurnedOctet ==
  ASSUME NEW ms, NEW n, Packed(ms, n), NEW k \in 0..(Len(ms) - 1), ms[k + 1].bits = 8,
         NEW big, NEW little, NEW nbits, Turned(big, little, <<>>, nbits, ms, k)
  PROVE  Turned(Append(big, ms[k + 1]), Append(little, ms[k + 1]), <<>>, nbits + 8, ms, k + 1)
<1> DEFINE j == k + 1
           B == Append(big, ms[j])
           L == Append(little, ms[j])
           e == <<>>
<1>1. /\ ms[j] \in Member /\ Bits(ms)[k] \in Nat /\ Bits(ms)[j] = Bits(ms)[k] + 8
      /\ Bits(ms)[k] % 8 = 0 /\ Bits(ms)[j] % 8 = 0 /\ k \in Nat /\ j \in Nat \ {0} /\ j - 1 = k
  <2>1. /\ ms[j] \in Member /\ Bits(ms)[k] \in Nat /\ Bits(ms)[j] = Bits(ms)[k] + 8
        /\ Bits(ms)[k] % 8 = 0
    BY NextMember DEF Turned
  <2>. QED  BY <2>1
<1>2. Len(little) = k /\ little \in Seq(Member) /\ big \in Seq(Member) /\ Len(big) = k
  <2>1. Len(little) + Len(e) = k /\ Len(e) = 0 /\ Len(little) \in Nat
    BY DEF Turned
  <2>. QED  BY <2>1 DEF Turned
<1>3. Longer(big, ms[j], B) /\ Longer(little, ms[j], L)
  BY <1>1, <1>2, LongerIs
<1> HIDE DEF B, L, j
<1>4. B \in Seq(Member) /\ Len(B) = j /\ \A i \in 1..j : B[i] = ms[i]
  <2>1. \A i \in 1..k : B[i] = ms[i]
    BY <1>2, <1>3 DEF Longer, Turned
  <2>2. B[j] = ms[j] /\ Len(B) = j /\ B \in Seq(Member)
    BY <1>1, <1>2, <1>3 DEF Longer, j
  <2>. QED  BY <1>1, <2>1, <2>2
<1>5. L \in Seq(Member) /\ Len(L) = j /\ L[j] = ms[j] /\ \A i \in 1..k : L[i] = little[i]
  BY <1>1, <1>2, <1>3 DEF Longer, j
<1>6. ASSUME NEW i \in 1..j PROVE Mirror(L, ms, i)
  <2>1. CASE i = j
    <3>1. j \in 1..Len(L) /\ (j + j) - i = j /\ j <= i /\ i <= j
      BY <1>1, <1>5, <2>1
    <3>2. /\ Bits(ms)[j - 1] % 8 = 0 /\ Bits(ms)[j] = Bits(ms)[j - 1] + 8 /\ L[i] = ms[(j + j) - i]
      BY <1>1, <1>5, <2>1, <3>1
    <3>. QED  BY <3>1, <3>2 DEF Mirror
  <2>2. CASE i # j
    <3>1. i \in 1..k /\ L[i] = little[i]
      BY <1>1, <1>5, <2>2
    <3>2. Mirror(little, ms, i)
      BY <1>2, <3>1 DEF Turned
    <3>3. 1..Len(little) \subseteq 1..Len(L)
      BY <1>1, <1>2, <1>5
    <3>. QED  BY <3>1, <3>2, <3>3 DEF Mirror
  <2>. QED  BY <2>1, <2>2
<1>7. nbits + 8 = Bits(ms)[j]
  BY <1>1 DEF Turned
<1>8. e \in Seq(Member) /\ Len(e) = 0 /\ Len(L) + Len(e) = j
  BY <1>1, <1>5
<1>9. Turned(B, L, e, nbits + 8, ms, j)
  BY <1>1, <1>4, <1>5, <1>6, <1>7, <1>8 DEF Turned
<1>. QED  BY <1>9 DEF B, L, j

(* A member that opens an octet or goes on with it, and does not end it.    *)
LEMMA TurnedOpen ==
  ASSUME NEW ms, NEW n, Packed(ms, n), NEW k \in 0..(Len(ms) - 1), NEW bits, bits = ms[k + 1].bits,
         NEW big, NEW little, NEW section, NEW nbits, Turned(big, little, section, nbits, ms, k),
         section # <<>> \/ bits # 8, (nbits + bits) % 8 # 0
  PROVE  Turned(Append(big, ms[k + 1]), little, Append(section, ms[k + 1]), nbits + bits, ms, k + 1)
<1> DEFINE j == k + 1
           B == Append(big, ms[j])
           S == Append(section, ms[j])
           l == Len(little)
<1>1. /\ ms[j] \in Member /\ Bits(ms)[k] \in Nat /\ Bits(ms)[j] = Bits(ms)[k] + bits
      /\ bits \in 1..8 /\ nbits = Bits(ms)[k] /\ (Bits(ms)[k] % 8) + bits <= 8
      /\ k \in Nat /\ j \in Nat \ {0} /\ j - 1 = k
  <2>1. /\ ms[j] \in Member /\ ms[j].bits \in 1..8
        /\ Bits(ms)[k] \in Nat /\ Bits(ms)[j] = Bits(ms)[k] + ms[j].bits
        /\ (Bits(ms)[k] % 8) + ms[j].bits <= 8
    BY NextMember
  <2>2. bits = ms[j].bits /\ nbits = Bits(ms)[k]
    BY DEF Turned
  <2>3. k \in Nat /\ j \in Nat \ {0} /\ j - 1 = k
    OBVIOUS
  <2> HIDE DEF j
  <2>. QED  BY <2>1, <2>2, <2>3
<1>2. /\ little \in Seq(Member) /\ big \in Seq(Member) /\ section \in Seq(Member)
      /\ Len(big) = k /\ l \in Nat /\ Len(section) \in Nat /\ l + Len(section) = k
      /\ (section = <<>>) <=> Len(section) = 0
  BY DEF Turned
<1>3. Longer(big, ms[j], B) /\ Longer(section, ms[j], S)
  BY <1>1, <1>2, LongerIs
<1>a. Bits(ms)[l] \in Nat
  <2>1. ms \in Seq(Member) /\ l \in 0..Len(ms)
    BY <1>2 DEF Packed
  <2>. QED  BY <2>1, BitsNat
<1> HIDE DEF B, S, j, l
<1>4. B \in Seq(Member) /\ Len(B) = j /\ \A i \in 1..j : B[i] = ms[i]
  <2>1. \A i \in 1..k : B[i] = ms[i]
    BY <1>2, <1>3 DEF Longer, Turned
  <2>2. B[j] = ms[j] /\ Len(B) = j /\ B \in Seq(Member)
    BY <1>1, <1>2, <1>3 DEF Longer, j
  <2>. QED  BY <1>1, <2>1, <2>2, SMTT(30)
<1>5. S \in Seq(Member) /\ l + Len(S) = j /\ S # <<>> /\ \A i \in 1..Len(S) : S[i] = ms[l + i]
  <2>1. S \in Seq(Member) /\ Len(S) = Len(section) + 1 /\ S # <<>> /\ S[Len(S)] = ms[j]
    BY <1>3 DEF Longer
  <2>2. l + Len(S) = j
    BY <1>2, <2>1 DEF j
  <2>3. ASSUME NEW i \in 1..Len(S) PROVE S[i] = ms[l + i]
    <3>1. CASE i = Len(S)
      BY <2>1, <2>2, <3>1
    <3>2. CASE i # Len(S)
      <4>1. i \in 1..Len(section)
        BY <1>2, <2>1, <3>2
      <4>. QED  BY <1>3, <4>1 DEF Longer, Turned, l
    <3>. QED  BY <3>1, <3>2
  <2>. QED  BY <2>1, <2>2, <2>3
<1>6. Bits(ms)[j] % 8 # 0 /\ nbits + bits = Bits(ms)[j]
  BY <1>1
<1>7. Bits(ms)[l] % 8 = 0 /\ Bits(ms)[l] <= Bits(ms)[k] /\ Bits(ms)[k] < Bits(ms)[l] + 8
  <2>1. CASE section = <<>>
    <3>1. l = k
      BY <1>2, <2>1
    <3>. QED  BY <1>1, <2>1, <3>1 DEF Turned
  <2>2. CASE section # <<>>
    BY <1>1, <1>a, <2>2 DEF Turned, l
  <2>. QED  BY <2>1, <2>2
<1>8. Bits(ms)[j] < Bits(ms)[l] + 8 /\ Bits(ms)[l] <= Bits(ms)[j]
  <2> DEFINE x == Bits(ms)[k]
             y == Bits(ms)[l]
  <2>1. /\ x \in Nat /\ y \in Nat /\ bits \in 1..8 /\ (x % 8) + bits <= 8
        /\ y % 8 = 0 /\ y <= x /\ x < y + 8 /\ (x + bits) % 8 # 0 /\ Bits(ms)[j] = x + bits
    BY <1>1, <1>a, <1>6, <1>7
  <2> HIDE DEF x, y
  <2>4. x + bits < y + 8 /\ y <= x + bits
    BY <2>1, Octets
  <2>3. Bits(ms)[j] < y + 8 /\ y <= Bits(ms)[j]
    BY <2>1, <2>4
  <2>. QED  BY <2>3 DEF y
<1>9. \A i \in 1..l : Mirror(little, ms, i)
  BY DEF Turned, l
<1>10. Turned(B, little, S, nbits + bits, ms, j)
  BY <1>2, <1>4, <1>5, <1>6, <1>7, <1>8, <1>9 DEF Turned, l
<1>. QED  BY <1>10 DEF B, S, j

(* A member that ends an octet of several: the section goes to the other    *)
(* half in reverse.                                                         *)
LEMMA TurnedWhole ==
  ASSUME NEW ms, NEW n, Packed(ms, n), NEW k \in 0..(Len(ms) - 1), NEW bits, bits = ms[k + 1].bits,
         NEW big, NEW little, NEW section, NEW nbits, Turned(big, little, section, nbits, ms, k),
         section # <<>>, (nbits + bits) % 8 = 0
  PROVE  Turned(Append(big, ms[k + 1]), little \o Reverse(Append(section, ms[k + 1])), <<>>,
                nbits + bits, ms, k + 1)
<1> DEFINE j == k + 1
           B == Append(big, ms[j])
           S == Append(section, ms[j])
           R == Reverse(S)
           L == little \o R
           l == Len(little)
           e == <<>>
<1>1. /\ ms[j] \in Member /\ Bits(ms)[k] \in Nat /\ Bits(ms)[j] = Bits(ms)[k] + bits
      /\ bits \in 1..8 /\ nbits = Bits(ms)[k] /\ (Bits(ms)[k] % 8) + bits <= 8
      /\ k \in Nat /\ j \in Nat \ {0} /\ j - 1 = k
  <2>1. /\ ms[j] \in Member /\ ms[j].bits \in 1..8
        /\ Bits(ms)[k] \in Nat /\ Bits(ms)[j] = Bits(ms)[k] + ms[j].bits
        /\ (Bits(ms)[k] % 8) + ms[j].bits <= 8
    BY NextMember
  <2>2. bits = ms[j].bits /\ nbits = Bits(ms)[k]
    BY DEF Turned
  <2>3. k \in Nat /\ j \in Nat \ {0} /\ j - 1 = k
    OBVIOUS
  <2> HIDE DEF j
  <2>. QED  BY <2>1, <2>2, <2>3
<1>2. /\ little \in Seq(Member) /\ big \in Seq(Member) /\ section \in Seq(Member)
      /\ Len(big) = k /\ l \in Nat /\ Len(section) \in Nat /\ l + Len(section) = k
  BY DEF Turned
<1>3. Longer(big, ms[j], B) /\ Longer(section, ms[j], S)
  BY <1>1, <1>2, LongerIs
<1>a. Bits(ms)[l] \in Nat
  <2>1. ms \in Seq(Member) /\ l \in 0..Len(ms)
    BY <1>2 DEF Packed
  <2>. QED  BY <2>1, BitsNat
<1> HIDE DEF B, S, j
<1>4. B \in Seq(Member) /\ Len(B) = j /\ \A i \in 1..j : B[i] = ms[i]
  <2>1. \A i \in 1..k : B[i] = ms[i]
    BY <1>2, <1>3 DEF Longer, Turned
  <2>2. B[j] = ms[j] /\ Len(B) = j /\ B \in Seq(Member)
    BY <1>1, <1>2, <1>3 DEF Longer, j
  <2>3. 1..j \subseteq 1..k \cup {j}
    BY <1>1
  <2>. QED  BY <2>1, <2>2, <2>3
<1>5. S \in Seq(Member) /\ l + Len(S) = j /\ Len(S) \in Nat \ {0} /\ \A i \in 1..Len(S) : S[i] = ms[l + i]
  <2>1. S \in Seq(Member) /\ Len(S) = Len(section) + 1 /\ S[Len(S)] = ms[j]
    BY <1>3 DEF Longer
  <2>4. Len(S) \in Nat \ {0}
    BY <1>2, <2>1
  <2>2. l + Len(S) = j
    BY <1>2, <2>1 DEF j
  <2>3. ASSUME NEW i \in 1..Len(S) PROVE S[i] = ms[l + i]
    <3>1. CASE i = Len(S)
      BY <2>1, <2>2, <3>1
    <3>2. CASE i # Len(S)
      <4>1. i \in 1..Len(section)
        BY <1>2, <2>1, <3>2
      <4>. QED  BY <1>3, <4>1 DEF Longer, Turned
    <3>. QED  BY <3>1, <3>2
  <2>. QED  BY <2>1, <2>2, <2>3, <2>4
<1>6. R \in Seq(Member) /\ Len(R) = Len(S) /\ \A i \in 1..Len(S) : R[i] = S[(Len(S) - i) + 1]
  BY <1>5 DEF Reverse
<1> HIDE DEF R
<1>7. L \in Seq(Member) /\ Len(L) = j /\ (\A i \in 1..l : L[i] = little[i])
      /\ \A i \in 1..Len(S) : L[l + i] = R[i]
  <2>1. Both(little, R, L)
    BY <1>2, <1>6, BothAre
  <2> HIDE DEF L
  <2>2. 1..Len(S) = 1..Len(R) /\ Len(L) = j
    BY <1>5, <1>6, <2>1 DEF Both
  <2>. QED  BY <1>6, <2>1, <2>2 DEF Both
<1> HIDE DEF l, L
<1>8. /\ Bits(ms)[l] % 8 = 0 /\ Bits(ms)[l] <= Bits(ms)[k] /\ Bits(ms)[k] < Bits(ms)[l] + 8
  BY DEF Turned, l
<1>9. Bits(ms)[j] = Bits(ms)[l] + 8 /\ Bits(ms)[j] % 8 = 0
  <2>1. (Bits(ms)[k] + bits) % 8 = 0
    BY <1>1
  <2> DEFINE x == Bits(ms)[k]
             y == Bits(ms)[l]
  <2>3. /\ x \in Nat /\ y \in Nat /\ bits \in 1..8 /\ (x % 8) + bits <= 8
        /\ y % 8 = 0 /\ y <= x /\ x < y + 8
    BY <1>1, <1>a, <1>8
  <2> HIDE DEF x, y
  <2>4. x + bits = y + 8
    BY <2>1, <2>3, Octets DEF x
  <2>2. Bits(ms)[k] + bits = Bits(ms)[l] + 8
    BY <2>4 DEF x, y
  <2>. QED  BY <1>1, <2>1, <2>2
<1>10. ASSUME NEW i \in 1..j PROVE Mirror(L, ms, i)
  <2>1. CASE i <= l
    <3>1. i \in 1..l /\ L[i] = little[i]
      BY <1>7, <2>1
    <3>2. Mirror(little, ms, i)
      BY <3>1 DEF Turned, l
    <3>3. 1..Len(little) \subseteq 1..Len(L)
      BY <1>2, <1>5, <1>7 DEF l
    <3>. QED  BY <3>1, <3>2, <3>3 DEF Mirror
  <2>2. CASE ~(i <= l)
    <3> DEFINE h == i - l
               g == (Len(S) - h) + 1
               a == l + 1
    <3>1. h \in 1..Len(S) /\ g \in 1..Len(S) /\ l + h = i /\ l + g = (a + j) - i
          /\ a \in 1..Len(L) /\ j \in 1..Len(L) /\ a - 1 = l /\ a <= i /\ i <= j
      <4> DEFINE N == Len(S)
      <4>1. N \in Nat \ {0} /\ l \in Nat /\ l + N = j /\ Len(L) = j /\ i \in 1..j /\ i > l
        BY <1>1, <1>2, <1>5, <1>7, <2>2
      <4> HIDE DEF N
      <4>. QED  BY <4>1, FromTheEnd DEF N
    <3>2. L[i] = R[h] /\ R[h] = S[g] /\ S[g] = ms[l + g]
      <4> HIDE DEF h, g
      <4>1. L[l + h] = R[h] /\ S[g] = ms[l + g]
        BY <1>5, <1>7, <3>1
      <4>2. R[h] = S[(Len(S) - h) + 1]
        BY <1>6, <3>1
      <4>. QED  BY <3>1, <4>1, <4>2 DEF g
    <3> HIDE DEF h, g, a
    <3>3. L[i] = ms[(a + j) - i] /\ Bits(ms)[a - 1] % 8 = 0 /\ Bits(ms)[j] = Bits(ms)[a - 1] + 8
      BY <1>8, <1>9, <3>1, <3>2
    <3>. QED  BY <3>1, <3>3 DEF Mirror
  <2>. QED  BY <2>1, <2>2
<1>11. e \in Seq(Member) /\ Len(e) = 0 /\ Len(L) + Len(e) = j /\ nbits + bits = Bits(ms)[j]
  BY <1>1, <1>7
<1>12. \A i \in 1..Len(e) : e[i] = ms[Len(L) + i]
  BY <1>11
<1> HIDE DEF e
<1>13. Turned(B, L, e, nbits + bits, ms, j)
  <2>1. e = <<>>
    BY DEF e
  <2>. QED  BY <1>4, <1>7, <1>9, <1>10, <1>11, <1>12, <2>1 DEF Turned
<1>. QED  BY <1>13 DEF B, L, R, S, j, e

(* write_table() takes each member one of these three ways.                 *)
LEMMA TurnedStep ==
  ASSUME NEW ms, NEW n, Packed(ms, n), NEW k \in 0..(Len(ms) - 1), NEW s, TurnedTo(s, ms, k)
  PROVE  TurnedTo(StructStep(s, ms[k + 1]), ms, k + 1)
<1> DEFINE m == ms[k + 1]
           bits == s.nbits + m.bits
           t == StructStep(s, m)
<1>1. Turned(s.big, s.little, s.section, s.nbits, ms, k)
  BY DEF TurnedTo
<1>2. t = [big |-> t.big, little |-> t.little, section |-> t.section, nbits |-> t.nbits]
      /\ t.big = Append(s.big, m) /\ t.nbits = bits
  BY DEF StructStep
<1>3. CASE s.section = <<>> /\ m.bits = 8
  <2>1. t.little = Append(s.little, m) /\ t.section = <<>>
    BY <1>3 DEF StructStep
  <2>2. Turned(s.big, s.little, <<>>, s.nbits, ms, k)
    BY <1>1, <1>3
  <2>3. Turned(Append(s.big, m), Append(s.little, m), <<>>, s.nbits + 8, ms, k + 1)
    BY <1>3, <2>2, TurnedOctet
  <2>. QED  BY <1>2, <1>3, <2>1, <2>3 DEF TurnedTo
<1>4. CASE ~(s.section = <<>> /\ m.bits = 8)
  <2> DEFINE S == Append(s.section, m)
  <2>1. S # <<>>
    <3>1. s.section \in Seq(Member) /\ m \in Member
      BY <1>1, NextMember DEF Turned
    <3>. QED  BY <3>1
  <2>2. /\ t.little = IF bits % 8 = 0 THEN s.little \o Reverse(S) ELSE s.little
        /\ t.section = IF bits % 8 = 0 THEN <<>> ELSE S
    BY <1>4, <2>1 DEF StructStep
  <2>3. CASE bits % 8 # 0
    <3>1. Turned(Append(s.big, m), s.little, Append(s.section, m), s.nbits + m.bits, ms, k + 1)
      BY <1>1, <1>4, <2>3, TurnedOpen
    <3>2. Turned(t.big, t.little, t.section, t.nbits, ms, k + 1)
      BY <1>2, <2>2, <2>3, <3>1
    <3>. QED  BY <1>2, <3>2 DEF TurnedTo
  <2>4. CASE bits % 8 = 0
    <3>1. s.section # <<>>
      <4> SUFFICES ASSUME s.section = <<>>, m.bits # 8 PROVE FALSE
        BY <1>4
      <4> DEFINE x == s.nbits
                 b == m.bits
      <4>1. x \in Nat /\ x % 8 = 0 /\ b \in 1..8 /\ b # 8
        BY <1>1, NextMember DEF Turned
      <4>2. (x + b) % 8 = 0
        BY <2>4
      <4> HIDE DEF x, b
      <4>3. (x % 8) + b <= 8 /\ x < x + 8 /\ x <= x
        BY <4>1
      <4>4. x + b = x + 8
        BY <4>1, <4>2, <4>3, Octets
      <4>. QED  BY <4>1, <4>4
    <3>2. Turned(Append(s.big, m), s.little \o Reverse(Append(s.section, m)), <<>>,
                 s.nbits + m.bits, ms, k + 1)
      BY <1>1, <2>4, <3>1, TurnedWhole
    <3>3. Turned(t.big, t.little, t.section, t.nbits, ms, k + 1)
      BY <1>2, <2>2, <2>4, <3>2
    <3>. QED  BY <1>2, <3>3 DEF TurnedTo
  <2>. QED  BY <2>3, <2>4
<1>. QED  BY <1>3, <1>4

(* ... and so all of them.                                                  *)
LEMMA StructTurned ==
  ASSUME NEW ms, NEW n, Packed(ms, n)
  PROVE  TurnedTo(Struct(ms), ms, Len(ms))
<1> DEFINE last == Len(ms)
<1>1. ms \in Seq(Member) /\ last \in Nat
  BY DEF Packed
<1>2. PICK f : StructRunGoes(f, last, ms) /\ Struct(ms) = f[last]
  BY <1>1, StructRun
<1> DEFINE T == {k \in 0..last : TurnedTo(f[k], ms, k)}
<1>3. 0 \in T
  <2> DEFINE s == f[0]
             e == <<>>
  <2>1. s = [big |-> <<>>, little |-> <<>>, section |-> <<>>, nbits |-> 0]
    BY <1>2 DEF StructRunGoes, Empty
  <2>2. s.big = e /\ s.little = e /\ s.section = e /\ s.nbits = 0
        /\ s = [big |-> s.big, little |-> s.little, section |-> s.section, nbits |-> s.nbits]
    BY <2>1
  <2>3. Bits(ms)[0] = 0
    BY <1>1, BitsRun DEF BitsRunGoes
  <2>4. e \in Seq(Member) /\ Len(e) = 0 /\ e = <<>>
    OBVIOUS
  <2> HIDE DEF e
  <2>5. Turned(e, e, e, 0, ms, 0)
    BY <2>3, <2>4 DEF Turned
  <2>. QED  BY <1>1, <2>2, <2>5 DEF TurnedTo
<1>4. ASSUME NEW k \in 0..(last - 1), k \in T PROVE k + 1 \in T
  <2>1. f[k + 1] = StructStep(f[k], ms[k + 1])
    BY <1>2 DEF StructRunGoes
  <2>2. TurnedTo(f[k], ms, k)
    BY <1>4
  <2>3. TurnedTo(StructStep(f[k], ms[k + 1]), ms, k + 1)
    BY <2>2, TurnedStep
  <2>. QED  BY <1>1, <2>1, <2>3
<1> HIDE DEF T
<1>5. last \in T
  BY <1>1, <1>3, <1>4, Induction
<1>. QED  BY <1>2, <1>5 DEF T

(* Each member has a bit at least.                                          *)
LEMMA BitsGrow ==
  ASSUME NEW ms, NEW n, Packed(ms, n), NEW a \in 0..Len(ms), NEW b \in 0..Len(ms), a < b
  PROVE  Bits(ms)[a] < Bits(ms)[b]
<1> DEFINE T == {d \in 0..b : d > a => Bits(ms)[a] < Bits(ms)[d]}
<1>1. Len(ms) \in Nat /\ ms \in Seq(Member) /\ a \in Nat /\ b \in Nat
  BY DEF Packed
<1>2. 0 \in T
  BY <1>1
<1>3. ASSUME NEW d \in 0..(b - 1), d \in T PROVE d + 1 \in T
  <2> DEFINE x == Bits(ms)[d]
             y == ms[d + 1].bits
             z == Bits(ms)[a]
  <2>1. d \in 0..(Len(ms) - 1) /\ d + 1 \in 0..b
    BY <1>1
  <2>2. x \in Nat /\ y \in 1..8 /\ Bits(ms)[d + 1] = x + y
    BY <2>1, NextMember
  <2>3. z \in Nat
    BY <1>1, BitsNat
  <2>4. (d > a => z < x) /\ (d = a => z = x)
    BY <1>3
  <2> HIDE DEF x, y, z
  <2>5. d >= a => z < x + y
    BY <1>1, <2>2, <2>3, <2>4
  <2>6. d + 1 > a => d >= a
    BY <1>1
  <2>7. d + 1 > a => z < Bits(ms)[d + 1]
    BY <2>2, <2>5, <2>6
  <2>. QED  BY <2>1, <2>7 DEF z
<1> HIDE DEF T
<1>4. b \in T
  BY <1>1, <1>2, <1>3, Induction
<1>. QED  BY <1>4 DEF T

LEMMA SameOctet ==
  ASSUME NEW y \in Nat, y % 8 = 0, NEW x \in Nat
  PROVE  (x \div 8 = y \div 8) <=> (y <= x /\ x < y + 8)
OBVIOUS

(* The members of an octet are those that fill it.                          *)
LEMMA Peers ==
  ASSUME NEW ms, NEW n, Packed(ms, n), NEW a \in 1..Len(ms), NEW b \in 1..Len(ms), NEW i \in a..b,
         Bits(ms)[a - 1] % 8 = 0, Bits(ms)[b] = Bits(ms)[a - 1] + 8
  PROVE  {h \in DOMAIN ms : Place(ms)[h].octet = Place(ms)[i].octet} = a..b
<1> DEFINE y == Bits(ms)[a - 1]
           L == Len(ms)
<1>1. /\ ms \in Seq(Member) /\ L \in Nat /\ DOMAIN ms = 1..L
      /\ a - 1 \in 0..L /\ b \in 0..L /\ a \in 0..L /\ a \in Nat /\ b \in Nat
  BY DEF Packed
<1>2. \A h \in 1..L : Place(ms)[h].octet = Bits(ms)[h - 1] \div 8
  BY <1>1 DEF Place
<1>3. y \in Nat /\ y % 8 = 0 /\ Bits(ms)[b] = y + 8
  BY <1>1, BitsNat
<1> HIDE DEF y, L
<1>4. ASSUME NEW h \in 1..L
      PROVE  (Bits(ms)[h - 1] \div 8 = y \div 8) <=> h \in a..b
  <2> DEFINE x == Bits(ms)[h - 1]
             d == h - 1
  <2>1. d \in 0..L /\ d + 1 = h
    BY <1>1
  <2>2. x \in Nat /\ x = Bits(ms)[d]
    BY <1>1, <2>1, BitsNat DEF L
  <2> HIDE DEF x
  <2>3. (x \div 8 = y \div 8) <=> (y <= x /\ x < y + 8)
    BY <1>3, <2>2, SameOctet
  <2>4. CASE h < a
    <3>1. d < a - 1
      BY <1>1, <2>4
    <3>2. x < y
      BY <1>1, <2>1, <2>2, <3>1, BitsGrow DEF y, L
    <3>. QED  BY <1>1, <1>3, <2>2, <2>3, <2>4, <3>2 DEF x
  <2>5. CASE h > b
    <3>1. b = d \/ b < d
      BY <1>1, <2>5
    <3>2. b < d => y + 8 < x
      BY <1>1, <1>3, <2>1, <2>2, BitsGrow DEF L
    <3>3. y + 8 <= x
      BY <1>3, <2>2, <3>1, <3>2
    <3>. QED  BY <1>1, <1>3, <2>2, <2>3, <2>5, <3>3 DEF x
  <2>6. CASE h \in a..b
    <3>1. (a - 1 = d \/ a - 1 < d) /\ d < b
      BY <1>1, <2>6
    <3>2. (a - 1 < d => y < x) /\ x < y + 8
      BY <1>1, <1>3, <2>1, <2>2, <3>1, BitsGrow DEF y, L
    <3>3. y <= x
      BY <1>3, <2>2, <3>1, <3>2, SMTT(40) DEF y
    <3>. QED  BY <2>3, <2>6, <3>2, <3>3 DEF x
  <2>. QED  BY <1>1, <2>4, <2>5, <2>6
<1>5. i \in 1..L /\ a..b \subseteq 1..L
  BY <1>1 DEF L
<1>6. Bits(ms)[i - 1] \div 8 = y \div 8
  BY <1>4, <1>5
<1>. QED  BY <1>1, <1>2, <1>4, <1>5, <1>6

(* The body of OctetsKept.                                                  *)
Kept(s) ==
  LET at == Place(s.big)
  IN /\ \A m \in DOMAIN s.big : at[m].from + s.big[m].bits <= 8
     /\ s.nbits % 8 = 0 => s.section = <<>> /\ Mirrored(s.big, s.little)

LEMMA MirroredAll ==
  ASSUME NEW ms, NEW n, Packed(ms, n), NEW little, Len(little) = Len(ms),
         \A i \in 1..Len(ms) : Mirror(little, ms, i)
  PROVE  Mirrored(ms, little)
<1>1. ms \in Seq(Member) /\ Len(ms) \in Nat /\ DOMAIN ms = 1..Len(ms)
  BY DEF Packed
<1> SUFFICES ASSUME NEW i \in 1..Len(ms)
             PROVE  LET peers == {h \in DOMAIN ms : Place(ms)[h].octet = Place(ms)[i].octet}
                        first == CHOOSE h \in peers : \A g \in peers : h <= g
                        last == CHOOSE h \in peers : \A g \in peers : h >= g
                    IN little[i] = ms[first + last - i]
  BY <1>1 DEF Mirrored
<1>m. Mirror(little, ms, i)
  OBVIOUS
<1>2. PICK a, b \in 1..Len(ms) :
        /\ a <= i /\ i <= b /\ Bits(ms)[a - 1] % 8 = 0 /\ Bits(ms)[b] = Bits(ms)[a - 1] + 8
        /\ little[i] = ms[(a + b) - i]
  BY <1>m DEF Mirror
<1>3. i \in a..b /\ a \in Nat /\ b \in Nat /\ a <= b
  BY <1>1, <1>2
<1>o. Bits(ms)[a - 1] % 8 = 0 /\ Bits(ms)[b] = Bits(ms)[a - 1] + 8 /\ i \in a..b
  BY <1>2, <1>3
<1>p. {h \in DOMAIN ms : Place(ms)[h].octet = Place(ms)[i].octet} = a..b
  <2> HIDE <1>2, <1>3, <1>m
  <2>. QED  BY <1>o, Peers
<1> DEFINE peers == {h \in DOMAIN ms : Place(ms)[h].octet = Place(ms)[i].octet}
           first == CHOOSE h \in peers : \A g \in peers : h <= g
           last == CHOOSE h \in peers : \A g \in peers : h >= g
<1>4. peers = a..b
  BY <1>p
<1> HIDE DEF peers
<1>5. first = a
  <2>1. a \in peers /\ \A g \in peers : a <= g
    BY <1>3, <1>4
  <2>2. \A h \in peers : (\A g \in peers : h <= g) => h = a
    BY <1>3, <1>4, <2>1
  <2>. QED  BY <2>1, <2>2
<1>6. last = b
  <2>1. b \in peers /\ \A g \in peers : b >= g
    BY <1>3, <1>4
  <2>2. \A h \in peers : (\A g \in peers : h >= g) => h = b
    BY <1>3, <1>4, <2>1
  <2>. QED  BY <2>1, <2>2
<1> HIDE DEF first, last
<1>7. little[i] = ms[first + last - i]
  BY <1>2, <1>5, <1>6
<1>. QED  BY <1>7 DEF first, last, peers

LEMMA StructKept ==
  ASSUME NEW ms, NEW n, Packed(ms, n), NEW s, s = Struct(ms)
  PROVE  s.big = ms /\ Kept(s)
<1>1. ms \in Seq(Member) /\ Len(ms) \in Nat /\ DOMAIN ms = 1..Len(ms)
  BY DEF Packed
<1>2. Turned(s.big, s.little, s.section, s.nbits, ms, Len(ms))
  BY StructTurned DEF TurnedTo
<1>3. s.big = ms
  <2>1. s.big \in Seq(Member) /\ Len(s.big) = Len(ms) /\ \A j \in 1..Len(ms) : s.big[j] = ms[j]
    BY <1>2 DEF Turned
  <2> DEFINE q == s.big
  <2> HIDE DEF q
  <2>. QED  BY <1>1, <2>1, SeqEqual DEF q
<1>4. ASSUME NEW m \in DOMAIN ms PROVE Place(ms)[m].from + ms[m].bits <= 8
  <2>1. Place(ms)[m].from = Bits(ms)[m - 1] % 8
    BY DEF Place
  <2>2. (Bits(ms)[m - 1] % 8) + ms[m].bits <= 8
    BY <1>1 DEF Packed
  <2>. QED  BY <2>1, <2>2
<1>5. ASSUME s.nbits % 8 = 0 PROVE s.section = <<>> /\ Mirrored(ms, s.little)
  <2>1. s.section = <<>>
    BY <1>2, <1>5 DEF Turned
  <2>2. Len(s.little) + Len(s.section) = Len(ms) /\ s.little \in Seq(Member)
        /\ \A i \in 1..Len(s.little) : Mirror(s.little, ms, i)
    BY <1>2 DEF Turned
  <2>3. Len(s.little) = Len(ms)
    BY <2>1, <2>2
  <2>. QED  BY <2>1, <2>2, <2>3, MirroredAll
<1>. QED  BY <1>3, <1>4, <1>5 DEF Kept

-----------------------------------------------------------------------------
(* What is joined of the first members does not depend on those behind.     *)
LEMMA JoinedBefore ==
  ASSUME NEW a, NEW p, NEW t, Both(a, p, t), NEW f, JoinedRunGoes(f, Len(a), a),
         NEW g, JoinedRunGoes(g, Len(t), t)
  PROVE  g[Len(a)] = f[Len(a)]
<1> DEFINE l == Len(a)
           T == {k \in 0..l : g[k] = f[k]}
<1>1. l \in Nat /\ Len(t) = l + Len(p) /\ Len(p) \in Nat
  BY DEF Both
<1>2. 0 \in T
  BY <1>1 DEF JoinedRunGoes
<1>3. ASSUME NEW k \in 0..(l - 1), k \in T PROVE k + 1 \in T
  <2>1. k \in 0..(Len(t) - 1) /\ k + 1 \in 1..l /\ k + 1 \in 0..l
    BY <1>1
  <2>2. g[k + 1] = JoinStep(g[k], t[k + 1]) /\ f[k + 1] = JoinStep(f[k], a[k + 1])
    BY <2>1 DEF JoinedRunGoes
  <2>3. t[k + 1] = a[k + 1]
    BY <2>1 DEF Both
  <2>. QED  BY <1>3, <2>1, <2>2, <2>3
<1> HIDE DEF T
<1>4. l \in T
  BY <1>1, <1>2, <1>3, Induction
<1>. QED  BY <1>4 DEF T

(* The pieces of a field join to it.                                        *)
JoinsTo(ms, d) == Joined(ms) = [done |-> d, bits |-> 0]

PiecesOf(p, field, n) ==
  /\ field = [name |-> field.name, bits |-> field.bits]
  /\ \E c : ArePieces(p, <<field.name, c>>, field.bits, n)

JoinsOne(d, b, name, x, e) ==
  JoinStep([done |-> d, bits |-> b], x)
    = IF x.part[2] = 0 THEN [done |-> Append(d, [name |-> name, bits |-> e]), bits |-> 0]
      ELSE [done |-> d, bits |-> e]

LEMMA JoinOne ==
  ASSUME NEW d, NEW b, NEW name, NEW c, NEW x, x.ident = <<name, c>>, NEW e, e = b + x.bits
  PROVE  JoinsOne(d, b, name, x, e)
<1>1. x.ident[1] = name
  OBVIOUS
<1>. QED  BY <1>1 DEF JoinStep, JoinsOne

LEMMA JoinedPieces ==
  ASSUME NEW a \in Seq(Member), NEW d, JoinsTo(a, d), NEW made, NEW n, NEW p, PiecesOf(p, made, n),
         NEW t, t = a \o p
  PROVE  JoinsTo(t, Append(d, made))
<1> DEFINE name == made.name
           width == made.bits
<1>a. made = [name |-> name, bits |-> width]
  BY DEF PiecesOf
<1>b. PICK c : ArePieces(p, <<name, c>>, width, n)
  BY DEF PiecesOf
<1> HIDE DEF name, width
<1> DEFINE l == Len(a)
           m == Len(p)
           D == Append(d, made)
           Run(k) == IF k = m THEN [done |-> D, bits |-> 0]
                     ELSE [done |-> d, bits |-> Before(width, n, k)]
<1>1. Both(a, p, t) /\ m = Count(width, n) /\ m \in Nat \ {0}
  BY <1>b, BothAre DEF ArePieces
<1>2. /\ l \in Nat /\ Len(t) = l + m /\ t \in Seq(Member)
  BY <1>1 DEF Both
<1>3. PICK f : JoinedRunGoes(f, l, a) /\ Joined(a) = f[l]
  BY JoinedRun
<1>4. PICK g : JoinedRunGoes(g, Len(t), t) /\ Joined(t) = g[Len(t)]
  BY <1>2, JoinedRun
<1>5. g[l] = [done |-> d, bits |-> 0]
  <2> HIDE DEF m, D, Run
  <2>1. Joined(a) = [done |-> d, bits |-> 0]
    BY DEF JoinsTo
  <2>2. JoinedRunGoes(f, Len(a), a)
    BY <1>3
  <2>3. Both(a, p, t)
    BY <1>1
  <2>g. JoinedRunGoes(g, Len(t), t)
    BY <1>4
  <2> HIDE DEF l
  <2>4. g[Len(a)] = f[Len(a)]
    BY <2>g, <2>2, <2>3, JoinedBefore, Zenon
  <2>. QED  BY <1>3, <2>1, <2>4 DEF l
<1> DEFINE T == {k \in 0..m : g[l + k] = Run(k)}
<1> HIDE DEF l
<1>6. 0 \in T
  BY <1>1, <1>2, <1>5 DEF Before
<1>7. ASSUME NEW k \in 0..(m - 1), k \in T PROVE k + 1 \in T
  <2> DEFINE i == k + 1
             j == l + k
  <2>1. j \in 0..(Len(t) - 1) /\ j + 1 = l + i /\ i \in 1..m /\ i \in 0..m /\ i - 1 = k /\ k # m
    BY <1>1, <1>2
  <2>2. g[j] = [done |-> d, bits |-> Before(width, n, k)]
    BY <1>7, <2>1
  <2> HIDE DEF i, j, m
  <2>3. g[j + 1] = JoinStep(g[j], t[j + 1])
    BY <1>4, <2>1 DEF JoinedRunGoes
  <2>4. t[l + i] = p[i]
    BY <1>1, <2>1 DEF Both, l, m
  <2>5. /\ p[i].ident = <<name, c>> /\ (p[i].part[2] = 0) = (i = m)
        /\ Before(width, n, i) = Before(width, n, i - 1) + p[i].bits
    BY <1>1, <1>b, <2>1 DEF ArePieces
  <2>6. g[l + i] = JoinStep([done |-> d, bits |-> Before(width, n, k)], p[i])
    BY <2>1, <2>2, <2>3, <2>4
  <2>7. JoinStep([done |-> d, bits |-> Before(width, n, k)], p[i])
          = IF i = m THEN [done |-> Append(d, [name |-> name, bits |-> Before(width, n, i)]), bits |-> 0]
            ELSE [done |-> d, bits |-> Before(width, n, i)]
    <3> DEFINE x == p[i]
               b == Before(width, n, k)
               e == Before(width, n, i)
    <3>1. x.ident = <<name, c>>
      BY <2>5
    <3>2. (x.part[2] = 0) = (i = m)
      BY <2>5
    <3>3. e = b + x.bits
      BY <2>1, <2>5
    <3> HIDE DEF x, b, e
    <3>4. JoinsOne(d, b, name, x, e)
      BY <3>1, <3>3, JoinOne
    <3>. QED  BY <3>2, <3>4 DEF JoinsOne, x, b, e
  <2>8. i = m => Before(width, n, i) = width
    BY <1>1 DEF Before
  <2>9. g[l + i] = Run(i)
    BY <1>a, <2>6, <2>7, <2>8
  <2>. QED  BY <2>1, <2>9 DEF i
<1> HIDE DEF T
<1>8. m \in T
  <2> HIDE DEF m
  <2>. QED  BY <1>1, <1>6, <1>7, Induction
<1>9. g[l + m] = [done |-> D, bits |-> 0]
  BY <1>8 DEF T
<1>. QED  BY <1>2, <1>4, <1>9 DEF JoinsTo

(* The members of what was written.                                         *)
AllKept(o) ==
  /\ Sequence(o)
  /\ \A k \in DOMAIN o : o[k].struct.big \in Seq(Member) /\ Kept(o[k].struct)

LEMMA AllAreMembers ==
  ASSUME NEW o, AllKept(o)
  PROVE  AllMembers(o) \in Seq(Member)
<1> DEFINE last == Len(o)
<1>1. o \in Seq({o[k] : k \in DOMAIN o})
  BY DEF AllKept, Sequence
<1>2. PICK f : AllRunGoes(f, last, o) /\ AllMembers(o) = f[last]
  BY <1>1, AllRun
<1>3. last \in Nat /\ DOMAIN o = 1..last
  BY <1>1, LenProperties
<1> DEFINE T == {k \in 0..last : f[k] \in Seq(Member)}
<1>4. 0 \in T
  <2>1. f[0] = <<>>
    BY <1>2 DEF AllRunGoes
  <2> DEFINE e == f[0]
  <2>2. e = <<>>
    BY <2>1
  <2> HIDE DEF e
  <2>3. e \in Seq(Member)
    BY <2>2
  <2>. QED  BY <1>3, <2>3 DEF e
<1>5. ASSUME NEW k \in 0..(last - 1), k \in T PROVE k + 1 \in T
  <2>1. k + 1 \in DOMAIN o /\ k + 1 \in 0..last
    BY <1>3
  <2>2. f[k + 1] = More(f[k], o[k + 1]) /\ f[k] \in Seq(Member)
    BY <1>2, <1>5 DEF AllRunGoes
  <2>3. o[k + 1].struct.big \in Seq(Member)
    BY <2>1 DEF AllKept
  <2> DEFINE q == o[k + 1].struct.big
             w == f[k]
  <2>4. f[k + 1] = w \o q /\ w \in Seq(Member) /\ q \in Seq(Member)
    BY <2>2, <2>3 DEF More
  <2> HIDE DEF q, w
  <2>5. f[k + 1] \in Seq(Member)
    BY <2>4
  <2>. QED  BY <2>1, <2>5
<1> HIDE DEF T
<1>6. last \in T
  BY <1>3, <1>4, <1>5, Induction
<1>. QED  BY <1>2, <1>6 DEF T

LEMMA AllAndOne ==
  ASSUME NEW o, Sequence(o), NEW x, NEW t, Appended(o, x, t)
  PROVE  AllMembers(t) = AllMembers(o) \o x.struct.big
<1> DEFINE l == Len(o)
<1>1. o \in Seq({o[k] : k \in DOMAIN o}) /\ t \in Seq({t[k] : k \in DOMAIN t})
  BY DEF Sequence, Appended
<1>2. l \in Nat /\ DOMAIN o = 1..l /\ Len(t) \in Nat /\ DOMAIN t = 1..Len(t)
  BY <1>1, LenProperties
<1>3. Len(t) = l + 1 /\ t[l + 1] = x /\ \A k \in 1..l : t[k] = o[k]
  <2>1. 1..Len(t) = 1..l \cup {l + 1}
    BY <1>2 DEF Appended
  <2> HIDE DEF l
  <2> DEFINE m == Len(t)
  <2>4. m \in Nat /\ l \in Nat /\ l + 1 \in 1..m
    BY <1>2, <2>1
  <2>2. m \in 1..l \/ m = l + 1
    <3>1. m >= 1
      BY <2>4
    <3>2. m \in 1..m
      BY <2>4, <3>1
    <3>. QED  BY <2>1, <3>2
  <2> HIDE DEF m
  <2>5. m = l + 1
    BY <2>2, <2>4
  <2>3. Len(t) = l + 1
    BY <2>5 DEF m
  <2>. QED  BY <1>2, <2>3 DEF Appended, l
<1>4. PICK f : AllRunGoes(f, l, o) /\ AllMembers(o) = f[l]
  BY <1>1, AllRun
<1>5. PICK g : AllRunGoes(g, Len(t), t) /\ AllMembers(t) = g[Len(t)]
  BY <1>1, AllRun
<1> DEFINE T == {k \in 0..l : g[k] = f[k]}
<1> HIDE DEF l
<1>6. 0 \in T
  BY <1>2, <1>4, <1>5 DEF AllRunGoes
<1>7. ASSUME NEW k \in 0..(l - 1), k \in T PROVE k + 1 \in T
  <2>1. k \in 0..(Len(t) - 1) /\ k + 1 \in 1..l /\ k + 1 \in 0..l
    BY <1>2, <1>3
  <2>2. g[k + 1] = More(g[k], t[k + 1]) /\ f[k + 1] = More(f[k], o[k + 1])
    BY <1>4, <1>5, <2>1 DEF AllRunGoes
  <2>. QED  BY <1>3, <1>7, <2>1, <2>2
<1> HIDE DEF T
<1>8. l \in T
  BY <1>2, <1>6, <1>7, Induction
<1>9. g[l + 1] = More(g[l], t[l + 1])
  BY <1>2, <1>3, <1>5 DEF AllRunGoes
<1>10. g[l] = f[l]
  BY <1>8 DEF T
<1>. QED  BY <1>3, <1>4, <1>5, <1>9, <1>10 DEF More

-----------------------------------------------------------------------------
(* f is the fieldset_t, o what was written and d what was declared: the     *)
(* members that are pending are packed, those that were written were, and   *)
(* together they join to what was declared.                                 *)
Content(f, o, d) ==
  /\ Packed(f.members, f.nbits)
  /\ AllKept(o)
  /\ Joined(AllMembers(o) \o f.members) = [done |-> d, bits |-> 0]

LEMMA ContentSame ==
  ASSUME NEW f, NEW o, NEW d, Content(f, o, d), NEW g, g.members = f.members, g.nbits = f.nbits
  PROVE  Content(g, o, d)
BY DEF Content

LEMMA ContentNone ==
  ASSUME NEW f, NEW o, NEW d, Content(f, o, d), f.members = <<>>
  PROVE  Content(NoFields, o, d)
BY NonePacked DEF Content, NoFields

(* write_table() moves the members from the one to the other.               *)
LEMMA ContentWritten ==
  ASSUME NEW f, NEW o, NEW d, Content(f, o, d),
         f = [ident |-> f.ident, next_tag |-> f.next_tag, seq |-> f.seq,
              members |-> f.members, nbits |-> f.nbits]
  PROVE  /\ Content(AfterWriting(f), o \o Written(f), d)
         /\ AfterWriting(f).members = <<>>
<1>1. CASE f.members = <<>>
  <2>1. AfterWriting(f) = f /\ Written(f) = <<>>
    BY <1>1 DEF AfterWriting, Written
  <2>2. o \o <<>> = o
    BY DEF Content, AllKept, Sequence
  <2>. QED  BY <1>1, <2>1, <2>2
<1>2. CASE f.members # <<>>
  <2> DEFINE ms == f.members
             g == AfterWriting(f)
             x == [ident |-> f.ident, seq |-> f.seq, struct |-> Struct(ms)]
             p == o \o Written(f)
  <2>1. g.members = <<>> /\ g.nbits = 0
    BY <1>2 DEF AfterWriting
  <2>2. p = o \o <<x>> /\ x.struct = Struct(ms)
    BY <1>2 DEF Written
  <2>3. Packed(ms, f.nbits) /\ AllKept(o) /\ Joined(AllMembers(o) \o ms) = [done |-> d, bits |-> 0]
    BY DEF Content
  <2> HIDE DEF g, x, p, ms
  <2>4. Appended(o, x, p)
    BY <2>2, <2>3, OneMore DEF AllKept
  <2>5. x.struct.big = ms /\ Kept(x.struct)
    BY <2>2, <2>3, StructKept
  <2>6. AllMembers(p) = AllMembers(o) \o ms
    BY <2>3, <2>4, <2>5, AllAndOne DEF AllKept
  <2>7. ms \in Seq(Member)
    BY <2>3 DEF Packed
  <2>8. AllKept(p)
    BY <2>3, <2>4, <2>5, <2>7 DEF AllKept, Appended
  <2>9. AllMembers(p) \o g.members = AllMembers(p)
    <3>1. AllMembers(p) \in Seq(Member)
      BY <2>8, AllAreMembers
    <3>. QED  BY <2>1, <3>1, ConcatEmptySeq
  <2>10. Packed(g.members, g.nbits)
    BY <2>1, NonePacked
  <2>11. Joined(AllMembers(p) \o g.members) = [done |-> d, bits |-> 0]
    BY <2>3, <2>6, <2>9
  <2>12. Content(g, p, d)
    BY <2>8, <2>10, <2>11 DEF Content
  <2>. QED  BY <2>1, <2>12 DEF g, p
<1>. QED  BY <1>1, <1>2

LEMMA ContentAdded ==
  ASSUME NEW f, NEW o, NEW d, Content(f, o, d),
         f = [ident |-> f.ident, next_tag |-> f.next_tag, seq |-> f.seq,
              members |-> f.members, nbits |-> f.nbits],
         NEW h \in Fields, NEW g, g = add_field(f, h.name, h.bits)
  PROVE  Content(g, o, Append(d, [name |-> h.name, bits |-> IF h.bits = 0 THEN 8 ELSE h.bits]))
<1> DEFINE width == IF h.bits = 0 THEN 8 ELSE h.bits
           ms == f.members
           all == AllMembers(o)
<1>1. Packed(ms, f.nbits) /\ AllKept(o) /\ Joined(all \o ms) = [done |-> d, bits |-> 0]
  BY DEF Content
<1> HIDE DEF width
<1>2. /\ Packed(g.members, g.nbits)
      /\ \E p, c : g.members = ms \o p /\ ArePieces(p, <<h.name, c>>, width, f.nbits)
  BY <1>1, FieldAdded DEF width
<1> HIDE DEF ms, all
<1>3. PICK p, c : g.members = ms \o p /\ ArePieces(p, <<h.name, c>>, width, f.nbits)
  BY <1>2
<1>4. all \in Seq(Member) /\ ms \in Seq(Member) /\ p \in Seq(Member)
  BY <1>1, <1>3, AllAreMembers DEF all, Packed, ArePieces
<1>5. all \o ms \in Seq(Member)
  BY <1>4
<1>6. all \o g.members = (all \o ms) \o p
  BY <1>3, <1>4, ConcatAssociative, SMTT(30)
<1>7. Joined(all \o g.members) = [done |-> Append(d, [name |-> h.name, bits |-> width]), bits |-> 0]
  <2> DEFINE a == all \o ms
             t == all \o g.members
             field == [name |-> h.name, bits |-> width]
  <2>1. PiecesOf(p, field, f.nbits)
    BY <1>3 DEF PiecesOf
  <2>2. a \in Seq(Member) /\ t = a \o p /\ JoinsTo(a, d)
    BY <1>1, <1>5, <1>6 DEF JoinsTo
  <2> HIDE DEF a, t, field
  <2>3. JoinsTo(t, Append(d, field))
    BY <2>1, <2>2, JoinedPieces
  <2>. QED  BY <2>3 DEF t, field, JoinsTo
<1>. QED  BY <1>1, <1>2, <1>7 DEF Content, width, all

(* A name changes nothing of the members.                                   *)
LEMMA NamesChange ==
  ASSUME NEW f, f = [ident |-> f.ident, next_tag |-> f.next_tag, seq |-> f.seq,
                     members |-> f.members, nbits |-> f.nbits], NEW a, NEW x
  PROVE  /\ Tagged(f).members = f.members /\ Tagged(f).nbits = f.nbits
         /\ Restored(f, a).members = f.members /\ Restored(f, a).nbits = f.nbits
         /\ [f EXCEPT !.next_tag = x].members = f.members /\ [f EXCEPT !.next_tag = x].nbits = f.nbits
         /\ Tagged([f EXCEPT !.ident = x]).members = f.members
         /\ Tagged([f EXCEPT !.ident = x]).nbits = f.nbits
BY DEF Tagged, Restored

(* AfterWriting keeps the record a fieldset_t.                              *)
LEMMA StillFields ==
  ASSUME NEW f, f = [ident |-> f.ident, next_tag |-> f.next_tag, seq |-> f.seq,
                     members |-> f.members, nbits |-> f.nbits], NEW g, g = AfterWriting(f)
  PROVE  g = [ident |-> g.ident, next_tag |-> g.next_tag, seq |-> g.seq,
              members |-> g.members, nbits |-> g.nbits]
BY DEF AfterWriting

Rest ==
  /\ read \in 0..MaxStatements /\ comment \in BOOLEAN /\ used \in 0..MaxNames
  /\ status \in {"running", "done", "failed", "spinning"}
  /\ status = "spinning" => comment /\ stack = <<>>

Held == Content(fields, out, declared)

LEMMA InitHeld == Init => Held /\ Rest
<1> SUFFICES ASSUME Init PROVE Held /\ Rest
  OBVIOUS
<1> DEFINE e == <<>>
<1>1. out = e /\ declared = e /\ fields.members = e /\ fields.nbits = 0
  BY DEF Init, NoFields
<1>2. e \in Seq(Member) /\ Len(e) = 0 /\ DOMAIN e = {} /\ e \o e = e /\ e = <<>>
      /\ e \in Seq({e[k] : k \in DOMAIN e})
  OBVIOUS
<1>3. Packed(e, 0)
  BY NonePacked
<1> HIDE DEF e
<1>4. AllKept(e)
  BY <1>2 DEF AllKept, Sequence
<1>5. AllMembers(e) = e
  BY <1>2, AllRun DEF AllRunGoes
<1>6. Joined(e) = [done |-> e, bits |-> 0]
  BY <1>2, JoinedRun DEF JoinedRunGoes
<1>7. Held
  BY <1>1, <1>2, <1>3, <1>4, <1>5, <1>6 DEF Held, Content
<1>8. Rest
  <2>1. 0 \in 0..MaxStatements /\ 0 \in 0..MaxNames
    BY GenAssumption
  <2>2. /\ read = 0 /\ used = 0 /\ comment = FALSE /\ status = "running"
    BY DEF Init
  <2>3. "running" # "spinning"
    OBVIOUS
  <2>. QED  BY <2>1, <2>2, <2>3 DEF Rest
<1>. QED  BY <1>7, <1>8

LEMMA StepRest == Rest /\ [Next]_vars => Rest'
<1> SUFFICES ASSUME Rest, [Next]_vars PROVE Rest'
  OBVIOUS
<1>0. MaxStatements \in Nat /\ MaxNames \in Nat
  BY GenAssumption
<1>1. CASE Read /\ status' \in {"running", "failed"} /\ comment' \in BOOLEAN /\ used' \in 0..MaxNames
  BY <1>0, <1>1 DEF Rest, Read
<1>2. CASE Swallowed
  BY <1>0, <1>2 DEF Rest, Swallowed
<1>3. CASE EndOfFile
  BY <1>0, <1>3 DEF Rest, EndOfFile, AtTop
<1>4. CASE UNCHANGED vars
  BY <1>4 DEF Rest, vars
<1>5. ASSUME NEW f \in Fields, Field(f)
      PROVE  Read /\ status' \in {"running", "failed"} /\ comment' \in BOOLEAN /\ used' \in 0..MaxNames
  BY <1>5 DEF Field, Fail, Read, Rest
<1>6. ASSUME NEW heads, NEW elseif, Open(heads, elseif)
      PROVE  Read /\ status' \in {"running", "failed"} /\ comment' \in BOOLEAN /\ used' \in 0..MaxNames
  BY <1>6 DEF Open, Rest
<1>7. CASE Block \/ For \/ If \/ Else \/ ElseIf
  BY <1>1, <1>6, <1>7 DEF Block, For, If, Else, ElseIf
<1>8. CASE Comment
  BY <1>1, <1>8 DEF Comment, Read, Rest
<1>9. CASE Attribute \/ Section
  <2>1. Read /\ used' = used + 1 /\ used < MaxNames /\ status' = status /\ comment' = comment
    BY <1>9 DEF Attribute, Section
  <2>2. used \in Nat /\ comment \in BOOLEAN /\ status = "running"
    BY <1>0, <2>1 DEF Rest, Read
  <2>3. used' \in 0..MaxNames
    BY <1>0, <2>1, <2>2
  <2>. QED  BY <1>1, <2>1, <2>2, <2>3
<1>10. CASE While \/ Close \/ Misplaced \/ Descriptor
  <2>1. Read /\ status' \in {"running", "failed"} /\ comment' = comment /\ used' = used
    BY <1>10 DEF While, Close, Misplaced, Descriptor, Fail, Read
  <2>. QED  BY <1>1, <2>1 DEF Rest
<1>. QED  BY <1>1, <1>2, <1>3, <1>4, <1>5, <1>7, <1>8, <1>9, <1>10 DEF Next

LEMMA StepHeld == IInv /\ Held /\ [Next]_vars => Held'
<1> SUFFICES ASSUME IInv, Held, [Next]_vars PROVE Held'
  OBVIOUS
<1> DEFINE w == AfterWriting(fields)
           p == out \o Written(fields)
<1>0. /\ fields = [ident |-> fields.ident, next_tag |-> fields.next_tag, seq |-> fields.seq,
                   members |-> fields.members, nbits |-> fields.nbits]
      /\ Content(fields, out, declared)
  BY DEF IInv, Good, Shape, Held
<1>a. Content(w, p, declared) /\ w.members = <<>>
  BY <1>0, ContentWritten
<1>b. w = [ident |-> w.ident, next_tag |-> w.next_tag, seq |-> w.seq,
           members |-> w.members, nbits |-> w.nbits]
  BY <1>0, StillFields
<1> HIDE DEF w, p
<1>1. CASE UNCHANGED <<fields, out, declared>>
  BY <1>0, <1>1 DEF Held
<1>2. CASE Comment \/ Swallowed \/ Misplaced \/ EndOfFile \/ UNCHANGED vars
  BY <1>1, <1>2 DEF Comment, Swallowed, Misplaced, Fail, EndOfFile, vars
<1>3. CASE Attribute
  <2>1. fields' = [fields EXCEPT !.next_tag = used'] /\ out' = out /\ declared' = declared
    BY <1>3 DEF Attribute
  <2>2. Content(fields', out, declared)
    BY <1>0, <2>1, NamesChange, ContentSame
  <2>. QED  BY <2>1, <2>2 DEF Held
<1>4. CASE Section
  <2>1. fields' = Tagged([fields EXCEPT !.ident = used']) /\ out' = out /\ declared' = declared
    BY <1>4 DEF Section
  <2>2. Content(fields', out, declared)
    BY <1>0, <2>1, NamesChange, ContentSame
  <2>. QED  BY <2>1, <2>2 DEF Held
<1>5. CASE Block \/ For \/ If \/ Else \/ ElseIf
  <2>1. fields' = Tagged(w) /\ out' = p /\ declared' = declared
    BY <1>5 DEF Block, For, If, Else, ElseIf, Open, w, p
  <2>2. Content(fields', p, declared)
    BY <1>a, <1>b, <2>1, NamesChange, ContentSame
  <2>. QED  BY <2>1, <2>2 DEF Held
<1>6. CASE While
  <2>1. fields' = [w EXCEPT !.next_tag = NULL] /\ out' = p /\ declared' = declared
    BY <1>6 DEF While, w, p
  <2>2. Content(fields', p, declared)
    BY <1>a, <1>b, <2>1, NamesChange, ContentSame
  <2>. QED  BY <2>1, <2>2 DEF Held
<1>7. ASSUME NEW f \in Fields, Field(f) PROVE Held'
  <2>1. CASE fields.next_tag # NULL
    BY <1>1, <1>7, <2>1 DEF Field, Fail
  <2>2. CASE fields.next_tag = NULL
    <3>1. /\ fields' = add_field(fields, f.name, f.bits) /\ out' = out
          /\ declared' = Append(declared, [name |-> f.name, bits |-> IF f.bits = 0 THEN 8 ELSE f.bits])
      BY <1>7, <2>2 DEF Field
    <3>2. Content(fields', out, declared')
      BY <1>0, <3>1, ContentAdded
    <3>. QED  BY <3>1, <3>2 DEF Held
  <2>. QED  BY <2>1, <2>2
<1>8. CASE Descriptor
  <2>1. CASE fields.next_tag # NULL
    BY <1>1, <1>8, <2>1 DEF Descriptor, Fail
  <2>2. CASE fields.next_tag = NULL
    BY <1>8, <1>a, <2>2 DEF Descriptor, Held, w, p
  <2>. QED  BY <2>1, <2>2
<1>9. CASE Close
  <2>1. /\ fields' = IF Len(stack) = 1 THEN NoFields ELSE Restored(w, stack[Len(stack) - 1].attrs)
        /\ out' = p /\ declared' = declared
    BY <1>9 DEF Close, w, p
  <2>2. Content(NoFields, p, declared)
    BY <1>a, ContentNone
  <2> DEFINE a == stack[Len(stack) - 1].attrs
             g == Restored(w, a)
  <2>5. g.members = w.members /\ g.nbits = w.nbits
    BY <1>b, NamesChange
  <2> HIDE DEF a, g
  <2>6. Content(g, p, declared)
    BY <1>a, <2>5, ContentSame
  <2>3. Content(Restored(w, stack[Len(stack) - 1].attrs), p, declared)
    BY <2>6 DEF g, a
  <2>4. Content(fields', p, declared)
    BY <2>1, <2>2, <2>3
  <2>. QED  BY <2>1, <2>4 DEF Held
<1>. QED  BY <1>2, <1>3, <1>4, <1>5, <1>6, <1>7, <1>8, <1>9 DEF Next

HeldInv == IInv /\ Held /\ Rest

LEMMA HeldAlways == Spec => []HeldInv
<1>1. Init => HeldInv
  BY InitGood, InitHeld DEF HeldInv
<1>2. HeldInv /\ [Next]_vars => HeldInv'
  BY StepGood, StepHeld, StepRest DEF HeldInv
<1>. QED  BY <1>1, <1>2, PTL DEF Spec

(* gentables.c:65, 83: each piece has from one to eight bits, whatever      *)
(* widths the file asks for, and names come from the file.                  *)
THEOREM TypeCorrect == Spec => []TypeOK
<1>1. HeldInv => TypeOK
  <2> SUFFICES ASSUME HeldInv PROVE TypeOK
    OBVIOUS
  <2>1. Packed(fields.members, fields.nbits) /\ AllKept(out) /\ Shape(fields, out, stack, used) /\ Rest
    BY DEF HeldInv, Held, Content, IInv, Good
  <2>2. fields.members \in Seq(Member) /\ fields.nbits \in Nat
    BY <2>1 DEF Packed
  <2>3. \A i \in DOMAIN stack : stack[i].attrs.ident \in 0..used /\ stack[i].elseif \in BOOLEAN
    <3> SUFFICES ASSUME NEW i \in DOMAIN stack
                 PROVE  stack[i].attrs.ident \in 0..used /\ stack[i].elseif \in BOOLEAN
      OBVIOUS
    <3>1. stack \in Seq(Frames) /\ stack[i].attrs.ident \in 0..used
      BY <2>1 DEF Shape
    <3>2. stack[i] \in Frames
      BY <3>1
    <3>. QED  BY <3>1, <3>2 DEF Frames
  <2>4. \A i \in DOMAIN out : out[i].ident \in 1..used /\ out[i].struct.big \in Seq(Member)
    BY <2>1 DEF Shape, AllKept
  <2>5. /\ fields.ident \in 0..used /\ fields.next_tag \in 0..used /\ fields.seq \in Nat
        /\ stack # <<>> => fields.ident \in 1..used
    BY <2>1 DEF Shape, NULL
  <2>. QED  BY <2>1, <2>2, <2>3, <2>4, <2>5 DEF TypeOK, Rest
<1>. QED  BY HeldAlways, <1>1, PTL

(* write_table() and add_field() (gentables.c:342, 393): for fields of any  *)
(* width, in structures of any length, no member spans two octets, and      *)
(* those of an octet are in one order for the one order of the bits and in  *)
(* the reverse for the other.                                               *)
THEOREM KeepsOctets == Spec => []OctetsKept
<1>1. HeldInv => OctetsKept
  BY DEF HeldInv, Held, Content, AllKept, Kept, OctetsKept
<1>. QED  BY HeldAlways, <1>1, PTL

(* parse_block() and add_field() (gentables.c:496, 393): for a file of any  *)
(* length, nested to any depth, the pieces of all structures join to the    *)
(* fields that were declared.                                               *)
THEOREM JoinsBack == Spec => []FieldsJoinBack
<1>1. HeldInv => FieldsJoinBack
  BY DEF HeldInv, Held, Content, FieldsJoinBack
<1>. QED  BY HeldAlways, <1>1, PTL

(***************************************************************************)
(* push_attrs(), pop_attrs() and write_table() (gentables.c:353-359, 593,  *)
(* 615): whatever the file, no two structures are called the same if the   *)
(* names of its sections and tags are apart and none is another with one   *)
(* number after it.                                                        *)
(***************************************************************************)
THEOREM NamesOnce == Spec => []StructuresNamedOnce
<1>1. ASSUME IInv, Rest PROVE StructuresNamedOnce
  <2> SUFFICES ASSUME NamesApart, NEW i \in DOMAIN out, NEW j \in DOMAIN out, i # j
               PROVE  StructName(out[i]) # StructName(out[j])
    BY DEF StructuresNamedOnce
  <2>1. /\ out[i].ident \in 1..used /\ out[i].seq \in Nat
        /\ out[j].ident \in 1..used /\ out[j].seq \in Nat
    BY <1>1 DEF IInv, Good, Shape
  <2>2. out[i].ident # out[j].ident \/ out[i].seq # out[j].seq
    BY <1>1 DEF IInv, Good, Once
  <2>3. used \in 0..MaxNames
    BY <1>1 DEF Rest
  <2> DEFINE x == out[i]
             y == out[j]
  <2> HIDE DEF x, y
  <2>4. StructName(x) # StructName(y)
    BY <2>1, <2>2, <2>3, NamesTellApart DEF x, y
  <2>. QED  BY <2>4 DEF x, y
<1>. QED  BY <1>1, HeldAlways, PTL DEF HeldInv
===============================================================================
