----------------------------- MODULE MCDemuxRead -----------------------------
(***************************************************************************)
(* Instances of DemuxRead with a header of two bytes and payloads of at    *)
(* most two.  Offsets inside a section decode to nonsense, as they would.  *)
(***************************************************************************)
EXTENDS DemuxRead, Sequences

Cell(pes, len, crc) == [pes |-> pes, len |-> len, crc |-> crc]
Good(len) == Cell(FALSE, len, TRUE)
Junk(len) == Cell(FALSE, len, FALSE)
StartCode == Cell(TRUE, 0, FALSE)

OnAir(cells, boundary) ==
  [byte |-> [o \in 0..(Len(cells) - 1) |-> cells[o + 1]], boundary |-> boundary]

(* Sections of 3 and 2 bytes; what is inside them states a length of its    *)
(* own, and i turns those lengths about.                                    *)
Sections32(first, second, i) ==
  LET inside(o) == Junk((i + o) % (MaxLen + 1)) IN
  OnAir(<<first, inside(1), inside(2), second, inside(4)>>, {0, 3})

Turns == 0..MaxLen

(* Undamaged; the first with a length that reaches into the second; the     *)
(* second with a wrong checksum.                                            *)
MCPlain ==
  {Sections32(Good(1), Good(0), i) : i \in Turns}
    \cup {Sections32(Junk(2), Good(0), i) : i \in Turns}
    \cup {Sections32(Good(1), Junk(0), 1)}

(* Each section ends with what looks like a PES packet: entered at offset 1 *)
(* the loop drops the start of both sections each time round.               *)
MCLockedOut == OnAir(<<Good(1), Junk(0), StartCode, Good(0), StartCode>>, {0, 3})

MCCarousels == MCPlain \cup {MCLockedOut}
=============================================================================
