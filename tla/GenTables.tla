------------------------------ MODULE GenTables ------------------------------
(***************************************************************************)
(* gentables, which turns the section descriptions of an .idl file into    *)
(* the packed structures of si_tables.h.  The file is read one statement   *)
(* at a time; the recursion of parse_block() is the stack of the blocks    *)
(* that are open, each with its local variable attrs.  A fieldset_t is     *)
(* what is to be written next: its name, the tag that the next block gets  *)
(* instead, how many structures had the name, and the members so far.      *)
(*                                                                         *)
(* A comment is one statement too.  skip_whitespace() consumes whatever    *)
(* follows a star, so a comment that ends in an even number of stars and a *)
(* slash stays open and swallows what comes until another one ends.        *)
(*                                                                         *)
(* Names are shorter than the 56 characters parse_ident() keeps.           *)
(***************************************************************************)
EXTENDS Integers, SequencesExt

CONSTANTS
  Fields,        \* the fields a section may declare: [name, bits], bits = 0 if none are given
  MaxNames,      \* bounds the sections and tags, which are numbered as the file names them
  Spelling,      \* the identifier of each: [base, numbers] is base_n_..., with as
                 \* many numbers as the identifier ends in
  Expressions,   \* what may stand between parentheses: sequences of "operand",
                 \* "operator" (one that gentables knows) and "other"
  MaxStatements  \* bounds the file

VARIABLES
  read,      \* statements read so far
  comment,   \* a comment is open
  stack,     \* the blocks that are open, outermost first: [attrs, elseif]
  fields,    \* the fieldset_t: [ident, next_tag, seq, members, nbits]
  out,       \* the structures written: [ident, seq, struct]
  status,    \* "running", "done", "failed", or "spinning" for ever
  declared,  \* what the sections declared, in the order of the file
  used       \* how many sections and tags the file has named, each by a name of its own

vars == <<read, comment, stack, fields, out, status, declared, used>>

ASSUME GenAssumption ==
  /\ MaxStatements \in Nat /\ MaxNames \in Nat
  /\ Spelling \in [1..MaxNames -> [base : STRING, numbers : Seq(Nat)]]
  /\ \A f \in Fields : f.bits \in Nat
  /\ Expressions \subseteq Seq({"operand", "operator", "other"})

NULL == 0
NoFields == [ident |-> NULL, next_tag |-> NULL, seq |-> 0, members |-> <<>>, nbits |-> 0]
NoAttrs == [ident |-> NULL, seq |-> 0]
Frame(elseif) == [attrs |-> NoAttrs, elseif |-> elseif]

Init ==
  /\ read = 0 /\ comment = FALSE /\ stack = <<>> /\ fields = NoFields
  /\ out = <<>> /\ status = "running" /\ declared = <<>> /\ used = 0

-----------------------------------------------------------------------------
(* The pieces of one field.  The first fills the octet that is open, the    *)
(* others are octets of their own, and their names count down to 0: "_hi"   *)
(* and "_lo" if there are two.                                              *)
Part(count, i) ==
  IF count = 1 THEN <<"whole", 0>> ELSE <<IF count = 2 THEN "hilo" ELSE "number", count - i>>

(* Mutant: no bits are left in an octet that has just begun.                *)
PiecesAfter(id, bits, nbits) ==
  LET rem == (8 - (nbits % 8)) % 8
      count == IF bits <= rem THEN 1 ELSE 1 + (bits - rem + 7) \div 8
  IN [i \in 1..count |->
       [ident |-> id, part |-> Part(count, i),
        bits |-> IF count = 1 THEN bits
                 ELSE IF i = 1 THEN rem
                 ELSE IF i < count THEN 8
                 ELSE bits - rem - 8 * (count - 2)]]

Pieces(id, bits, nbits) ==
  LET rem == 8 - (nbits % 8)
      count == IF bits <= rem THEN 1 ELSE 1 + (bits - rem + 7) \div 8
  IN [i \in 1..count |->
       [ident |-> id, part |-> Part(count, i),
        bits |-> IF count = 1 THEN bits
                 ELSE IF i = 1 THEN rem
                 ELSE IF i < count THEN 8
                 ELSE bits - rem - 8 * (count - 2)]]

(* A name that is taken gets a number; the pieces of a field are not looked *)
(* at, only the names of the members as they are.                           *)
FreeIdent(members, name) ==
  LET Taken(c) == \E i \in DOMAIN members :
                    members[i].ident = <<name, c>> /\ members[i].part = <<"whole", 0>>
  IN <<name, CHOOSE c \in 0..Len(members) : ~Taken(c) /\ \A d \in 0..(c - 1) : Taken(d)>>

add_field(fs, name, bits) ==
  LET width == IF bits = 0 THEN 8 ELSE bits
  IN [fs EXCEPT !.members = @ \o Pieces(FreeIdent(fs.members, name), width, fs.nbits),
                !.nbits = @ + width]

(* What the compiler sees of a structure.  write_table() opens a condition  *)
(* at a member that is no octet and closes it, after the same members in    *)
(* reverse, where the bits come to whole octets; `section` are the members  *)
(* since "#if".                                                             *)
(* Mutant: the other half is written in the same order.                     *)
StructStepForward(s, m) ==
  LET bits == s.nbits + m.bits
      section == IF s.section = <<>> /\ m.bits = 8 THEN <<>> ELSE Append(s.section, m)
      whole == section = <<>> \/ bits % 8 = 0
  IN [big |-> Append(s.big, m),
      little |-> IF section = <<>> THEN Append(s.little, m)
                 ELSE IF whole THEN s.little \o section ELSE s.little,
      section |-> IF whole THEN <<>> ELSE section, nbits |-> bits]

StructStep(s, m) ==
  LET bits == s.nbits + m.bits
      section == IF s.section = <<>> /\ m.bits = 8 THEN <<>> ELSE Append(s.section, m)
      whole == section = <<>> \/ bits % 8 = 0
  IN [big |-> Append(s.big, m),
      little |-> IF section = <<>> THEN Append(s.little, m)
                 ELSE IF whole THEN s.little \o Reverse(section) ELSE s.little,
      section |-> IF whole THEN <<>> ELSE section, nbits |-> bits]

Struct(members) ==
  LET after[i \in 0..Len(members)] ==
        IF i = 0 THEN [big |-> <<>>, little |-> <<>>, section |-> <<>>, nbits |-> 0]
        ELSE StructStep(after[i - 1], members[i])
  IN after[Len(members)]

(* write_table(): nothing is written, and no number used up, without        *)
(* members.  free_fields() is at its end.  What the structure is called     *)
(* follows from the name it is of and how many had it before: "%s_%d", or   *)
(* the name as it is for the first.                                         *)
Numbered(name, n) == [base |-> name.base, numbers |-> Append(name.numbers, n)]

StructName(s) ==
  IF s.seq = 0 THEN Spelling[s.ident] ELSE Numbered(Spelling[s.ident], s.seq)

Written(fs) ==
  IF fs.members = <<>> THEN <<>>
  ELSE <<[ident |-> fs.ident, seq |-> fs.seq, struct |-> Struct(fs.members)]>>

(* Mutant: the members are not freed.                                       *)
AfterWritingAll(fs) == IF fs.members = <<>> THEN fs ELSE [fs EXCEPT !.seq = @ + 1]

AfterWriting(fs) ==
  IF fs.members = <<>> THEN fs ELSE [fs EXCEPT !.seq = @ + 1, !.members = <<>>, !.nbits = 0]

(* push_attrs(): the tag becomes the name of the block, and the name that  *)
(* was is saved for pop_attrs().                                           *)
Tagged(fs) ==
  IF fs.next_tag = NULL THEN fs
  ELSE [fs EXCEPT !.ident = fs.next_tag, !.next_tag = NULL, !.seq = 0]

Saved(fs) == IF fs.next_tag = NULL THEN NoAttrs ELSE [ident |-> fs.ident, seq |-> fs.seq]

(* Mutant: the number of the structures is not restored with the name.      *)
RestoredName(fs, attrs) == IF attrs.ident = NULL THEN fs ELSE [fs EXCEPT !.ident = attrs.ident]

Restored(fs, attrs) ==
  IF attrs.ident = NULL THEN fs ELSE [fs EXCEPT !.ident = attrs.ident, !.seq = attrs.seq]

(* parse_expression(): operands with operators between them, and an        *)
(* operator may be the last; whatever is left is not what the caller expects. *)
Accepted(e) ==
  \A i \in DOMAIN e : e[i] = (IF i % 2 = 1 THEN "operand" ELSE "operator")

-----------------------------------------------------------------------------
(* The next statement, outside of a comment.                                *)
Read ==
  /\ status = "running" /\ ~comment
  /\ read < MaxStatements /\ read' = read + 1

AtTop == stack = <<>>
Fail == status' = "failed" /\ UNCHANGED <<comment, stack, fields, out, declared, used>>

(* A comment, which ends only if the stars before its slash are odd.        *)
Comment ==
  /\ Read
  /\ \E odd \in BOOLEAN : comment' = ~odd
  /\ UNCHANGED <<stack, fields, out, status, declared, used>>

Swallowed ==
  /\ status = "running" /\ comment
  /\ read < MaxStatements /\ read' = read + 1
  /\ comment' \in BOOLEAN
  /\ UNCHANGED <<stack, fields, out, status, declared, used>>

(* "[tag=...]": of several the last is kept, wherever its block is.         *)
Attribute ==
  /\ Read /\ used < MaxNames /\ used' = used + 1
  /\ fields' = [fields EXCEPT !.next_tag = used']
  /\ UNCHANGED <<comment, stack, out, status, declared>>

Section ==
  /\ Read /\ AtTop
  /\ used < MaxNames /\ used' = used + 1
  /\ fields' = Tagged([fields EXCEPT !.ident = used'])
  /\ stack' = <<Frame(FALSE)>>
  /\ UNCHANGED <<comment, out, status, declared>>

(* A block, bare or of a for, an if or an else: what is pending is written, *)
(* then what stands in front of the brace is parsed.                        *)
Open(heads, elseif) ==
  /\ Read /\ ~AtTop
  /\ out' = out \o Written(fields)
  /\ fields' = Tagged(AfterWriting(fields))
  /\ stack' = [stack EXCEPT ![Len(stack)].attrs = Saved(AfterWriting(fields))]
                \o (IF \A i \in DOMAIN heads : Accepted(heads[i]) THEN <<Frame(elseif)>> ELSE <<>>)
  /\ status' = IF \A i \in DOMAIN heads : Accepted(heads[i]) THEN "running" ELSE "failed"
  /\ UNCHANGED <<comment, declared, used>>

Block == Open(<<>>, FALSE)
For == \E e, f, g \in Expressions : Open(<<e, f, g>>, FALSE)
If == \E e \in Expressions : Open(<<e>>, FALSE)
Else == Open(<<>>, FALSE)

(* The block of "else if" is parsed as any other, and when it ends the      *)
(* message about a missing 'if' or block follows.                           *)
ElseIf == \E e \in Expressions : Open(<<e>>, TRUE)

(* "while" parses nothing of what follows it: a tag is dropped, and the     *)
(* parenthesis that should come is then taken for a statement (Misplaced).  *)
While ==
  /\ Read /\ ~AtTop
  /\ out' = out \o Written(fields)
  /\ fields' = [AfterWriting(fields) EXCEPT !.next_tag = NULL]
  /\ UNCHANGED <<comment, stack, status, declared, used>>

Field(f) ==
  /\ Read /\ ~AtTop
  /\ IF fields.next_tag # NULL
       THEN Fail
       ELSE /\ fields' = add_field(fields, f.name, f.bits)
            /\ declared' = Append(declared, [name |-> f.name, bits |-> IF f.bits = 0 THEN 8 ELSE f.bits])
            /\ UNCHANGED <<comment, stack, out, status, used>>

(* "descriptor();": loops of descriptors are no members, and the structure  *)
(* ends in front of them.                                                   *)
Descriptor ==
  /\ Read /\ ~AtTop
  /\ IF fields.next_tag # NULL
       THEN Fail
       ELSE /\ out' = out \o Written(fields)
            /\ fields' = AfterWriting(fields)
            /\ UNCHANGED <<comment, stack, status, declared, used>>

(* "}": what is pending is written under the name of the block that ends,   *)
(* and its parent gets its own back.                                        *)
Close ==
  /\ Read /\ ~AtTop
  /\ out' = out \o Written(fields)
  /\ stack' = Front(stack)
  /\ fields' = IF Len(stack) = 1 THEN NoFields
               ELSE Restored(AfterWriting(fields), stack[Len(stack) - 1].attrs)
  /\ status' = IF Last(stack).elseif THEN "failed" ELSE "running"
  /\ UNCHANGED <<comment, declared, used>>

(* Anything else.                                                           *)
Misplaced == Read /\ Fail

(* The end of the file is fatal within a section; outside of one, a comment *)
(* that is open reads it again for ever.                                    *)
EndOfFile ==
  /\ status = "running"
  /\ status' = IF ~AtTop THEN "failed" ELSE IF comment THEN "spinning" ELSE "done"
  /\ UNCHANGED <<read, comment, stack, fields, out, declared, used>>

Next ==
  \/ Comment \/ Swallowed
  \/ Attribute \/ Section
  \/ Block \/ For \/ If \/ Else \/ ElseIf \/ While
  \/ \E f \in Fields : Field(f)
  \/ Descriptor \/ Close \/ Misplaced
  \/ EndOfFile

Spec == Init /\ [][Next]_vars

-----------------------------------------------------------------------------
Member == [ident : {f.name : f \in Fields} \X Nat,
           part : {"whole", "hilo", "number"} \X Nat, bits : 1..8]

(* Every piece has from 1 to 8 bits, tags and names are as they were given, *)
(* and a block is open exactly while a section is read.                     *)
TypeOK ==
  /\ read \in 0..MaxStatements /\ comment \in BOOLEAN
  /\ status \in {"running", "done", "failed", "spinning"}
  /\ used \in 0..MaxNames
  /\ fields.ident \in 0..used /\ fields.next_tag \in 0..used
  /\ fields.seq \in Nat /\ fields.nbits \in Nat
  /\ fields.members \in Seq(Member)
  /\ \A i \in DOMAIN stack : stack[i].attrs.ident \in 0..used /\ stack[i].elseif \in BOOLEAN
  /\ \A i \in DOMAIN out : out[i].ident \in 1..used /\ out[i].struct.big \in Seq(Member)
  /\ stack # <<>> => fields.ident \in 1..used
  /\ status = "spinning" => comment /\ stack = <<>>

(* The bits up to the end of member i, and from them the octet that each    *)
(* begins in, with the bits of it that are taken.                           *)
Bits(ms) ==
  LET bits[i \in 0..Len(ms)] == IF i = 0 THEN 0 ELSE bits[i - 1] + ms[i].bits
  IN bits

Place(ms) ==
  LET bits == Bits(ms)
  IN [i \in DOMAIN ms |-> [octet |-> bits[i - 1] \div 8, from |-> bits[i - 1] % 8]]

(* Both have in each octet the same members, in opposite orders.            *)
Mirrored(big, little) ==
  LET at == Place(big)
  IN /\ Len(little) = Len(big)
     /\ \A i \in DOMAIN big :
          LET peers == {h \in DOMAIN big : at[h].octet = at[i].octet}
              first == CHOOSE h \in peers : \A g \in peers : h <= g
              last == CHOOSE h \in peers : \A g \in peers : h >= g
          IN little[i] = big[first + last - i]

(* write_table() and add_field() (gentables.c:342, 393): no member of a     *)
(* structure spans two of its octets, and a structure of whole octets has   *)
(* in each the same members for either order of the bits, one the reverse   *)
(* of the other, and no condition is left open.                             *)
OctetsKept ==
  \A i \in DOMAIN out :
    LET s == out[i].struct
        at == Place(s.big)
    IN /\ \A m \in DOMAIN s.big : at[m].from + s.big[m].bits <= 8
       /\ s.nbits % 8 = 0 => s.section = <<>> /\ Mirrored(s.big, s.little)

(* The fields that a sequence of members was made from: a field ends with   *)
(* the part that is numbered 0.                                             *)
JoinStep(a, m) ==
  LET field == [name |-> m.ident[1], bits |-> a.bits + m.bits]
  IN IF m.part[2] = 0 THEN [done |-> Append(a.done, field), bits |-> 0]
     ELSE [done |-> a.done, bits |-> field.bits]

Joined(ms) ==
  LET after[i \in 0..Len(ms)] ==
        IF i = 0 THEN [done |-> <<>>, bits |-> 0] ELSE JoinStep(after[i - 1], ms[i])
  IN after[Len(ms)]

(* The members of all structures, in order.                                 *)
AllMembers(o) ==
  LET written[i \in 0..Len(o)] == IF i = 0 THEN <<>> ELSE written[i - 1] \o o[i].struct.big
  IN written[Len(o)]

(* parse_block() and add_field(): however the sections nest and wherever    *)
(* the structures are cut, the pieces that were written and are pending     *)
(* join to the fields that were declared, in order and with their widths.   *)
FieldsJoinBack == Joined(AllMembers(out) \o fields.members) = [done |-> declared, bits |-> 0]

(* Two names may meet in one: "item" with a number after it is "item_1".    *)
Meet(a, b) == a = b \/ \E k \in 1..Len(a.numbers) : a.numbers[k] # 0 /\ a = Numbered(b, a.numbers[k])

NamesApart == \A a, b \in 1..used : a # b => ~Meet(Spelling[a], Spelling[b])

(* push_attrs(), pop_attrs() and write_table() (gentables.c:353-359, 585):  *)
(* if the sections and tags of the file have names of their own, none of    *)
(* which is another with one number after it, no two structures are called  *)
(* the same, whatever is nested in what and whichever tags are left over.   *)
StructuresNamedOnce ==
  NamesApart => \A i, j \in DOMAIN out : i # j => StructName(out[i]) # StructName(out[j])
=============================================================================
