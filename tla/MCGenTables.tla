---------------------------- MODULE MCGenTables ----------------------------
(***************************************************************************)
(* An instance of GenTables: sections and tags in any order, fields of     *)
(* half an octet, of two and a half, and of one, which is two pieces after *)
(* the first.  The names are as near to one another as they may be: one    *)
(* ends in the number that is never given, one in a number twice.          *)
(***************************************************************************)
EXTENDS GenTables

MCFields == {[name |-> "flags", bits |-> 4], [name |-> "length", bits |-> 20],
             [name |-> "id", bits |-> 0]}
Item(numbers) == [base |-> "item", numbers |-> numbers]
MCSpelling == <<Item(<<>>), Item(<<0>>), Item(<<1, 1>>)>>

MCExpressions == {<<"operand", "operator", "operand">>, <<"other", "operand">>}
=============================================================================
