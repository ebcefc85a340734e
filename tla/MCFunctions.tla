---------------------------- MODULE MCFunctions -----------------------------
(***************************************************************************)
(* The laws for TLC: words at and around the ends of the ranges of every   *)
(* type, every operation with operands at the ends of their fields.  Bytes *)
(* have ten values, so that two of them tell all the operations apart.     *)
(***************************************************************************)
EXTENDS Laws

MCNumbers ==
  UNION {{v - 1, v, v + 1} :
           v \in {1, CHAR \div 2, SHORT \div 2, SHORT, INT \div 2, INT, LONG \div 2}}
    \cup {CHAR + 3, INT - SHORT, INT + 5, LONG - INT \div 2, LONG - INT, LONG - 2, LONG - 1}

(* Register numbers and immediates that fit the fields of a layout. *)
Wide   == {0, 3, CHAR + 2, SHORT - 1}
Narrow == {0, 3, CHAR - 1}
Ints   == {- (INT \div 2), - 1, 0, 5, CHAR, SHORT + 7, INT \div 2 - 1}

Operands(op) ==
  CASE op \in {"NOP", "HALT"} -> {<<0, 0, 0>>}
    [] op \in Translated \ {"NOP"} -> Narrow \X Narrow \X {0}
    [] Layout(op) = "R" /\ op # "HALT" -> Wide \X Wide \X Wide
    [] Layout(op) = "U" -> Narrow \X {0} \X Ints
    [] Layout(op) = "D" -> Wide \X {0} \X {0}
    [] OTHER -> Narrow \X Narrow \X Ints

MCPackings == UNION {{Instruction(op, o[1], o[2], o[3]) : o \in Operands(op)} : op \in Opcodes}

(* Every text of up to five characters: a delimiter of labels, two kinds   *)
(* of blank and a letter.                                                  *)
MCCharacters == {":", " ", "\t", "a"}

MCTexts == UNION {[1 .. n -> MCCharacters] : n \in 0 .. 5}
=============================================================================
