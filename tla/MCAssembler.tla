---------------------------- MODULE MCAssembler -----------------------------
(***************************************************************************)
(* The assembler for TLC: every program of three lines out of these, with  *)
(* four words of memory and two in the page past its end; and the text of  *)
(* their lines, taken apart as the code does it.                           *)
(***************************************************************************)
EXTENDS Assembler, SourceText

MCRegisterOf == [zero |-> 0, t0 |-> 3]

MCName == {"zero", "t0", "l", "m"}

Unlabelled(s) == SourceLine(NoLabel, "tight", s, "none")

ADD  == Op("ADD", <<Named("t0"), Named("t0"), Named("zero")>>)
JALl == Op("JAL", <<Named("zero"), Named("l")>>)
BNEm == Op("BNE", <<Named("t0"), Named("zero"), Named("m")>>)

PlainLines ==
  {Unlabelled(s) :
     s \in {JALl, BNEm, Text(<<5, 9>>), Data(1, 77), Data(8, - 1), Malformed, Text(<<>>),
            Op("LD", <<Named("t0"), OffsetFrom(16, "t0")>>),
            Op("LD", <<Named("t0"), OffsetFrom(16, "l")>>),
            Op("INPUTI", <<Named("l")>>), Op("HALT", <<>>), Op("MV", <<Named("t0")>>)}}
    \cup {SourceLine("l", "tight", s, "none") : s \in {NoStatement, ADD, Text(<<7>>), Text(<<>>)}}
    \cup {SourceLine("m", "tight", s, "none") : s \in {NoStatement, JALl, Text(<<1, 2, 3>>)}}
    \cup {SourceLine("t0", "tight", Op("LUI", <<Named("t0"), Named("t0")>>), "none")}

(* Lines that the passes read differently. *)
OddLines ==
  {SourceLine("l", spacing, s, "none") : spacing \in {"loose", "joined"}, s \in {NoStatement, Text(<<7>>)}}
    \cup {SourceLine(label, "tight", s, colon) :
            label \in {NoLabel, "m"}, s \in {NoStatement, ADD}, colon \in {"last", "within"}}
    \cup {Unlabelled(Op("SH", <<Named("t0"), Named("l")>>)),
          Unlabelled(Op("SLLIW", <<Named("t0"), Named("t0"), Immediately(2)>>))}

MCPrograms == [1 .. 3 -> PlainLines] \cup ([1 .. 2 -> PlainLines \cup OddLines])

-----------------------------------------------------------------------------
(* The text that a line stands for. *)

TextOf(s) ==
  CASE s.kind = "none" -> <<>>
    [] s.kind = "data" -> <<".WORD", " ", "1">>
    [] s.kind = "text" -> <<".ASCIIZ", " ", "\"">> \o [k \in DOMAIN s.chars |-> "c"] \o <<"\"">>
    [] s.kind = "op" -> <<s.name, " ", "operands">>
    [] s.kind = "malformed" -> <<".FLOAT">>

LabelText(line) ==
  IF ~ Labelled(line) THEN <<>>
  ELSE CASE line.spacing = "tight"  -> <<line.label, ":", " ">>
         [] line.spacing = "loose"  -> <<line.label, " ", ":", " ">>
         [] line.spacing = "joined" -> <<line.label, ":">>

CommentText(line) ==
  CASE line.colon = "none" -> <<>>
    [] line.colon = "last" -> <<" ", "#", "note", ":">>
    [] line.colon = "within" -> <<" ", "#", "a", ":", "note">>

LineText(line) == LabelText(line) \o TextOf(line.statement) \o CommentText(line)

(* What the second pass is left with, as text. *)
OperationRead(line) == Trim(WithoutComment(OperationText(LineText(line))))

(* The lines of Assembler are true to the text: firstStep, splitting it at *)
(* blanks, finds the label and the length that SeesLabel and LengthOfLine  *)
(* say, and toMemory, splitting it at colons, is left with OperationOf.    *)
LinesAsRead ==
  phase = "first" /\ at = 1 =>
    \A k \in DOMAIN lines :
      LET line == lines[k]
          text == LineText(line)
          operation == OperationOf(line)
      IN  /\ LabelsSeen(text) = IF SeesLabel(line) THEN {<<line.label>>} ELSE {}
          /\ CountThrows(text) <=> ScanThrows(line)
          /\ ~ CountThrows(text) =>
               WordsCounted(text) * INSTRUCTION_LENGTH = LengthOfLine(line)
          /\ SplitThrows(text) <=> (operation = Malformed /\ line.statement # Malformed)
          /\ ~ SplitThrows(text) =>
               OperationRead(line) =
                 IF operation = Remark THEN <<"note">> ELSE Trim(TextOf(operation))
=============================================================================
