----------------------------- MODULE SourceText -----------------------------
(***************************************************************************)
(* How a line of source text is taken apart: more string functions of      *)
(* util.cpp, and what Program::firstStep and Program::toMemory make of a   *)
(* line with them and with those of Tokens.  What is between the           *)
(* characters that matter to them may be one "character" too: a name,      *)
(* ".ASCIIZ".                                                              *)
(***************************************************************************)
EXTENDS Tokens

LOCAL INSTANCE SequencesExt

White == {" ", "\t"}

-----------------------------------------------------------------------------
(* util.cpp *)

(* A mutant of StrEndsIn: it is enough that c occurs. *)
StrHas(s, c) == Contains(s, c)

StrEndsIn(s, c) == s # <<>> /\ Last(s) = c

Trim(s) ==
  LET kept == {k \in DOMAIN s : s[k] \notin White}
  IN  IF kept = {} THEN <<>>
      ELSE SubSeq(s, CHOOSE k \in kept : \A j \in kept : k <= j,
                     CHOOSE k \in kept : \A j \in kept : k >= j)

-----------------------------------------------------------------------------
(* Both passes. *)

WithoutComment(line) ==
  LET pos == FindDelineator(line, {"#"})
  IN  IF pos = 0 THEN line ELSE SubSeq(line, 1, pos - 1)

(* What is between the quotes: at(1) throws if there is nothing.           *)
Quoted(text) == SplitStringRemoveEmpty(text, {"\""})

-----------------------------------------------------------------------------
(* Program::firstStep, one line. *)

ScanParts(line) == SplitStringRemoveEmpty(WithoutComment(line), {" "})

(* The first part that is neither a label nor blank; past the last if none. *)
Stop(line) ==
  LET parts == ScanParts(line)
      k == SelectInSeq(parts, LAMBDA p : ~ StrEndsIn(p, ":") /\ Trim(p) # <<>>)
  IN  IF k = 0 THEN Len(parts) + 1 ELSE k

LabelsSeen(line) ==
  {Front(ScanParts(line)[k]) : k \in {j \in 1 .. Stop(line) - 1 : StrEndsIn(ScanParts(line)[j], ":")}}

IsString(line) ==
  Stop(line) <= Len(ScanParts(line)) /\ Trim(ScanParts(line)[Stop(line)]) = <<".ASCIIZ">>

CountThrows(line) == IsString(line) /\ Len(Quoted(line)) < 2

(* By how many words the pointer moves. *)
WordsCounted(line) ==
  IF Stop(line) > Len(ScanParts(line)) THEN 0
  ELSE IF IsString(line) THEN Len(Quoted(line)[2]) + 1
  ELSE 1

-----------------------------------------------------------------------------
(* Program::toMemory, one line. *)

ColonParts(line) == SplitStringRemoveEmpty(line, {":"})

SplitThrows(line) == Len(ColonParts(line)) > 2

OperationText(line) ==
  LET parts == ColonParts(line)
  IN  Trim(IF Len(parts) = 2 THEN parts[2]
           ELSE IF Len(parts) = 1 /\ ~ Contains(line, ":") THEN parts[1]
           ELSE <<>>)
=============================================================================
