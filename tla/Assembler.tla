----------------------------- MODULE Assembler ------------------------------
(***************************************************************************)
(* The assembler: class Program of assemble.cpp, the SymbolTable it fills  *)
(* and Instruction::getInstruction.  Program::firstStep goes through the   *)
(* lines and enters every label with the address it counts up to;          *)
(* Program::toMemory runs firstStep, goes through the lines again and      *)
(* writes the words of each to memory.  Each action takes one line.        *)
(*                                                                         *)
(* The two passes take a line apart in different ways: the first drops a   *)
(* comment and splits the rest at spaces, the second splits all of it at   *)
(* colons.  A line is a record of what they can tell apart: its label, how *)
(* the label is set off, its statement, and whether there is another colon *)
(* in the comment or a string: the last character, or before a word.       *)
(*                                                                         *)
(* Memory is that of an alu, a word at a time.  The page past its end is    *)
(* whatever the uninitialised alu::syms points to (Memory.tla): words      *)
(* written there are lost, or kill the process; the next one throws.       *)
(* Nothing in Program or start catches an exception.                       *)
(***************************************************************************)
EXTENDS Platform

CONSTANTS
  Name,          (* the names in programs: no numbers, and no brackets     *)
  NoLabel,       (* a line without a label                                 *)
  Programs       (* the source texts, as sequences of lines                *)

VARIABLES
  lines,    (* Program::value                                              *)
  phase,    (* the pass, or how toMemory ended                             *)
  at,       (* the line to take next                                       *)
  pointer,  (* current_pointer                                             *)
  table,    (* Program::sym                                                *)
  image,    (* the words of memory                                         *)
  starts    (* history, no code: the first pass's pointer at each line     *)

assemblerVars == <<lines, phase, at, pointer, table, image, starts>>

ASSUME AssemblerAssumption ==
  /\ MAXMEMORY % INSTRUCTION_LENGTH = 0 /\ PAGESIZE % INSTRUCTION_LENGTH = 0
  /\ NoLabel \notin Name
  /\ RegisterOf \in [DOMAIN RegisterOf -> 0 .. CHAR - 1] /\ DOMAIN RegisterOf \subseteq Name

-----------------------------------------------------------------------------
(* Source text. *)

(* spacing: "tight" for `l: ADD', "loose" for `l : ADD' and "joined" for    *)
(* `l:ADD'; colon: "none", "last" or "within".                              *)
SourceLine(label, spacing, statement, colon) ==
  [label |-> label, spacing |-> spacing, statement |-> statement, colon |-> colon]

(* A statement: nothing; .BYTE to .DWORD with the size of the type; .ASCIIZ *)
(* with the characters between the quotes; an operation and its operands;   *)
(* or what getInstruction throws at.                                        *)
NoStatement == [kind |-> "none"]
Data(n, v) == [kind |-> "data", size |-> n, value |-> v]
Text(chars) == [kind |-> "text", chars |-> chars]
Op(name, operands) == [kind |-> "op", name |-> name, operands |-> operands]
Malformed == [kind |-> "malformed"]

(* An operand: a number, a name, or an offset from a register, 8(sp).      *)
Immediately(v) == [kind |-> "number", value |-> v]
Named(n) == [kind |-> "name", name |-> n]
OffsetFrom(v, n) == [kind |-> "offset", value |-> v, name |-> n]

Operands ==
  [kind : {"number"}, value : Int] \cup [kind : {"name"}, name : Name]
    \cup [kind : {"offset"}, value : Int, name : Name]

Statements ==
  {NoStatement, Malformed}
    \cup [kind : {"data"}, size : Widths, value : Int]
    \cup [kind : {"text"}, chars : Seq(Byte)]
    \cup [kind : {"op"}, name : STRING, operands : Seq(Operands)]

Lines ==
  [label : Name \cup {NoLabel}, spacing : {"tight", "loose", "joined"},
   statement : Statements, colon : {"none", "last", "within"}]

ASSUME ProgramsAssumption == \A text \in Programs : text \in Seq(Lines)

Labelled(line) == line.label # NoLabel

-----------------------------------------------------------------------------
(* class SymbolTable: a map from names to addresses. *)

(* A mutant of Inserted: a second definition replaces the first. *)
InsertedAnew(t, n, a) == [m \in DOMAIN t \cup {n} |-> IF m = n THEN a ELSE t[m]]

(* insert returns false for a name that is there.                          *)
Inserted(t, n, a) ==
  IF n \in DOMAIN t THEN t ELSE [m \in DOMAIN t \cup {n} |-> IF m = n THEN a ELSE t[m]]

-----------------------------------------------------------------------------
(* The first pass. *)

(* A mutant of StatementLength: the null of a string not counted. *)
StatementLengthNoNull(s) ==
  CASE s.kind = "none" -> 0
    [] s.kind = "text" -> Len(s.chars) * INSTRUCTION_LENGTH
    [] OTHER -> INSTRUCTION_LENGTH

StatementLength(s) ==
  CASE s.kind = "none" -> 0
    [] s.kind = "text" -> (Len(s.chars) + 1) * INSTRUCTION_LENGTH
    [] OTHER -> INSTRUCTION_LENGTH

(* A label that does not end a token, and has something after it, is taken *)
(* for an operation.                                                       *)
SeesLabel(line) ==
  /\ Labelled(line)
  /\ \/ line.spacing = "tight"
     \/ line.spacing = "joined" /\ line.statement.kind = "none"

LengthOfLine(line) ==
  IF Labelled(line) /\ ~ SeesLabel(line)
    THEN INSTRUCTION_LENGTH
    ELSE StatementLength(line.statement)

(* quoteParts.at(1) throws for an empty string, if it comes to that.       *)
ScanThrows(line) ==
  /\ line.statement = Text(<<>>)
  /\ ~ Labelled(line) \/ SeesLabel(line)

-----------------------------------------------------------------------------
(* The second pass: what it takes for the operation of a line. *)

(* What follows the colon of a comment or a string is one more word, which *)
(* names no operation.                                                     *)
Remark == Op("remark", <<>>)

OperationOf(line) ==
  CASE line.colon = "within" -> IF Labelled(line) THEN Malformed ELSE Remark
    [] line.colon = "last" /\ ~ Labelled(line) -> NoStatement
    [] OTHER -> line.statement

-----------------------------------------------------------------------------
(* Instruction::getInstruction. *)

(* The names of operations it knows. *)
Mnemonics == Opcodes \ {"SH", "XORI"}

(* The operation a name stands for.  An unknown name leaves op             *)
(* uninitialised: any of them, or none.                                    *)
Chosen(name) ==
  CASE name = "SLLIW" -> {"SRAI"}
    [] name \in Mnemonics \ {"SLLIW"} -> {name}
    [] OTHER -> Opcodes \cup {"none"}

(* The loop over the operands; an offset from what is no register is       *)
(* passed over.                                                            *)
Kept(operands) ==
  LET PassedOver(o) == o.kind = "offset" /\ o.name \notin DOMAIN RegisterOf
      Upto[k \in 0 .. Len(operands)] ==
        IF k = 0 THEN <<>>
        ELSE IF PassedOver(operands[k]) THEN Upto[k - 1]
        ELSE Append(Upto[k - 1], operands[k])
  IN  Upto[Len(operands)]

(* throw "INVALID SYMBOL": a name is that of a register or of a label.     *)
Unresolved(operands, t) ==
  \E k \in DOMAIN operands :
    operands[k].kind = "name" /\ operands[k].name \notin DOMAIN RegisterOf \cup DOMAIN t

(* registerId and immediate_value of an operand; a register hides a label. *)
Resolved(o, t) ==
  CASE o.kind = "number" -> [id |-> 0, value |-> o.value]
    [] o.kind = "offset" -> [id |-> RegisterOf[o.name], value |-> o.value]
    [] o.kind = "name" ->
         IF o.name \in DOMAIN RegisterOf THEN [id |-> RegisterOf[o.name], value |-> 0]
         ELSE [id |-> 0, value |-> Wrapped(t[o.name], INT)]

(* How many operands an operation takes; syms.at throws for a missing one. *)
Needs(op) ==
  CASE op \in ThreeRegister \cup WithImmediate \cup Branches \cup {"JALR"} -> 3
    [] op \in {"NOP", "HALT"} -> 0
    [] op \in Inputs \cup {"DEBUG"} -> 1
    [] OTHER -> 2

(* The fields of the instruction. *)
Assembled(op, s) ==
  CASE op \in ThreeRegister -> Instruction(op, s[1].id, s[2].id, s[3].id)
    [] op \in WithImmediate \cup Branches \cup {"JALR"} ->
         Instruction(op, s[1].id, s[2].id, s[3].value)
    [] op \in Uppers -> Instruction(op, s[1].id, 0, s[2].value)
    [] op = "PRINT" -> Instruction(op, s[1].value % CHAR, s[2].id, s[2].value)
    [] op \in Inputs -> Instruction(op, s[1].id, 0, s[1].value)
    [] op = "DEBUG" -> Instruction(op, s[1].id, 0, 0)
    [] op \in {"NOP", "HALT"} -> Instruction(op, 0, 0, 0)
    [] OTHER -> Instruction(op, s[1].id, s[2].id, s[2].value)

(* The words that a statement may come to; none if it can only throw.      *)
WordsOf(s, t) ==
  CASE s.kind = "none" -> {<<>>}
    [] s.kind = "data" -> {<<Write(0, Values(s.size), s.value)>>}
    [] s.kind = "text" /\ s.chars # <<>> ->
         {[k \in 1 .. Len(s.chars) + 1 |->
             IF k > Len(s.chars) THEN 0 ELSE Write(0, CHAR, s.chars[k])]}
    [] s.kind = "op" /\ ~ Unresolved(s.operands, t) ->
         LET kept == Kept(s.operands)
             syms == [k \in 1 .. Len(kept) |-> Resolved(kept[k], t)]
         IN  {<<Encode(Assembled(op, syms))>> :
                op \in {o \in Chosen(s.name) \ {"none"} : Needs(o) <= Len(syms)}}
    [] OTHER -> {}

(* What may throw: an unknown name may come to no operation, or to one     *)
(* with more operands.                                                     *)
MayThrow(s, t) ==
  \/ WordsOf(s, t) = {}
  \/ s.kind = "op" /\ \E o \in Chosen(s.name) : o = "none" \/ Needs(o) > Len(Kept(s.operands))

-----------------------------------------------------------------------------
(* How many words are written before one is out of reach.                  *)
FittingWords(words) ==
  CHOOSE n \in 0 .. Len(words) :
    LET Fits(k) == pointer + k * INSTRUCTION_LENGTH <= MAXMEMORY + PAGESIZE
    IN  (n = 0 \/ Fits(n)) /\ (n = Len(words) \/ ~ Fits(n + 1))

(* A mutant of PouredWords: the pointer not moved between the words.       *)
PouredOnOneSpot(m, words, n) ==
  [c \in Slot |-> IF c = pointer \div INSTRUCTION_LENGTH /\ n > 0 THEN words[n] ELSE m[c]]

(* Memory after the first n words are written. *)
PouredWords(m, words, n) ==
  LET first == pointer \div INSTRUCTION_LENGTH
  IN  [c \in Slot |-> IF c \in first .. first + n - 1 THEN words[(c - first) + 1] ELSE m[c]]

(* A Program of this text, before toMemory is called, and empty memory.    *)
Constructed(text) ==
  /\ lines = text
  /\ phase = "first" /\ at = 1 /\ pointer = 0
  /\ table = [n \in {} |-> 0]
  /\ image = [c \in Slot |-> 0]
  /\ starts = <<>>

AssemblerInit == \E text \in Programs : Constructed(text)

(* firstStep, one line. *)
Scan ==
  /\ phase = "first" /\ at <= Len(lines) /\ ~ ScanThrows(lines[at])
  /\ table' = IF SeesLabel(lines[at]) THEN Inserted(table, lines[at].label, pointer) ELSE table
  /\ pointer' = pointer + LengthOfLine(lines[at])
  /\ at' = at + 1
  /\ starts' = Append(starts, pointer)
  /\ UNCHANGED <<lines, phase, image>>

(* The label of the line is entered before its string is looked at.        *)
ScanFails ==
  /\ phase = "first" /\ at <= Len(lines) /\ ScanThrows(lines[at])
  /\ table' = IF SeesLabel(lines[at]) THEN Inserted(table, lines[at].label, pointer) ELSE table
  /\ phase' = "threw"
  /\ UNCHANGED <<lines, at, pointer, image, starts>>

(* firstStep returns and toMemory starts over. *)
Restart ==
  /\ phase = "first" /\ at > Len(lines)
  /\ phase' = "second" /\ at' = 1 /\ pointer' = 0
  /\ UNCHANGED <<lines, table, image, starts>>

(* A mutant of NextLine: the line is not left. *)
SameLine == UNCHANGED at

NextLine == at' = at + 1

(* toMemory, one line. *)
Emit ==
  /\ phase = "second" /\ at <= Len(lines)
  /\ \E words \in WordsOf(OperationOf(lines[at]), table) :
       LET n == FittingWords(words)
       IN  /\ image' = PouredWords(image, words, n)
           /\ pointer' = pointer + n * INSTRUCTION_LENGTH
           /\ IF n = Len(words) THEN NextLine /\ UNCHANGED phase
                                ELSE phase' = "threw" /\ UNCHANGED at
  /\ UNCHANGED <<lines, table, starts>>

(* The page past the end is followed and is none. *)
EmitKills ==
  /\ phase = "second" /\ at <= Len(lines)
  /\ \E words \in WordsOf(OperationOf(lines[at]), table) :
       /\ pointer + FittingWords(words) * INSTRUCTION_LENGTH > MAXMEMORY
       /\ image' = PouredWords(image, words, FittingWords(words))
  /\ phase' = "killed"
  /\ UNCHANGED <<lines, at, pointer, table, starts>>

EmitFails ==
  /\ phase = "second" /\ at <= Len(lines) /\ MayThrow(OperationOf(lines[at]), table)
  /\ phase' = "threw"
  /\ UNCHANGED <<lines, at, pointer, table, image, starts>>

Finish ==
  /\ phase = "second" /\ at > Len(lines)
  /\ phase' = "done"
  /\ UNCHANGED <<lines, at, pointer, table, image, starts>>

AssemblerNext == Scan \/ ScanFails \/ Restart \/ Emit \/ EmitKills \/ EmitFails \/ Finish

AssemblerSpec == AssemblerInit /\ [][AssemblerNext]_assemblerVars /\ WF_assemblerVars(AssemblerNext)

-----------------------------------------------------------------------------
(* The run-time shape of the state. *)
AssemblerTypeOK ==
  /\ phase \in {"first", "second", "done", "threw", "killed"}
  /\ at \in 1 .. Len(lines) + 1
  /\ pointer \in Nat /\ pointer % INSTRUCTION_LENGTH = 0
  /\ DOMAIN table \subseteq Name /\ table \in [DOMAIN table -> Nat]
  /\ image \in [Slot -> Word]
  /\ starts \in Seq(Nat)

(* The lines both passes read alike.                                       *)
Plain(line) == (Labelled(line) => line.spacing = "tight") /\ line.colon = "none"

AllPlain == \A k \in DOMAIN lines : Plain(lines[k])

Assembling == phase \in {"second", "done"}

Defines(k, n) ==
  /\ lines[k].label = n
  /\ \A j \in 1 .. k - 1 : lines[j].label # n

(* The passes agree: the second comes to every line at the address that    *)
(* the first gave it,                                                      *)
InStep ==
  phase = "second" /\ at <= Len(lines) => pointer = starts[at]

(* and each label is entered with the address of the first line it marks.  *)
TableInStep ==
  \A k \in DOMAIN lines :
    Labelled(lines[k]) /\ Defines(k, lines[k].label)
      => lines[k].label \in DOMAIN table /\ table[lines[k].label] = starts[k]

(* So it is for any lines that both passes read alike: strings, labels on  *)
(* lines of their own, labels defined twice, labels used before they are   *)
(* defined.                                                                *)
PassesAgree == AllPlain /\ Assembling => InStep /\ TableInStep

(* Operations whose last operand is an address. *)
Addressing ==
  Branches \cup Loads \cup (Stores \ {"SH"}) \cup Uppers \cup Inputs \cup {"JAL", "PRINT", "ADDI"}

(* An instruction that names a label in the place of its address holds, for *)
(* alu::step to find, the address where the words of the labelled line     *)
(* begin, as the int that an immediate is.                                 *)
ReferencesResolve ==
  AllPlain /\ Assembling =>
    \A k \in 1 .. at - 1 :
      LET s == lines[k].statement IN
      (s.kind = "op" /\ s.name \in Addressing /\ starts[k] < MAXMEMORY) =>
        LET target == Kept(s.operands)[Needs(s.name)] IN
        (target.kind = "name" /\ target.name \notin DOMAIN RegisterOf) =>
          \E j \in DOMAIN lines :
            /\ Defines(j, target.name)
            /\ Decode(image[starts[k] \div INSTRUCTION_LENGTH]).c = Wrapped(starts[j], INT)

(* Memory holds the words of the lines assembled so far, each line's where *)
(* the first pass saw it, to the last character of its strings, and zeros  *)
(* after them.                                                             *)
ImageInPlace ==
  AllPlain /\ Assembling =>
    /\ \A k \in 1 .. at - 1 :
         \E words \in WordsOf(lines[k].statement, table) :
           \A j \in DOMAIN words :
             LET c == starts[k] \div INSTRUCTION_LENGTH + (j - 1)
             IN  c \in Slot => image[c] = words[j]
    /\ \A c \in Slot : c >= pointer \div INSTRUCTION_LENGTH => image[c] = 0

(* Assembling ends, with a program in memory, an exception or a crash.     *)
AssemblingEnds == <>(phase \notin {"first", "second"})

(* assemble.cpp, firstStep and getInstruction: everything after the # is   *)
(* stripped, so that a comment with a colon in it is like any other.       *)
CommentsIgnored ==
  (/\ \A k \in DOMAIN lines :
        /\ Labelled(lines[k]) => lines[k].spacing = "tight"
        /\ lines[k].statement.kind # "text"
   /\ Assembling)
    => InStep

(* README.MD: the instruction set is that of RISC-V, and the enumeration    *)
(* lists what of it there is; so an instruction is assembled to the        *)
(* operation its name says, if it is assembled.                            *)
NamesKeepMeaning ==
  AllPlain /\ Assembling =>
    \A k \in 1 .. at - 1 :
      LET s == lines[k].statement IN
      (s.kind = "op" /\ s.name \notin Translated /\ starts[k] < MAXMEMORY) =>
        Decode(image[starts[k] \div INSTRUCTION_LENGTH]).op = s.name
=============================================================================
