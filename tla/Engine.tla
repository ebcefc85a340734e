------------------------------- MODULE Engine -------------------------------
(***************************************************************************)
(* The whole program: main in control/cli.cpp, which looks at its options  *)
(* and calls start; start in start.cpp, which assembles the file into the  *)
(* memory of an alu, sets up its registers and symbol table and runs its   *)
(* loop.  The assembler and the machine with its debugger are the modules  *)
(* of these names; the memory they share is the words `image' while it is  *)
(* filled and the bytes `mem' from then on.  What Setups is to a machine   *)
(* alone is Launch here.                                                   *)
(*                                                                         *)
(* An exception, or a signal, ends the process; nothing here catches it.   *)
(* What start returns, main ignores.                                       *)
(***************************************************************************)
EXTENDS Assembler, Debugger

CONSTANTS
  Sessions      (* the options given, the lines of the file, and what is   *)
                (* typed                                                   *)

VARIABLES
  stage,                                              (* how far main is   *)
  options                                             (* vm                *)

engineVars == <<stage, options, assemblerVars, debugVars>>

(* The addresses of the program's memory are far from the end of an int.   *)
ASSUME EngineAssumption ==
  /\ MAXMEMORY + PAGESIZE < INT \div 2
  /\ \A s \in Sessions :
       s.lines \in Programs /\ s.console \in Seq(InputWords \cup {Newline})

-----------------------------------------------------------------------------
(* main, and start before there is a program. *)

EngineInit ==
  /\ stage = "main"
  /\ \E s \in Sessions :
       options = s.options /\ Constructed(s.lines) /\ in = Console(s.console, FALSE)
  /\ reg = Started /\ mem = [c \in Cell |-> 0] /\ out = <<>> /\ steps = 0 /\ mode = "running"
  /\ debug = FALSE /\ syms = table /\ budget = 0 /\ cmd = "" /\ due = 0

(* --help, no --input, or --vv. *)
Inform ==
  /\ stage = "main"
  /\ "help" \in options \/ "input" \notin options \/ "vv" \in options
  /\ stage' = "returned"
  /\ UNCHANGED <<options, assemblerVars, debugVars>>

CallStart ==
  /\ stage = "main"
  /\ "help" \notin options /\ "input" \in options /\ "vv" \notin options
  /\ stage' = IF "no such file" \in options THEN "returned" ELSE "assembling"
  /\ UNCHANGED <<options, assemblerVars, debugVars>>

-----------------------------------------------------------------------------
(* start. *)

Assemble ==
  /\ stage = "assembling"
  /\ AssemblerNext
  /\ UNCHANGED <<stage, options, debugVars>>

AssemblyAborts ==
  /\ stage = "assembling" /\ phase \in {"threw", "killed"}
  /\ stage' = "aborted"
  /\ UNCHANGED <<options, assemblerVars, debugVars>>

(* The bytes of memory that hold the words. *)
BytesOf(words) == [c \in Cell |-> ByteAt(words[c \div 8], c % 8)]

(* toMemory returns; the alu is set up, with a pointer to the program's     *)
(* table, and its loop called.                                             *)
Launch ==
  /\ stage = "assembling" /\ phase = "done"
  /\ stage' = "running"
  /\ mem' = BytesOf(image)
  /\ syms' = table
  /\ reg' = Started
  /\ debug' = ("d" \in options)
  /\ budget' = Budget(debug')
  /\ UNCHANGED <<options, assemblerVars, in, out, steps, mode, cmd, due>>

Run ==
  /\ stage = "running"
  /\ DebugNext
  /\ UNCHANGED <<stage, options, assemblerVars>>

(* The outermost loop returns, and start and main with it. *)
Return ==
  /\ stage = "running"
  /\ mode \in {"exhausted", "exited"} \/ (mode = "halted" /\ ~ debug)
  /\ stage' = "returned"
  /\ UNCHANGED <<options, assemblerVars, debugVars>>

RunAborts ==
  /\ stage = "running" /\ mode \in {"threw", "killed"}
  /\ stage' = "aborted"
  /\ UNCHANGED <<options, assemblerVars, debugVars>>

EngineNext ==
  \/ Inform \/ CallStart
  \/ Assemble \/ AssemblyAborts \/ Launch
  \/ Run \/ Return \/ RunAborts

EngineSpec == EngineInit /\ [][EngineNext]_engineVars /\ WF_engineVars(EngineNext)

-----------------------------------------------------------------------------
(* What the source says, and what the machine does.                        *)

(* The run-time shape of the state. *)
EngineTypeOK ==
  /\ stage \in {"main", "assembling", "running", "returned", "aborted"}
  /\ AssemblerTypeOK
  /\ DebugTypeOK

NameOf(k) == lines[k].statement.name

OperandsOf(k) == Kept(lines[k].statement.operands)

NamesRegister(k, n) ==
  OperandsOf(k)[n].kind = "name" /\ OperandsOf(k)[n].name \in DOMAIN RegisterOf

Register(k, n) == RegisterOf[OperandsOf(k)[n].name]

(* The operand that is an address, where there is one, and a label there.  *)
Target(k) == OperandsOf(k)[Needs(NameOf(k))]

NamesLabel(k) == Target(k).kind = "name" /\ Target(k).name \notin DOMAIN RegisterOf

(* Line j is what the name n refers to. *)
Refers(n, j) == Defines(j, n) /\ n \notin DOMAIN RegisterOf

(* The words of line j, as many as these, as they were assembled. *)
Untouched(j, words) ==
  /\ starts[j] + words * 8 <= MAXMEMORY
  /\ \A c \in starts[j] .. starts[j] + words * 8 - 1 : mem[c] = BytesOf(image)[c]

(* The machine is at an instruction of line k, which no store has changed, *)
(* in a program of lines that both passes read alike.                      *)
AtLine(k) ==
  /\ stage = "running" /\ mode = "running" /\ steps < budget /\ AllPlain
  /\ lines[k].statement.kind = "op"
  /\ reg[PC] = starts[k] /\ Untouched(k, 1)

(* What the source says of where control goes from line k: a jump, and a   *)
(* branch whose condition its registers meet, to the line its label marks, *)
(* any other instruction to the next words.                                *)
ControlFollows(k) ==
  LET op == NameOf(k)
      Onward == reg'[PC] = starts[k] + 8
      ToLabel == NamesLabel(k) =>
                   \E j \in DOMAIN lines : Refers(Target(k).name, j) /\ reg'[PC] = starts[j]
      Compares == NamesRegister(k, 1) /\ NamesRegister(k, 2)
      Meets == Taken(op, reg[Register(k, 1)], reg[Register(k, 2)])
  IN  CASE op = "JAL" -> ToLabel
        [] op \in Branches -> Compares => IF Meets THEN ToLabel ELSE Onward
        [] OTHER -> Onward

(* End to end, control goes where the source says, in terms of its lines,  *)
(* whatever strings and data lie between.  Names that the assembler does   *)
(* not know come to anything, and JALR goes where a register says.         *)
ControlFollowsSource ==
  [][ \A k \in DOMAIN lines :
        AtLine(k) /\ reg' # reg /\ NameOf(k) \in Mnemonics \ {"JALR"}
          => ControlFollows(k) ]_engineVars

IsOperation(k) == lines[k].statement.kind = "op"

(* The register in the place of the destination.                           *)
Destination(k) == Resolved(OperandsOf(k)[1], table).id

WritesRegister(k) ==
  NameOf(k) \notin Branches \cup Stores \cup Inputs \cup {"PRINT", "DEBUG", "NOP", "HALT"}

Returns(k) == IsOperation(k) /\ NameOf(k) = "JALR"

Calls(k, r) == IsOperation(k) /\ NameOf(k) = "JAL" /\ Destination(k) = r

(* The registers that the program returns by. *)
Links == {Register(k, 2) : k \in {j \in DOMAIN lines : Returns(j)}}

(* From line k on comes an operation, with no data before it.              *)
Leads(k) ==
  \E n \in k .. Len(lines) :
    IsOperation(n) /\ \A i \in k .. n - 1 : lines[i].statement.kind = "none"

(* The label that line k names marks an instruction, or data.              *)
LabelLeads(k) ==
  NamesLabel(k) /\ \A j \in DOMAIN lines : Refers(Target(k).name, j) => Leads(j)

LabelHasData(k) ==
  NamesLabel(k) /\ \A j \in DOMAIN lines :
                     Refers(Target(k).name, j) => lines[j].statement.kind \in {"data", "text"}

(* What a careful programmer sees to at line k: it is in memory; whatever  *)
(* it goes on to is an instruction; it stores to data only, and no line of *)
(* text that is typed; it returns by a register that only calls write.     *)
Careful(k) ==
  LET op == NameOf(k)
      GoesOn == op \notin {"JAL", "JALR"} /\ (op = "HALT" => "d" \in options)
  IN  /\ op \in Mnemonics \ {"INPUTS"}
      /\ starts[k] + INSTRUCTION_LENGTH <= MAXMEMORY
      /\ GoesOn => Leads(k + 1)
      /\ op \in Branches \cup {"JAL"} => LabelLeads(k)
      /\ op \in Stores \cup Inputs => LabelHasData(k)
      /\ op = "JALR" =>
           NamesRegister(k, 2) /\ Register(k, 2) \notin {0, 2} /\ OperandsOf(k)[3] = Immediately(0)
      /\ WritesRegister(k) /\ Destination(k) \in Links => op = "JAL" /\ Leads(k + 1)

Structured ==
  AllPlain /\ Leads(1) /\ \A k \in DOMAIN lines : IsOperation(k) => Careful(k)

(* A program with that care taken never leaves its lines, whatever they    *)
(* compute and whatever is typed: the word to execute next is always that  *)
(* of a line, as it was assembled.                                         *)
OnlyLinesRun ==
  stage = "running" /\ mode = "running" /\ Structured =>
    \E k \in DOMAIN lines :
      /\ IsOperation(k) /\ pc = starts[k]
      /\ <<Loaded(mem, pc, INSTRUCTION_LENGTH)>> \in WordsOf(lines[k].statement, table)

(* And its returns go behind a line that calls by the same register (or to *)
(* 0, before any call).                                                    *)
CallsReturn ==
  [][ \A k \in DOMAIN lines :
        (AtLine(k) /\ reg' # reg /\ Returns(k) /\ Structured /\ reg[Register(k, 2)] # 0)
          => \E c \in DOMAIN lines :
               Calls(c, Register(k, 2)) /\ reg'[PC] = starts[c] + INSTRUCTION_LENGTH ]_engineVars

(* Line k loads or prints from the label of line j. *)
TakesFrom(k, j) ==
  NameOf(k) \in {"LD", "PRINT"} /\ NamesLabel(k) /\ Refers(Target(k).name, j)

(* What an LD loads from a line with a value: but not to the register that *)
(* stays zero.                                                             *)
LoadsValue(k, j) ==
  LET s == lines[j].statement
  IN  (/\ NameOf(k) = "LD" /\ NamesRegister(k, 1) /\ Register(k, 1) # 0
       /\ s.kind = "data" /\ Untouched(j, 1))
        => reg'[Register(k, 1)] = s.value % Values(s.size)

(* What a PRINT prints from a line with a string without a null, up to its *)
(* limit.                                                                  *)
PrintsText(k, j) ==
  LET s == lines[j].statement
      Printed == IF Len(s.chars) < MAX_CHARS THEN Len(s.chars) ELSE MAX_CHARS
  IN  (/\ NameOf(k) = "PRINT" /\ OperandsOf(k)[1] = Immediately(0)
       /\ s.kind = "text" /\ (\A c \in DOMAIN s.chars : s.chars[c] # 0)
       /\ Untouched(j, Len(s.chars) + 1))
        => out' = Append(out, SubSeq(s.chars, 1, Printed))

(* A value declared under a label is what an LD from the label loads, and  *)
(* a string what a PRINT of it prints, while the program has not stored    *)
(* over them.                                                              *)
DataReadAsWritten ==
  [][ \A k, j \in DOMAIN lines :
        AtLine(k) /\ reg' # reg /\ TakesFrom(k, j)
          => LoadsValue(k, j) /\ PrintsText(k, j) ]_engineVars

(* A name typed at the dialog is found just if it is a register's or marks  *)
(* a line; and if it marks a line and is no register's, in capitals either, *)
(* it is the address of the first line it marks, so that what readMem and  *)
(* readInst show is that line (for lines that both passes read alike).     *)
DialogNamesLines ==
  stage = "running" /\ mode = "dialog" /\ AllPlain =>
    \A n \in Name :
      /\ Found(Bare(n)) <=> IsRegister(n) \/ \E j \in DOMAIN lines : Defines(j, n)
      /\ \A j \in DOMAIN lines :
           Defines(j, n) /\ ~ IsRegister(n) => PlaceAddress(Bare(n)) = starts[j]

(* The process ends, or hangs in a dialog whose input has ended.           *)
ProcessSettles ==
  <>[](stage \in {"returned", "aborted"} \/ (mode = "dialog" /\ in.failed))
=============================================================================
