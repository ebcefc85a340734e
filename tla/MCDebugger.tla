----------------------------- MODULE MCDebugger -----------------------------
(***************************************************************************)
(* The debugger for TLC: short programs that halt, loop, read and run into *)
(* data, under every session of two commands out of all, right and wrong,  *)
(* and a third that is typed for the program or ends the session.          *)
(***************************************************************************)
EXTENDS Debugger

I(op, a, b, c) == Instruction(op, a, b, c)

(* A program of at most three words; its data are zeros. *)
Image(program) ==
  [c \in Cell |->
     IF c \div 8 < Len(program) THEN ByteAt(Encode(program[c \div 8 + 1]), c % 8) ELSE 0]

HALT == I("HALT", 0, 0, 0)

Images ==
  {Image(p) : p \in {<<I("ADDI", 1, 1, 1), HALT, I("ADDI", 1, 1, 2)>>,
                     <<I("ADDI", 1, 0, 1), I("JAL", 0, 0, 0)>>,
                     <<I("INPUTS", 0, 0, 24), I("PRINT", 0, 0, 24), HALT>>,
                     <<I("ADDI", 1, 0, - 1), I("INPUTI", 0, 0, 24), HALT>>}}

W(text, place, long) ==
  [text |-> text, place |-> place, number |-> long # 0, long |-> long,
   chars |-> <<1>>, double |-> 7, true |-> FALSE]

Command1(text) == <<W(text, Bare(text), 0), Newline>>
Command2(text, word) == <<W(text, Bare(text), 0), word, Newline>>

Number1(v) == W("number", Digits(v), v)
NamedWord(n) == W(InLowerCase(n), Bare(n), 0)

Lines ==
  {Command1(c) : c \in {"continue", "step", "table", "help", "exit", "readmem", "readreg", "nonsense"}}
    \cup {Command2("stepcount", Number1(v)) : v \in {2, - 1}}
    \cup {Command2("stepcount", NamedWord("lab")), Command2("readreg", NamedWord("t0")),
          Command2("readreg", NamedWord("lab")), Command2("readinst", NamedWord("T0")),
          Command2("readmem", NamedWord("lab")), Command2("readinst", NamedWord("LAB")),
          Command2("readmem", Number1(8)), Command2("readmem", Number1(60)),
          Command2("readmem", W("(8)sp", Inside(8, "sp"), 0)),
          Command2("readmem", W("8(sp)", NoNumber, 0))}

Lasts == {<<>>, <<Number1(5), Newline>>} \cup {Command1(c) : c \in {"step", "continue", "help", "quit"}}

Consoles == {a \o b \o c : a \in Lines, b \in Lines \cup {<<>>}, c \in Lasts}

(* A label whose name in lower case is a register's: at its address, unlike *)
(* what the register holds, there is no memory.                            *)
Symbols == [lab |-> 16, T0 |-> 60]

MCSetups ==
  [image : Images, console : Consoles, debug : {TRUE}, syms : {Symbols}]
    \cup [image : Images, console : {<<Number1(5), Newline>>, Command1("step")}, debug : {FALSE},
          syms : {Symbols}]
    \cup [image : Images, console : {Command1("table"), Command1("continue")}, debug : {TRUE},
          syms : {[alonglabel |-> 0]}]

MCLowerCase == [LAB |-> "lab", T0 |-> "t0"]

MCRegisterOf == [zero |-> 0, t0 |-> 1, sp |-> 2]

MCInputWords ==
  {Number1(v) : v \in {- 1, 2, 5, 8, 60}}
    \cup {NamedWord(n) : n \in {"lab", "LAB", "t0", "T0"}}
    \cup {Command1(c)[1] : c \in {"continue", "step", "table", "help", "exit", "quit", "readmem",
                                 "readreg", "readinst", "stepcount", "nonsense"}}
    \cup {W("(8)sp", Inside(8, "sp"), 0), W("8(sp)", NoNumber, 0)}

MCGarbage == {0}

ASSUME MCTyped == CommandsEndLines
=============================================================================
