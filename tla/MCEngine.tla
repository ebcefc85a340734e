------------------------------ MODULE MCEngine ------------------------------
(***************************************************************************)
(* The whole program for TLC: every source of three of these lines and an  *)
(* operation before them, with eight words of memory, run and debugged.    *)
(***************************************************************************)
EXTENDS Engine

MCRegisterOf == [zero |-> 0, ra |-> 1, t0 |-> 3]

(* Labels in capitals: one of them names a register in lower case. *)
MCLowerCase == [T0 |-> "t0", S |-> "s"]

MCName == {"zero", "ra", "t0", "f", "T0", "S", "s"}

Marked(l, s) == SourceLine(l, "tight", s, "none")
Unmarked(s) == Marked(NoLabel, s)

HALT == Unmarked(Op("HALT", <<>>))

MCLines ==
  {Unmarked(Op("JAL", <<Named("ra"), Named("f")>>)),
   Marked("f", Op("LD", <<Named("t0"), Named("T0")>>)),
   Marked("f", NoStatement),
   Unmarked(Op("JALR", <<Named("zero"), Named("ra"), Immediately(0)>>)),
   Unmarked(Op("BEQ", <<Named("t0"), Named("zero"), Named("f")>>)),
   Marked("T0", Data(2, - 3)),
   Marked("S", Text(<<7, 9, 8>>)),
   Unmarked(Op("PRINT", <<Immediately(0), Named("S")>>)),
   Unmarked(Op("SD", <<Named("ra"), Named("S")>>)),
   Unmarked(Op("INPUTI", <<Named("T0")>>)),
   HALT}

Firsts == {Unmarked(Op("JAL", <<Named("ra"), Named("f")>>)),
           Unmarked(Op("PRINT", <<Immediately(0), Named("S")>>)),
           Unmarked(Op("LD", <<Named("t0"), Named("T0")>>))}

MCSources == {<<p>> \o q : p \in Firsts, q \in [1 .. 3 -> MCLines]}

W(text, long) ==
  [text |-> text, place |-> Bare(text), number |-> long # 0, long |-> long,
   chars |-> <<1>>, double |-> 7, true |-> FALSE]

Number1(v) == W("number", v)
Entered(text) == <<W(text, 0), Newline>>

Session(o, l, c) == [options |-> o, lines |-> l, console |-> c]

MCSessions ==
  {Session({"input"}, l, <<Number1(4), Newline>>) : l \in MCSources}
    \cup {Session({"input", "d"}, l, Entered("continue") \o Entered("exit")) : l \in MCSources}
    \cup {Session(o, <<HALT>>, c) :
            o \in {{}, {"help", "input"}, {"input", "vv"}, {"input", "no such file"}, {"input", "d"}},
            c \in {Entered("step"), Entered("help"), Entered("step") \o Entered("step") \o Entered("quit")}}

MCPrograms == {s.lines : s \in MCSessions}

MCInputWords ==
  {Number1(4)} \cup {Entered(c)[1] : c \in {"continue", "exit", "step", "help", "quit"}}

MCGarbage == {0}
=============================================================================
