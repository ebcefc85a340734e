------------------------------- MODULE Tokens --------------------------------
(***************************************************************************)
(* The string functions of util.cpp that take a text apart.  A text is a   *)
(* sequence of characters, and D the delimiters: in every call of them a   *)
(* delimiter is one character.                                             *)
(*                                                                         *)
(* Both functions are loops over local variables.  A loop is the function  *)
(* After, from the number of its turns to what the variables are by then;  *)
(* a turn behind its end leaves them alone.                                *)
(***************************************************************************)
EXTENDS Integers, Sequences

(* findDelineator: where the first character out of D is, or nowhere (0).  *)
FindDelineator(s, D) ==
  LET found == {k \in DOMAIN s : s[k] \in D}
  IN  IF found = {} THEN 0 ELSE CHOOSE k \in found : \A j \in found : k <= j

-----------------------------------------------------------------------------
(* splitString *)

(* A turn: what is before the first delimiter is a token, and is erased.   *)
Cut(c, D) ==
  LET pos == FindDelineator(c.left, D)
  IN  IF pos = 0 THEN c
      ELSE [tokens |-> Append(c.tokens, SubSeq(c.left, 1, pos - 1)),
            left |-> SubSeq(c.left, pos + 1, Len(c.left))]

(* Each turn takes a character, so they are no more than those. *)
SplitString(s, D) ==
  LET After[n \in 0 .. Len(s)] ==
        IF n = 0 THEN [tokens |-> <<>>, left |-> s] ELSE Cut(After[n - 1], D)
  IN  Append(After[Len(s)].tokens, After[Len(s)].left)

-----------------------------------------------------------------------------
(* splitStringRemoveEmpty *)

Erased(tokens, it) == SubSeq(tokens, 1, it - 1) \o SubSeq(tokens, it + 1, Len(tokens))

(* A mutant of LookedAt: the iterator goes on after an erasure. *)
LookedAhead(c) ==
  IF c.it > Len(c.tokens) THEN c
  ELSE [tokens |-> IF c.tokens[c.it] = <<>> THEN Erased(c.tokens, c.it) ELSE c.tokens,
        it |-> c.it + 1]

(* A turn: erase(it--), and it++ stays where it is.                        *)
LookedAt(c) ==
  IF c.it > Len(c.tokens) THEN c
  ELSE IF c.tokens[c.it] = <<>> THEN [tokens |-> Erased(c.tokens, c.it), it |-> c.it]
  ELSE [tokens |-> c.tokens, it |-> c.it + 1]

(* Each turn passes a token. *)
Swept(tokens) ==
  LET After[n \in 0 .. Len(tokens)] ==
        IF n = 0 THEN [tokens |-> tokens, it |-> 1] ELSE LookedAt(After[n - 1])
  IN  After[Len(tokens)].tokens

SplitStringRemoveEmpty(s, D) == Swept(SplitString(s, D))
=============================================================================
