----------------------------- MODULE FlatMemory -----------------------------
(***************************************************************************)
(* What class Memory promises its callers (memory.hpp): one flat array of  *)
(* MAXMEMORY bytes, zero at first, read and written in little runs of      *)
(* consecutive bytes.  Pages do not appear here.                           *)
(*                                                                         *)
(* The promise covers an access that stays below MAXMEMORY.  One that      *)
(* leaves memory is answered in some way that Memory does not pin down;    *)
(* what is left of the promise then is that it disturbs no byte outside    *)
(* its own span, and nothing at all when it throws.                        *)
(***************************************************************************)
EXTENDS Integers

CONSTANTS
  Byte,       (* the values of a byte; 0 is one of them                    *)
  MAXMEMORY,  (* the number of bytes                                       *)
  Address,    (* the addresses callers use, also ones beyond MAXMEMORY     *)
  Width       (* sizeof(T) of the types callers read and write             *)

VARIABLES
  bytes,      (* the contents of memory                                    *)
  reply       (* the last operation and how it was answered                *)

vars == <<bytes, reply>>

Cell == 0 .. MAXMEMORY - 1

Payload(n) == [0 .. n - 1 -> Byte]

NoPayload == [k \in {} |-> 0]

Inside(a, n) == a + n <= MAXMEMORY

Reply(op, a, n, status, payload) ==
  [op |-> op, at |-> a, size |-> n, status |-> status, payload |-> payload]

(* The cells in the span of an access at a take their bytes from d.        *)
Overwritten(a, n, d) ==
  [c \in Cell |-> IF c \in a .. a + n - 1 THEN d[c - a] ELSE bytes[c]]

Init ==
  /\ bytes = [c \in Cell |-> 0]
  /\ reply = Reply("none", 0, 0, "ok", NoPayload)

Load(a, n) ==
  /\ Inside(a, n)
  /\ reply' = Reply("read", a, n, "ok", [k \in 0 .. n - 1 |-> bytes[a + k]])
  /\ UNCHANGED bytes

Store(a, n, d) ==
  /\ Inside(a, n)
  /\ bytes' = Overwritten(a, n, d)
  /\ reply' = Reply("write", a, n, "ok", NoPayload)

(* The read leaves memory: any status; the bytes it did find are right.    *)
LoadOutside(a, n) ==
  /\ ~ Inside(a, n)
  /\ \E s \in {"ok", "refused"}, d \in Payload(n) :
       /\ \A k \in 0 .. n - 1 : a + k \in Cell => d[k] = bytes[a + k]
       /\ reply' = Reply("read", a, n, s, d)
  /\ UNCHANGED bytes

(* The write leaves memory: the part of it that lies inside is stored.     *)
StoreOutside(a, n, d) ==
  /\ ~ Inside(a, n)
  /\ bytes' = Overwritten(a, n, d)
  /\ \E s \in {"ok", "refused"} : reply' = Reply("write", a, n, s, NoPayload)

(* The access leaves memory and gets no answer: nothing is stored.         *)
Fail(a, n) ==
  /\ ~ Inside(a, n)
  /\ \E op \in {"read", "write"}, s \in {"threw", "dead"} :
       reply' = Reply(op, a, n, s, NoPayload)
  /\ UNCHANGED bytes

Next ==
  \E a \in Address, n \in Width :
    \/ Load(a, n)
    \/ LoadOutside(a, n)
    \/ Fail(a, n)
    \/ \E d \in Payload(n) : Store(a, n, d) \/ StoreOutside(a, n, d)

Spec == Init /\ [][Next]_vars
=============================================================================
