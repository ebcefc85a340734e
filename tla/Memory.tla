------------------------------- MODULE Memory -------------------------------
(***************************************************************************)
(* The paged memory of memory.hpp, memory.cpp and memory.t.hpp.  Memory    *)
(* holds an array of RANGECOUNT page pointers, all null at first; a page   *)
(* is allocated when an address in it is first touched, by a read as well  *)
(* as by a write.  An access within one page goes to page::read or         *)
(* page::write; one that straddles two pages is done byte by byte.         *)
(*                                                                         *)
(* preparePage lets the page id RANGECOUNT through, one past the end of    *)
(* the array.  The word found there is modelled as one more slot whose     *)
(* first content is undefined: a null pointer, on which a page is          *)
(* constructed; a pointer to some other object, which then refuses every   *)
(* address (in start() it is alu::syms, the member after alu::mem); or a   *)
(* wild pointer, which kills the process.                                  *)
(*                                                                         *)
(* The code throws a string; its handlers catch int and std::exception, so *)
(* the exception reaches the caller.                                       *)
(***************************************************************************)
EXTENDS Integers

CONSTANTS
  Byte,        (* the values of a byte; 0 is one of them                   *)
  PAGESIZE,    (* bytes in a page                                          *)
  RANGECOUNT,  (* pointers in the array                                    *)
  Address,     (* the addresses callers use                                *)
  Width,       (* sizeof(T) of the types callers read and write            *)
  NoPage,      (* the null pointer                                         *)
  Foreign,     (* a pointer to an object that is no page                   *)
  Wild         (* a pointer that cannot be followed                        *)

VARIABLES
  slots,       (* Memory::pages and the word after it                      *)
  reply        (* the last operation and how it was answered               *)

vars == <<slots, reply>>

MAXMEMORY == RANGECOUNT * PAGESIZE

Slot == 0 .. RANGECOUNT
Offset == 0 .. PAGESIZE - 1
Page == [address : Nat, data : [Offset -> Byte]]

ASSUME SizeAssumption ==
  /\ PAGESIZE \in Nat \ {0}
  /\ RANGECOUNT \in Nat \ {0}
  /\ Address \subseteq Nat
  /\ Width \subseteq 1 .. PAGESIZE
  /\ 0 \in Byte

ASSUME PointerAssumption ==
  /\ NoPage \notin Page /\ Foreign \notin Page /\ Wild \notin Page
  /\ NoPage # Foreign /\ NoPage # Wild /\ Foreign # Wild

-----------------------------------------------------------------------------
(* class page *)

(* Two mutants of NewPage: calloc with one byte too many; the page's number *)
(* for its address.                                                        *)
NewPageTooLarge(base) ==
  [address |-> base, data |-> [o \in 0 .. PAGESIZE |-> 0]]
NewPageByNumber(base) ==
  [address |-> base \div PAGESIZE, data |-> [o \in Offset |-> 0]]

NewPage(base) == [address |-> base, data |-> [o \in Offset |-> 0]]

(* PAGESIZE > address - start, on unsigned long: an address below start    *)
(* wraps to a huge difference.                                             *)
SafeToRead(p, a) == p # Foreign /\ a - p.address \in Offset

PageByte(p, a) == IF SafeToRead(p, a) THEN p.data[a - p.address] ELSE 0

-----------------------------------------------------------------------------
(* class Memory *)

PageId(a) == a \div PAGESIZE

(* The guard of preparePage. *)
Ready(id) == id <= MAXMEMORY \div PAGESIZE

(* A mutant of Prepared: the test for nullptr forgotten. *)
PreparedAfresh(s, id) == [s EXCEPT ![id] = NewPage(id * PAGESIZE)]

(* preparePage, once past its guard: the slots after it. *)
Prepared(s, id) ==
  IF s[id] = NoPage
    THEN [s EXCEPT ![id] = NewPage(id * PAGESIZE)]
    ELSE s

(* The getPage calls at the head of every operation, for the first and the *)
(* last byte of the access; the first may have allocated when the second   *)
(* throws.                                                                 *)
First(a) == PageId(a)

(* A mutant of Last: sizeof(T) for sizeof(T) - 1. *)
LastTooFar(a, n) == PageId(a + n)

Last(a, n) == PageId(a + n - 1)

Throws(a, n) == ~ Ready(First(a)) \/ ~ Ready(Last(a, n))

SlotsAfter(a, n) ==
  IF ~ Ready(First(a)) THEN slots
  ELSE IF ~ Ready(Last(a, n)) THEN Prepared(slots, First(a))
  ELSE Prepared(Prepared(slots, First(a)), Last(a, n))

Kills(a, n) ==
  /\ ~ Throws(a, n)
  /\ \E k \in 0 .. n - 1 : SlotsAfter(a, n)[PageId(a + k)] = Wild

(* An access of one page is safe when both its ends are; one of two pages  *)
(* is checked byte by byte.                                                *)
AllSafe(s, a, n) ==
  IF First(a) = Last(a, n)
    THEN SafeToRead(s[First(a)], a) /\ SafeToRead(s[First(a)], a + n - 1)
    ELSE \A k \in 0 .. n - 1 : SafeToRead(s[PageId(a + k)], a + k)

(* A mutant of Collected: an unsafe byte makes every result zero. *)
CollectedWhole(s, a, n) ==
  [k \in 0 .. n - 1 |->
     IF AllSafe(s, a, n) THEN PageByte(s[PageId(a + k)], a + k) ELSE 0]

(* What a read collects: an unsafe byte reads as zero, and within one page *)
(* an unsafe end makes the whole result zero.                              *)
Collected(s, a, n) ==
  [k \in 0 .. n - 1 |->
     IF First(a) = Last(a, n) /\ ~ AllSafe(s, a, n)
       THEN 0
       ELSE PageByte(s[PageId(a + k)], a + k)]

(* The page p of slot id after a write of d at a. *)
DataWith(p, id, a, n, d) ==
  [o \in Offset |->
     IF p.address + o \in a .. a + n - 1 /\ PageId(p.address + o) = id
       THEN d[(p.address + o) - a]
       ELSE p.data[o]]

PageWith(p, id, a, n, d) == [p EXCEPT !.data = DataWith(p, id, a, n, d)]

(* The slots after a write: an unsafe byte is dropped, and within one page *)
(* an unsafe end drops the whole write.                                    *)
Written(s, a, n, d) ==
  [id \in Slot |->
     IF \/ id \notin {PageId(a + k) : k \in 0 .. n - 1}
        \/ s[id] = Foreign
        \/ First(a) = Last(a, n) /\ ~ AllSafe(s, a, n)
       THEN s[id]
       ELSE PageWith(s[id], id, a, n, d)]

-----------------------------------------------------------------------------
Payload(n) == [0 .. n - 1 -> Byte]

NoPayload == [k \in {} |-> 0]

Reply(op, a, n, status, payload) ==
  [op |-> op, at |-> a, size |-> n, status |-> status, payload |-> payload]

Alive == reply.status # "dead"

Init ==
  /\ \E past \in {NoPage, Foreign, Wild} :
       slots = [id \in Slot |-> IF id = RANGECOUNT THEN past ELSE NoPage]
  /\ reply = Reply("none", 0, 0, "ok", NoPayload)

(* Memory::read<T>, and readByte for n = 1. *)
Read(a, n) ==
  /\ Alive /\ ~ Throws(a, n) /\ ~ Kills(a, n)
  /\ slots' = SlotsAfter(a, n)
  /\ reply' = Reply("read", a, n,
                    IF AllSafe(slots', a, n) THEN "ok" ELSE "refused",
                    Collected(slots', a, n))

(* Memory::write<T>, and writeByte for n = 1. *)
Write(a, n, d) ==
  /\ Alive /\ ~ Throws(a, n) /\ ~ Kills(a, n)
  /\ slots' = Written(SlotsAfter(a, n), a, n, d)
  /\ reply' = Reply("write", a, n,
                    IF AllSafe(SlotsAfter(a, n), a, n) THEN "ok" ELSE "refused",
                    NoPayload)

(* throw MEMOPOUTOFRANGE: no handler of the class matches it. *)
Throw(op, a, n) ==
  /\ Alive /\ Throws(a, n)
  /\ slots' = SlotsAfter(a, n)
  /\ reply' = Reply(op, a, n, "threw", NoPayload)

(* A wild pointer is followed. *)
Die(op, a, n) ==
  /\ Alive /\ Kills(a, n)
  /\ slots' = SlotsAfter(a, n)
  /\ reply' = Reply(op, a, n, "dead", NoPayload)

Next ==
  \E a \in Address, n \in Width :
    \/ Read(a, n)
    \/ \E d \in Payload(n) : Write(a, n, d)
    \/ \E op \in {"read", "write"} : Throw(op, a, n) \/ Die(op, a, n)

Spec == Init /\ [][Next]_vars

-----------------------------------------------------------------------------
(* The run-time shape of the state. *)
TypeOK ==
  /\ slots \in [Slot -> Page \cup {NoPage, Foreign, Wild}]
  /\ reply \in [op : {"none", "read", "write"},
               at : Nat, size : Nat,
               status : {"ok", "refused", "threw", "dead"},
               payload : {NoPayload} \cup UNION {Payload(n) : n \in Width}]

(* Each page that preparePage constructed serves the addresses of the slot *)
(* that points to it, and the array itself holds nothing but such pages.   *)
PagesInPlace ==
  /\ \A id \in Slot :
       slots[id] \in {NoPage, Foreign, Wild} \/ slots[id].address = id * PAGESIZE
  /\ \A id \in Slot \ {RANGECOUNT} : slots[id] \notin {Foreign, Wild}

(* An operation touches the pages of its first and of its last byte and no *)
(* other: at most two pages are allocated for it, and they stay.           *)
TouchesItsPages ==
  [][\A id \in Slot :
       slots'[id] # slots[id] =>
         /\ id \in {PageId(reply'.at), PageId(reply'.at + reply'.size - 1)}
         /\ slots'[id] # NoPage]_vars

(* The refinement mapping: a page not yet allocated holds zeros. *)
FlatBytes ==
  [c \in 0 .. MAXMEMORY - 1 |->
     IF slots[PageId(c)] = NoPage
       THEN 0
       ELSE slots[PageId(c)].data[c - slots[PageId(c)].address]]

Flat == INSTANCE FlatMemory WITH bytes <- FlatBytes

(* The pages, their lazy allocation and the byte-by-byte accesses across   *)
(* them implement the flat array Memory promises.                          *)
ImplementsFlatMemory == Flat!Spec

(* Past its end, when the slot there is no page (in start() it is          *)
(* alu::syms), memory is one page of zeros that keep no write, and beyond  *)
(* that page every access throws: what Alu says in Reachable, Loaded and   *)
(* Stored.  An access across the end reads both sides of it.               *)
EndsInZeros ==
  [][LET a == reply'.at
         n == reply'.size
     IN  slots[RANGECOUNT] = Foreign =>
           /\ reply'.status = "threw" <=> a + n > MAXMEMORY + PAGESIZE
           /\ reply'.status # "dead"
           /\ reply'.op = "read" /\ reply'.status # "threw" =>
                reply'.payload =
                  [k \in 0 .. n - 1 |->
                     IF a + k < MAXMEMORY THEN FlatBytes[a + k] ELSE 0]
           /\ slots'[RANGECOUNT] = Foreign]_vars

(* tests/memory.cpp, verify_bounds_checking: a read at MAXMEMORY, and 100  *)
(* bytes later, is answered with valid = false.  Both lie in the first     *)
(* page past the end, the only addresses this says anything of.            *)
OutOfRangeReadIsInvalid ==
  (reply.op = "read" /\ PageId(reply.at) = RANGECOUNT) => reply.status = "refused"
=============================================================================
