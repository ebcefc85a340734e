---------------------------- MODULE MemoryProofs ----------------------------
(***************************************************************************)
(* Proofs about Memory, for every page size, number of pages, set of       *)
(* addresses and set of widths up to a page: its invariants, and that it   *)
(* implements FlatMemory.                                                  *)
(***************************************************************************)
EXTENDS Memory, TLAPS

(* The invariants, of any value s of slots. *)
Shaped(s) == s \in [Slot -> Page \cup {NoPage, Foreign, Wild}]

InPlace(s) ==
  /\ \A id \in Slot :
       s[id] \in {NoPage, Foreign, Wild} \/ s[id].address = id * PAGESIZE
  /\ \A id \in Slot \ {RANGECOUNT} : s[id] \notin {Foreign, Wild}

Good(s) == Shaped(s) /\ InPlace(s)

Flattened(s) ==
  [c \in 0 .. MAXMEMORY - 1 |->
     IF s[PageId(c)] = NoPage THEN 0 ELSE s[PageId(c)].data[c - s[PageId(c)].address]]

-----------------------------------------------------------------------------
(* Addresses and page numbers. *)

(* An address lies in the page of its number. *)
LEMMA PageOfAddress ==
  ASSUME NEW a \in Nat
  PROVE  PageId(a) \in Nat /\ a - PageId(a) * PAGESIZE \in Offset
  BY SizeAssumption DEF PageId, Offset

(* It lies in no other. *)
LEMMA PageIsUnique ==
  ASSUME NEW a \in Nat, NEW id \in Nat, a - id * PAGESIZE \in Offset
  PROVE  id = PageId(a)
  BY SizeAssumption DEF PageId, Offset

(* The span of an access lies in the pages of its first and last bytes.    *)
LEMMA SpanInTwoPages ==
  ASSUME NEW a \in Nat, NEW n \in Width, NEW k \in 0 .. n - 1, NEW b \in Nat, b = a + k
  PROVE  PageId(b) \in {First(a), Last(a, n)}
<1>1. n \in 1 .. PAGESIZE
  BY SizeAssumption
<1>2. /\ PageId(a) <= PageId(b)
      /\ PageId(b) <= PageId(a + n - 1)
      /\ PageId(a + n - 1) <= PageId(a) + 1
  BY <1>1, SizeAssumption DEF PageId
<1>3. PageId(a) \in Nat /\ PageId(b) \in Nat /\ PageId(a + n - 1) \in Nat
  BY <1>1, SizeAssumption DEF PageId
<1> QED
  BY <1>2, <1>3 DEF First, Last

(* The guard of preparePage lets one page too many through. *)
LEMMA ReadyPages ==
  ASSUME NEW id \in Nat
  PROVE  Ready(id) <=> id \in Slot
<1>1. MAXMEMORY \div PAGESIZE = RANGECOUNT
  BY SizeAssumption DEF MAXMEMORY
<1> QED
  BY <1>1, SizeAssumption DEF Ready, Slot

(* The pages of the array are those of the bytes of memory. *)
LEMMA InsidePages ==
  ASSUME NEW c \in Nat
  PROVE  c < MAXMEMORY <=> PageId(c) \in Slot \ {RANGECOUNT}
<1>1. c < RANGECOUNT * PAGESIZE <=> c \div PAGESIZE < RANGECOUNT
  BY SizeAssumption
<1>2. c \div PAGESIZE \in Nat
  BY SizeAssumption
<1> QED
  BY <1>1, <1>2, SizeAssumption DEF MAXMEMORY, PageId, Slot

-----------------------------------------------------------------------------
(* Allocation. *)

(* A page fresh from the constructor is one, and holds zeros. *)
LEMMA NewPageIsPage ==
  ASSUME NEW id \in Slot
  PROVE  NewPage(id * PAGESIZE) \in Page /\ NewPage(id * PAGESIZE).address = id * PAGESIZE
<1>1. id * PAGESIZE \in Nat
  BY SizeAssumption DEF Slot
<1> QED
  BY <1>1, SizeAssumption DEF NewPage, Page

(* preparePage makes the slot usable and changes no byte of memory. *)
LEMMA PreparedKeeps ==
  ASSUME NEW s, Good(s), NEW id \in Slot
  PROVE  /\ Good(Prepared(s, id))
         /\ Prepared(s, id)[id] # NoPage
         /\ \A j \in Slot : s[j] # NoPage \/ j # id => Prepared(s, id)[j] = s[j]
         /\ Flattened(Prepared(s, id)) = Flattened(s)
<1> DEFINE t == Prepared(s, id)
<1>1. NewPage(id * PAGESIZE) \in Page /\ NewPage(id * PAGESIZE).address = id * PAGESIZE
  BY NewPageIsPage
<1>2. \A j \in Slot : t[j] = IF j = id /\ s[id] = NoPage
                               THEN NewPage(id * PAGESIZE) ELSE s[j]
  BY DEF Prepared, Good, Shaped
<1>3. Shaped(t)
  BY <1>1 DEF Prepared, Good, Shaped
<1>4. InPlace(t)
  BY <1>1, <1>2, PointerAssumption DEF Good, InPlace
<1>5. t[id] # NoPage
  BY <1>1, <1>2, PointerAssumption
<1>6. ASSUME NEW c \in 0 .. MAXMEMORY - 1
      PROVE  (IF t[PageId(c)] = NoPage THEN 0
              ELSE t[PageId(c)].data[c - t[PageId(c)].address])
           = (IF s[PageId(c)] = NoPage THEN 0
              ELSE s[PageId(c)].data[c - s[PageId(c)].address])
  <2>1. c \in Nat /\ c < MAXMEMORY
    BY SizeAssumption DEF MAXMEMORY
  <2>2. PageId(c) \in Slot /\ c - PageId(c) * PAGESIZE \in Offset
    BY <2>1, InsidePages, PageOfAddress
  <2>3. CASE PageId(c) = id /\ s[id] = NoPage
    BY <1>1, <1>2, <2>2, <2>3, PointerAssumption DEF NewPage
  <2>4. CASE ~ (PageId(c) = id /\ s[id] = NoPage)
    BY <1>2, <2>2, <2>4
  <2> QED
    BY <2>3, <2>4
<1>7. Flattened(t) = Flattened(s)
  BY <1>6 DEF Flattened
<1> QED
  BY <1>2, <1>3, <1>4, <1>5, <1>7 DEF Good

(* The slots after the getPage calls at the head of an operation. *)
LEMMA SlotsAfterKeeps ==
  ASSUME Good(slots), NEW a \in Nat, NEW n \in Width
  PROVE  /\ Good(SlotsAfter(a, n))
         /\ Flattened(SlotsAfter(a, n)) = Flattened(slots)
         /\ \A j \in Slot : SlotsAfter(a, n)[j] # slots[j] =>
              j \in {First(a), Last(a, n)} /\ SlotsAfter(a, n)[j] # NoPage
         /\ ~ Throws(a, n) => /\ First(a) \in Slot /\ Last(a, n) \in Slot
                              /\ SlotsAfter(a, n)[First(a)] # NoPage
                              /\ SlotsAfter(a, n)[Last(a, n)] # NoPage
<1>1. a + n - 1 \in Nat
  BY SizeAssumption
<1>2. First(a) \in Nat /\ Last(a, n) \in Nat
  BY <1>1, PageOfAddress DEF First, Last
<1>3. CASE ~ Ready(First(a))
  BY <1>3 DEF SlotsAfter, Throws
<1>4. CASE Ready(First(a)) /\ ~ Ready(Last(a, n))
  <2>1. First(a) \in Slot
    BY <1>2, <1>4, ReadyPages
  <2>2. SlotsAfter(a, n) = Prepared(slots, First(a))
    BY <1>4 DEF SlotsAfter
  <2> QED
    BY <1>4, <2>1, <2>2, PreparedKeeps DEF Throws
<1>5. CASE Ready(First(a)) /\ Ready(Last(a, n))
  <2>1. First(a) \in Slot /\ Last(a, n) \in Slot
    BY <1>2, <1>5, ReadyPages
  <2> DEFINE s == Prepared(slots, First(a))
             t == Prepared(s, Last(a, n))
  <2>2. SlotsAfter(a, n) = t
    BY <1>5 DEF SlotsAfter
  <2>3. /\ Good(s) /\ Flattened(s) = Flattened(slots)
        /\ s[First(a)] # NoPage
        /\ \A j \in Slot : slots[j] # NoPage \/ j # First(a) => s[j] = slots[j]
    BY <2>1, PreparedKeeps
  <2>4. /\ Good(t) /\ Flattened(t) = Flattened(s)
        /\ t[Last(a, n)] # NoPage
        /\ \A j \in Slot : s[j] # NoPage \/ j # Last(a, n) => t[j] = s[j]
    BY <2>1, <2>3, PreparedKeeps
  <2> HIDE DEF s, t
  <2> QED
    BY <1>5, <2>1, <2>2, <2>3, <2>4 DEF Throws
<1> QED
  BY <1>3, <1>4, <1>5

-----------------------------------------------------------------------------
(* The bytes of an access that neither throws nor dies. *)

(* Each of them lies in a page that serves its address, or in the foreign  *)
(* object past the end.                                                    *)
LEMMA Reached ==
  ASSUME Good(slots), NEW a \in Nat, NEW n \in Width, ~ Throws(a, n), ~ Kills(a, n),
         NEW k \in 0 .. n - 1, NEW b \in Nat, b = a + k,
         NEW s, s = SlotsAfter(a, n)
  PROVE  /\ PageId(b) \in {First(a), Last(a, n)} /\ PageId(b) \in Slot
         /\ s[PageId(b)] \in Page \cup {Foreign}
         /\ s[PageId(b)] = Foreign => PageId(b) = RANGECOUNT
         /\ s[PageId(b)] # Foreign => /\ s[PageId(b)].address = PageId(b) * PAGESIZE
                                      /\ b - s[PageId(b)].address \in Offset
                                      /\ SafeToRead(s[PageId(b)], b)
<1>1. PageId(b) \in {First(a), Last(a, n)}
  BY SpanInTwoPages
<1>2. Good(s) /\ PageId(b) \in Slot /\ s[PageId(b)] # NoPage
  BY <1>1, SlotsAfterKeeps
<1>3. s[PageId(b)] # Wild
  BY DEF Kills
<1>4. s[PageId(b)] \in Page \cup {Foreign}
  BY <1>2, <1>3 DEF Good, Shaped
<1>5. s[PageId(b)] = Foreign => PageId(b) = RANGECOUNT
  BY <1>2 DEF Good, InPlace
<1>6. ASSUME s[PageId(b)] # Foreign
      PROVE  s[PageId(b)].address = PageId(b) * PAGESIZE
  BY <1>2, <1>3, <1>6 DEF Good, InPlace
<1>7. b - PageId(b) * PAGESIZE \in Offset
  BY PageOfAddress
<1>8. ASSUME s[PageId(b)] # Foreign
      PROVE  b - s[PageId(b)].address \in Offset /\ SafeToRead(s[PageId(b)], b)
  BY <1>6, <1>7, <1>8 DEF SafeToRead
<1> QED
  BY <1>1, <1>2, <1>4, <1>5, <1>6, <1>8

(* Within one page the two ends decide for all the bytes. *)
LEMMA AllSafeBytes ==
  ASSUME Good(slots), NEW a \in Nat, NEW n \in Width, ~ Throws(a, n), ~ Kills(a, n),
         NEW s, s = SlotsAfter(a, n)
  PROVE  AllSafe(s, a, n) <=> \A k \in 0 .. n - 1 : s[PageId(a + k)] # Foreign
<1>1. 0 \in 0 .. n - 1 /\ n - 1 \in 0 .. n - 1 /\ a + 0 = a /\ a + (n - 1) = a + n - 1
  BY SizeAssumption
<1>2. PageId(a + 0) = First(a) /\ PageId(a + (n - 1)) = Last(a, n)
  BY <1>1 DEF First, Last
<1>3. ASSUME NEW k \in 0 .. n - 1
      PROVE  /\ PageId(a + k) \in {First(a), Last(a, n)}
             /\ SafeToRead(s[PageId(a + k)], a + k) <=> s[PageId(a + k)] # Foreign
  <2>1. PICK b \in Nat : b = a + k
    BY SizeAssumption
  <2>2. /\ PageId(b) \in {First(a), Last(a, n)}
        /\ s[PageId(b)] # Foreign => SafeToRead(s[PageId(b)], b)
    BY <2>1, Reached
  <2>3. SafeToRead(s[PageId(b)], b) <=> s[PageId(b)] # Foreign
    BY <2>2 DEF SafeToRead
  <2> QED
    BY <2>1, <2>2, <2>3
<1>4. CASE First(a) = Last(a, n)
  <2>1. AllSafe(s, a, n) <=> SafeToRead(s[First(a)], a) /\ SafeToRead(s[First(a)], a + n - 1)
    BY <1>4 DEF AllSafe
  <2>2. SafeToRead(s[First(a)], a) <=> s[First(a)] # Foreign
    BY <1>1, <1>2, <1>3
  <2>3. SafeToRead(s[First(a)], a + n - 1) <=> s[First(a)] # Foreign
    BY <1>1, <1>2, <1>3, <1>4
  <2>4. (\A k \in 0 .. n - 1 : s[PageId(a + k)] # Foreign) <=> s[First(a)] # Foreign
    BY <1>1, <1>2, <1>3, <1>4
  <2> QED
    BY <2>1, <2>2, <2>3, <2>4
<1>5. CASE First(a) # Last(a, n)
  BY <1>3, <1>5 DEF AllSafe
<1> QED
  BY <1>4, <1>5

(* A byte of memory is never in the foreign object, and its page holds it. *)
LEMMA ByteOfMemory ==
  ASSUME Good(slots), NEW a \in Nat, NEW n \in Width, ~ Throws(a, n), ~ Kills(a, n),
         NEW k \in 0 .. n - 1, NEW b \in 0 .. MAXMEMORY - 1, b = a + k,
         NEW s, s = SlotsAfter(a, n)
  PROVE  /\ s[PageId(b)] \in Page /\ s[PageId(b)] # Foreign
         /\ Flattened(slots)[b] = PageByte(s[PageId(b)], b)
<1>1. b \in Nat /\ b < MAXMEMORY
  BY SizeAssumption DEF MAXMEMORY
<1>2. PageId(b) \in Slot \ {RANGECOUNT}
  BY <1>1, InsidePages
<1>3. /\ s[PageId(b)] \in Page /\ s[PageId(b)] # Foreign
      /\ SafeToRead(s[PageId(b)], b)
  BY <1>1, <1>2, Reached
<1>4. Flattened(slots) = Flattened(s)
  BY SlotsAfterKeeps
<1>5. Flattened(s)[b] = s[PageId(b)].data[b - s[PageId(b)].address]
  BY <1>3, PointerAssumption DEF Flattened
<1> QED
  BY <1>3, <1>4, <1>5 DEF PageByte

-----------------------------------------------------------------------------
(* Writing. *)

Touched(a, n) == {PageId(a + k) : k \in 0 .. n - 1}

(* A page stays one, and keeps its address, when it is written. *)
LEMMA PageWithIsPage ==
  ASSUME NEW p \in Page, NEW id \in Slot, NEW a \in Nat, NEW n \in Width,
         NEW d \in Payload(n)
  PROVE  /\ PageWith(p, id, a, n, d) \in Page
         /\ PageWith(p, id, a, n, d).address = p.address
         /\ PageWith(p, id, a, n, d).data = DataWith(p, id, a, n, d)
<1>1. n \in Nat
  BY SizeAssumption
<1>2. p.address \in Nat /\ p.data \in [Offset -> Byte]
  BY DEF Page
<1> DEFINE e == DataWith(p, id, a, n, d)
<1>3. ASSUME NEW o \in Offset, p.address + o \in a .. a + n - 1
      PROVE  (p.address + o) - a \in 0 .. n - 1
  BY <1>1, <1>2, <1>3, SizeAssumption DEF Offset
<1>4. e \in [Offset -> Byte]
  BY <1>2, <1>3 DEF Payload, DataWith
<1> HIDE DEF e
<1> QED
  BY <1>4 DEF Page, PageWith, e

(* The byte at address c of a page written to. *)
LEMMA DataWithAt ==
  ASSUME NEW p, NEW id, NEW a, NEW n, NEW d, NEW o \in Offset, NEW c, c = p.address + o
  PROVE  DataWith(p, id, a, n, d)[o] =
           IF c \in a .. a + n - 1 /\ PageId(c) = id THEN d[c - a] ELSE p.data[o]
<1>1. DataWith(p, id, a, n, d)[o] =
        IF p.address + o \in a .. a + n - 1 /\ PageId(p.address + o) = id
          THEN d[(p.address + o) - a] ELSE p.data[o]
  BY DEF DataWith
<1> QED
  BY <1>1

(* Within one page the two ends of a write are refused together, so Written *)
(* changes exactly the pages it touches and not the foreign object.         *)
LEMMA WrittenSlots ==
  ASSUME Good(slots), NEW a \in Nat, NEW n \in Width, ~ Throws(a, n), ~ Kills(a, n),
         NEW d \in Payload(n), NEW s, s = SlotsAfter(a, n), NEW j \in Slot
  PROVE  /\ Written(s, a, n, d)[j] =
               IF j \in Touched(a, n) /\ s[j] # Foreign
                 THEN PageWith(s[j], j, a, n, d) ELSE s[j]
         /\ j \in Touched(a, n) => s[j] \in Page \cup {Foreign}
         /\ j \in Touched(a, n) => j \in {First(a), Last(a, n)}
<1>1. ASSUME NEW k \in 0 .. n - 1
      PROVE  /\ PageId(a + k) \in {First(a), Last(a, n)}
             /\ s[PageId(a + k)] \in Page \cup {Foreign}
  <2>1. PICK b \in Nat : b = a + k
    BY SizeAssumption
  <2>2. PageId(b) \in {First(a), Last(a, n)} /\ s[PageId(b)] \in Page \cup {Foreign}
    BY <2>1, Reached
  <2> QED
    BY <2>1, <2>2
<1>2. ASSUME j \in Touched(a, n), s[j] # Foreign, First(a) = Last(a, n)
      PROVE  AllSafe(s, a, n)
  <2>1. \A k \in 0 .. n - 1 : s[PageId(a + k)] # Foreign
    BY <1>1, <1>2 DEF Touched
  <2> QED
    BY <2>1, AllSafeBytes
<1> QED
  BY <1>1, <1>2 DEF Written, Touched

(* A write stores its bytes where they lie in memory and nothing else.     *)
LEMMA WrittenStores ==
  ASSUME Good(slots), NEW a \in Nat, NEW n \in Width, ~ Throws(a, n), ~ Kills(a, n),
         NEW d \in Payload(n), NEW s, s = SlotsAfter(a, n)
  PROVE  /\ Good(Written(s, a, n, d))
         /\ Flattened(Written(s, a, n, d)) =
              [c \in 0 .. MAXMEMORY - 1 |->
                 IF c \in a .. a + n - 1 THEN d[c - a] ELSE Flattened(slots)[c]]
<1> DEFINE t == Written(s, a, n, d)
<1>1. Good(s) /\ Flattened(slots) = Flattened(s)
  BY SlotsAfterKeeps
<1>2. ASSUME NEW j \in Slot
      PROVE  /\ t[j] \in Page \cup {NoPage, Foreign, Wild}
             /\ t[j] \in {NoPage, Foreign, Wild} <=> s[j] \in {NoPage, Foreign, Wild}
             /\ t[j] = Foreign <=> s[j] = Foreign
             /\ t[j] = Wild <=> s[j] = Wild
             /\ s[j] \in Page => t[j].address = s[j].address
  <2>1. s[j] \in Page \cup {NoPage, Foreign, Wild}
    BY <1>1 DEF Good, Shaped
  <2>2. CASE j \in Touched(a, n) /\ s[j] # Foreign
    BY <2>1, <2>2, WrittenSlots, PageWithIsPage, PointerAssumption
  <2>3. CASE ~ (j \in Touched(a, n) /\ s[j] # Foreign)
    BY <2>1, <2>3, WrittenSlots
  <2> QED
    BY <2>2, <2>3
<1>3. ASSUME NEW j \in Slot
      PROVE  /\ j \in Touched(a, n) /\ s[j] # Foreign => t[j] = PageWith(s[j], j, a, n, d)
             /\ j \notin Touched(a, n) => t[j] = s[j]
             /\ j \in Touched(a, n) => s[j] \in Page \cup {Foreign}
  BY WrittenSlots
<1>4. Good(t)
  <2>1. Shaped(t)
    BY <1>2 DEF Shaped, Written
  <2>2. InPlace(t)
    BY <1>1, <1>2 DEF Good, Shaped, InPlace
  <2> QED
    BY <2>1, <2>2 DEF Good
<1>5. ASSUME NEW c \in 0 .. MAXMEMORY - 1
      PROVE  Flattened(t)[c] = IF c \in a .. a + n - 1 THEN d[c - a] ELSE Flattened(s)[c]
  <2> DEFINE id == PageId(c)
             o == c - s[id].address
  <2>1. c \in Nat /\ c < MAXMEMORY
    BY SizeAssumption DEF MAXMEMORY
  <2>2. id \in Slot /\ id # RANGECOUNT /\ c - id * PAGESIZE \in Offset
    BY <2>1, InsidePages, PageOfAddress
  <2>3. s[id] \in Page \/ s[id] = NoPage
    BY <1>1, <2>2 DEF Good, Shaped, InPlace
  <2>4. s[id] \in Page => s[id].address = id * PAGESIZE
    BY <1>1, <2>2, PointerAssumption DEF Good, InPlace
  <2>5. Flattened(t)[c] = IF t[id] = NoPage THEN 0 ELSE t[id].data[c - t[id].address]
    BY DEF Flattened
  <2>6. Flattened(s)[c] = IF s[id] = NoPage THEN 0 ELSE s[id].data[c - s[id].address]
    BY DEF Flattened
  <2> HIDE DEF id, o, t
  <2>7. CASE id \in Touched(a, n)
    <3>1. s[id] \in Page /\ s[id] # Foreign
      <4>1. s[id] \in Page \cup {Foreign}
        BY <1>3, <2>2, <2>7
      <4> QED
        BY <2>3, <4>1, PointerAssumption
    <3>2. t[id] = PageWith(s[id], id, a, n, d)
      BY <1>3, <2>2, <2>7, <3>1
    <3>3. o \in Offset /\ s[id].address + o = c /\ s[id].address \in Nat
      BY <2>1, <2>2, <2>4, <3>1 DEF Page, o
    <3>4. t[id].address = s[id].address /\ t[id] \in Page
      BY <2>2, <3>1, <3>2, PageWithIsPage
    <3>5. t[id].data[o] = IF c \in a .. a + n - 1 /\ PageId(c) = id
                            THEN d[c - a] ELSE s[id].data[o]
      <4>1. t[id].data = DataWith(s[id], id, a, n, d)
        BY <2>2, <3>1, <3>2, PageWithIsPage
      <4> QED
        BY <3>3, <4>1, DataWithAt
    <3>6. t[id] # NoPage /\ s[id] # NoPage
      BY <3>1, <3>4, PointerAssumption
    <3> QED
      BY <2>5, <2>6, <3>4, <3>5, <3>6 DEF id, o
  <2>8. CASE id \notin Touched(a, n)
    <3>1. t[id] = s[id]
      BY <1>3, <2>2, <2>8
    <3>2. c \notin a .. a + n - 1
      <4>1. SUFFICES ASSUME c \in a .. a + n - 1 PROVE FALSE
        OBVIOUS
      <4>2. c - a \in 0 .. n - 1 /\ a + (c - a) = c
        BY <2>1, <4>1, SizeAssumption
      <4> QED
        BY <2>8, <4>2 DEF Touched, id
    <3> QED
      BY <2>5, <2>6, <3>1, <3>2
  <2> QED
    BY <2>7, <2>8
<1>6. Flattened(t) = [c \in 0 .. MAXMEMORY - 1 |->
                        IF c \in a .. a + n - 1 THEN d[c - a] ELSE Flattened(s)[c]]
  BY <1>5 DEF Flattened
<1> QED
  BY <1>1, <1>4, <1>6
-----------------------------------------------------------------------------
(* Reading. *)

(* A read collects bytes, and those of memory are the ones memory holds.   *)
LEMMA CollectedBytes ==
  ASSUME Good(slots), NEW a \in Nat, NEW n \in Width, ~ Throws(a, n), ~ Kills(a, n),
         NEW s, s = SlotsAfter(a, n)
  PROVE  /\ Collected(s, a, n) \in Payload(n)
         /\ \A k \in 0 .. n - 1 :
              a + k \in 0 .. MAXMEMORY - 1 =>
                Collected(s, a, n)[k] = Flattened(slots)[a + k]
<1>1. ASSUME NEW k \in 0 .. n - 1
      PROVE  /\ Collected(s, a, n)[k] \in Byte
             /\ a + k \in 0 .. MAXMEMORY - 1 =>
                  Collected(s, a, n)[k] = Flattened(slots)[a + k]
  <2>1. PICK b \in Nat : b = a + k
    BY SizeAssumption
  <2> DEFINE v == Collected(s, a, n)[k]
  <2>2. v = IF First(a) = Last(a, n) /\ ~ AllSafe(s, a, n)
              THEN 0 ELSE PageByte(s[PageId(b)], b)
    BY <2>1 DEF Collected
  <2>3. /\ s[PageId(b)] \in Page \cup {Foreign}
        /\ s[PageId(b)] # Foreign => b - s[PageId(b)].address \in Offset
    BY <2>1, Reached
  <2>4. PageByte(s[PageId(b)], b) \in Byte
    BY <2>3, SizeAssumption DEF PageByte, SafeToRead, Page
  <2>5. ASSUME b \in 0 .. MAXMEMORY - 1
        PROVE  v = Flattened(slots)[b]
    <3>1. s[PageId(b)] # Foreign /\ Flattened(slots)[b] = PageByte(s[PageId(b)], b)
      BY <2>1, <2>5, ByteOfMemory
    <3>2. ASSUME First(a) = Last(a, n)
          PROVE  AllSafe(s, a, n)
      <4>1. ASSUME NEW i \in 0 .. n - 1
            PROVE  PageId(a + i) = PageId(b)
        <5>1. PICK c \in Nat : c = a + i
          BY SizeAssumption
        <5>2. PageId(c) \in {First(a), Last(a, n)} /\ PageId(b) \in {First(a), Last(a, n)}
          BY <2>1, <5>1, SpanInTwoPages
        <5> QED
          BY <3>2, <5>1, <5>2
      <4> QED
        BY <3>1, <4>1, AllSafeBytes
    <3> QED
      BY <2>2, <3>1, <3>2
  <2> QED
    BY <2>1, <2>2, <2>4, <2>5, SizeAssumption
<1> QED
  BY <1>1 DEF Collected, Payload

-----------------------------------------------------------------------------
(* The invariant: what TypeOK says of slots is not inductive without what  *)
(* PagesInPlace says of the addresses the pages serve, nor the other way   *)
(* round.                                                                  *)
IInv == TypeOK /\ PagesInPlace

(* The invariant says of the slots what the lemmas on them ask for. *)
LEMMA IInvGood ==
  /\ IInv => Good(slots)
  /\ Flattened(slots) = FlatBytes
  BY DEF IInv, TypeOK, PagesInPlace, Good, Shaped, InPlace, Flattened, FlatBytes

(* The replies have their type. *)
LEMMA ReplyShape ==
  ASSUME NEW op \in {"none", "read", "write"}, NEW a \in Nat, NEW n \in Nat,
         NEW status \in {"ok", "refused", "threw", "dead"}, NEW payload,
         payload = NoPayload \/ \E m \in Width : payload \in Payload(m)
  PROVE  Reply(op, a, n, status, payload) \in
           [op : {"none", "read", "write"}, at : Nat, size : Nat,
            status : {"ok", "refused", "threw", "dead"},
            payload : {NoPayload} \cup UNION {Payload(m) : m \in Width}]
  BY DEF Reply

(* The constructor of Memory establishes the invariant. *)
LEMMA InitIInv == Init => IInv
<1> SUFFICES ASSUME Init PROVE IInv
  OBVIOUS
<1>1. Shaped(slots) /\ InPlace(slots)
  BY SizeAssumption, PointerAssumption DEF Init, Shaped, InPlace, Slot
<1>2. TypeOK
  BY <1>1, ReplyShape DEF Init, TypeOK, Shaped
<1> QED
  BY <1>1, <1>2 DEF IInv, PagesInPlace, InPlace

(* What a step does to the state, action by action, in the terms of the    *)
(* flat memory: the bases of the invariant and of the refinement.          *)
LEMMA ReadStep ==
  ASSUME IInv, NEW a \in Address, NEW n \in Width, Read(a, n)
  PROVE  IInv' /\ FlatBytes' = FlatBytes
<1>1. a \in Nat /\ n \in Nat /\ Good(slots)
  BY IInvGood, SizeAssumption
<1>2. slots' = SlotsAfter(a, n) /\ ~ Throws(a, n) /\ ~ Kills(a, n)
  BY DEF Read
<1>3. Good(slots') /\ Flattened(slots') = Flattened(slots)
  BY <1>1, <1>2, SlotsAfterKeeps
<1>4. Collected(slots', a, n) \in Payload(n)
  BY <1>1, <1>2, CollectedBytes
<1>5. TypeOK'
  BY <1>1, <1>3, <1>4, ReplyShape DEF Read, TypeOK, Good, Shaped
<1> QED
  BY <1>3, <1>5 DEF IInv, PagesInPlace, Good, InPlace, Flattened, FlatBytes

(* A write keeps it, and stores its bytes in the flat memory. *)
LEMMA WriteStep ==
  ASSUME IInv, NEW a \in Address, NEW n \in Width, NEW d \in Payload(n), Write(a, n, d)
  PROVE  /\ IInv'
         /\ FlatBytes' = [c \in 0 .. MAXMEMORY - 1 |->
                            IF c \in a .. a + n - 1 THEN d[c - a] ELSE FlatBytes[c]]
<1>1. a \in Nat /\ n \in Nat /\ Good(slots)
  BY IInvGood, SizeAssumption
<1>2. /\ slots' = Written(SlotsAfter(a, n), a, n, d)
      /\ ~ Throws(a, n) /\ ~ Kills(a, n)
  BY DEF Write
<1>3. /\ Good(slots')
      /\ Flattened(slots') = [c \in 0 .. MAXMEMORY - 1 |->
           IF c \in a .. a + n - 1 THEN d[c - a] ELSE Flattened(slots)[c]]
  BY <1>1, <1>2, WrittenStores
<1>4. TypeOK'
  BY <1>1, <1>3, ReplyShape DEF Write, TypeOK, Good, Shaped
<1>5. IInv'
  BY <1>3, <1>4 DEF IInv, PagesInPlace, Good, InPlace
<1>6. FlatBytes' = Flattened(slots')
  BY DEF FlatBytes, Flattened
<1> QED
  BY <1>3, <1>5, <1>6, IInvGood

(* An access that throws or kills keeps it, and changes no byte. *)
LEMMA FailStep ==
  ASSUME IInv, NEW a \in Address, NEW n \in Width, NEW op \in {"read", "write"},
         Throw(op, a, n) \/ Die(op, a, n)
  PROVE  IInv' /\ FlatBytes' = FlatBytes
<1>1. a \in Nat /\ n \in Nat /\ Good(slots)
  BY IInvGood, SizeAssumption
<1>2. slots' = SlotsAfter(a, n)
  BY DEF Throw, Die
<1>3. Good(slots') /\ Flattened(slots') = Flattened(slots)
  BY <1>1, <1>2, SlotsAfterKeeps
<1>4. TypeOK'
  BY <1>1, <1>3, ReplyShape DEF Throw, Die, TypeOK, Good, Shaped
<1> QED
  BY <1>3, <1>4 DEF IInv, PagesInPlace, Good, InPlace, Flattened, FlatBytes

(* Every operation keeps it, ... *)
LEMMA NextIInv == IInv /\ [Next]_vars => IInv'
<1> SUFFICES ASSUME IInv, [Next]_vars PROVE IInv'
  OBVIOUS
<1>1. CASE UNCHANGED vars
  BY <1>1 DEF vars, IInv, TypeOK, PagesInPlace
<1>2. CASE \E a \in Address, n \in Width : Read(a, n)
  BY <1>2, ReadStep
<1>3. CASE \E a \in Address, n \in Width : \E d \in Payload(n) : Write(a, n, d)
  BY <1>3, WriteStep
<1>4. CASE \E a \in Address, n \in Width, op \in {"read", "write"} :
             Throw(op, a, n) \/ Die(op, a, n)
  BY <1>4, FailStep
<1> QED
  BY <1>1, <1>2, <1>3, <1>4 DEF Next

(* ... so it holds throughout. *)
THEOREM InductiveInvariant == Spec => []IInv
  BY InitIInv, NextIInv, PTL DEF Spec

(* The state of Memory has its type: whatever the calls, each slot is null, *)
(* a page or (past the end) what was there before.                          *)
THEOREM TypeCorrect == Spec => []TypeOK
<1>1. IInv => TypeOK
  BY DEF IInv
<1> QED
  BY <1>1, InductiveInvariant, PTL

(* preparePage constructs every page for the addresses of its own slot.    *)
THEOREM PagesStayInPlace == Spec => []PagesInPlace
<1>1. IInv => PagesInPlace
  BY DEF IInv
<1> QED
  BY <1>1, InductiveInvariant, PTL
-----------------------------------------------------------------------------
(* What a step may not do. *)

(* One operation allocates only the pages of its ends. *)
LEMMA StepTouchesItsPages ==
  ASSUME IInv, [Next]_vars, NEW id \in Slot, slots'[id] # slots[id]
  PROVE  /\ id \in {PageId(reply'.at), PageId(reply'.at + reply'.size - 1)}
         /\ slots'[id] # NoPage
<1>1. Good(slots)
  BY IInvGood
<1>2. CASE \E a \in Address, n \in Width : slots' = SlotsAfter(a, n)
                                          /\ reply'.at = a /\ reply'.size = n
  BY <1>1, <1>2, SlotsAfterKeeps, SizeAssumption DEF First, Last
<1>3. CASE \E a \in Address, n \in Width : \E d \in Payload(n) : Write(a, n, d)
  <2>1. PICK a \in Address, n \in Width : \E d \in Payload(n) : Write(a, n, d)
    BY <1>3
  <2>2. PICK d \in Payload(n) : Write(a, n, d)
    BY <2>1
  <2> DEFINE s == SlotsAfter(a, n)
  <2>3. /\ slots' = Written(s, a, n, d) /\ ~ Throws(a, n) /\ ~ Kills(a, n)
        /\ reply'.at = a /\ reply'.size = n /\ a \in Nat
    BY <2>2, SizeAssumption DEF Write, Reply
  <2>4. /\ slots'[id] = IF id \in Touched(a, n) /\ s[id] # Foreign
                          THEN PageWith(s[id], id, a, n, d) ELSE s[id]
        /\ id \in Touched(a, n) => s[id] \in Page \cup {Foreign}
        /\ id \in Touched(a, n) => id \in {First(a), Last(a, n)}
    BY <1>1, <2>3, WrittenSlots
  <2>5. s[id] # slots[id] => id \in {First(a), Last(a, n)} /\ s[id] # NoPage
    BY <1>1, <2>3, SlotsAfterKeeps
  <2> HIDE DEF s
  <2>6. CASE id \in Touched(a, n) /\ s[id] # Foreign
    <3>1. slots'[id] \in Page
      BY <2>3, <2>4, <2>6, PageWithIsPage
    <3> QED
      BY <2>3, <2>4, <2>6, <3>1, PointerAssumption DEF First, Last
  <2>7. CASE ~ (id \in Touched(a, n) /\ s[id] # Foreign)
    BY <2>3, <2>4, <2>5, <2>7 DEF First, Last
  <2> QED
    BY <2>6, <2>7
<1>4. CASE UNCHANGED vars
  BY <1>4 DEF vars
<1> QED
  BY <1>2, <1>3, <1>4 DEF Next, Read, Throw, Die, Reply

(* An operation allocates at most the pages of its two ends, and no page   *)
(* is ever given up.                                                       *)
THEOREM PagesOnTouch == Spec => TouchesItsPages
<1>1. IInv /\ [Next]_vars =>
        [\A id \in Slot :
           slots'[id] # slots[id] =>
             /\ id \in {PageId(reply'.at), PageId(reply'.at + reply'.size - 1)}
             /\ slots'[id] # NoPage]_vars
  BY StepTouchesItsPages
<1> QED
  BY <1>1, InductiveInvariant, PTL DEF Spec, TouchesItsPages

-----------------------------------------------------------------------------
(* The flat memory. *)

(* An access inside memory is answered, and by pages alone. *)
LEMMA InsideIsServed ==
  ASSUME Good(slots), NEW a \in Nat, NEW n \in Width, a + n <= MAXMEMORY
  PROVE  /\ ~ Throws(a, n) /\ ~ Kills(a, n)
         /\ AllSafe(SlotsAfter(a, n), a, n)
<1>1. \A k \in 0 .. n - 1 : a + k \in Nat /\ a + k < MAXMEMORY
  BY SizeAssumption DEF MAXMEMORY
<1>2. \A k \in 0 .. n - 1 : PageId(a + k) \in Slot \ {RANGECOUNT}
  BY <1>1, InsidePages
<1>3. 0 \in 0 .. n - 1 /\ n - 1 \in 0 .. n - 1 /\ a + 0 = a /\ a + (n - 1) = a + n - 1
  BY SizeAssumption
<1>4. First(a) \in Slot /\ Last(a, n) \in Slot
  BY <1>2, <1>3 DEF First, Last
<1>5. ~ Throws(a, n)
  BY <1>4, ReadyPages DEF Throws, Slot
<1>6. Good(SlotsAfter(a, n))
  BY SlotsAfterKeeps
<1>7. \A k \in 0 .. n - 1 : SlotsAfter(a, n)[PageId(a + k)] \notin {Foreign, Wild}
  BY <1>2, <1>6 DEF Good, InPlace
<1>8. ~ Kills(a, n)
  BY <1>7 DEF Kills
<1> QED
  BY <1>5, <1>7, <1>8, AllSafeBytes

(* Memory as constructed is the flat array of zeros. *)
LEMMA InitIsFlat == Init => Flat!Init
<1> SUFFICES ASSUME Init PROVE Flat!Init
  OBVIOUS
<1>1. ASSUME NEW c \in 0 .. MAXMEMORY - 1
      PROVE  slots[PageId(c)] = NoPage
  <2>1. c \in Nat /\ c < MAXMEMORY
    BY SizeAssumption DEF MAXMEMORY
  <2>2. PageId(c) \in Slot \ {RANGECOUNT}
    BY <2>1, InsidePages
  <2> QED
    BY <2>2 DEF Init
<1>2. FlatBytes = [c \in 0 .. MAXMEMORY - 1 |-> 0]
  BY <1>1 DEF FlatBytes
<1> QED
  BY <1>2 DEF Init, Reply, NoPayload, Flat!Init, Flat!Cell, Flat!Reply, Flat!NoPayload

(* A read is a Load of the flat array, or outside of it a LoadOutside. *)
LEMMA ReadIsFlat ==
  ASSUME IInv, NEW a \in Address, NEW n \in Width, Read(a, n)
  PROVE  Flat!Load(a, n) \/ Flat!LoadOutside(a, n)
<1>1. a \in Nat /\ Good(slots) /\ FlatBytes = Flattened(slots)
  BY IInvGood, SizeAssumption
<1>2. slots' = SlotsAfter(a, n) /\ ~ Throws(a, n) /\ ~ Kills(a, n)
  BY DEF Read
<1>3. FlatBytes' = FlatBytes
  BY ReadStep
<1> DEFINE d == Collected(slots', a, n)
           Cells == 0 .. MAXMEMORY - 1
<1>4. /\ d \in Payload(n)
      /\ \A k \in 0 .. n - 1 : a + k \in Cells => d[k] = FlatBytes[a + k]
  BY <1>1, <1>2, CollectedBytes
<1>5. reply' = Reply("read", a, n,
                     IF AllSafe(slots', a, n) THEN "ok" ELSE "refused", d)
  BY DEF Read
<1> HIDE DEF d
<1>6. CASE a + n <= MAXMEMORY
  <2>1. AllSafe(slots', a, n)
    BY <1>1, <1>2, <1>6, InsideIsServed
  <2>2. \A k \in 0 .. n - 1 : a + k \in Cells
    BY <1>1, <1>6, SizeAssumption DEF MAXMEMORY
  <2>3. d = [k \in 0 .. n - 1 |-> FlatBytes[a + k]]
    BY <1>4, <2>2 DEF Payload
  <2>4. Flat!Load(a, n)
    BY <1>3, <1>5, <1>6, <2>1, <2>3 DEF Flat!Load, Flat!Inside, Flat!Reply, Reply
  <2> QED
    BY <2>4
<1>7. CASE ~ (a + n <= MAXMEMORY)
  BY <1>3, <1>4, <1>5, <1>7
     DEF Flat!LoadOutside, Flat!Inside, Flat!Reply, Flat!Payload, Flat!Cell, Reply, Payload
<1> QED
  BY <1>6, <1>7

(* A write is a Store of the flat array, or outside of it a StoreOutside. *)
LEMMA WriteIsFlat ==
  ASSUME IInv, NEW a \in Address, NEW n \in Width, NEW d \in Payload(n), Write(a, n, d)
  PROVE  Flat!Store(a, n, d) \/ Flat!StoreOutside(a, n, d)
<1>1. a \in Nat /\ Good(slots)
  BY IInvGood, SizeAssumption
<1>2. FlatBytes' = Flat!Overwritten(a, n, d)
  BY WriteStep DEF Flat!Overwritten, Flat!Cell
<1>3. reply' = Reply("write", a, n,
                     IF AllSafe(SlotsAfter(a, n), a, n) THEN "ok" ELSE "refused", NoPayload)
  BY DEF Write
<1>4. CASE a + n <= MAXMEMORY
  <2>1. AllSafe(SlotsAfter(a, n), a, n)
    BY <1>1, <1>4, InsideIsServed
  <2> QED
    BY <1>2, <1>3, <1>4, <2>1
       DEF Flat!Store, Flat!Inside, Flat!Reply, Flat!NoPayload, Reply, NoPayload
<1>5. CASE ~ (a + n <= MAXMEMORY)
  BY <1>2, <1>3, <1>5
     DEF Flat!StoreOutside, Flat!Inside, Flat!Reply, Flat!NoPayload, Reply, NoPayload
<1> QED
  BY <1>4, <1>5

(* An access that gets no answer lies outside and is a Fail. *)
LEMMA FailIsFlat ==
  ASSUME IInv, NEW a \in Address, NEW n \in Width, NEW op \in {"read", "write"},
         Throw(op, a, n) \/ Die(op, a, n)
  PROVE  Flat!Fail(a, n)
<1>1. a \in Nat /\ Good(slots)
  BY IInvGood, SizeAssumption
<1>2. ~ (a + n <= MAXMEMORY)
  BY <1>1, InsideIsServed DEF Throw, Die
<1>3. FlatBytes' = FlatBytes
  BY FailStep
<1>4. \E s \in {"threw", "dead"} : reply' = Reply(op, a, n, s, NoPayload)
  BY DEF Throw, Die
<1> QED
  BY <1>2, <1>3, <1>4
     DEF Flat!Fail, Flat!Inside, Flat!Reply, Flat!NoPayload, Reply, NoPayload

(* So every step of Memory is one of the flat array or changes nothing. *)
LEMMA NextIsFlat == IInv /\ [Next]_vars => [Flat!Next]_(Flat!vars)
<1> SUFFICES ASSUME IInv, [Next]_vars PROVE [Flat!Next]_(Flat!vars)
  OBVIOUS
<1>1. CASE UNCHANGED vars
  BY <1>1 DEF vars, Flat!vars, FlatBytes
<1>2. CASE \E a \in Address, n \in Width : Read(a, n)
  BY <1>2, ReadIsFlat DEF Flat!Next
<1>3. CASE \E a \in Address, n \in Width : \E d \in Payload(n) : Write(a, n, d)
  <2>1. PICK a \in Address, n \in Width : \E d \in Payload(n) : Write(a, n, d)
    BY <1>3
  <2>2. PICK d \in Payload(n) : Write(a, n, d)
    BY <2>1
  <2>3. Flat!Store(a, n, d) \/ Flat!StoreOutside(a, n, d)
    BY <2>2, WriteIsFlat
  <2>4. d \in Flat!Payload(n)
    BY DEF Payload, Flat!Payload
  <2> QED
    BY <2>3, <2>4 DEF Flat!Next
<1>4. CASE \E a \in Address, n \in Width, op \in {"read", "write"} :
             Throw(op, a, n) \/ Die(op, a, n)
  BY <1>4, FailIsFlat DEF Flat!Next
<1> QED
  BY <1>1, <1>2, <1>3, <1>4 DEF Next

(* Memory implements the flat array: with pages of any size, allocated     *)
(* when touched, accesses that straddle two of them, and a word past the   *)
(* end that may hold anything.                                             *)
THEOREM FlatMemoryImplemented == Spec => ImplementsFlatMemory
<1> QED
  BY InitIsFlat, NextIsFlat, InductiveInvariant, PTL
     DEF Spec, ImplementsFlatMemory, Flat!Spec

-----------------------------------------------------------------------------
(* Past the end. *)

(* The slots an access past the end reaches are those of one more page. *)
LEMMA ThrowsBeyond ==
  ASSUME NEW a \in Nat, NEW n \in Width
  PROVE  Throws(a, n) <=> a + n > MAXMEMORY + PAGESIZE
<1>1. a + n - 1 \in Nat /\ n \in 1 .. PAGESIZE
  BY SizeAssumption
<1>2. First(a) \in Nat /\ Last(a, n) \in Nat
  BY <1>1, PageOfAddress DEF First, Last
<1>3. /\ Ready(First(a)) <=> First(a) <= RANGECOUNT
      /\ Ready(Last(a, n)) <=> Last(a, n) <= RANGECOUNT
  BY <1>2, ReadyPages, SizeAssumption DEF Slot
<1>4. First(a) <= Last(a, n)
  BY <1>1, SizeAssumption DEF First, Last, PageId
<1>5. Throws(a, n) <=> Last(a, n) > RANGECOUNT
  BY <1>2, <1>3, <1>4, SizeAssumption DEF Throws
<1>6. ASSUME NEW c \in Nat
      PROVE  c \div PAGESIZE > RANGECOUNT <=> c >= (RANGECOUNT + 1) * PAGESIZE
  BY SizeAssumption
<1>7. Last(a, n) > RANGECOUNT <=> a + n - 1 >= (RANGECOUNT + 1) * PAGESIZE
  BY <1>1, <1>6 DEF Last, PageId
<1>8. (RANGECOUNT + 1) * PAGESIZE = MAXMEMORY + PAGESIZE /\ MAXMEMORY \in Nat
  BY SizeAssumption DEF MAXMEMORY
<1> QED
  BY <1>1, <1>5, <1>7, <1>8, SizeAssumption

(* A foreign object past the end stays there, ... *)
LEMMA ForeignStays ==
  ASSUME Good(slots), slots[RANGECOUNT] = Foreign, NEW a \in Nat, NEW n \in Width
  PROVE  SlotsAfter(a, n)[RANGECOUNT] = Foreign
<1>1. RANGECOUNT \in Slot
  BY SizeAssumption DEF Slot
<1>2. ASSUME NEW s, Good(s), s[RANGECOUNT] = Foreign, NEW id \in Slot
      PROVE  Good(Prepared(s, id)) /\ Prepared(s, id)[RANGECOUNT] = Foreign
  BY <1>1, <1>2, PreparedKeeps, PointerAssumption
<1>3. First(a) \in Nat /\ Last(a, n) \in Nat
  BY PageOfAddress, SizeAssumption DEF First, Last
<1>4. /\ Ready(First(a)) <=> First(a) \in Slot
      /\ Ready(Last(a, n)) <=> Last(a, n) \in Slot
  BY <1>3, ReadyPages
<1>5. ASSUME First(a) \in Slot
      PROVE  /\ Good(Prepared(slots, First(a)))
             /\ Prepared(slots, First(a))[RANGECOUNT] = Foreign
  BY <1>2, <1>5
<1>6. ASSUME First(a) \in Slot, Last(a, n) \in Slot
      PROVE  Prepared(Prepared(slots, First(a)), Last(a, n))[RANGECOUNT] = Foreign
  BY <1>2, <1>5, <1>6
<1> QED
  BY <1>4, <1>5, <1>6 DEF SlotsAfter

(* ... no access dies of it, ... *)
LEMMA ForeignIsHarmless ==
  ASSUME Good(slots), slots[RANGECOUNT] = Foreign, NEW a \in Nat, NEW n \in Width
  PROVE  ~ Kills(a, n)
<1>1. SUFFICES ASSUME ~ Throws(a, n), NEW k \in 0 .. n - 1
               PROVE  SlotsAfter(a, n)[PageId(a + k)] # Wild
  BY DEF Kills
<1>2. PICK b \in Nat : b = a + k
  BY SizeAssumption
<1>3. PageId(b) \in {First(a), Last(a, n)}
  BY <1>2, SpanInTwoPages
<1>4. PageId(b) \in Slot /\ Good(SlotsAfter(a, n))
  BY <1>1, <1>3, SlotsAfterKeeps
<1>5. SlotsAfter(a, n)[RANGECOUNT] = Foreign
  BY ForeignStays
<1> QED
  BY <1>2, <1>4, <1>5, PointerAssumption DEF Good, InPlace

(* ... and what a read collects from it is zeros. *)
LEMMA ForeignReadsZero ==
  ASSUME Good(slots), slots[RANGECOUNT] = Foreign, NEW a \in Nat, NEW n \in Width,
         ~ Throws(a, n), NEW s, s = SlotsAfter(a, n)
  PROVE  Collected(s, a, n) =
           [k \in 0 .. n - 1 |->
              IF a + k < MAXMEMORY THEN Flattened(slots)[a + k] ELSE 0]
<1>1. ~ Kills(a, n) /\ s[RANGECOUNT] = Foreign
  BY ForeignIsHarmless, ForeignStays
<1>2. ASSUME NEW k \in 0 .. n - 1
      PROVE  Collected(s, a, n)[k] =
               IF a + k < MAXMEMORY THEN Flattened(slots)[a + k] ELSE 0
  <2>1. PICK b \in Nat : b = a + k
    BY SizeAssumption
  <2>2. CASE b < MAXMEMORY
    <3>1. b \in 0 .. MAXMEMORY - 1
      BY <2>2, SizeAssumption DEF MAXMEMORY
    <3> QED
      BY <1>1, <2>1, <2>2, <3>1, CollectedBytes
  <2>3. CASE ~ (b < MAXMEMORY)
    <3>1. PageId(b) \in Slot
      BY <1>1, <2>1, Reached
    <3>2. s[PageId(b)] = Foreign
      BY <1>1, <2>3, <3>1, InsidePages
    <3>3. PageByte(s[PageId(b)], b) = 0
      BY <3>2 DEF PageByte, SafeToRead
    <3> QED
      BY <2>1, <2>3, <3>3 DEF Collected
  <2> QED
    BY <2>1, <2>2, <2>3
<1> QED
  BY <1>2 DEF Collected

(* One operation, with the foreign object past the end. *)
LEMMA StepEndsInZeros ==
  ASSUME IInv, Next, slots[RANGECOUNT] = Foreign,
         NEW a, a = reply'.at, NEW n, n = reply'.size
  PROVE  /\ reply'.status = "threw" <=> a + n > MAXMEMORY + PAGESIZE
         /\ reply'.status # "dead"
         /\ reply'.op = "read" /\ reply'.status # "threw" =>
              reply'.payload =
                [k \in 0 .. n - 1 |->
                   IF a + k < MAXMEMORY THEN FlatBytes[a + k] ELSE 0]
         /\ slots'[RANGECOUNT] = Foreign
<1>1. Good(slots) /\ FlatBytes = Flattened(slots) /\ RANGECOUNT \in Slot
  BY IInvGood, SizeAssumption DEF Slot
<1>2. ASSUME NEW b \in Address, NEW m \in Width
      PROVE  /\ b \in Nat
             /\ Throws(b, m) <=> b + m > MAXMEMORY + PAGESIZE
             /\ ~ Kills(b, m)
             /\ SlotsAfter(b, m)[RANGECOUNT] = Foreign
  BY <1>1, ThrowsBeyond, ForeignIsHarmless, ForeignStays, SizeAssumption
<1>3. CASE \E b \in Address, m \in Width : Read(b, m)
  <2>1. PICK b \in Address, m \in Width : Read(b, m)
    BY <1>3
  <2>2. /\ a = b /\ n = m /\ ~ Throws(b, m) /\ slots' = SlotsAfter(b, m)
        /\ reply'.status \in {"ok", "refused"}
        /\ reply'.payload = Collected(slots', b, m)
    BY <2>1 DEF Read, Reply
  <2>3. Collected(slots', b, m) =
          [k \in 0 .. m - 1 |->
             IF b + k < MAXMEMORY THEN FlatBytes[b + k] ELSE 0]
    BY <1>1, <1>2, <2>2, ForeignReadsZero
  <2> QED
    BY <1>2, <2>2, <2>3
<1>4. CASE \E b \in Address, m \in Width : \E d \in Payload(m) : Write(b, m, d)
  <2>1. PICK b \in Address, m \in Width : \E d \in Payload(m) : Write(b, m, d)
    BY <1>4
  <2>2. PICK d \in Payload(m) : Write(b, m, d)
    BY <2>1
  <2>3. /\ a = b /\ n = m /\ ~ Throws(b, m) /\ ~ Kills(b, m)
        /\ slots' = Written(SlotsAfter(b, m), b, m, d)
        /\ reply'.op = "write" /\ reply'.status \in {"ok", "refused"}
    BY <2>2 DEF Write, Reply
  <2>4. slots'[RANGECOUNT] = Foreign
    BY <1>1, <1>2, <2>3, WrittenSlots
  <2> QED
    BY <1>2, <2>3, <2>4
<1>5. CASE \E b \in Address, m \in Width, op \in {"read", "write"} :
             Throw(op, b, m) \/ Die(op, b, m)
  BY <1>2, <1>5 DEF Throw, Die, Reply
<1> QED
  BY <1>3, <1>4, <1>5 DEF Next

(* What Alu takes memory to be, when the word past the page array is       *)
(* alu::syms: exactly the accesses that end beyond one page past the end   *)
(* throw, and a read that goes past the end finds zeros there.             *)
THEOREM MemoryEndsInZeros == Spec => EndsInZeros
<1>1. IInv /\ [Next]_vars =>
        [LET a == reply'.at
             n == reply'.size
         IN  slots[RANGECOUNT] = Foreign =>
               /\ reply'.status = "threw" <=> a + n > MAXMEMORY + PAGESIZE
               /\ reply'.status # "dead"
               /\ reply'.op = "read" /\ reply'.status # "threw" =>
                    reply'.payload =
                      [k \in 0 .. n - 1 |->
                         IF a + k < MAXMEMORY THEN FlatBytes[a + k] ELSE 0]
               /\ slots'[RANGECOUNT] = Foreign]_vars
  BY StepEndsInZeros
<1> QED
  BY <1>1, InductiveInvariant, PTL DEF Spec, EndsInZeros
=============================================================================
