---------------------------- MODULE Eeprom_proofs ----------------------------
(***************************************************************************)
(* Proofs about Eeprom for every size of pages, chunks, frames and slots,  *)
(* any number of slots and of polls.                                       *)
(***************************************************************************)
EXTENDS Eeprom, TLAPS

(***************************************************************************)
(* The inductive invariant.  A WRITE that the chip is busy with, of this   *)
(* call or an earlier one, is of a chunk of the frame in its place.        *)
(***************************************************************************)
ChunkOf(first, n) == [i \in 0 .. n - 1 |-> Frame[first + i]]

WriteOf(w) ==
  \E j \in 0 .. Length, n \in 1 .. Chunk :
    /\ j * Chunk + n <= Length
    /\ w = [at |-> Slot + j * Chunk, data |-> ChunkOf(j * Chunk, n)]

WriteInv == writing # NoWrite => WriteOf(writing)

Saves == pc \in {"write", "verify"}
Reads == pc \in {"read", "again"}

\* Where in its frame the driver is.
SavePlace ==
  /\ job = "save" /\ left \in 1 .. Length
  /\ \E j \in 0 .. Length : Length - left = j * Chunk
  /\ address = Slot + (Length - left)
SearchPlace == job = "search" /\ left = 1 /\ address = index * Slot
FetchPlace ==
  /\ job = "fetch" /\ left \in 1 .. Length
  /\ address = index * Slot + (Length - left)

PlaceInv ==
  /\ Saves => SavePlace
  /\ Reads => SearchPlace \/ FetchPlace

\* What has been verified is in the chip, and what has been written is or will be.
SaveInv ==
  /\ Saves /\ timely =>
       \A i \in 0 .. Length - left - 1 : mem[Slot + i] = Frame[i]
  /\ pc = "verify" /\ timely =>
       /\ Busy => writing = [at |-> address, data |-> ThisChunk]
       /\ ~Busy => \A i \in 0 .. uiTmp - 1 : mem[address + i] = ThisChunk[i]

\* What has been read is what the chip holds: it is not writing any more.
ReadInv ==
  timely =>
    /\ pc = "again" =>
         ~Busy /\ \A i \in 0 .. uiTmp - 1 : FirstRead[i] = mem[address + i]
    /\ pc = "found" => ~Busy /\ mem[index * Slot] = asked
    /\ Reads /\ job = "fetch" =>
         /\ ~Busy /\ mem[index * Slot] = asked
         /\ \A i \in 0 .. Length - left - 1 :
              buffer_frezze[i] = mem[index * Slot + i]

IInv == TypeOK /\ WriteInv /\ PlaceInv /\ SaveInv /\ ReadInv
-----------------------------------------------------------------------------
LEMMA Geometry ==
  /\ Page \in Nat \ {0} /\ Chunk \in Nat \ {0} /\ Slot \in Nat \ {0}
  /\ Length \in Nat \ {0} /\ Slots \in Nat \ {0} /\ Polls \in Nat \ {0}
  /\ Page % Chunk = 0 /\ Slot % Page = 0 /\ Length < Slot
  /\ indexEEprom * Slot = Slot
  BY GeometryAssumption DEF indexEEprom

LEMMA Multiple ==
  ASSUME NEW a \in Nat \ {0}, NEW b \in Nat \ {0}, b % a = 0
  PROVE  \E m \in Nat : b = m * a
<1>1. b \div a \in Nat /\ b = a * (b \div a) + (b % a)
  OBVIOUS
<1>2. b = (b \div a) * a
  BY <1>1
<1> QED BY <1>1, <1>2

LEMMA MulMono ==
  ASSUME NEW a \in Nat, NEW b \in Nat, NEW k \in Nat, a < b
  PROVE  a * k + k <= b * k
<1>1. PICK d \in Nat : b = a + 1 + d
  <2>1. b - a - 1 \in Nat /\ b = a + 1 + (b - a - 1)
    OBVIOUS
  <2> QED BY <2>1
<1>2. b * k = a * k + k + d * k /\ d * k \in Nat
  BY <1>1
<1>3. a * k \in Nat /\ b * k \in Nat
  OBVIOUS
<1> QED BY <1>2, <1>3

\* A chunk that begins at a multiple of its size does not leave its page.
LEMMA InPage ==
  ASSUME NEW k \in Nat, NEW i \in 0 .. Chunk - 1
  PROVE  Cell(k * Chunk, i) = k * Chunk + i
<1> DEFINE a == k * Chunk
           q == a \div Page
           r == a % Page
<1>1. PICK m \in Nat : Page = m * Chunk
  BY Geometry, Multiple
<1>2. Chunk \in Nat /\ Chunk > 0 /\ Page \in Nat /\ Page > 0 /\ i \in Nat
  BY Geometry
<1>3. a \in Nat
  BY <1>2
<1>4. q \in Nat /\ r \in Nat /\ r < Page /\ a = Page * q + r
  <2> HIDE DEF a
  <2> QED BY <1>2, <1>3
<1>5. q * m \in Nat /\ Page * q = (q * m) * Chunk
  BY <1>1, <1>2, <1>4
<1>6. r + Chunk <= Page
  <2> HIDE DEF q, r
  <2>1. q * m <= k
    <3> SUFFICES ASSUME k < q * m PROVE FALSE
      BY <1>5
    <3>1. k * Chunk + Chunk <= (q * m) * Chunk
      BY <1>2, <1>5, MulMono
    <3>2. a + Chunk <= Page * q /\ Page * q \in Nat
      BY <1>2, <1>4, <1>5, <3>1
    <3> QED BY <1>2, <1>3, <1>4, <3>2
  <2> DEFINE d == k - q * m
  <2>2. d \in Nat /\ k = q * m + d
    BY <1>5, <2>1
  <2> HIDE DEF d
  <2>3. k * Chunk = (q * m) * Chunk + d * Chunk /\ d * Chunk \in Nat
    BY <1>2, <1>5, <2>2
  <2>4. r = d * Chunk
    BY <1>2, <1>3, <1>4, <1>5, <2>3
  <2>5. d < m
    <3> SUFFICES ASSUME m <= d PROVE FALSE
      BY <2>2
    <3>1. m * Chunk <= d * Chunk
      <4>1. CASE m = d
        BY <2>3, <4>1
      <4>2. CASE m < d
        <5>1. m * Chunk + Chunk <= d * Chunk
          BY <1>2, <2>2, <4>2, MulMono
        <5> QED BY <1>1, <1>2, <2>3, <5>1
      <4> QED BY <1>1, <2>2, <4>1, <4>2
    <3> QED BY <1>1, <1>4, <2>3, <2>4, <3>1
  <2>6. d * Chunk + Chunk <= m * Chunk
    BY <1>2, <2>2, <2>5, MulMono
  <2> QED BY <1>1, <2>4, <2>6
<1>7. (a + i) % Page = r + i
  <2> DEFINE x == a + i
             u == x \div Page
             v == x % Page
  <2>1. x \in Nat /\ x = Page * q + (r + i) /\ r + i \in Nat /\ r + i < Page
    <3> HIDE DEF a, q, r
    <3> QED BY <1>2, <1>3, <1>4, <1>6
  <2> HIDE DEF x
  <2>2. u \in Nat /\ v \in Nat /\ v < Page /\ x = Page * u + v
    BY <1>2, <2>1
  <2> HIDE DEF u, v, q, r, a
  <2>3. Page * u = u * Page /\ Page * q = q * Page
          /\ u * Page \in Nat /\ q * Page \in Nat
    BY <1>2, <1>4, <2>2
  <2>4. ~(u < q)
    <3>1. u < q => u * Page + Page <= q * Page
      BY <1>2, <1>4, <2>2, MulMono
    <3> QED BY <1>2, <2>1, <2>2, <2>3, <3>1
  <2>5. ~(q < u)
    <3>1. q < u => q * Page + Page <= u * Page
      BY <1>2, <1>4, <2>2, MulMono
    <3> QED BY <1>2, <2>1, <2>2, <2>3, <3>1
  <2>6. u = q
    BY <1>4, <2>2, <2>4, <2>5
  <2>7. v = r + i
    BY <2>1, <2>2, <2>3, <2>6
  <2> QED BY <2>7 DEF v, x
<1>8. q * Page + (r + i) = a + i
  <2> HIDE DEF a, q, r
  <2>1. Page * q = q * Page
    BY <1>2, <1>4
  <2> QED BY <1>2, <1>3, <1>4, <2>1
<1> QED BY <1>7, <1>8 DEF Cell

LEMMA NoWrap ==
  ASSUME NEW j \in Nat, NEW i \in 0 .. Chunk - 1
  PROVE  Cell(Slot + j * Chunk, i) = Slot + j * Chunk + i
<1>1. PICK m \in Nat : Page = m * Chunk
  BY Geometry, Multiple
<1>2. PICK s \in Nat : Slot = s * Page
  BY Geometry, Multiple
<1>3. Slot = (s * m) * Chunk /\ s * m \in Nat
  BY <1>1, <1>2, Geometry
<1> DEFINE k == s * m + j
<1>4. k \in Nat /\ Slot + j * Chunk = k * Chunk
  BY <1>3, Geometry
<1> HIDE DEF k
<1> QED BY <1>4, InPage

\* The cells of a slot.
LEMMA SlotCells ==
  ASSUME NEW s \in 1 .. Slots, NEW i \in 0 .. Slot - 1
  PROVE  s * Slot \in Nat /\ s * Slot + i \in Cells
<1>1. s \in Nat /\ Slots + 1 \in Nat /\ s < Slots + 1 /\ Slot \in Nat /\ i \in Nat
  BY Geometry
<1>2. s * Slot + Slot <= (Slots + 1) * Slot
  BY <1>1, MulMono
<1>3. s * Slot \in Nat /\ (Slots + 1) * Slot \in Nat
  BY <1>1
<1> HIDE DEF Cells
<1> QED BY <1>1, <1>2, <1>3 DEF Cells

-----------------------------------------------------------------------------
\* A WRITE of a chunk changes cells of its frame, to what the frame has there.
FrameCells == Slot .. Slot + Length - 1

LEMMA FrameInSlot ==
  ASSUME NEW c \in FrameCells
  PROVE  c \in Cells /\ c - Slot \in 0 .. Length - 1 /\ Frame[c - Slot] \in Byte
<1>1. c - Slot \in 0 .. Length - 1 /\ c - Slot \in 0 .. Slot - 1
        /\ c = 1 * Slot + (c - Slot) /\ 1 \in 1 .. Slots
  BY Geometry DEF FrameCells
<1>2. c \in Cells
  BY <1>1, SlotCells
<1>3. Frame[c - Slot] = (c - Slot) + 1
  BY <1>1 DEF Frame
<1>4. (c - Slot) + 1 \in Byte
  BY <1>1, Geometry DEF Byte
<1> QED BY <1>1, <1>2, <1>3, <1>4

LEMMA WrittenIs ==
  ASSUME NEW j \in 0 .. Length, NEW n \in 1 .. Chunk, j * Chunk + n <= Length,
         NEW w, w = [at |-> Slot + j * Chunk, data |-> ChunkOf(j * Chunk, n)]
  PROVE  /\ DOMAIN Written(w) = {Slot + j * Chunk + i : i \in 0 .. n - 1}
         /\ DOMAIN Written(w) \subseteq FrameCells
         /\ \A i \in 0 .. n - 1 :
              Written(w)[Slot + j * Chunk + i] = Frame[j * Chunk + i]
<1> DEFINE first == j * Chunk
           a == Slot + first
<1>1. /\ first \in Nat /\ a \in Nat /\ n \in Nat /\ Length \in Nat
      /\ Slot \in Nat /\ first + n <= Length
  BY Geometry
<1>2. \A i \in 0 .. n - 1 : Cell(a, i) = a + i
  <2>1. \A i \in 0 .. n - 1 : i \in 0 .. Chunk - 1
    BY Geometry
  <2> QED BY <2>1, NoWrap
<1> HIDE DEF first
<1>3. w.at = a /\ w.data = ChunkOf(first, n)
  BY DEF first
<1>4. DOMAIN w.data = 0 .. n - 1 /\ \A i \in 0 .. n - 1 : w.data[i] = Frame[first + i]
  BY <1>3 DEF ChunkOf
<1>5. {Cell(w.at, i) : i \in DOMAIN w.data} = {a + i : i \in 0 .. n - 1}
  BY <1>2, <1>3, <1>4
<1>6. DOMAIN Written(w) = {a + i : i \in 0 .. n - 1}
  BY <1>5 DEF Written
<1>7. DOMAIN Written(w) \subseteq FrameCells
  BY <1>1, <1>6 DEF FrameCells
<1>8. ASSUME NEW i \in 0 .. n - 1 PROVE Written(w)[a + i] = Frame[first + i]
  <2>1. a + i \in DOMAIN Written(w)
    BY <1>6
  <2>2. Written(w)[a + i] =
          w.data[CHOOSE k \in DOMAIN w.data : a + i = Cell(w.at, k)]
    BY <1>5, <2>1 DEF Written
  <2> DEFINE k == CHOOSE k \in DOMAIN w.data : a + i = Cell(w.at, k)
  <2>3. \E x \in DOMAIN w.data : a + i = Cell(w.at, x)
    BY <1>2, <1>3, <1>4
  <2>4. k \in DOMAIN w.data /\ a + i = Cell(w.at, k)
    BY <2>3
  <2> HIDE DEF k
  <2>5. k \in 0 .. n - 1 /\ a + i = a + k
    BY <1>2, <1>3, <1>4, <2>4
  <2>6. k = i
    BY <1>1, <2>5
  <2> QED BY <1>4, <2>2, <2>6 DEF k
<1> QED BY <1>6, <1>7, <1>8 DEF first

\* What the chip does at once, or as far as the power lasts.
LEMMA MemWritten ==
  ASSUME TypeOK, WriteInv, Busy,
         NEW D \in SUBSET DOMAIN Written(writing),
         mem' = [c \in Cells |-> IF c \in D THEN Written(writing)[c] ELSE mem[c]]
  PROVE  /\ mem' \in [Cells -> Byte]
         /\ \A c \in Cells :
              \/ mem'[c] = mem[c]
              \/ c \in FrameCells /\ mem'[c] = Frame[c - Slot]
<1>1. PICK j \in 0 .. Length, n \in 1 .. Chunk :
        /\ j * Chunk + n <= Length
        /\ writing = [at |-> Slot + j * Chunk, data |-> ChunkOf(j * Chunk, n)]
  BY DEF WriteInv, WriteOf, Busy
<1> DEFINE first == j * Chunk
<1>2. /\ DOMAIN Written(writing) = {Slot + first + i : i \in 0 .. n - 1}
      /\ DOMAIN Written(writing) \subseteq FrameCells
      /\ \A i \in 0 .. n - 1 : Written(writing)[Slot + first + i] = Frame[first + i]
  BY <1>1, WrittenIs
<1>3. first \in Nat /\ Slot \in Nat
  BY Geometry
<1> HIDE DEF first
<1>4. ASSUME NEW c \in D
      PROVE  c \in FrameCells /\ Written(writing)[c] = Frame[c - Slot]
               /\ Frame[c - Slot] \in Byte
  <2>1. PICK i \in 0 .. n - 1 : c = Slot + first + i
    BY <1>2
  <2>2. c - Slot = first + i
    BY <1>3, <2>1
  <2> QED BY <1>2, <2>1, <2>2, FrameInSlot
<1>5. mem' \in [Cells -> Byte]
  <2>1. \A c \in Cells : (IF c \in D THEN Written(writing)[c] ELSE mem[c]) \in Byte
    BY <1>4 DEF TypeOK
  <2> QED BY <2>1
<1> QED BY <1>4, <1>5

\* Cells that hold their part of the frame go on doing so.
LEMMA FrameStays ==
  ASSUME mem \in [Cells -> Byte],
         \A c \in Cells : \/ mem'[c] = mem[c]
                          \/ c \in FrameCells /\ mem'[c] = Frame[c - Slot],
         NEW i \in 0 .. Length - 1, mem[Slot + i] = Frame[i]
  PROVE  mem'[Slot + i] = Frame[i]
<1>1. Slot + i \in FrameCells /\ (Slot + i) - Slot = i
  BY Geometry DEF FrameCells
<1> QED BY <1>1, FrameInSlot

\* Chunks.
LEMMA ChunkFacts ==
  ASSUME left \in 1 .. Length
  PROVE  /\ uiTmp \in 1 .. Chunk /\ uiTmp \in 1 .. left
         /\ left - uiTmp \in 0 .. Length
         /\ left # uiTmp => uiTmp = Chunk
  BY Geometry DEF uiTmp, Least

-----------------------------------------------------------------------------
\* Contents of the two kinds of slots.
LEMMA Frames ==
  /\ NoFrame \in [0 .. Length - 1 -> Byte]
  /\ Frame \in [0 .. Length - 1 -> Byte]
  /\ OtherFrame \in [0 .. Length - 1 -> Byte]
  /\ Label \in Byte /\ OtherLabel \in Byte /\ Blank \in Byte
<1>1. /\ \A i \in 0 .. Length - 1 : i + 1 \in Byte
      /\ Blank \in Byte /\ OtherLabel \in Byte /\ 0 \in 0 .. Length - 1
  BY Geometry DEF Byte, Blank, OtherLabel
<1>2. Frame \in [0 .. Length - 1 -> Byte] /\ NoFrame \in [0 .. Length - 1 -> Byte]
  BY <1>1 DEF Frame, NoFrame
<1>3. Label \in Byte
  BY <1>1, <1>2 DEF Label
<1> QED BY <1>1, <1>2, <1>3 DEF OtherFrame

LEMMA InitInv == Init => IInv
<1> SUFFICES ASSUME Init PROVE IInv
  OBVIOUS
<1>1. PICK held \in [1 .. Slots -> {NoFrame, Frame, OtherFrame}] :
        mem = [c \in Cells |->
                 IF c \div Slot \in 1 .. Slots /\ c % Slot < Length
                 THEN held[c \div Slot][c % Slot] ELSE Blank]
  BY DEF Init
<1>2. mem \in [Cells -> Byte]
  <2>1. ASSUME NEW c \in Cells, c \div Slot \in 1 .. Slots, c % Slot < Length
        PROVE  held[c \div Slot][c % Slot] \in Byte
    <3>1. c \in Nat /\ Slot \in Nat /\ Slot > 0 /\ Length \in Nat
      BY Geometry DEF Cells
    <3>2. c % Slot \in Nat
      BY <3>1
    <3>3. c % Slot \in 0 .. Length - 1
      BY <2>1, <3>1, <3>2
    <3>4. held[c \div Slot] \in [0 .. Length - 1 -> Byte]
      BY <2>1, Frames
    <3> QED BY <3>3, <3>4
  <2> QED BY <1>1, <2>1, Frames
<1>3. 0 \in Cells
  <2>1. 1 \in 1 .. Slots /\ 0 \in 0 .. Slot - 1
    BY Geometry
  <2>2. 1 * Slot + 0 \in Cells
    BY <2>1, SlotCells
  <2> QED BY <2>2, Geometry DEF Cells
<1>4. 0 \in 0 .. Length /\ 0 \in 0 .. Polls /\ 1 \in 1 .. Slots
  BY Geometry
<1>5. TypeOK
  BY <1>2, <1>3, <1>4, Frames DEF Init, TypeOK
<1> QED BY <1>5 DEF Init, IInv, WriteInv, PlaceInv, Saves, Reads, SaveInv, ReadInv

LEMMA PollInv == ASSUME IInv, Poll PROVE IInv'
<1>1. TypeOK'
  <2>1. polls' \in 0 .. Polls
    BY Geometry DEF IInv, TypeOK, Poll
  <2> QED BY <2>1 DEF IInv, TypeOK, Poll, reader
<1>2. UNCHANGED <<mem, writing, pc, job, address, left, attempt, reader, Buf, timely>>
  BY DEF Poll
<1> QED BY <1>1, <1>2
        DEF IInv, reader, WriteInv, WriteOf, PlaceInv, Saves, Reads, SavePlace,
            SearchPlace, FetchPlace, SaveInv, ReadInv, Busy, ThisChunk, uiTmp,
            FirstRead

LEMMA ChipWritesInv == ASSUME IInv, ChipWrites PROVE IInv'
<1>1. UNCHANGED <<pc, job, address, left, attempt, polls, index, asked, tempBuff,
                  buffer_frezze, answer, Buf, timely>>
        /\ writing' = NoWrite /\ Busy /\ ~Busy'
  BY DEF ChipWrites, driver, reader, Busy
<1>2. /\ mem' \in [Cells -> Byte]
      /\ \A c \in Cells : \/ mem'[c] = mem[c]
                          \/ c \in FrameCells /\ mem'[c] = Frame[c - Slot]
  <2>1. mem' = [c \in Cells |-> IF c \in DOMAIN Written(writing)
                                THEN Written(writing)[c] ELSE mem[c]]
    BY DEF ChipWrites
  <2> QED BY <1>1, <2>1, MemWritten DEF IInv
<1>3. TypeOK'
  BY <1>1, <1>2 DEF IInv, TypeOK
<1>4. WriteInv' /\ PlaceInv'
  BY <1>1 DEF IInv, WriteInv, PlaceInv, Saves, Reads, SavePlace,
              SearchPlace, FetchPlace
<1>5. SaveInv'
  <2>1. ASSUME Saves, timely, NEW i \in 0 .. Length - left - 1
        PROVE  mem'[Slot + i] = Frame[i]
    <3>1. left \in 1 .. Length
      BY <2>1 DEF IInv, PlaceInv, SavePlace
    <3>2. i \in 0 .. Length - 1
      BY <3>1, Geometry
    <3> QED BY <1>2, <2>1, <3>2, FrameStays DEF IInv, SaveInv, TypeOK
  <2>2. ASSUME pc = "verify", timely, NEW i \in 0 .. uiTmp - 1
        PROVE  mem'[address + i] = ThisChunk[i]
    <3>1. SavePlace
      BY <2>2 DEF IInv, PlaceInv, Saves
    <3>2. PICK j \in 0 .. Length : Length - left = j * Chunk
      BY <3>1 DEF SavePlace
    <3>3. address = Slot + j * Chunk
      BY <3>1, <3>2 DEF SavePlace
    <3>4. writing = [at |-> address, data |-> ThisChunk]
      BY <1>1, <2>2 DEF IInv, SaveInv
    <3>5. ThisChunk = ChunkOf(j * Chunk, uiTmp)
      BY <3>2 DEF ThisChunk, ChunkOf
    <3>6. uiTmp \in 1 .. Chunk /\ j * Chunk + uiTmp <= Length
      BY <3>1, <3>2, ChunkFacts, Geometry DEF SavePlace
    <3>7. /\ address + i \in DOMAIN Written(writing)
          /\ Written(writing)[address + i] = Frame[j * Chunk + i]
          /\ DOMAIN Written(writing) \subseteq FrameCells
      <4>1. writing = [at |-> Slot + j * Chunk,
                       data |-> ChunkOf(j * Chunk, uiTmp)]
        BY <3>3, <3>4, <3>5
      <4> DEFINE n == uiTmp
      <4>2. n \in 1 .. Chunk /\ j * Chunk + n <= Length /\ i \in 0 .. n - 1
              /\ writing = [at |-> Slot + j * Chunk, data |-> ChunkOf(j * Chunk, n)]
        BY <3>6, <4>1
      <4> HIDE DEF n
      <4>3. /\ DOMAIN Written(writing) = {Slot + j * Chunk + k : k \in 0 .. n - 1}
            /\ DOMAIN Written(writing) \subseteq FrameCells
            /\ \A k \in 0 .. n - 1 :
                 Written(writing)[Slot + j * Chunk + k] = Frame[j * Chunk + k]
        BY <4>2, WrittenIs
      <4> QED BY <3>3, <4>2, <4>3
    <3>8. address + i \in Cells
      BY <3>7, FrameInSlot
    <3> QED BY <3>5, <3>7, <3>8 DEF ChipWrites, ChunkOf
  <2> QED BY <1>1, <2>1, <2>2 DEF SaveInv, Saves, ThisChunk, uiTmp
<1>6. ReadInv'
  BY <1>1 DEF IInv, ReadInv, Reads
<1> QED BY <1>3, <1>4, <1>5, <1>6 DEF IInv

-----------------------------------------------------------------------------
LEMMA StackTypes ==
  ASSUME TypeOK, Uninitialised(Buf)
  PROVE  Buf' \in [0 .. Chunk - 1 -> Byte]
  BY Frames DEF TypeOK, Uninitialised

LEMMA SaveInvStart == ASSUME IInv, eepromSaveFrame PROVE IInv'
<1>1. /\ job' = "save" /\ address' = Slot /\ left' = Length /\ pc' = "write"
      /\ attempt' = 0 /\ polls' = 0 /\ timely' = TRUE
      /\ UNCHANGED <<mem, writing, index, asked, tempBuff, buffer_frezze, answer>>
  BY Geometry DEF eepromSaveFrame, reader
<1>2. Slot \in Cells
  <2>1. 1 \in 1 .. Slots /\ 0 \in 0 .. Slot - 1 /\ 1 * Slot + 0 = Slot
    BY Geometry
  <2> QED BY <2>1, SlotCells
<1>3. TypeOK'
  <2>1. Length \in 0 .. Length /\ 0 \in 0 .. Polls
    BY Geometry
  <2>2. Buf' \in [0 .. Chunk - 1 -> Byte]
    BY StackTypes DEF IInv, eepromSaveFrame
  <2>3. TypeOK
    BY DEF IInv
  <2> QED BY <1>1, <1>2, <2>1, <2>2, <2>3 DEF TypeOK, Waits
<1>4. SavePlace'
  <2>1. Length \in 1 .. Length /\ Length - Length = 0 * Chunk /\ 0 \in 0 .. Length
          /\ Slot = Slot + (Length - Length)
    BY Geometry
  <2> QED BY <1>1, <2>1 DEF SavePlace
<1>5. WriteInv'
  BY <1>1 DEF IInv, WriteInv, WriteOf
<1>6. SaveInv'
  <2>1. 0 .. Length - left' - 1 = {}
    BY <1>1, Geometry
  <2> QED BY <1>1, <2>1 DEF SaveInv
<1> QED BY <1>1, <1>3, <1>4, <1>5, <1>6 DEF IInv, PlaceInv, Reads, ReadInv

LEMMA WriteChunkInv == ASSUME IInv, WriteChunk PROVE IInv'
<1>1. /\ pc = "write" /\ pc' = "verify" /\ polls' = 0
      /\ UNCHANGED <<mem, job, address, left, attempt, index, asked, tempBuff,
                     buffer_frezze, answer, Buf>>
  BY DEF WriteChunk, reader
<1>2. SavePlace /\ left \in 1 .. Length
  BY <1>1 DEF IInv, PlaceInv, Saves, SavePlace
<1>3. PICK j \in 0 .. Length : Length - left = j * Chunk
  BY <1>2 DEF SavePlace
<1>4. TypeOK'
  <2>1. timely' \in BOOLEAN
    BY DEF WriteChunk, IInv, TypeOK
  <2>2. TypeOK /\ 0 \in 0 .. Polls
    BY Geometry DEF IInv
  <2> QED BY <1>1, <2>1, <2>2 DEF TypeOK, Waits
<1>5. \/ ~Busy /\ writing' = [at |-> address, data |-> ThisChunk]
      \/ timely' = FALSE /\ writing' = writing
  BY DEF WriteChunk, GiveWrite, Ready
<1>6. WriteOf([at |-> address, data |-> ThisChunk])
  <2>1. address = Slot + j * Chunk /\ ThisChunk = ChunkOf(j * Chunk, uiTmp)
    BY <1>2, <1>3 DEF SavePlace, ThisChunk, ChunkOf
  <2>2. uiTmp \in 1 .. Chunk /\ j * Chunk + uiTmp <= Length
    BY <1>2, <1>3, ChunkFacts, Geometry
  <2> QED BY <2>1, <2>2 DEF WriteOf
<1>7. WriteInv'
  BY <1>5, <1>6 DEF IInv, WriteInv, WriteOf
<1>8. PlaceInv'
  BY <1>1, <1>2 DEF PlaceInv, Saves, Reads, SavePlace
<1>9. SaveInv'
  <2>1. address # 0
    BY <1>2, Geometry DEF SavePlace
  <2>2. [at |-> address, data |-> ThisChunk] # NoWrite
    BY <2>1 DEF NoWrite
  <2>3. timely' =>
          Busy' /\ writing' = [at |-> address', data |-> ThisChunk']
    BY <1>1, <1>5, <2>2 DEF Busy, ThisChunk, uiTmp
  <2>4. timely' => timely
    BY DEF WriteChunk, IInv, TypeOK
  <2>5. timely => \A i \in 0 .. Length - left - 1 : mem[Slot + i] = Frame[i]
    BY <1>1 DEF IInv, SaveInv, Saves
  <2> QED BY <1>1, <2>3, <2>4, <2>5 DEF SaveInv
<1>10. ReadInv'
  BY <1>1 DEF ReadInv, Reads
<1> QED BY <1>4, <1>7, <1>8, <1>9, <1>10 DEF IInv

\* m25lc512ReadAddress() into Buf: unless the wait has run out, what the chip holds.
LEMMA BufRead ==
  ASSUME TypeOK, ReadIntoBuf, left \in 1 .. Length,
         \A i \in 0 .. uiTmp - 1 : address + i \in Cells
  PROVE  /\ Buf' \in [0 .. Chunk - 1 -> Byte]
         /\ timely' \in BOOLEAN
         /\ timely' => timely /\ ~Busy /\
              \A i \in 0 .. uiTmp - 1 : Buf'[i] = mem[address + i]
<1> DEFINE n == uiTmp
           got == ReadCells(address, n)
<1>1. n \in 1 .. Chunk /\ Chunk \in Nat
  BY ChunkFacts, Geometry
<1>2. \A i \in 0 .. n - 1 :
        /\ got[i] \in Byte
        /\ ~Busy => got[i] = mem[address + i]
  BY Frames DEF ReadCells, TypeOK
<1>3. CASE TimedOut /\ timely' = FALSE /\ UNCHANGED Buf
  BY <1>3 DEF TypeOK
<1>4. CASE /\ Ready /\ UNCHANGED timely
           /\ Buf' = [i \in DOMAIN Buf |-> IF i < n THEN got[i] ELSE Buf[i]]
  <2> HIDE DEF n, got
  <2>1. DOMAIN Buf = 0 .. Chunk - 1 /\ \A i \in 0 .. Chunk - 1 : Buf[i] \in Byte
    BY DEF TypeOK
  <2>2. \A i \in 0 .. Chunk - 1 : i < n => i \in 0 .. n - 1
    BY <1>1
  <2>3. Buf' \in [0 .. Chunk - 1 -> Byte]
    BY <1>2, <1>4, <2>1, <2>2
  <2>4. \A i \in 0 .. n - 1 : i \in 0 .. Chunk - 1 /\ i < n
    BY <1>1
  <2>5. ~Busy => \A i \in 0 .. n - 1 : Buf'[i] = mem[address + i]
    BY <1>2, <1>4, <2>1, <2>4
  <2> QED BY <1>4, <2>3, <2>5 DEF Ready, TypeOK, n
<1> QED BY <1>3, <1>4 DEF ReadIntoBuf

LEMMA NoLess ==
  ASSUME NEW a \in Nat, NEW b \in Nat \ {0} PROVE a <= a * b
<1>1. PICK d \in Nat : b = 1 + d
  <2>1. b - 1 \in Nat /\ b = 1 + (b - 1)
    OBVIOUS
  <2> QED BY <2>1
<1>2. a * b = a + a * d /\ a * d \in Nat
  BY <1>1
<1> QED BY <1>2

\* A chunk read back in time is the one written, so it needs no further attempt.
LEMMA Verified ==
  ASSUME IInv, VerifyChunk
  PROVE  /\ SavePlace
         /\ \A i \in 0 .. uiTmp - 1 : address + i \in Cells
         /\ timely' => timely /\ Same(ThisChunk) /\
              \A i \in 0 .. Length - left + uiTmp - 1 : mem[Slot + i] = Frame[i]
<1>1. SavePlace /\ left \in 1 .. Length /\ pc = "verify"
  BY DEF VerifyChunk, IInv, PlaceInv, Saves, SavePlace
<1>2. uiTmp \in 1 .. Chunk /\ uiTmp \in 1 .. left /\ address = Slot + (Length - left)
  BY <1>1, ChunkFacts DEF SavePlace
<1>3. ASSUME NEW i \in 0 .. uiTmp - 1 PROVE address + i \in Cells
  <2>1. address + i \in FrameCells
    BY <1>1, <1>2, Geometry DEF FrameCells
  <2> QED BY <2>1, FrameInSlot
<1>4. ASSUME timely'
      PROVE  timely /\ Same(ThisChunk) /\
             \A i \in 0 .. Length - left + uiTmp - 1 : mem[Slot + i] = Frame[i]
  <2>1. timely /\ ~Busy /\ \A i \in 0 .. uiTmp - 1 : Buf'[i] = mem[address + i]
    BY <1>1, <1>3, <1>4, BufRead DEF IInv, VerifyChunk
  <2>2. \A i \in 0 .. uiTmp - 1 : mem[address + i] = ThisChunk[i]
    BY <1>1, <2>1 DEF IInv, SaveInv
  <2>3. \A i \in 0 .. uiTmp - 1 : ThisChunk[i] = Frame[(Length - left) + i]
    BY DEF ThisChunk
  <2>4. ASSUME NEW i \in 0 .. Length - left + uiTmp - 1
        PROVE  mem[Slot + i] = Frame[i]
    <3>1. CASE i \in 0 .. Length - left - 1
      BY <1>1, <2>1, <3>1 DEF IInv, SaveInv, Saves
    <3>2. CASE i \notin 0 .. Length - left - 1
      <4> DEFINE k == i - (Length - left)
      <4>1. k \in 0 .. uiTmp - 1 /\ Slot + i = address + k /\ i = (Length - left) + k
        BY <1>1, <1>2, <3>2, Geometry
      <4> HIDE DEF k
      <4> QED BY <2>2, <2>3, <4>1
    <3> QED BY <3>1, <3>2
  <2> QED BY <2>1, <2>2, <2>4 DEF Same
<1> QED BY <1>1, <1>3, <1>4

LEMMA VerifyChunkInv == ASSUME IInv, VerifyChunk PROVE IInv'
<1>1. /\ pc = "verify" /\ polls' = 0 /\ pc' \in {"idle", "write"}
      /\ UNCHANGED <<mem, writing, job, index, asked, tempBuff, buffer_frezze,
                     answer>>
  BY DEF VerifyChunk, reader
<1>2. SavePlace /\ left \in 1 .. Length /\ address = Slot + (Length - left)
        /\ left \in Nat
  BY Verified, Geometry DEF SavePlace
<1>3. PICK j \in 0 .. Length : Length - left = j * Chunk
  BY <1>2 DEF SavePlace
<1>4. /\ uiTmp \in 1 .. Chunk /\ uiTmp \in 1 .. left
      /\ left - uiTmp \in 0 .. Length
      /\ left # uiTmp => uiTmp = Chunk
  BY <1>2, ChunkFacts
<1>5. Buf' \in [0 .. Chunk - 1 -> Byte] /\ timely' \in BOOLEAN
  BY <1>2, Verified, BufRead DEF IInv, VerifyChunk
<1>6. TypeOK /\ 0 \in 0 .. Polls
  BY Geometry DEF IInv
<1>7. CASE Same(ThisChunk) /\ NextChunk /\ pc' = IF left' = 0 THEN "idle" ELSE "write"
  <2>1. /\ address' = Slot + (Length - left') /\ left' = left - uiTmp
        /\ left' \in 0 .. Length
    BY <1>2, <1>4, <1>7, Geometry DEF NextChunk
  <2>2. address' \in Cells
    <3>1. Length - left' \in 0 .. Slot - 1 /\ 1 \in 1 .. Slots /\ 1 * Slot = Slot
      BY <2>1, Geometry
    <3> QED BY <2>1, <3>1, SlotCells
  <2>3. attempt' = 0
    BY <1>7 DEF NextChunk
  <2>4. TypeOK'
    BY <1>1, <1>5, <1>6, <2>1, <2>2, <2>3 DEF TypeOK, Waits
  <2>5. pc' = "write" => SavePlace'
    <3> SUFFICES ASSUME pc' = "write" PROVE SavePlace'
      OBVIOUS
    <3>1. left' # 0 /\ uiTmp = Chunk
      BY <1>2, <1>4, <1>7, <2>1
    <3>2. Length - left' = (j + 1) * Chunk
      BY <1>2, <1>3, <2>1, <3>1, Geometry
    <3>3. j + 1 <= (j + 1) * Chunk
      BY NoLess, Geometry
    <3>4. j + 1 \in 0 .. Length
      BY <2>1, <3>2, <3>3, Geometry
    <3>5. left' \in 1 .. Length
      BY <2>1, <3>1
    <3> QED BY <1>1, <1>2, <2>1, <3>2, <3>4, <3>5 DEF SavePlace
  <2>6. SaveInv'
    <3>1. Length - left' - 1 = Length - left + uiTmp - 1
      BY <1>2, <1>4, <2>1, Geometry
    <3> QED BY <1>1, <3>1, Verified DEF SaveInv, Saves
  <2> QED BY <1>1, <2>4, <2>5, <2>6
          DEF IInv, WriteInv, WriteOf, PlaceInv, Saves, Reads, ReadInv
<1>8. CASE ~Same(ThisChunk) /\ UNCHANGED <<address, left>> /\ attempt' \in 0 .. 2
  <2>1. TypeOK'
    BY <1>1, <1>5, <1>6, <1>8 DEF TypeOK, Waits
  <2>2. SavePlace'
    BY <1>1, <1>2, <1>8 DEF SavePlace
  <2>3. ~timely'
    BY <1>8, Verified
  <2> QED BY <1>1, <2>1, <2>2, <2>3
          DEF IInv, WriteInv, WriteOf, PlaceInv, Saves, Reads, SaveInv, ReadInv
<1>9. /\ ~Same(ThisChunk) /\ Again => attempt' \in 0 .. 2
      /\ UNCHANGED attempt => attempt' \in 0 .. 2
  BY <1>6 DEF Again, TypeOK
<1> QED BY <1>7, <1>8, <1>9 DEF VerifyChunk, Again

-----------------------------------------------------------------------------
LEMMA ReadPlace ==
  ASSUME IInv, Reads
  PROVE  /\ left \in 1 .. Length /\ index \in 1 .. Slots
         /\ index * Slot \in Nat /\ index * Slot \in Cells
         /\ address = index * Slot \/ job = "fetch"
         /\ \A i \in 0 .. uiTmp - 1 : address + i \in Cells
         /\ job = "search" => uiTmp = 1
<1>1. index \in 1 .. Slots
  BY DEF IInv, TypeOK
<1>2. index * Slot \in Nat /\ \A i \in 0 .. Slot - 1 : index * Slot + i \in Cells
  <2>1. 0 \in 0 .. Slot - 1
    BY Geometry
  <2> QED BY <1>1, <2>1, SlotCells
<1>3. index * Slot \in Cells
  <2>1. 0 \in 0 .. Slot - 1 /\ index * Slot + 0 = index * Slot
    BY <1>2, Geometry
  <2> QED BY <1>2, <2>1
<1>4. CASE SearchPlace
  <2>1. left \in 1 .. Length /\ uiTmp = 1
    BY <1>4, Geometry DEF SearchPlace, uiTmp, Least
  <2>2. \A i \in 0 .. uiTmp - 1 : i \in 0 .. Slot - 1
    BY <2>1, Geometry
  <2> QED BY <1>1, <1>2, <1>3, <1>4, <2>1, <2>2 DEF SearchPlace
<1>5. CASE FetchPlace
  <2>1. /\ left \in 1 .. Length /\ job = "fetch"
        /\ address = index * Slot + (Length - left)
    BY <1>5 DEF FetchPlace
  <2>2. uiTmp \in 1 .. left
    BY <2>1, ChunkFacts
  <2>3. ASSUME NEW i \in 0 .. uiTmp - 1 PROVE address + i \in Cells
    <3>1. (Length - left) + i \in 0 .. Slot - 1
      BY <2>1, <2>2, Geometry
    <3>2. address + i = index * Slot + ((Length - left) + i)
      BY <1>2, <2>1, Geometry
    <3> QED BY <1>2, <3>1, <3>2
  <2> QED BY <1>1, <1>2, <1>3, <2>1, <2>3
<1> QED BY <1>4, <1>5 DEF IInv, PlaceInv

LEMMA SearchInvStart == ASSUME IInv, readFreezeFrame PROVE IInv'
<1>1. /\ index' = 1 /\ job' = "search" /\ address' = Slot /\ left' = 1
      /\ pc' = "read" /\ attempt' = 0 /\ polls' = 0 /\ timely' = TRUE
      /\ asked' \in {Label, OtherLabel} /\ tempBuff' \in {tempBuff, Blank}
      /\ answer' = NoFrame
      /\ UNCHANGED <<mem, writing, buffer_frezze>>
  BY DEF readFreezeFrame, readEEPROM
<1>2. Slot \in Cells /\ 1 * Slot = Slot
  <2>1. 1 \in 1 .. Slots /\ 0 \in 0 .. Slot - 1 /\ 1 * Slot + 0 = Slot
    BY Geometry
  <2> QED BY <2>1, SlotCells, Geometry
<1>3. TypeOK'
  <2>1. 1 \in 0 .. Length /\ 0 \in 0 .. Polls /\ 1 \in 1 .. Slots
    BY Geometry
  <2>2. Buf' \in [0 .. Chunk - 1 -> Byte]
    BY StackTypes DEF IInv, readFreezeFrame
  <2>3. TypeOK
    BY DEF IInv
  <2> QED BY <1>1, <1>2, <2>1, <2>2, <2>3, Frames DEF TypeOK, Waits
<1>4. SearchPlace'
  BY <1>1, <1>2 DEF SearchPlace
<1> QED BY <1>1, <1>3, <1>4
        DEF IInv, WriteInv, WriteOf, PlaceInv, Saves, Reads, SaveInv, ReadInv

LEMMA FirstReadingInv == ASSUME IInv, FirstReading PROVE IInv'
<1>1. /\ pc = "read" /\ pc' = "again" /\ polls' = 0
      /\ UNCHANGED <<mem, writing, job, address, left, attempt, index, asked,
                     Buf, answer>>
  BY DEF FirstReading
<1>2. TypeOK /\ 0 \in 0 .. Polls /\ Reads /\ (SearchPlace \/ FetchPlace)
  BY <1>1, Geometry DEF IInv, Reads, PlaceInv
<1>3. /\ left \in 1 .. Length /\ index * Slot \in Nat
      /\ \A i \in 0 .. uiTmp - 1 : address + i \in Cells
      /\ job = "search" => uiTmp = 1
  BY <1>2, ReadPlace
<1>4. uiTmp \in 1 .. left
  BY <1>3, ChunkFacts
<1>5. PlaceInv'
  BY <1>1, <1>2 DEF PlaceInv, Saves, Reads, SearchPlace, FetchPlace
<1> DEFINE n == uiTmp
           got == ReadCells(address, n)
<1>6. \A i \in 0 .. n - 1 :
        got[i] \in Byte /\ (~Busy => got[i] = mem[address + i])
  BY <1>2, <1>3, Frames DEF ReadCells, TypeOK
<1>7. CASE TimedOut /\ timely' = FALSE /\ UNCHANGED <<tempBuff, buffer_frezze>>
  <2>1. TypeOK'
    BY <1>1, <1>2, <1>7 DEF TypeOK, Waits
  <2> QED BY <1>1, <1>5, <1>7, <2>1
          DEF IInv, WriteInv, WriteOf, Saves, SaveInv, ReadInv
<1>8. CASE Ready /\ Store(got) /\ UNCHANGED timely
  <2>1. CASE job = "search"
    <3>1. tempBuff' = got[0] /\ UNCHANGED buffer_frezze /\ n = 1
      BY <1>3, <1>8, <2>1 DEF Store
    <3>2. 0 \in 0 .. n - 1
      BY <3>1
    <3>3. tempBuff' \in Byte /\ (~Busy => tempBuff' = mem[address + 0])
      BY <1>6, <3>1, <3>2
    <3>4. TypeOK'
      BY <1>1, <1>2, <1>8, <3>1, <3>3 DEF TypeOK, Waits
    <3>5. ~Busy' /\ \A i \in 0 .. uiTmp' - 1 : FirstRead'[i] = mem'[address' + i]
      <4>1. uiTmp' = uiTmp /\ ~Busy' /\ ~Busy
        BY <1>1, <1>8 DEF uiTmp, Busy, Ready
      <4>2. FirstRead' = [i \in {0} |-> tempBuff']
        BY <1>1, <2>1 DEF FirstRead
      <4>3. \A i \in 0 .. uiTmp' - 1 : i = 0
        BY <3>1, <4>1
      <4> QED BY <1>1, <3>3, <4>1, <4>2, <4>3
    <3>6. ReadInv'
      BY <1>1, <2>1, <3>5 DEF ReadInv, Reads
    <3> QED BY <1>1, <1>5, <3>4, <3>6
            DEF IInv, WriteInv, WriteOf, Saves, SaveInv
  <2>2. CASE job # "search"
    <3> DEFINE first == Length - left
    <3>1. /\ buffer_frezze' =
               [i \in DOMAIN buffer_frezze |->
                  IF i \in first .. first + n - 1
                  THEN got[i - first] ELSE buffer_frezze[i]]
          /\ UNCHANGED tempBuff
      BY <1>8, <2>2 DEF Store
    <3>2. first \in 0 .. Length - 1 /\ first + n <= Length /\ n \in Nat
      BY <1>3, <1>4, Geometry
    <3>3. DOMAIN buffer_frezze = 0 .. Length - 1
            /\ \A i \in 0 .. Length - 1 : buffer_frezze[i] \in Byte
      BY <1>2 DEF TypeOK
    <3> HIDE DEF n, got, first
    <3>4. \A i \in first .. first + n - 1 : i - first \in 0 .. n - 1
      BY <3>2
    <3>5. buffer_frezze' \in [0 .. Length - 1 -> Byte]
      BY <1>6, <3>1, <3>3, <3>4
    <3>6. \A i \in 0 .. first - 1 : buffer_frezze'[i] = buffer_frezze[i]
      <4>1. \A i \in 0 .. first - 1 :
              i \in 0 .. Length - 1 /\ i \notin first .. first + n - 1
        BY <3>2, Geometry
      <4> QED BY <3>1, <3>3, <4>1
    <3>7. \A i \in 0 .. n - 1 : buffer_frezze'[first + i] = got[i]
      <4>1. \A i \in 0 .. n - 1 :
              /\ first + i \in 0 .. Length - 1 /\ first + i \in first .. first + n - 1
              /\ (first + i) - first = i
        BY <3>2, Geometry
      <4> QED BY <3>1, <3>3, <4>1
    <3>8. TypeOK'
      BY <1>1, <1>2, <1>8, <3>1, <3>5 DEF TypeOK, Waits
    <3>9. ~Busy' /\ ~Busy /\ uiTmp' = n /\ left' = left
      BY <1>1, <1>8 DEF uiTmp, Busy, Ready, n
    <3>10. \A i \in 0 .. n - 1 : FirstRead'[i] = mem'[address' + i]
      <4>1. FirstRead' = [i \in 0 .. n - 1 |-> buffer_frezze'[first + i]]
        BY <1>1, <2>2, <3>9 DEF FirstRead, first
      <4> QED BY <1>1, <1>6, <3>7, <3>9, <4>1
    <3>11. ReadInv'
      <4>1. timely' =>
              /\ mem'[index' * Slot] = asked'
              /\ \A i \in 0 .. Length - left' - 1 :
                   buffer_frezze'[i] = mem'[index' * Slot + i]
        <5>1. job = "fetch"
          BY <1>2, <2>2 DEF SearchPlace, FetchPlace
        <5>2. timely => /\ mem[index * Slot] = asked
                        /\ \A i \in 0 .. first - 1 :
                             buffer_frezze[i] = mem[index * Slot + i]
          BY <1>2, <5>1 DEF IInv, ReadInv, first
        <5> QED BY <1>1, <1>8, <3>6, <5>2 DEF first
      <4> QED BY <1>1, <3>9, <3>10, <4>1 DEF ReadInv
    <3> QED BY <1>1, <1>5, <3>8, <3>11
            DEF IInv, WriteInv, WriteOf, Saves, SaveInv
  <2> QED BY <2>1, <2>2
<1> QED BY <1>7, <1>8 DEF FirstReading

\* A chunk read twice in time reads the same, and is what the chip holds.
LEMMA ReadTwice ==
  ASSUME IInv, SecondReading, timely'
  PROVE  /\ timely /\ ~Busy /\ Same(FirstRead)
         /\ \A i \in 0 .. uiTmp - 1 : FirstRead[i] = mem[address + i]
<1>1. pc = "again" /\ Reads /\ TypeOK
  BY DEF SecondReading, Reads, IInv
<1>2. timely /\ ~Busy /\ \A i \in 0 .. uiTmp - 1 : Buf'[i] = mem[address + i]
  BY <1>1, ReadPlace, BufRead DEF SecondReading
<1>3. \A i \in 0 .. uiTmp - 1 : FirstRead[i] = mem[address + i]
  BY <1>1, <1>2 DEF IInv, ReadInv
<1> QED BY <1>2, <1>3 DEF Same

LEMMA SearchEndsInv ==
  ASSUME IInv, SecondReading, NEW ok \in BOOLEAN, SearchEnds(ok),
         timely' => ok
  PROVE  IInv'
<1>1. /\ pc = "again" /\ polls' = 0 /\ job = "search"
      /\ UNCHANGED <<mem, writing, asked, tempBuff, buffer_frezze>>
  BY DEF SecondReading, SearchEnds
<1>2. /\ TypeOK /\ 0 \in 0 .. Polls /\ Reads /\ SearchPlace
      /\ 1 \in 0 .. Length
  BY <1>1, Geometry DEF IInv, Reads, PlaceInv, FetchPlace
<1>3. Buf' \in [0 .. Chunk - 1 -> Byte] /\ timely' \in BOOLEAN
  BY <1>2, ReadPlace, BufRead DEF SecondReading
<1>4. WriteInv'
  BY <1>1 DEF IInv, WriteInv, WriteOf
<1>5. CASE /\ ok /\ tempBuff = asked /\ pc' = "found"
           /\ UNCHANGED <<index, job, address, left, attempt, answer>>
  <2>1. TypeOK'
    BY <1>1, <1>2, <1>3, <1>5 DEF TypeOK, Waits
  <2>2. timely' => ~Busy' /\ mem'[index' * Slot] = asked'
    <3> SUFFICES ASSUME timely' PROVE ~Busy' /\ mem'[index' * Slot] = asked'
      OBVIOUS
    <3>1. ~Busy /\ \A i \in 0 .. uiTmp - 1 : FirstRead[i] = mem[address + i]
      BY ReadTwice
    <3>2. 0 \in 0 .. uiTmp - 1 /\ FirstRead[0] = tempBuff
      BY <1>1, <1>2, ReadPlace DEF FirstRead
    <3>3. address = index * Slot /\ address + 0 = address
      BY <1>2, ReadPlace DEF SearchPlace
    <3> QED BY <1>1, <1>5, <3>1, <3>2, <3>3 DEF Busy
  <2> QED BY <1>4, <1>5, <2>1, <2>2
          DEF IInv, PlaceInv, Saves, Reads, SaveInv, ReadInv
<1>6. CASE NextSlot
  <2>1. CASE index < Slots
    <3>1. /\ index' = index + 1 /\ job' = "search" /\ address' = index' * Slot
          /\ left' = 1 /\ pc' = "read" /\ attempt' = 0 /\ answer' = answer
      BY <1>2, <1>6, <2>1, Geometry DEF NextSlot, readEEPROM, TypeOK
    <3>2. index' \in 1 .. Slots
      BY <1>2, <2>1, <3>1, Geometry DEF TypeOK
    <3>3. address' \in Cells
      <4>1. 0 \in 0 .. Slot - 1
        BY Geometry
      <4>2. index' * Slot \in Nat /\ index' * Slot + 0 \in Cells
        BY <3>2, <4>1, SlotCells
      <4> QED BY <3>1, <4>2
    <3>4. TypeOK'
      BY <1>1, <1>2, <1>3, <3>1, <3>2, <3>3 DEF TypeOK, Waits
    <3>5. SearchPlace'
      BY <3>1 DEF SearchPlace
    <3> QED BY <1>4, <3>1, <3>4, <3>5
            DEF IInv, PlaceInv, Saves, Reads, SaveInv, ReadInv
  <2>2. CASE ~(index < Slots)
    <3>1. pc' = "idle" /\ UNCHANGED <<index, job, address, left, attempt, answer>>
      BY <1>6, <2>2 DEF NextSlot
    <3>2. TypeOK'
      BY <1>1, <1>2, <1>3, <3>1 DEF TypeOK, Waits
    <3> QED BY <1>4, <3>1, <3>2
            DEF IInv, PlaceInv, Saves, Reads, SaveInv, ReadInv
  <2> QED BY <2>1, <2>2
<1> QED BY <1>5, <1>6 DEF SearchEnds

LEMMA FetchGoesOnInv ==
  ASSUME IInv, SecondReading, NEW ok \in BOOLEAN, FetchGoesOn(ok)
  PROVE  IInv'
<1>1. /\ pc = "again" /\ polls' = 0 /\ job = "fetch"
      /\ UNCHANGED <<mem, writing, asked, tempBuff, buffer_frezze, index, job>>
  BY DEF SecondReading, FetchGoesOn
<1>2. TypeOK /\ 0 \in 0 .. Polls /\ Reads /\ FetchPlace
  BY <1>1, Geometry DEF IInv, Reads, PlaceInv, SearchPlace
<1>3. Buf' \in [0 .. Chunk - 1 -> Byte] /\ timely' \in BOOLEAN
  BY <1>2, ReadPlace, BufRead DEF SecondReading
<1>4. WriteInv'
  BY <1>1 DEF IInv, WriteInv, WriteOf
<1>5. CASE /\ ok /\ left > uiTmp /\ NextChunk
           /\ pc' = "read" /\ UNCHANGED answer
  <2>1. /\ left \in 1 .. Length /\ address = index * Slot + (Length - left)
        /\ index * Slot \in Nat /\ index \in 1 .. Slots
    BY <1>2, ReadPlace DEF FetchPlace
  <2>2. uiTmp \in 1 .. left
    BY <2>1, ChunkFacts
  <2>3. /\ left' = left - uiTmp /\ left' \in 1 .. Length /\ attempt' = 0
        /\ address' = index * Slot + (Length - left')
    BY <1>5, <2>1, <2>2, Geometry DEF NextChunk
  <2>4. address' \in Cells
    <3>1. Length - left' \in 0 .. Slot - 1
      BY <2>3, Geometry
    <3> QED BY <2>1, <2>3, <3>1, SlotCells
  <2>5. TypeOK'
    <3>1. left' \in 0 .. Length
      BY <2>3, Geometry
    <3> QED BY <1>1, <1>2, <1>3, <1>5, <2>3, <2>4, <3>1 DEF TypeOK, Waits
  <2>6. FetchPlace'
    BY <1>1, <2>3 DEF FetchPlace
  <2>7. ReadInv'
    <3>1. ASSUME timely'
          PROVE  ~Busy' /\ mem'[index' * Slot] = asked'
      BY <1>1, <3>1, ReadTwice DEF IInv, ReadInv, Reads, Busy
    <3>2. ASSUME timely', NEW i \in 0 .. Length - left' - 1
          PROVE  buffer_frezze'[i] = mem'[index' * Slot + i]
      <4>1. CASE i \in 0 .. Length - left - 1
        BY <1>1, <3>2, <4>1, ReadTwice DEF IInv, ReadInv, Reads
      <4>2. CASE i \notin 0 .. Length - left - 1
        <5> DEFINE k == i - (Length - left)
        <5>1. /\ k \in 0 .. uiTmp - 1 /\ i = (Length - left) + k
              /\ index * Slot + i = address + k
          BY <2>1, <2>2, <2>3, <4>2, Geometry
        <5> HIDE DEF k
        <5>2. FirstRead[k] = mem[address + k]
          BY <3>2, <5>1, ReadTwice
        <5>3. FirstRead[k] = buffer_frezze[(Length - left) + k]
          BY <1>1, <5>1 DEF FirstRead
        <5> QED BY <1>1, <5>1, <5>2, <5>3
      <4> QED BY <4>1, <4>2
    <3> QED BY <1>5, <3>1, <3>2 DEF ReadInv
  <2> QED BY <1>4, <1>5, <2>5, <2>6, <2>7 DEF IInv, PlaceInv, Saves, Reads, SaveInv
<1>6. CASE /\ pc' = "idle" /\ UNCHANGED <<address, left, attempt>>
           /\ answer' = IF ok THEN buffer_frezze ELSE answer
  <2>1. TypeOK'
    BY <1>1, <1>2, <1>3, <1>6 DEF TypeOK, Waits
  <2> QED BY <1>4, <1>6, <2>1 DEF IInv, PlaceInv, Saves, Reads, SaveInv, ReadInv
<1> QED BY <1>5, <1>6 DEF FetchGoesOn

LEMMA SecondReadingInv == ASSUME IInv, SecondReading PROVE IInv'
<1>1. CASE Same(FirstRead) /\ (SearchEnds(TRUE) \/ FetchGoesOn(TRUE))
  BY <1>1, SearchEndsInv, FetchGoesOnInv
<1>2. CASE ~Same(FirstRead) /\ (SearchEnds(FALSE) \/ FetchGoesOn(FALSE))
  <2>1. ~timely'
    BY <1>2, ReadTwice
  <2> QED BY <1>2, <2>1, SearchEndsInv, FetchGoesOnInv
<1>3. CASE ~Same(FirstRead) /\ Again /\ pc' = "read" /\ UNCHANGED <<index, job, answer>>
  <2>1. /\ pc = "again" /\ polls' = 0
        /\ UNCHANGED <<mem, writing, asked, tempBuff, buffer_frezze>>
    BY DEF SecondReading
  <2>2. TypeOK /\ 0 \in 0 .. Polls /\ Reads
    BY <2>1, Geometry DEF IInv, Reads
  <2>3. Buf' \in [0 .. Chunk - 1 -> Byte] /\ timely' \in BOOLEAN
    BY <2>2, ReadPlace, BufRead DEF SecondReading
  <2>4. attempt' \in 0 .. 2 /\ UNCHANGED <<address, left>>
    BY <1>3, <2>2 DEF Again, TypeOK
  <2>5. TypeOK'
    BY <1>3, <2>1, <2>2, <2>3, <2>4 DEF TypeOK, Waits
  <2>6. PlaceInv'
    BY <1>3, <2>1, <2>4 DEF IInv, PlaceInv, Saves, Reads, SearchPlace, FetchPlace
  <2>7. ~timely'
    BY <1>3, ReadTwice
  <2> QED BY <1>3, <2>1, <2>5, <2>6, <2>7
          DEF IInv, WriteInv, WriteOf, SaveInv, ReadInv
<1> QED BY <1>1, <1>2, <1>3 DEF SecondReading

LEMMA ReadFrameInv == ASSUME IInv, ReadFrame PROVE IInv'
<1>1. /\ pc = "found" /\ pc' = "read" /\ job' = "fetch"
      /\ address' = index * Slot /\ left' = Length /\ attempt' = 0
      /\ UNCHANGED <<mem, writing, polls, index, asked, tempBuff, buffer_frezze,
                     answer, timely>>
  BY DEF ReadFrame, readEEPROM
<1>2. index \in 1 .. Slots /\ index * Slot \in Nat /\ index * Slot \in Cells
  <2>1. index \in 1 .. Slots /\ 0 \in 0 .. Slot - 1
    BY Geometry DEF IInv, TypeOK
  <2>2. index * Slot \in Nat /\ index * Slot + 0 \in Cells
    BY <2>1, SlotCells
  <2> QED BY <2>1, <2>2
<1>3. TypeOK'
  <2>1. Length \in 0 .. Length
    BY Geometry
  <2>2. Buf' \in [0 .. Chunk - 1 -> Byte]
    BY StackTypes DEF IInv, ReadFrame
  <2>3. TypeOK
    BY DEF IInv
  <2> QED BY <1>1, <1>2, <2>1, <2>2, <2>3 DEF TypeOK, Waits
<1>4. FetchPlace'
  <2>1. Length \in 1 .. Length /\ index * Slot = index * Slot + (Length - Length)
    BY <1>2, Geometry
  <2> QED BY <1>1, <2>1 DEF FetchPlace
<1>5. ReadInv'
  <2>1. 0 .. Length - left' - 1 = {}
    BY <1>1, Geometry
  <2> QED BY <1>1, <2>1 DEF IInv, ReadInv, Reads, Busy
<1> QED BY <1>1, <1>3, <1>4, <1>5
        DEF IInv, WriteInv, WriteOf, PlaceInv, Saves, SaveInv

\* A WRITE, cut off or not, changes nothing but cells of its frame.
LEMMA MemChanges ==
  ASSUME IInv, PowerFails \/ ChipWrites
  PROVE  /\ mem' \in [Cells -> Byte]
         /\ \A c \in Cells : mem'[c] = mem[c] \/ c \in FrameCells
<1>1. PICK D \in SUBSET DOMAIN Written(writing) :
        mem' = [c \in Cells |-> IF c \in D THEN Written(writing)[c] ELSE mem[c]]
  BY DEF PowerFails, ChipWrites
<1>2. CASE Busy
  BY <1>1, <1>2, MemWritten DEF IInv
<1>3. CASE ~Busy
  <2>1. DOMAIN Written(writing) = {}
    BY <1>3 DEF Busy, Written, NoWrite
  <2>2. \A c \in Cells : mem'[c] = mem[c]
    BY <1>1, <2>1
  <2>3. mem' \in [Cells -> Byte]
    BY <1>1, <2>1 DEF IInv, TypeOK
  <2> QED BY <2>2, <2>3
<1> QED BY <1>2, <1>3

LEMMA PowerInv == ASSUME IInv, PowerFails \/ PowerOn PROVE IInv'
<1>1. CASE PowerFails
  <2>1. TypeOK'
    <3>1. mem' \in [Cells -> Byte]
      BY <1>1, MemChanges
    <3> QED BY <1>1, <3>1 DEF IInv, TypeOK, Waits, PowerFails, reader
  <2> QED BY <1>1, <2>1
          DEF PowerFails, IInv, WriteInv, PlaceInv, Saves, Reads, SaveInv, ReadInv
<1>2. CASE PowerOn
  <2>1. TypeOK'
    <3>1. /\ 0 \in 0 .. Length /\ 0 \in 0 .. Polls /\ 1 \in 1 .. Slots
          /\ 0 \in Cells
      <4>1. 1 \in 1 .. Slots /\ 0 \in 0 .. Slot - 1
        BY Geometry
      <4>2. 1 * Slot + 0 \in Cells
        BY <4>1, SlotCells
      <4> QED BY <4>1, <4>2, Geometry DEF Cells
    <3>2. TypeOK
      BY DEF IInv
    <3> QED BY <1>2, <3>1, <3>2, Frames DEF TypeOK, Waits, PowerOn
  <2> QED BY <1>2, <2>1
          DEF PowerOn, IInv, WriteInv, WriteOf, PlaceInv, Saves, Reads, SaveInv,
              ReadInv
<1> QED BY <1>1, <1>2

LEMMA StepInv == IInv /\ [Next]_vars => IInv'
<1> SUFFICES ASSUME IInv, [Next]_vars PROVE IInv'
  OBVIOUS
<1>1. CASE eepromSaveFrame \/ readFreezeFrame
  BY <1>1, SaveInvStart, SearchInvStart
<1>2. CASE Driver
  BY <1>2, PollInv, WriteChunkInv, VerifyChunkInv, FirstReadingInv,
     SecondReadingInv, ReadFrameInv DEF Driver
<1>3. CASE ChipWrites
  BY <1>3, ChipWritesInv
<1>4. CASE PowerFails \/ PowerOn
  BY <1>4, PowerInv
<1>5. CASE UNCHANGED vars
  BY <1>5 DEF vars, driver, reader, IInv, TypeOK, WriteInv, WriteOf, PlaceInv,
              Saves, Reads, SavePlace, SearchPlace, FetchPlace, SaveInv, ReadInv,
              Busy, ThisChunk, uiTmp, FirstRead
<1> QED BY <1>1, <1>2, <1>3, <1>4, <1>5 DEF Next

LEMMA InvHolds == Spec => []IInv
  BY InitInv, StepInv, PTL DEF Spec

(***************************************************************************)
(* Every variable keeps its type; the driver never addresses a cell behind *)
(* the slots.                                                              *)
(***************************************************************************)
THEOREM TypeCorrect == Spec => []TypeOK
<1>1. IInv => TypeOK
  BY DEF IInv
<1> QED BY <1>1, InvHolds, PTL

(***************************************************************************)
(* A save in which no wait has run out returns with its frame in the chip, *)
(* for every division into chunks and pages.                               *)
(***************************************************************************)
THEOREM SavedWholeHolds == Spec => SavedWhole
<1>1. IInv /\ [Next]_vars =>
        [pc = "verify" /\ pc' = "idle" /\ timely' => SlotHolds(indexEEprom, Frame)]_vars
  <2> SUFFICES ASSUME IInv, Next, pc = "verify", pc' = "idle", timely'
               PROVE  SlotHolds(indexEEprom, Frame)
    OBVIOUS
  <2>1. VerifyChunk
    BY DEF Next, Driver, eepromSaveFrame, readFreezeFrame, Poll, WriteChunk,
           FirstReading, SecondReading, ReadFrame, ChipWrites, driver,
           PowerFails, PowerOn
  <2>2. /\ SavePlace /\ Same(ThisChunk)
        /\ \A i \in 0 .. Length - left + uiTmp - 1 : mem[Slot + i] = Frame[i]
    BY <2>1, Verified
  <2>3. left' = 0 /\ left' = left - uiTmp
    BY <2>1, <2>2 DEF VerifyChunk, NextChunk
  <2>4. Length - left + uiTmp - 1 = Length - 1
    BY <2>2, <2>3, ChunkFacts, Geometry DEF SavePlace
  <2> QED BY <2>2, <2>4, Geometry DEF SlotHolds
<1> QED BY <1>1, InvHolds, PTL DEF Spec, SavedWhole

(***************************************************************************)
(* No save, whole or cut off by a loss of power, changes a cell of another *)
(* frame: no chunk leaves its page.                                        *)
(***************************************************************************)
THEOREM OtherSlotsKeptHolds == Spec => OtherSlotsKept
<1>1. IInv /\ [Next]_vars =>
        [\A c \in Cells :
           c \notin indexEEprom * Slot .. indexEEprom * Slot + Length - 1 =>
             mem'[c] = mem[c]]_vars
  <2> SUFFICES ASSUME IInv, Next, NEW c \in Cells,
                      c \notin indexEEprom * Slot .. indexEEprom * Slot + Length - 1
               PROVE  mem'[c] = mem[c]
    OBVIOUS
  <2>1. c \notin FrameCells
    BY Geometry DEF FrameCells
  <2>2. CASE PowerFails \/ ChipWrites
    BY <2>1, <2>2, MemChanges
  <2>3. CASE ~(PowerFails \/ ChipWrites)
    <3>1. mem' = mem
      BY <2>3 DEF Next, Driver, eepromSaveFrame, readFreezeFrame, Poll, WriteChunk,
                  VerifyChunk, FirstReading, SecondReading, ReadFrame, PowerOn
    <3> QED BY <3>1
  <2> QED BY <2>2, <2>3
<1> QED BY <1>1, InvHolds, PTL DEF Spec, OtherSlotsKept

(***************************************************************************)
(* A frame that is given is what some slot holds, under the label asked    *)
(* for, if no wait has run out since it was asked for.                     *)
(***************************************************************************)
THEOREM FrameTrueHolds == Spec => FrameTrue
<1>1. IInv /\ [Next]_vars =>
        [answer' # answer /\ answer' # NoFrame /\ timely' =>
           /\ answer'[0] = asked
           /\ \E s \in 1 .. Slots : SlotHolds(s, answer')]_vars
  <2> SUFFICES ASSUME IInv, Next, answer' # answer, answer' # NoFrame, timely'
               PROVE  /\ answer'[0] = asked
                      /\ \E s \in 1 .. Slots : SlotHolds(s, answer')
    OBVIOUS
  <2>1. SecondReading
    BY DEF Next, Driver, eepromSaveFrame, readFreezeFrame, Poll, WriteChunk,
           VerifyChunk, FirstReading, ReadFrame, ChipWrites, reader,
           PowerFails, PowerOn
  <2>2. PICK ok \in BOOLEAN : FetchGoesOn(ok)
    BY <2>1 DEF SecondReading, SearchEnds, NextSlot
  <2>3. answer' = buffer_frezze /\ left <= uiTmp /\ job = "fetch"
    BY <2>2 DEF FetchGoesOn
  <2>4. /\ pc = "again" /\ Reads /\ FetchPlace
    BY <2>1, <2>3 DEF SecondReading, Reads, IInv, PlaceInv, SearchPlace
  <2>5. /\ left \in 1 .. Length /\ index \in 1 .. Slots /\ index * Slot \in Nat
        /\ address = index * Slot + (Length - left)
    BY <2>4, ReadPlace DEF FetchPlace
  <2>6. timely /\ \A k \in 0 .. uiTmp - 1 : FirstRead[k] = mem[address + k]
    BY <2>1, ReadTwice
  <2>7. /\ mem[index * Slot] = asked
        /\ \A i \in 0 .. Length - left - 1 :
             buffer_frezze[i] = mem[index * Slot + i]
    BY <2>3, <2>4, <2>6 DEF IInv, ReadInv
  <2>8. uiTmp = left
    BY <2>3, <2>5, ChunkFacts
  <2>9. ASSUME NEW i \in 0 .. Length - 1
        PROVE  mem[index * Slot + i] = buffer_frezze[i]
    <3>1. CASE i \in 0 .. Length - left - 1
      BY <2>7, <3>1
    <3>2. CASE i \notin 0 .. Length - left - 1
      <4> DEFINE k == i - (Length - left)
      <4>1. /\ k \in 0 .. uiTmp - 1 /\ i = (Length - left) + k
            /\ index * Slot + i = address + k
        BY <2>5, <2>8, <3>2, Geometry
      <4> HIDE DEF k
      <4>2. FirstRead[k] = buffer_frezze[(Length - left) + k]
        BY <2>3, <4>1 DEF FirstRead
      <4> QED BY <2>6, <4>1, <4>2
    <3> QED BY <3>1, <3>2
  <2>10. buffer_frezze[0] = asked
    <3>1. 0 \in 0 .. Length - 1 /\ index * Slot + 0 = index * Slot
      BY <2>5, Geometry
    <3> QED BY <2>7, <2>9, <3>1
  <2> QED BY <2>3, <2>5, <2>9, <2>10 DEF SlotHolds
<1> QED BY <1>1, InvHolds, PTL DEF Spec, FrameTrue

-----------------------------------------------------------------------------
(***************************************************************************)
(* How far the driver is from the end of a call: the part of the search or *)
(* transfer, the slots, cells and attempts left, the next command of the   *)
(* attempt, and the polls left.  What comes first weighs most.             *)
(***************************************************************************)
Phase == IF pc \in {"idle", "off"} THEN 0
         ELSE IF pc = "found" THEN 2
         ELSE IF job = "search" THEN 3 ELSE 1
Stage == IF pc \in {"write", "read"} THEN 1 ELSE 0

Rank == <<Phase, Slots - index, left, 2 - attempt, Stage, Polls - polls>>

Before(r, s) ==
  \E k \in 1 .. 6 : r[k] < s[k] /\ \A i \in 1 .. k - 1 : r[i] = s[i]

LEMMA RankFacts ==
  ASSUME IInv
  PROVE  /\ Rank \in [1 .. 6 -> Nat]
         /\ index \in Nat /\ left \in Nat /\ attempt \in Nat /\ polls \in Nat
<1>1. /\ Slots \in Nat /\ Polls \in Nat /\ index \in 1 .. Slots /\ left \in 0 .. Length
      /\ attempt \in 0 .. 2 /\ polls \in 0 .. Polls /\ Length \in Nat
  BY GeometryAssumption DEF IInv, TypeOK
<1>2. Phase \in Nat /\ Stage \in Nat
  BY DEF Phase, Stage
<1>3. /\ Slots - index \in Nat /\ left \in Nat /\ 2 - attempt \in Nat
      /\ Polls - polls \in Nat
  BY <1>1
<1> QED BY <1>1, <1>2, <1>3 DEF Rank

\* A smaller component counts if those before it are the same.
LEMMA Smaller ==
  /\ Phase' < Phase => Before(Rank', Rank)
  /\ Phase' = Phase /\ Slots - index' < Slots - index => Before(Rank', Rank)
  /\ Phase' = Phase /\ index' = index /\ left' < left => Before(Rank', Rank)
  /\ Phase' = Phase /\ index' = index /\ left' = left /\ 2 - attempt' < 2 - attempt =>
       Before(Rank', Rank)
  /\ Phase' = Phase /\ index' = index /\ left' = left /\ attempt' = attempt
       /\ Stage' < Stage => Before(Rank', Rank)
  /\ Phase' = Phase /\ index' = index /\ left' = left /\ attempt' = attempt
       /\ Stage' = Stage /\ Polls - polls' < Polls - polls => Before(Rank', Rank)
<1>1. /\ Rank[1] = Phase /\ Rank[2] = Slots - index /\ Rank[3] = left
      /\ Rank[4] = 2 - attempt /\ Rank[5] = Stage /\ Rank[6] = Polls - polls
  BY DEF Rank
<1>2. /\ Rank'[1] = Phase' /\ Rank'[2] = Slots - index' /\ Rank'[3] = left'
      /\ Rank'[4] = 2 - attempt' /\ Rank'[5] = Stage' /\ Rank'[6] = Polls - polls'
  BY DEF Rank
<1>3. /\ 1 .. 1 - 1 = {} /\ 1 .. 2 - 1 = {1} /\ 1 .. 3 - 1 = {1, 2}
      /\ 1 .. 4 - 1 = {1, 2, 3} /\ 1 .. 5 - 1 = {1, 2, 3, 4}
      /\ 1 .. 6 - 1 = {1, 2, 3, 4, 5} /\ 1 .. 6 = {1, 2, 3, 4, 5, 6}
  OBVIOUS
<1>4. ASSUME NEW k \in {1, 2, 3, 4, 5, 6}, Rank'[k] < Rank[k],
             \A i \in 1 .. k - 1 : Rank'[i] = Rank[i]
      PROVE  Before(Rank', Rank)
  BY <1>3, <1>4 DEF Before
<1>5. Phase' < Phase => Before(Rank', Rank)
  BY <1>1, <1>2, <1>3, <1>4
<1>6. Phase' = Phase /\ Slots - index' < Slots - index => Before(Rank', Rank)
  BY <1>1, <1>2, <1>3, <1>4
<1>7. Phase' = Phase /\ index' = index /\ left' < left => Before(Rank', Rank)
  BY <1>1, <1>2, <1>3, <1>4
<1>8. Phase' = Phase /\ index' = index /\ left' = left /\ 2 - attempt' < 2 - attempt =>
        Before(Rank', Rank)
  BY <1>1, <1>2, <1>3, <1>4
<1>9. Phase' = Phase /\ index' = index /\ left' = left /\ attempt' = attempt
        /\ Stage' < Stage => Before(Rank', Rank)
  BY <1>1, <1>2, <1>3, <1>4
<1>10. Phase' = Phase /\ index' = index /\ left' = left /\ attempt' = attempt
        /\ Stage' = Stage /\ Polls - polls' < Polls - polls => Before(Rank', Rank)
  BY <1>1, <1>2, <1>3, <1>4
<1> QED BY <1>5, <1>6, <1>7, <1>8, <1>9, <1>10

\* Each command of a transfer moves at least one cell.
LEMMA SomeCells ==
  ASSUME IInv, pc \in Waits
  PROVE  uiTmp \in Nat /\ uiTmp > 0 /\ left - uiTmp < left
<1>1. left \in Nat /\ left >= 1
  BY GeometryAssumption DEF IInv, PlaceInv, Saves, Reads, SavePlace, SearchPlace,
     FetchPlace, Waits
<1>2. Chunk \in Nat /\ Chunk > 0
  BY GeometryAssumption
<1> QED BY <1>1, <1>2 DEF uiTmp, Least

LEMMA WriteCloser ==
  ASSUME IInv, WriteChunk \/ VerifyChunk PROVE Before(Rank', Rank)
<1>1. pc \in Waits /\ pc \in {"write", "verify"} /\ job = "save"
  BY DEF WriteChunk, VerifyChunk, IInv, PlaceInv, Saves, SavePlace, Waits
<1>2. index' = index /\ job' = job
  BY DEF WriteChunk, VerifyChunk, reader
<1>3. Phase = 1
  BY <1>1 DEF Phase
<1>4. CASE WriteChunk
  <2>1. pc = "write" /\ pc' = "verify" /\ left' = left /\ attempt' = attempt
    BY <1>4 DEF WriteChunk
  <2>2. Phase' = 1 /\ Stage' = 0 /\ Stage = 1
    BY <2>1, <1>1, <1>2 DEF Phase, Stage
  <2> QED BY <2>1, <2>2, <1>2, <1>3, Smaller
<1>5. CASE VerifyChunk /\ pc' = "idle"
  <2>1. Phase' = 0
    BY <1>5 DEF Phase
  <2> QED BY <2>1, <1>3, Smaller
<1>6. CASE VerifyChunk /\ pc' # "idle"
  <2>1. pc' = "write" /\ (NextChunk \/ Again)
    BY <1>6 DEF VerifyChunk
  <2>2. Phase' = 1
    BY <2>1, <1>1, <1>2 DEF Phase
  <2>3. CASE NextChunk
    BY <2>2, <2>3, <1>1, <1>2, <1>3, SomeCells, Smaller DEF NextChunk
  <2>4. CASE Again
    <3>1. 2 - attempt' < 2 - attempt /\ left' = left
      BY <2>4, RankFacts DEF Again
    <3> QED BY <3>1, <2>2, <1>2, <1>3, Smaller
  <2> QED BY <2>1, <2>3, <2>4
<1> QED BY <1>4, <1>5, <1>6

LEMMA ReadCloser ==
  ASSUME IInv, FirstReading \/ SecondReading PROVE Before(Rank', Rank)
<1>1. pc \in Waits /\ pc \in {"read", "again"} /\ job \in {"search", "fetch"}
  BY DEF FirstReading, SecondReading, IInv, PlaceInv, Reads, SearchPlace, FetchPlace,
     Waits
<1>2. Phase = IF job = "search" THEN 3 ELSE 1
  BY <1>1 DEF Phase
<1>3. CASE FirstReading
  <2>1. /\ pc = "read" /\ pc' = "again" /\ job' = job /\ index' = index
        /\ left' = left /\ attempt' = attempt
    BY <1>3 DEF FirstReading
  <2>2. Phase' = Phase /\ Stage' = 0 /\ Stage = 1
    BY <2>1, <1>1 DEF Phase, Stage
  <2> QED BY <2>1, <2>2, Smaller
<1>4. CASE SecondReading
  <2>1. CASE Again /\ pc' = "read" /\ UNCHANGED <<index, job>>
    <3>1. 2 - attempt' < 2 - attempt /\ left' = left
      BY <2>1, RankFacts DEF Again
    <3>2. Phase' = Phase
      BY <2>1, <1>2 DEF Phase
    <3> QED BY <3>1, <3>2, <2>1, Smaller
  <2>2. ASSUME NEW ok \in BOOLEAN, SearchEnds(ok) PROVE Before(Rank', Rank)
    <3>1. Phase = 3
      BY <2>2, <1>2 DEF SearchEnds
    <3>2. CASE pc' \in {"idle", "found"}
      <4>1. Phase' < 3
        BY <3>2 DEF Phase
      <4> QED BY <4>1, <3>1, Smaller
    <3>3. CASE pc' \notin {"idle", "found"}
      <4>1. pc' = "read" /\ job' = "search" /\ index' = index + 1
        BY <2>2, <3>3 DEF SearchEnds, NextSlot, readEEPROM
      <4>2. Phase' = 3 /\ Slots - index' < Slots - index
        BY <4>1, RankFacts, GeometryAssumption DEF Phase
      <4> QED BY <4>2, <3>1, Smaller
    <3> QED BY <3>2, <3>3
  <2>3. ASSUME NEW ok \in BOOLEAN, FetchGoesOn(ok) PROVE Before(Rank', Rank)
    <3>1. Phase = 1 /\ job' = "fetch" /\ index' = index
      BY <2>3, <1>2 DEF FetchGoesOn
    <3>2. CASE pc' = "idle"
      <4>1. Phase' = 0
        BY <3>2 DEF Phase
      <4> QED BY <4>1, <3>1, Smaller
    <3>3. CASE pc' # "idle"
      <4>1. pc' = "read" /\ NextChunk
        BY <2>3, <3>3 DEF FetchGoesOn
      <4>2. Phase' = 1
        BY <4>1, <3>1 DEF Phase
      <4> QED BY <4>1, <4>2, <3>1, <1>1, SomeCells, Smaller DEF NextChunk
    <3> QED BY <3>2, <3>3
  <2> QED BY <1>4, <2>1, <2>2, <2>3 DEF SecondReading
<1> QED BY <1>3, <1>4

(***************************************************************************)
(* Each step of the driver brings the end of the call closer, whatever the *)
(* chip does meanwhile, and nothing but a loss of power takes it back: a   *)
(* call is a bounded number of polls and commands, for every geometry.     *)
(***************************************************************************)
DriverProgress ==
  [][/\ Driver => Before(Rank', Rank)
     /\ pc \in Waits \cup {"found"} /\ ~Driver => UNCHANGED Rank \/ pc' = "off"]_vars

THEOREM DriverProgressHolds == Spec => DriverProgress /\ [](Rank \in [1 .. 6 -> Nat])
<1>1. IInv /\ [Next]_vars =>
        [/\ Driver => Before(Rank', Rank)
         /\ pc \in Waits \cup {"found"} /\ ~Driver => UNCHANGED Rank \/ pc' = "off"]_vars
  <2> SUFFICES ASSUME IInv, Next
               PROVE  /\ Driver => Before(Rank', Rank)
                      /\ pc \in Waits \cup {"found"} /\ ~Driver =>
                           UNCHANGED Rank \/ pc' = "off"
    OBVIOUS
  <2>1. ASSUME Poll PROVE Before(Rank', Rank)
    <3>1. /\ UNCHANGED <<pc, job, index, left, attempt>>
          /\ polls' = polls + 1
      BY <2>1 DEF Poll, reader
    <3>2. Phase' = Phase /\ Stage' = Stage
      BY <3>1 DEF Phase, Stage
    <3>3. Polls - polls' < Polls - polls
      BY <3>1, RankFacts, GeometryAssumption
    <3> QED BY <3>1, <3>2, <3>3, Smaller
  <2>2. ASSUME ReadFrame PROVE Before(Rank', Rank)
    <3>1. Phase = 2 /\ Phase' = 1
      BY <2>2 DEF ReadFrame, readEEPROM, Phase
    <3> QED BY <3>1, Smaller
  <2>3. Driver => Before(Rank', Rank)
    BY <2>1, <2>2, WriteCloser, ReadCloser DEF Driver
  <2>4. ASSUME pc \in Waits \cup {"found"}, ~Driver PROVE UNCHANGED Rank \/ pc' = "off"
    <3>1. ChipWrites \/ PowerFails
      BY <2>4 DEF Next, eepromSaveFrame, readFreezeFrame, PowerOn, Waits
    <3>2. ASSUME ChipWrites PROVE UNCHANGED Rank
      BY <3>2 DEF ChipWrites, driver, reader, Rank, Phase, Stage
    <3> QED BY <3>1, <3>2 DEF PowerFails
  <2> QED BY <2>3, <2>4
<1>2. IInv => Rank \in [1 .. 6 -> Nat]
  BY RankFacts
<1> QED BY <1>1, <1>2, InvHolds, PTL DEF Spec, DriverProgress
=============================================================================
