-------------------------- MODULE FreezeLog_proofs --------------------------
(***************************************************************************)
(* Proofs about FreezeLog for every number and size of sectors.            *)
(***************************************************************************)
EXTENDS FreezeLog, TLAPS

\* Division by the size of a sector.
LEMMA DivBounds ==
  ASSUME NEW p \in Nat
  PROVE  /\ Sector(p) \in Nat
         /\ P * Sector(p) <= p
         /\ p < P * Sector(p) + P
  BY SizeAssumption DEF Sector

LEMMA MulMono ==
  ASSUME NEW a \in Nat, NEW b \in Nat, NEW k \in Nat, a < b
  PROVE  a * k + k <= b * k
<1>1. PICK d \in Nat : b = a + 1 + d
  <2>1. b - a - 1 \in Nat /\ b = a + 1 + (b - a - 1)
    OBVIOUS
  <2> QED BY <2>1
<1>2. b * k = a * k + k + d * k /\ d * k \in Nat
  BY <1>1
<1>3. a * k \in Nat /\ b * k \in Nat
  OBVIOUS
<1> QED BY <1>2, <1>3

\* The sector of a page is the only one its address lies in.
LEMMA SectorIs ==
  ASSUME NEW p \in Nat, NEW s \in Nat, s * P <= p, p < s * P + P
  PROVE  Sector(p) = s
<1> DEFINE t == Sector(p)
<1>0. P \in Nat /\ t \in Nat /\ P * t = t * P /\ t * P <= p /\ p < t * P + P
  BY DivBounds, SizeAssumption
<1>1. s * P \in Nat /\ t * P \in Nat
  BY <1>0
<1>2. ~ (s < t)
  <2> SUFFICES ASSUME s < t PROVE FALSE
    OBVIOUS
  <2>1. s * P + P <= t * P
    BY <1>0, MulMono
  <2> HIDE DEF t
  <2> QED BY <2>1, <1>0, <1>1
<1>3. ~ (t < s)
  <2> SUFFICES ASSUME t < s PROVE FALSE
    OBVIOUS
  <2>1. t * P + P <= s * P
    BY <1>0, MulMono
  <2> HIDE DEF t
  <2> QED BY <2>1, <1>0, <1>1
<1> HIDE DEF t
<1>4. s = t
  BY <1>0, <1>2, <1>3
<1> QED BY <1>4 DEF t

\* The sector of a frame page, and of the ID page.
LEMMA SectorRange ==
  /\ N \in Nat /\ N >= 2 * P
  /\ \A p \in 0 .. N - 1 : Sector(p) \in 0 .. Sectors - 1
  /\ Sector(IdPage) = Sectors
<1>1. N \in Nat /\ N >= 2 * P
  <2>1. CASE Sectors = 2
    BY <2>1, SizeAssumption DEF N
  <2>2. CASE Sectors > 2
    <3>1. 2 * P + P <= Sectors * P
      BY <2>2, MulMono, SizeAssumption
    <3> QED BY <3>1, SizeAssumption DEF N
  <2> QED BY <2>1, <2>2, SizeAssumption
<1>2. ASSUME NEW p \in 0 .. N - 1 PROVE Sector(p) \in 0 .. Sectors - 1
  <2> DEFINE t == Sector(p)
  <2>0. t \in Nat /\ P * t <= p
    BY DivBounds, <1>1
  <2>1. ~ (Sectors <= t)
    <3> SUFFICES ASSUME Sectors <= t PROVE FALSE
      OBVIOUS
    <3>1. Sectors * P <= t * P
      <4>1. CASE Sectors = t
        BY <4>1, <2>0, SizeAssumption
      <4>2. CASE Sectors < t
        <5>1. Sectors * P + P <= t * P
          BY <4>2, <2>0, MulMono, SizeAssumption
        <5> QED BY <5>1, <2>0, SizeAssumption
      <4> QED BY <4>1, <4>2, <2>0, SizeAssumption
    <3>2. t * P = P * t
      BY <2>0, SizeAssumption
    <3>3. N = Sectors * P
      BY DEF N
    <3> HIDE DEF t
    <3>4. N <= P * t
      BY <3>1, <3>2, <3>3
    <3>5. P * t \in Nat
      BY <2>0, SizeAssumption
    <3> QED BY <3>4, <3>5, <2>0, <1>1
  <2> QED BY <2>0, <2>1, SizeAssumption
<1>3. Sector(IdPage) = Sectors
  BY <1>1, SectorIs, SizeAssumption DEF N, IdPage
<1> QED BY <1>1, <1>2, <1>3

\* Two pages in a row of different sectors: the second starts its sector.
LEMMA SectorStart ==
  ASSUME NEW p \in Nat, NEW q \in Nat,
         Sector(p) # Sector(p + 1), Sector(q) = Sector(p + 1)
  PROVE  p + 1 <= q /\ q <= p + P
<1> DEFINE s == Sector(p)
           t == Sector(p + 1)
<1>1. /\ s \in Nat /\ P * s <= p /\ p < P * s + P
      /\ t \in Nat /\ P * t <= p + 1 /\ p + 1 < P * t + P
      /\ P * t <= q /\ q < P * t + P
      /\ P \in Nat
  BY DivBounds, SizeAssumption
<1>2. P * s = s * P /\ P * t = t * P /\ s * P \in Nat /\ t * P \in Nat
  BY <1>1
<1>3. p + 1 = P * s + P
  <2> SUFFICES ASSUME p + 1 < s * P + P PROVE FALSE
    BY <1>1, <1>2
  <2>1. Sector(p + 1) = s
    BY <1>1, <1>2, SectorIs
  <2> QED BY <2>1
<1>4. p + 1 = (s + 1) * P /\ s + 1 \in Nat /\ (s + 1) * P \in Nat
  BY <1>1, <1>2, <1>3
<1>5. Sector(p + 1) = s + 1
  BY <1>1, <1>4, SectorIs, SizeAssumption
<1> HIDE DEF s, t
<1>6. P * t = p + 1
  BY <1>1, <1>2, <1>4, <1>5 DEF t
<1> QED BY <1>1, <1>6

\* The page of an image, from the lap it was written in.
LEMMA PageOfLap ==
  ASSUME NEW lap \in Nat, NEW p \in 0 .. N - 2
  PROVE  PageOf(lap * (N - 1) + p + 1) = p
<1> DEFINE M == N - 1
<1>1. M \in Nat \ {0} /\ p \in 0 .. M - 1
  BY SectorRange, SizeAssumption
<1> HIDE DEF M
<1>2. (lap * M + p) % M = p
  BY <1>1
<1>3. lap * M + p + 1 - 1 = lap * M + p
  BY <1>1
<1>4. lap * M + p \in Nat /\ N \in Nat /\ M = N - 1
  BY <1>1, SectorRange DEF M
<1>5. PageOf(lap * M + p + 1) = (lap * M + p) % M
  BY <1>3, <1>4 DEF PageOf
<1> QED BY <1>2, <1>4, <1>5

LEMMA LapBound ==
  ASSUME NEW lap \in Nat, NEW f \in Nat
  PROVE  /\ lap * (N - 1) \in Nat
         /\ lap <= lap * (N - 1) + f
         /\ (lap + 1) * (N - 1) = lap * (N - 1) + (N - 1)
<1> DEFINE M == N - 1
<1>1. M \in Nat /\ M >= 1
  BY SectorRange, SizeAssumption
<1> HIDE DEF M
<1>2. lap * M \in Nat /\ (lap + 1) * M = lap * M + M
  BY <1>1
<1>3. lap <= lap * M
  <2>1. PICK d \in Nat : M = 1 + d
    <3>1. M - 1 \in Nat /\ M = 1 + (M - 1)
      BY <1>1
    <3> QED BY <3>1
  <2>2. lap * M = lap + lap * d /\ lap * d \in Nat
    BY <2>1
  <2> QED BY <2>2
<1> QED BY <1>2, <1>3 DEF M

LEMMA ImageFacts ==
  FrameImage \subseteq Image /\ IdImage \subseteq Image /\ Zero \in Image
    /\ Blank \notin Image
  BY BlankAssumption DEF Image
-----------------------------------------------------------------------------
(***************************************************************************)
(* The inductive invariant.  A type invariant alone is not inductive: that *)
(* check_add_free() returns a frame page at all, and never the ID page,    *)
(* needs the shape of the log.                                             *)
(***************************************************************************)
IdBuffer == pc \in {"writeId", "writeOffline"} => buf \in IdImage

IInv == TypeOK /\ IdBuffer /\ LogInv

\* The log is a matter of the frame pages and the history.
LEMMA SameLog ==
  ASSUME NEW f \in 0 .. N - 1, NEW lap \in Nat,
         LogShape(f, lap),
         saved' = saved, \A p \in 0 .. N - 1 : flash'[p] = flash[p]
  PROVE  LogShape(f, lap)'
<1>1. N \in Nat /\ N >= 4
  BY SectorRange, SizeAssumption
<1>2. f \in Nat /\ \A p \in 0 .. f - 1 : p \in 0 .. N - 1
  BY <1>1
<1>3. \A p \in f .. N - 1 : p \in 0 .. N - 1
  BY <1>1, <1>2
<1>4. \A p \in f .. N - 2 : p \in 0 .. N - 1
  BY <1>1, <1>2
<1>5. \A p \in f + P + 1 .. N - 2 : p \in 0 .. N - 1
  BY <1>1, <1>2, SizeAssumption
<1>6. f \in 0 .. N - 1 /\ N - 1 \in 0 .. N - 1
  BY <1>1
<1> QED BY <1>2, <1>3, <1>4, <1>5, <1>6 DEF LogShape

\* check_add_free() finds the page the shape of the log says it does.
LEMMA FirstFreeIs ==
  ASSUME TypeOK, NEW f \in 0 .. N - 1, NEW lap \in Nat, LogShape(f, lap)
  PROVE  FreePages # {} /\ FirstFree = f
<1>1. N \in Nat /\ N >= 4 /\ lap * (N - 1) \in Nat
  BY SectorRange, SizeAssumption, LapBound
<1>2. f \in FreePages
  BY DEF LogShape, FreePages
<1>3. ASSUME NEW q \in FreePages PROVE f <= q
  <2>1. SUFFICES ASSUME q < f PROVE FALSE
    BY <1>1 DEF FreePages
  <2>2. q \in 0 .. f - 1 /\ flash[q] = Blank
    BY <2>1, <1>1 DEF FreePages
  <2>3. flash[q] = saved[lap * (N - 1) + q + 1]
    BY <2>2 DEF LogShape
  <2>4. lap * (N - 1) + q + 1 \in 1 .. Len(saved)
    BY <2>2, <1>1 DEF LogShape
  <2>5. saved[lap * (N - 1) + q + 1] \in Image
    BY <2>4 DEF TypeOK
  <2> QED BY <2>2, <2>3, <2>5, ImageFacts
<1>4. \A p \in FreePages : (\A q \in FreePages : p <= q) => p = f
  BY <1>1, <1>2, <1>3 DEF FreePages
<1>5. FirstFree = f
  BY <1>2, <1>3, <1>4 DEF FirstFree
<1> QED BY <1>2, <1>5

\* The clock, the times that are ambiguous, and how often it was set.
LEMMA ClockTypes ==
  ASSUME TypeOK, Tick \/ ClockSet \/ UNCHANGED clock
  PROVE  now' \in Times /\ sets' \in 0 .. MaxSets /\ ambiguous' \subseteq Times
<1> USE SizeAssumption DEF TypeOK, Times
<1>1. CASE Tick
  BY <1>1 DEF Tick
<1>2. CASE ClockSet
  BY <1>2 DEF ClockSet
<1>3. CASE UNCHANGED clock
  BY <1>3 DEF clock
<1> QED BY <1>1, <1>2, <1>3

\* The count as it is written on the ID page.
LEMMA CountType == ASSUME NEW n \in Nat PROVE n % CountMod \in 0 .. CountMod - 1
<1>1. CountMod \in Nat \ {0}
  BY SizeAssumption
<1> QED BY <1>1

LEMMA InitInv == Init => IInv
<1> SUFFICES ASSUME Init PROVE IInv
  OBVIOUS
<1>1. N \in Nat /\ N >= 4 /\ IdPage = N
  BY SectorRange, SizeAssumption DEF IdPage
<1>2. TypeOK
  <2>1. flash \in [0 .. N -> Image \cup {Blank}] /\ flash[IdPage] = Blank
    BY <1>1 DEF Init
  <2>2. /\ saved \in Seq(Image) /\ offs \in Seq(Times)
        /\ sets \in 0 .. MaxSets /\ ambiguous \subseteq Times
    BY SizeAssumption DEF Init
  <2>3. 0 \in 0 .. N - 1 /\ 0 \in Times
    BY <1>1, SizeAssumption DEF Times
  <2> QED BY <2>1, <2>2, <2>3, ImageFacts DEF Init, TypeOK, Ids
<1>3. IdBuffer
  BY DEF Init, IdBuffer
<1>4. LogShape(0, 0) /\ FrameUnderWay(0)
  BY <1>1, SizeAssumption DEF Init, LogShape, FrameUnderWay
<1>5. IdPageWritten
  BY DEF Init, IdPageWritten
<1> QED BY <1>1, <1>2, <1>3, <1>4, <1>5 DEF IInv, LogInv, Init

\* Steps that leave the frame pages and the history of the log alone.
LEMMA LogKept ==
  ASSUME LogInv, IdPageWritten',
         saved' = saved, \A p \in 0 .. N - 1 : flash'[p] = flash[p],
         pc' \in {"prepare", "write"} =>
           pc \in {"prepare", "write"} /\ addr' = addr
  PROVE  LogInv'
<1>1. PICK f \in 0 .. N - 1 : \E lap \in 0 .. Len(saved) :
              LogShape(f, lap) /\ FrameUnderWay(f)
  BY DEF LogInv
<1>2. PICK lap \in 0 .. Len(saved) : LogShape(f, lap) /\ FrameUnderWay(f)
  BY <1>1
<1>3. lap \in Nat
  OBVIOUS
<1>4. LogShape(f, lap)'
  BY <1>2, <1>3, SameLog
<1>5. FrameUnderWay(f)'
  <2>1. N \in Nat /\ (f < N - 1 => f + 1 \in 0 .. N - 1)
    BY SectorRange
  <2> QED BY <1>2, <2>1 DEF FrameUnderWay
<1> QED BY <1>4, <1>5 DEF LogInv

LEMMA QuietSteps ==
  ASSUME IInv,
         \/ PowerOn \/ PowerOff \/ SwapMeter \/ CheckIdMatches \/ Tick
         \/ SetClock \/ FreezePrepares \/ UNCHANGED vars
  PROVE  IInv'
<1>1. TypeOK'
  <2>0. TypeOK
    BY DEF IInv
  <2> USE DEF TypeOK, Ids, clock
  <2>1. CASE PowerOn
    <3>1. paraId' \in Ids /\ (ClockSet \/ UNCHANGED clock)
      BY <2>0, <2>1 DEF PowerOn
    <3>2. 0 \in 0 .. N - 1
      BY SectorRange, SizeAssumption
    <3>3. now' \in Times /\ sets' \in 0 .. MaxSets /\ ambiguous' \subseteq Times
      BY <2>0, <3>1, ClockTypes
    <3> QED BY <2>0, <2>1, <3>1, <3>2, <3>3, ImageFacts DEF PowerOn
  <2>2. CASE PowerOff
    BY <2>0, <2>2 DEF PowerOff
  <2>3. CASE SwapMeter
    BY <2>0, <2>3 DEF SwapMeter
  <2>4. CASE CheckIdMatches
    <3>1. flash[IdPage].total \in Nat
      BY <2>0, <2>4, SizeAssumption DEF CheckIdMatches, SameId, IdImage
    <3> QED BY <2>0, <2>4, <3>1 DEF CheckIdMatches
  <2>5. CASE Tick
    <3>1. now' \in Times /\ sets' \in 0 .. MaxSets /\ ambiguous' \subseteq Times
      BY <2>0, <2>5, ClockTypes
    <3> QED BY <2>0, <2>5, <3>1 DEF Tick
  <2>6. CASE SetClock
    <3>1. now' \in Times /\ sets' \in 0 .. MaxSets /\ ambiguous' \subseteq Times
      BY <2>0, <2>6, ClockTypes DEF SetClock
    <3> QED BY <2>0, <2>6, <3>1 DEF SetClock
  <2>7. CASE FreezePrepares
    <3>1. [label |-> now, meter |-> meter, answers |-> Len(saved) + 1] \in FrameImage
      BY <2>0 DEF FrameImage
    <3> QED BY <2>0, <2>7, <3>1, ImageFacts DEF FreezePrepares
  <2>8. CASE UNCHANGED vars
    BY <2>0, <2>8 DEF vars
  <2> QED BY <2>1, <2>2, <2>3, <2>4, <2>5, <2>6, <2>7, <2>8
<1>2. IdBuffer'
  BY DEF IInv, IdBuffer, PowerOn, PowerOff, SwapMeter, CheckIdMatches, Tick, SetClock,
         FreezePrepares, vars
<1>3. flash' = flash /\ saved' = saved
  BY DEF PowerOn, PowerOff, SwapMeter, CheckIdMatches, Tick, SetClock,
         FreezePrepares, vars
<1>4. IdPageWritten'
  BY <1>3 DEF IInv, LogInv, IdPageWritten, PowerOn, PowerOff, SwapMeter,
         CheckIdMatches, SameId, Tick, SetClock, FreezePrepares, vars
<1>5. pc' \in {"prepare", "write"} => pc \in {"prepare", "write"} /\ addr' = addr
  BY DEF PowerOn, PowerOff, SwapMeter, CheckIdMatches, Tick, SetClock,
         FreezePrepares, vars
<1>6. LogInv'
  BY <1>3, <1>4, <1>5, LogKept DEF IInv
<1> QED BY <1>1, <1>2, <1>6 DEF IInv

\* The ID page is not a frame page, and no sector holds both.
LEMMA ErasedPages ==
  ASSUME TypeOK, NEW S \in SUBSET (0 .. IdSector), flash' = Erased(S)
  PROVE  /\ flash' \in [0 .. N -> Image \cup {Blank}]
         /\ \A p \in 0 .. N :
              flash'[p] = IF Sector(p) \in S THEN Blank ELSE flash[p]
         /\ flash'[IdPage] = IF IdSector \in S THEN Blank ELSE flash[IdPage]
<1>1. N \in Nat /\ IdPage \in 0 .. N /\ Sector(IdPage) = IdSector
  BY SectorRange DEF IdPage, IdSector
<1> QED BY <1>1 DEF Erased, TypeOK

LEMMA CheckIdErasesInv == ASSUME IInv, CheckIdErases PROVE IInv'
<1>1. N \in Nat /\ N >= 4 /\ IdPage = N
  BY SectorRange, SizeAssumption DEF IdPage
<1>2. \A p \in 0 .. N : flash'[p] = Blank
  <2>1. \A p \in 0 .. N : Sector(p) \in 0 .. IdSector
    BY <1>1, SectorRange, SizeAssumption DEF IdSector
  <2>2. flash' = Erased(0 .. IdSector)
    BY DEF CheckIdErases
  <2> QED BY <2>1, <2>2 DEF Erased
<1>3. buf' \in IdImage
  BY CountType, SizeAssumption DEF CheckIdErases, IInv, TypeOK, IdImage, LogEntry
<1>4. TypeOK'
  <2>1. flash' \in [0 .. N -> Image \cup {Blank}]
    BY DEF CheckIdErases, Erased, IInv, TypeOK
  <2>2. saved' \in Seq(Image) /\ offs' \in Seq(Times)
    BY DEF CheckIdErases
  <2> QED BY <1>1, <1>2, <1>3, <2>1, <2>2, ImageFacts
          DEF CheckIdErases, IInv, TypeOK
<1>5. IdBuffer'
  BY <1>3 DEF IdBuffer
<1>6. LogShape(0, 0)' /\ FrameUnderWay(0)'
  BY <1>1, <1>2, SizeAssumption DEF CheckIdErases, LogShape, FrameUnderWay
<1>7. IdPageWritten'
  BY DEF CheckIdErases, IdPageWritten
<1>8. LogInv'
  BY <1>1, <1>6, <1>7 DEF LogInv, CheckIdErases
<1> QED BY <1>4, <1>5, <1>8 DEF IInv

\* iap_Write(0x7000), by check_id() and by save_time_offline().
LEMMA WriteIdPageInv == ASSUME IInv, CheckIdWrites \/ OfflineWrites PROVE IInv'
<1>1. N \in Nat /\ N >= 4 /\ IdPage = N
  BY SectorRange, SizeAssumption DEF IdPage
<1>2. buf \in IdImage
  BY DEF CheckIdWrites, OfflineWrites, IInv, IdBuffer
<1>3. TypeOK' /\ \A p \in 0 .. N - 1 : flash'[p] = flash[p]
  BY <1>1, <1>2, ImageFacts
     DEF CheckIdWrites, OfflineWrites, WriteIdPage, IInv, TypeOK, clock
<1>4. IdBuffer'
  BY DEF CheckIdWrites, OfflineWrites, IdBuffer
<1>5. IdPageWritten'
  BY <1>1, <1>2, ImageFacts
     DEF CheckIdWrites, OfflineWrites, WriteIdPage, IInv, TypeOK, LogInv,
         IdPageWritten
<1>6. LogInv'
  BY <1>3, <1>5, LogKept DEF IInv, CheckIdWrites, OfflineWrites
<1> QED BY <1>3, <1>4, <1>6 DEF IInv

LEMMA OfflineErasesInv == ASSUME IInv, OfflineErases PROVE IInv'
<1>1. N \in Nat /\ N >= 4 /\ IdPage = N /\ IdSector \in 0 .. IdSector
  BY SectorRange, SizeAssumption DEF IdPage, IdSector
<1>2. flash' = Erased({IdSector}) /\ TypeOK
  BY DEF OfflineErases, IInv
<1>3. \A p \in 0 .. N - 1 : flash'[p] = flash[p]
  <2>1. \A p \in 0 .. N - 1 : Sector(p) # IdSector
    BY SectorRange, SizeAssumption DEF IdSector
  <2>2. {IdSector} \in SUBSET (0 .. IdSector)
    BY <1>1
  <2>3. \A p \in 0 .. N :
          flash'[p] = IF Sector(p) \in {IdSector} THEN Blank ELSE flash[p]
    BY <1>2, <2>2, ErasedPages
  <2> QED BY <1>1, <2>1, <2>3
<1>4. buf' \in IdImage
  <2>1. ASSUME NEW i \in 0 .. LogLen PROVE ShiftedLog[i] \in LogEntry
    <3>1. i # 0 => i - 1 \in 0 .. LogLen
      BY SizeAssumption
    <3>2. i # 0 => OldLog(i - 1) \in LogEntry
      BY <1>2, <3>1 DEF OldLog, TypeOK, IdImage, LogEntry
    <3>3. StaleLog(i) \in LogEntry
      BY DEF StaleLog, IdImage, LogEntry
    <3> QED BY <1>2, <3>2, <3>3 DEF ShiftedLog, TypeOK, LogEntry
  <2>2. ShiftedLog \in [0 .. LogLen -> LogEntry]
    BY <2>1 DEF ShiftedLog
  <2>3. (IF flash[IdPage] = Blank THEN NoId ELSE flash[IdPage].id) \in Ids
    BY <1>2 DEF TypeOK, IdImage, Ids
  <2>4. (total + 1) % CountMod \in 0 .. CountMod - 1
    <3>1. total + 1 \in Nat
      BY <1>2 DEF TypeOK
    <3> QED BY <3>1, CountType
  <2> QED BY <2>2, <2>3, <2>4 DEF OfflineErases, IdImage
<1>5. TypeOK'
  <2>1. /\ flash' \in [0 .. N -> Image \cup {Blank}]
        /\ flash'[IdPage] = Blank
    <3>1. {IdSector} \in SUBSET (0 .. IdSector)
      BY <1>1
    <3> QED BY <1>2, <3>1, ErasedPages
  <2>2. offs' \in Seq(Times)
    BY <1>2 DEF OfflineErases, TypeOK
  <2>3. total' \in Nat
    BY <1>2 DEF OfflineErases, TypeOK
  <2>4. buf' \in Image /\ pc' = "writeOffline"
    BY <1>4, ImageFacts DEF OfflineErases
  <2>5. UNCHANGED <<addr, due, now, sets, ambiguous, meter, paraId, saved>>
    BY DEF OfflineErases, clock
  <2> QED BY <1>2, <2>1, <2>2, <2>3, <2>4, <2>5 DEF TypeOK
<1>6. IdBuffer'
  BY <1>4 DEF IdBuffer
<1>7. IdPageWritten'
  BY DEF OfflineErases, IInv, LogInv, IdPageWritten
<1>8. LogInv'
  BY <1>3, <1>7, LogKept DEF IInv, OfflineErases
<1> QED BY <1>5, <1>6, <1>8 DEF IInv

(***************************************************************************)
(* check_add_free() as a step of the log's shape: either the next page is  *)
(* blank, or it starts the oldest sector, which is given up, or the log    *)
(* goes round and the first sector is given up.                            *)
(***************************************************************************)
LEMMA StartSameSector ==
  ASSUME TypeOK, NEW f \in 0 .. N - 1, NEW lap \in Nat, LogShape(f, lap),
         f < N - 2, flash[f + 1] # Blank, flash' = Erased({Sector(f + 1)}),
         saved' = saved
  PROVE  /\ LogShape(f, lap)'
         /\ flash'[f + 1] = Blank
         /\ flash'[IdPage] = flash[IdPage]
<1> DEFINE Old(p) == saved[(lap - 1) * (N - 1) + p + 1]
           New(p) == saved[lap * (N - 1) + p + 1]
<1>1. N \in Nat /\ N >= 4 /\ f \in Nat /\ f + 1 \in f .. N - 2
  BY SectorRange, SizeAssumption
<1>2. /\ Len(saved) = lap * (N - 1) + f
      /\ \A p \in 0 .. f - 1 : flash[p] = New(p)
      /\ flash[f] = Blank
      /\ flash[N - 1] = Blank
      /\ \A p \in f .. N - 1 : Sector(p) = Sector(f) => flash[p] = Blank
      /\ \A p, q \in f .. N - 2 :
           Sector(p) = Sector(q) => (flash[p] = Blank <=> flash[q] = Blank)
      /\ \A p \in f .. N - 2 : flash[p] # Blank => lap > 0 /\ flash[p] = Old(p)
      /\ lap > 0 => \A p \in f + P + 1 .. N - 2 : flash[p] # Blank
  BY DEF LogShape
<1> HIDE DEF Old, New
<1>3. Sector(f + 1) # Sector(f)
  BY <1>1, <1>2
<1>4. \A p \in 0 .. N :
        /\ Sector(p) = Sector(f + 1) => flash'[p] = Blank
        /\ Sector(p) # Sector(f + 1) => flash'[p] = flash[p]
  BY DEF Erased
<1>5. \A p \in 0 .. N : Sector(p) = Sector(f + 1) => f + 1 <= p /\ p <= f + P
  BY <1>1, <1>3, SectorStart
<1>6. flash'[IdPage] = flash[IdPage]
  <2>1. Sector(f + 1) # Sector(IdPage) /\ IdPage \in 0 .. N
    BY <1>1, SectorRange, SizeAssumption DEF IdPage
  <2> QED BY <1>4, <2>1
<1>7. f \in 0 .. N /\ f + 1 \in 0 .. N /\ N - 1 \in 0 .. N
        /\ \A p \in f .. N - 1 : p \in 0 .. N
  BY <1>1
<1>8. flash'[f + 1] = Blank /\ flash'[f] = Blank /\ flash'[N - 1] = Blank
  BY <1>2, <1>3, <1>4, <1>7
<1>9. \A p \in 0 .. f - 1 : flash'[p] = New(p)
  <2>1. ASSUME NEW p \in 0 .. f - 1 PROVE flash'[p] = New(p)
    <3>1. p \in 0 .. N /\ ~(f + 1 <= p)
      BY <1>1
    <3> QED BY <1>2, <1>4, <1>5, <3>1
  <2> QED BY <2>1
<1>10. \A p \in f .. N - 1 : Sector(p) = Sector(f) => flash'[p] = Blank
  BY <1>2, <1>4, <1>7
<1>11. \A p \in f .. N - 2 : p \in 0 .. N
  BY <1>1
<1>12. \A p, q \in f .. N - 2 :
         Sector(p) = Sector(q) => (flash'[p] = Blank <=> flash'[q] = Blank)
  <2>1. ASSUME NEW p \in f .. N - 2, NEW q \in f .. N - 2, Sector(p) = Sector(q)
        PROVE  flash'[p] = Blank <=> flash'[q] = Blank
    <3>1. p \in 0 .. N /\ q \in 0 .. N
      BY <1>11
    <3> QED BY <1>2, <1>4, <2>1, <3>1
  <2> QED BY <2>1
<1>13. \A p \in f .. N - 2 : flash'[p] # Blank => lap > 0 /\ flash'[p] = Old(p)
  BY <1>2, <1>4, <1>11
<1>14. lap > 0 => \A p \in f + P + 1 .. N - 2 : flash'[p] # Blank
  <2>1. ASSUME lap > 0, NEW p \in f + P + 1 .. N - 2 PROVE flash'[p] # Blank
    <3>1. p \in 0 .. N /\ ~(p <= f + P)
      BY <1>1, SizeAssumption
    <3> QED BY <1>2, <1>4, <1>5, <2>1, <3>1
  <2> QED BY <2>1
<1>15. LogShape(f, lap)'
  BY <1>2, <1>8, <1>9, <1>10, <1>12, <1>13, <1>14 DEF LogShape, Old, New
<1> QED BY <1>6, <1>8, <1>15

LEMMA StartNextLap ==
  ASSUME TypeOK, NEW lap \in Nat, LogShape(N - 1, lap),
         flash' = Erased({Sector(0)}), saved' = saved
  PROVE  /\ LogShape(0, lap + 1)'
         /\ flash'[0 + 1] = Blank
         /\ flash'[IdPage] = flash[IdPage]
<1>0. /\ Len(saved) = lap * (N - 1) + (N - 1)
      /\ flash[N - 1] = Blank
      /\ \A p \in 0 .. N - 1 - 1 : flash[p] = saved[lap * (N - 1) + p + 1]
  BY DEF LogShape
<1>1. /\ N \in Nat /\ N >= 4 /\ P \in Nat /\ P >= 2
      /\ lap * (N - 1) \in Nat
      /\ (lap + 1) * (N - 1) = lap * (N - 1) + (N - 1)
      /\ (lap + 1 - 1) * (N - 1) = lap * (N - 1)
  <2>1. lap + 1 - 1 = lap
    OBVIOUS
  <2> QED BY <2>1, SectorRange, SizeAssumption, LapBound
<1>2. \A p \in 0 .. N :
        /\ Sector(p) = Sector(0) => flash'[p] = Blank
        /\ Sector(p) # Sector(0) => flash'[p] = flash[p]
  BY DEF Erased
<1>3. Sector(0) = 0 /\ \A p \in Nat : Sector(p) = 0 <=> p < P
  <2>1. ASSUME NEW p \in Nat, p < P PROVE Sector(p) = 0
    BY <2>1, <1>1, SectorIs
  <2>2. ASSUME NEW p \in Nat, Sector(p) = 0 PROVE p < P
    BY <2>2, <1>1, DivBounds
  <2> QED BY <2>1, <2>2, <1>1
<1>4. \A p \in 0 .. N - 2 : /\ flash[p] = saved[lap * (N - 1) + p + 1]
                            /\ flash[p] # Blank
  <2>1. ASSUME NEW p \in 0 .. N - 2
        PROVE  flash[p] = saved[lap * (N - 1) + p + 1] /\ flash[p] # Blank
    <3>1. p \in 0 .. N - 1 - 1
      BY <1>1
    <3>2. lap * (N - 1) + p + 1 \in 1 .. Len(saved)
      BY <1>0, <1>1
    <3> QED BY <1>0, <3>1, <3>2, ImageFacts DEF TypeOK
  <2> QED BY <2>1
<1>5. flash'[IdPage] = flash[IdPage]
  <2>1. Sector(IdPage) # Sector(0) /\ IdPage \in 0 .. N
    BY <1>1, <1>3, SectorRange, SizeAssumption DEF IdPage
  <2> QED BY <1>2, <2>1
<1>6. flash'[0] = Blank /\ flash'[0 + 1] = Blank /\ flash'[N - 1] = Blank
  <2>1. Sector(1) = Sector(0) /\ 0 \in 0 .. N /\ 1 \in 0 .. N /\ N - 1 \in 0 .. N
    BY <1>1, <1>3
  <2>2. 0 + 1 = 1
    OBVIOUS
  <2>3. flash'[N - 1] = Blank
    BY <1>0, <1>2, <2>1
  <2> QED BY <1>2, <2>1, <2>2, <2>3
<1>7. Len(saved) = (lap + 1) * (N - 1) + 0
  BY <1>0, <1>1
<1>8. \A p \in 0 .. N - 1 : Sector(p) = Sector(0) => flash'[p] = Blank
  <2>1. \A p \in 0 .. N - 1 : p \in 0 .. N
    BY <1>1
  <2> QED BY <1>2, <2>1
<1>9. \A p \in 0 .. N - 2 :
        /\ flash'[p] = Blank <=> Sector(p) = Sector(0)
        /\ flash'[p] # Blank => flash'[p] = saved[lap * (N - 1) + p + 1]
  <2>1. \A p \in 0 .. N - 2 : p \in 0 .. N
    BY <1>1
  <2> QED BY <1>2, <1>4, <2>1
<1>10. /\ \A p, q \in 0 .. N - 2 :
            Sector(p) = Sector(q) => (flash'[p] = Blank <=> flash'[q] = Blank)
       /\ \A p \in 0 .. N - 2 :
            flash'[p] # Blank =>
              lap + 1 > 0 /\ flash'[p] = saved[(lap + 1 - 1) * (N - 1) + p + 1]
  <2>1. lap + 1 > 0
    OBVIOUS
  <2> QED BY <1>1, <1>9, <2>1
<1>11. \A p \in 0 + P + 1 .. N - 2 : flash'[p] # Blank
  <2>1. ASSUME NEW p \in 0 + P + 1 .. N - 2 PROVE flash'[p] # Blank
    <3>1. p \in 0 .. N - 2 /\ ~(p < P) /\ p \in Nat
      BY <1>1
    <3> QED BY <1>3, <1>9, <3>1
  <2> QED BY <2>1
<1>12. 0 .. 0 - 1 = {}
  OBVIOUS
<1>13. ASSUME NEW g, NEW l, g = 0, l = lap + 1 PROVE LogShape(g, l)'
  <2>1. Len(saved') = l * (N - 1) + g
    BY <1>7, <1>13
  <2>2. \A p \in 0 .. g - 1 : flash'[p] = saved'[l * (N - 1) + p + 1]
    BY <1>12, <1>13
  <2>3. flash'[g] = Blank /\ flash'[N - 1] = Blank
    BY <1>6, <1>13
  <2>4. \A p \in g .. N - 1 : Sector(p) = Sector(g) => flash'[p] = Blank
    BY <1>8, <1>13
  <2>5. \A p, q \in g .. N - 2 :
          Sector(p) = Sector(q) => (flash'[p] = Blank <=> flash'[q] = Blank)
    BY <1>10, <1>13
  <2>6. \A p \in g .. N - 2 :
          flash'[p] # Blank =>
            l > 0 /\ flash'[p] = saved'[(l - 1) * (N - 1) + p + 1]
    BY <1>10, <1>13
  <2>7. l > 0 => \A p \in g + P + 1 .. N - 2 : flash'[p] # Blank
    BY <1>11, <1>13
  <2> QED BY <2>1, <2>2, <2>3, <2>4, <2>5, <2>6, <2>7 DEF LogShape
<1> QED BY <1>5, <1>6, <1>13

LEMMA PageFound ==
  ASSUME IInv, FreezeFindsPage,
         NEW f \in 0 .. N - 1, NEW lap \in 0 .. Len(saved),
         LogShape(f, lap)', addr' = f, f < N - 1, flash'[f + 1] = Blank,
         flash' \in [0 .. N -> Image \cup {Blank}],
         flash'[IdPage] = flash[IdPage]
  PROVE  IInv'
<1>1. saved' = saved /\ pc' = "prepare" /\ pc = "loop"
  BY DEF FreezeFindsPage
<1>2. TypeOK'
  BY DEF IInv, FreezeFindsPage, TypeOK, clock
<1>3. IdBuffer'
  BY <1>1 DEF IdBuffer
<1>4. IdPageWritten'
  BY <1>1 DEF IInv, LogInv, IdPageWritten
<1>5. FrameUnderWay(f)'
  BY DEF FrameUnderWay
<1>6. LogInv'
  BY <1>1, <1>4, <1>5 DEF LogInv
<1> QED BY <1>2, <1>3, <1>6 DEF IInv

LEMMA FreezeFindsPageInv == ASSUME IInv, FreezeFindsPage PROVE IInv'
<1>1. N \in Nat /\ N >= 4 /\ IdPage = N /\ TypeOK /\ saved' = saved
  BY SectorRange, SizeAssumption DEF IdPage, IInv, FreezeFindsPage
<1>2. PICK f \in 0 .. N - 1 : \E lap \in 0 .. Len(saved) :
              LogShape(f, lap) /\ FrameUnderWay(f)
  BY DEF IInv, LogInv
<1>3. PICK lap \in 0 .. Len(saved) : LogShape(f, lap)
  BY <1>2
<1>4. lap \in Nat
  OBVIOUS
<1>5. FreePages # {} /\ FirstFree = f
  BY <1>1, <1>3, <1>4, FirstFreeIs
<1>6. f = N - 1 => flash[f + 1] # Blank
  <2> SUFFICES ASSUME f = N - 1 PROVE flash[f + 1] # Blank
    OBVIOUS
  <2>1. CASE CopyAccepted
    <3>1. f + 1 = IdPage
      BY <1>1
    <3> QED BY <2>1, <3>1 DEF IInv, LogInv, IdPageWritten, FreezeFindsPage
  <2>2. CASE ~CopyAccepted
    <3>1. Len(saved) = 0
      BY <2>2 DEF IInv, LogInv, IdPageWritten
    <3>2. Len(saved) = lap * (N - 1) + f /\ lap * (N - 1) \in Nat
      BY <1>3, <1>4, LapBound DEF LogShape
    <3> QED BY <1>1, <3>1, <3>2
  <2> QED BY <2>1, <2>2
<1>7. CASE flash[f + 1] = Blank
  <2>1. addr' = f /\ flash' = flash
    BY <1>5, <1>7 DEF FreezeFindsPage, TakeFreePage
  <2>2. LogShape(f, lap)'
    BY <1>1, <1>3, <1>4, <2>1, SameLog
  <2>3. f < N - 1 /\ flash'[f + 1] = Blank /\ flash'[IdPage] = flash[IdPage]
    BY <1>1, <1>6, <1>7, <2>1
  <2>4. flash' \in [0 .. N -> Image \cup {Blank}]
    BY <1>1, <2>1 DEF TypeOK
  <2> QED BY <2>1, <2>2, <2>3, <2>4, PageFound
<1>8. CASE flash[f + 1] # Blank /\ f >= RolloverPage
  <2>1. f = N - 1
    BY <1>1, <1>3, <1>8 DEF RolloverPage, LogShape
  <2>2. addr' = 0 /\ flash' = Erased({Sector(0)})
    BY <1>5, <1>8 DEF FreezeFindsPage, TakeFreePage
  <2>3. LogShape(N - 1, lap)
    BY <1>3, <2>1
  <2>4. /\ LogShape(0, lap + 1)'
        /\ flash'[0 + 1] = Blank
        /\ flash'[IdPage] = flash[IdPage]
    BY <1>1, <1>4, <2>2, <2>3, StartNextLap
  <2>5. lap + 1 \in 0 .. Len(saved) /\ 0 \in 0 .. N - 1 /\ 0 < N - 1
    <3>1. Len(saved) = (lap + 1) * (N - 1) + 0
      BY <1>1, <2>4 DEF LogShape
    <3>2. lap + 1 <= (lap + 1) * (N - 1) + 0 /\ lap + 1 \in Nat
      BY <1>4, LapBound
    <3> QED BY <1>1, <3>1, <3>2
  <2>6. flash' \in [0 .. N -> Image \cup {Blank}]
    BY <1>1, <2>2 DEF Erased, TypeOK
  <2> QED BY <2>2, <2>4, <2>5, <2>6, PageFound
<1>9. CASE flash[f + 1] # Blank /\ ~(f >= RolloverPage)
  <2>1. addr' = f /\ flash' = Erased({Sector(f + 1)}) /\ f < N - 2
    BY <1>1, <1>5, <1>9 DEF FreezeFindsPage, TakeFreePage, RolloverPage
  <2>2. /\ LogShape(f, lap)'
        /\ flash'[f + 1] = Blank
        /\ flash'[IdPage] = flash[IdPage]
    BY <1>1, <1>3, <1>4, <1>9, <2>1, StartSameSector
  <2>3. flash' \in [0 .. N -> Image \cup {Blank}]
    BY <1>1, <2>1 DEF Erased, TypeOK
  <2>4. f < N - 1
    BY <1>1, <2>1
  <2> QED BY <2>1, <2>2, <2>3, <2>4, PageFound
<1> QED BY <1>7, <1>8, <1>9

LEMMA FreezeWritesInv == ASSUME IInv, FreezeWrites PROVE IInv'
<1>1. /\ N \in Nat /\ N >= 4 /\ IdPage = N /\ TypeOK
      /\ pc = "write" /\ pc' = "loop" /\ CopyAccepted /\ buf' = buf
      /\ flash' = [flash EXCEPT ![addr] = buf]
      /\ saved' = Append(saved, buf)
  BY SectorRange, SizeAssumption DEF IdPage, IInv, FreezeWrites
<1>2. PICK f \in 0 .. N - 1 : \E lap \in 0 .. Len(saved) :
              LogShape(f, lap) /\ FrameUnderWay(f)
  BY DEF IInv, LogInv
<1>3. PICK lap \in 0 .. Len(saved) : LogShape(f, lap) /\ FrameUnderWay(f)
  BY <1>2
<1>4. lap \in Nat /\ lap * (N - 1) \in Nat
  BY <1>1, LapBound
<1>5. addr = f /\ f < N - 1 /\ flash[f + 1] = Blank
  BY <1>1, <1>3 DEF FrameUnderWay
<1> DEFINE Old(p) == saved[(lap - 1) * (N - 1) + p + 1]
           New(p) == saved[lap * (N - 1) + p + 1]
<1>6. /\ Len(saved) = lap * (N - 1) + f
      /\ \A p \in 0 .. f - 1 : flash[p] = New(p)
      /\ flash[N - 1] = Blank
      /\ \A p \in f .. N - 1 : Sector(p) = Sector(f) => flash[p] = Blank
      /\ \A p, q \in f .. N - 2 :
           Sector(p) = Sector(q) => (flash[p] = Blank <=> flash[q] = Blank)
      /\ \A p \in f .. N - 2 : flash[p] # Blank => lap > 0 /\ flash[p] = Old(p)
      /\ lap > 0 => \A p \in f + P + 1 .. N - 2 : flash[p] # Blank
  BY <1>3 DEF LogShape
<1> HIDE DEF Old, New
<1>7. flash'[f] = buf /\ \A p \in 0 .. N : p # f => flash'[p] = flash[p]
  BY <1>1, <1>5 DEF TypeOK
<1>8. /\ Len(saved') = Len(saved) + 1
      /\ saved'[Len(saved) + 1] = buf
      /\ \A i \in 1 .. Len(saved) : saved'[i] = saved[i]
      /\ saved' \in Seq(Image) /\ Len(saved) \in Nat
  BY <1>1 DEF TypeOK
<1>9. \A p \in 0 .. f : flash'[p] = saved'[lap * (N - 1) + p + 1]
  <2>1. ASSUME NEW p \in 0 .. f - 1
        PROVE  flash'[p] = saved'[lap * (N - 1) + p + 1]
    <3>1. p \in 0 .. N /\ p # f /\ lap * (N - 1) + p + 1 \in 1 .. Len(saved)
      BY <1>1, <1>4, <1>6
    <3> QED BY <1>6, <1>7, <1>8, <3>1 DEF New
  <2>2. flash'[f] = saved'[lap * (N - 1) + f + 1]
    BY <1>6, <1>7, <1>8
  <2>3. \A p \in 0 .. f : p = f \/ p \in 0 .. f - 1
    BY <1>1
  <2> QED BY <2>1, <2>2, <2>3
<1>10. \A p \in f + 1 .. N - 1 : p \in 0 .. N /\ p # f /\ p \in f .. N - 1
  BY <1>1
<1>11. f + 1 \in f + 1 .. N - 1 /\ N - 1 \in f + 1 .. N - 1
  BY <1>1, <1>5
<1>12. flash'[f + 1] = Blank /\ flash'[N - 1] = Blank
  BY <1>5, <1>6, <1>7, <1>10, <1>11
<1>13. \A p \in f + 1 .. N - 1 : Sector(p) = Sector(f + 1) => flash'[p] = Blank
  <2>1. ASSUME NEW p \in f + 1 .. N - 1, Sector(p) = Sector(f + 1)
        PROVE  flash[p] = Blank
    <3>1. CASE p = N - 1
      BY <1>6, <3>1
    <3>2. CASE p # N - 1
      <4>1. p \in f .. N - 2 /\ f + 1 \in f .. N - 2
        BY <1>1, <3>2
      <4> QED BY <1>5, <1>6, <2>1, <4>1
    <3> QED BY <3>1, <3>2
  <2> QED BY <1>7, <1>10, <2>1
<1>14. \A p \in f + 1 .. N - 2 : p \in 0 .. N /\ p # f /\ p \in f .. N - 2
  BY <1>1
<1>15. \A p, q \in f + 1 .. N - 2 :
         Sector(p) = Sector(q) => (flash'[p] = Blank <=> flash'[q] = Blank)
  BY <1>6, <1>7, <1>14
<1>16. ASSUME NEW p \in f + 1 .. N - 2, flash'[p] # Blank
       PROVE  lap > 0 /\ flash'[p] = saved'[(lap - 1) * (N - 1) + p + 1]
  <2>1. lap > 0 /\ flash'[p] = Old(p)
    BY <1>6, <1>7, <1>14, <1>16
  <2>2. /\ (lap - 1) * (N - 1) \in Nat
        /\ lap * (N - 1) = (lap - 1) * (N - 1) + (N - 1)
    <3>1. lap - 1 \in Nat /\ (lap - 1) + 1 = lap
      BY <1>4, <2>1
    <3> QED BY <3>1, LapBound
  <2>3. (lap - 1) * (N - 1) + p + 1 \in 1 .. Len(saved)
    BY <1>1, <1>6, <2>2
  <2> QED BY <1>8, <2>1, <2>3 DEF Old
<1>17. lap > 0 => \A p \in (f + 1) + P + 1 .. N - 2 : flash'[p] # Blank
  <2>1. ASSUME lap > 0, NEW p \in (f + 1) + P + 1 .. N - 2
        PROVE  flash'[p] # Blank
    <3>1. p \in f + P + 1 .. N - 2 /\ p \in 0 .. N /\ p # f
      BY <1>1, SizeAssumption
    <3> QED BY <1>6, <1>7, <2>1, <3>1
  <2> QED BY <2>1
<1>18. ASSUME NEW g, g = f + 1 PROVE LogShape(g, lap)'
  <2>1. Len(saved') = lap * (N - 1) + g
    BY <1>4, <1>6, <1>8, <1>18
  <2>2. g - 1 = f
    BY <1>18
  <2>3. \A p \in 0 .. g - 1 : flash'[p] = saved'[lap * (N - 1) + p + 1]
    BY <1>9, <2>2
  <2>4. flash'[g] = Blank /\ flash'[N - 1] = Blank
    BY <1>12, <1>18
  <2>5. \A p \in g .. N - 1 : Sector(p) = Sector(g) => flash'[p] = Blank
    BY <1>13, <1>18
  <2>6. \A p, q \in g .. N - 2 :
          Sector(p) = Sector(q) => (flash'[p] = Blank <=> flash'[q] = Blank)
    BY <1>15, <1>18
  <2>7. \A p \in g .. N - 2 :
          flash'[p] # Blank =>
            lap > 0 /\ flash'[p] = saved'[(lap - 1) * (N - 1) + p + 1]
    BY <1>16, <1>18
  <2>8. lap > 0 => \A p \in g + P + 1 .. N - 2 : flash'[p] # Blank
    BY <1>17, <1>18
  <2> QED BY <2>1, <2>3, <2>4, <2>5, <2>6, <2>7, <2>8 DEF LogShape
<1>19. f + 1 \in 0 .. N - 1 /\ lap \in 0 .. Len(saved')
  BY <1>1, <1>4, <1>5, <1>8
<1>20. flash'[IdPage] = flash[IdPage]
  BY <1>1, <1>5, <1>7
<1>21. TypeOK'
  <2>1. flash' \in [0 .. N -> Image \cup {Blank}]
    BY <1>1 DEF TypeOK
  <2> QED BY <1>1, <1>8, <1>20, <2>1 DEF FreezeWrites, TypeOK, clock
<1>22. IdBuffer'
  BY <1>1 DEF IdBuffer
<1>23. IdPageWritten'
  BY <1>1, <1>20 DEF IInv, LogInv, IdPageWritten
<1>24. LogInv'
  <2>1. LogShape(f + 1, lap)' /\ FrameUnderWay(f + 1)'
    BY <1>1, <1>18 DEF FrameUnderWay
  <2> QED BY <1>19, <1>23, <2>1 DEF LogInv
<1> QED BY <1>21, <1>22, <1>24 DEF IInv
-----------------------------------------------------------------------------
LEMMA StepInv == IInv /\ [Next]_vars => IInv'
<1> SUFFICES ASSUME IInv, [Next]_vars PROVE IInv'
  OBVIOUS
<1>1. CASE FreezeFindsPage
  BY <1>1, FreezeFindsPageInv
<1>2. CASE FreezeWrites
  BY <1>2, FreezeWritesInv
<1>3. CASE CheckIdErases
  BY <1>3, CheckIdErasesInv
<1>4. CASE CheckIdWrites \/ OfflineWrites
  BY <1>4, WriteIdPageInv
<1>5. CASE OfflineErases
  BY <1>5, OfflineErasesInv
<1>6. CASE \/ PowerOn \/ PowerOff \/ SwapMeter \/ CheckIdMatches \/ Tick
           \/ SetClock \/ FreezePrepares \/ UNCHANGED vars
  BY <1>6, QuietSteps
<1> QED BY <1>1, <1>2, <1>3, <1>4, <1>5, <1>6 DEF Next

LEMMA InvHolds == Spec => []IInv
  BY InitInv, StepInv, PTL DEF Spec

(***************************************************************************)
(* Every variable keeps its type; in particular check_add_free() always    *)
(* returns a frame page, and the ID page holds an ID page or is blank.     *)
(***************************************************************************)
THEOREM TypeCorrect == Spec => []TypeOK
<1>1. IInv => TypeOK
  BY DEF IInv
<1> QED BY <1>1, InvHolds, PTL

(***************************************************************************)
(* The log always has its shape, and the ID page is written whenever the   *)
(* main loop may look for a free page: if it were blank, check_add_free()  *)
(* would not go round behind the last frame page.                          *)
(***************************************************************************)
THEOREM LogInvHolds == Spec => []LogInv
<1>1. IInv => LogInv
  BY DEF IInv
<1> QED BY <1>1, InvHolds, PTL

(***************************************************************************)
(* The last (Sectors - 1) * P - 2 images written since the log was erased  *)
(* are in flash, each in the page its number says, for any geometry of     *)
(* the flash and after any sequence of losses of power.                    *)
(***************************************************************************)
THEOREM RetainedHolds == Spec => []Retained
<1>1. IInv => Retained
  <2> SUFFICES ASSUME IInv, NEW i \in 1 .. Len(saved), Recent(i)
               PROVE  flash[PageOf(i)] = saved[i]
    BY DEF Retained
  <2>1. PICK f \in 0 .. N - 1 : \E lap \in 0 .. Len(saved) : LogShape(f, lap)
    BY DEF IInv, LogInv
  <2>2. PICK lap \in 0 .. Len(saved) : LogShape(f, lap)
    BY <2>1
  <2>3. /\ N \in Nat /\ N >= 4 /\ P \in Nat /\ lap \in Nat
        /\ lap * (N - 1) \in Nat
    BY SectorRange, SizeAssumption, LapBound
  <2>4. Keep = N - P - 2
    BY <2>3, SizeAssumption DEF Keep, N
  <2>5. Len(saved) = lap * (N - 1) + f /\ i + Keep > Len(saved)
    BY <2>2 DEF LogShape, Recent
  <2>6. CASE i > lap * (N - 1)
    <3> DEFINE p == i - 1 - lap * (N - 1)
    <3>1. p \in 0 .. f - 1 /\ p \in 0 .. N - 2 /\ i = lap * (N - 1) + p + 1
      BY <2>3, <2>5, <2>6
    <3> HIDE DEF p
    <3>2. flash[p] = saved[lap * (N - 1) + p + 1]
      BY <2>2, <3>1 DEF LogShape
    <3> QED BY <2>3, <3>1, <3>2, PageOfLap
  <2>7. CASE ~(i > lap * (N - 1))
    <3>1. lap > 0
      <4>1. lap = 0 => lap * (N - 1) = 0
        BY <2>3
      <4> QED BY <2>3, <2>7, <4>1
    <3>2. /\ lap - 1 \in Nat /\ (lap - 1) * (N - 1) \in Nat
          /\ lap * (N - 1) = (lap - 1) * (N - 1) + (N - 1)
      <4>1. lap - 1 \in Nat /\ (lap - 1) + 1 = lap
        BY <2>3, <3>1
      <4> QED BY <4>1, LapBound
    <3> DEFINE p == i - 1 - (lap - 1) * (N - 1)
    <3>3. /\ p \in f + P + 1 .. N - 2 /\ p \in f .. N - 2 /\ p \in 0 .. N - 2
          /\ i = (lap - 1) * (N - 1) + p + 1
      BY <2>3, <2>4, <2>5, <2>7, <3>2
    <3> HIDE DEF p
    <3>4. flash[p] = saved[(lap - 1) * (N - 1) + p + 1]
      BY <2>2, <3>1, <3>3 DEF LogShape
    <3> QED BY <3>2, <3>3, <3>4, PageOfLap
  <2> QED BY <2>6, <2>7
<1> QED BY <1>1, InvHolds, PTL

\* The page a frame is written to is blank from its choice to its writing.
THEOREM BlankTargetHolds == Spec => []BlankTarget
<1>1. IInv => BlankTarget
  BY DEF IInv, LogInv, LogShape, FrameUnderWay, BlankTarget
<1> QED BY <1>1, InvHolds, PTL
=============================================================================
