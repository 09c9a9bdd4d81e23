---------------------- MODULE FreezeLogContents_proofs ----------------------
(***************************************************************************)
(* Proofs about what the pages of FreezeLog contain: the ID page with its  *)
(* log of lost connections, and whose frames the frame pages hold.         *)
(***************************************************************************)
EXTENDS FreezeLog_proofs, WellFoundedInduction

\* A set of natural numbers that is not empty has a least one.
LEMMA LeastNat ==
  ASSUME NEW S \in SUBSET Nat, S # {}
  PROVE  \E x \in S : \A y \in S : x <= y
<1> DEFINE R == {ss \in Nat \X Nat : ss[1] < ss[2]}
<1>1. IsWellFoundedOn(R, Nat)
  BY ONLY NatLessThanWellFounded, Zenon DEF OpToRel
<1>2. PICK x \in S : \A y \in S : <<y, x>> \notin R
  <2> HIDE DEF R
  <2> QED BY <1>1, WFMin, Zenon
<1>3. \A y \in S : ~(y < x)
  BY <1>2
<1> QED BY <1>3

LEMMA IdPageIs == N \in Nat /\ N >= 4 /\ IdPage = N /\ N - 1 < N
  BY SectorRange, SizeAssumption DEF IdPage

LEMMA IsFrameFacts ==
  /\ ~IsFrame(Blank) /\ ~IsFrame(Zero)
  /\ \A image \in IdImage : ~IsFrame(image)
  /\ \A image : IsFrame(image) => image.meter \in Meters /\ image.label \in Times
<1>1. ASSUME NEW image \in IdImage, IsFrame(image) PROVE FALSE
  <2>1. image \in [id : Ids, total : 0 .. CountMod - 1, log : [0 .. LogLen -> LogEntry]]
    BY DEF IdImage
  <2>2. image \in [label : Times, meter : Meters, answers : Nat \ {0}]
    BY <1>1 DEF IsFrame, FrameImage
  <2>3. "id" \in DOMAIN image
    BY <2>1
  <2>4. DOMAIN image = {"label", "meter", "answers"}
    BY <2>2
  <2> QED BY <2>3, <2>4
<1>2. ASSUME NEW image, IsFrame(image)
      PROVE  image.meter \in Meters /\ image.label \in Times
  BY <1>2 DEF IsFrame, FrameImage
<1>3. ~IsFrame(Blank) /\ ~IsFrame(Zero)
  BY BlankAssumption DEF IsFrame, Image
<1> QED BY <1>1, <1>2, <1>3

\* check_add_free() changes no page but by erasing it.
LEMMA TakesByErasing ==
  ASSUME TypeOK, TakeFreePage
  PROVE  \A p \in 0 .. N : flash'[p] \in {flash[p], Blank}
<1>1. flash' = flash \/ \E S : flash' = Erased(S)
  BY DEF TakeFreePage
<1> QED BY <1>1 DEF Erased

LEMMA AllErased ==
  ASSUME TypeOK, flash' = Erased(0 .. IdSector)
  PROVE  \A p \in 0 .. N : flash'[p] = Blank
<1>1. \A p \in 0 .. N : Sector(p) \in 0 .. IdSector
  BY SectorRange, SizeAssumption, IdPageIs DEF IdSector
<1> QED BY <1>1 DEF Erased

\* save_time_offline() erases the sector of the ID page and no frame.
LEMMA IdErased ==
  ASSUME TypeOK, flash' = Erased({IdSector})
  PROVE  flash'[IdPage] = Blank /\ \A p \in 0 .. N - 1 : flash'[p] = flash[p]
<1>1. \A p \in 0 .. N - 1 : p \in 0 .. N /\ Sector(p) # IdSector
  BY SectorRange, SizeAssumption DEF IdSector
<1>2. IdPage \in 0 .. N /\ Sector(IdPage) = IdSector
  BY SectorRange, IdPageIs DEF IdSector
<1> QED BY <1>1, <1>2 DEF Erased

LEMMA IdWritten ==
  ASSUME TypeOK, WriteIdPage
  PROVE  /\ \A p \in 0 .. N - 1 : flash'[p] = flash[p]
         /\ flash'[IdPage] = IF CopyAccepted THEN buf ELSE flash[IdPage]
  BY IdPageIs DEF TypeOK, WriteIdPage

LEMMA FrameWritten ==
  ASSUME TypeOK, FreezeWrites
  PROVE  /\ \A p \in 0 .. N : p # addr => flash'[p] = flash[p]
         /\ flash'[addr] = buf /\ flash'[IdPage] = flash[IdPage]
  BY IdPageIs DEF TypeOK, FreezeWrites
-----------------------------------------------------------------------------
\* The count of lost connections, as it goes round on the page.
LEMMA CountNext ==
  ASSUME NEW n \in Nat
  PROVE  (n + 1) % CountMod =
           IF n % CountMod = CountMod - 1 THEN 0 ELSE (n % CountMod) + 1
<1> DEFINE M == CountMod
           q == n \div M
           r == n % M
           u == (n + 1) \div M
           v == (n + 1) % M
<1>1. /\ M \in Nat \ {0} /\ q \in Nat /\ u \in Nat
      /\ r \in 0 .. M - 1 /\ v \in 0 .. M - 1
      /\ n = M * q + r /\ n + 1 = M * u + v
  BY SizeAssumption
<1>2. q * M = M * q /\ u * M = M * u /\ q * M \in Nat /\ u * M \in Nat
  BY <1>1
<1>3. q * M + r + 1 = u * M + v
  BY <1>1, <1>2
<1>4. (q + 1) * M = q * M + M /\ q + 1 \in Nat
  BY <1>1
<1> HIDE DEF M, q, r, u, v
<1>5. ~ (u < q)
  <2>1. u < q => u * M + M <= q * M
    BY <1>1, MulMono
  <2> QED BY <2>1, <1>1, <1>2, <1>3
<1>6. ~ (q + 1 < u)
  <2>1. q + 1 < u => (q + 1) * M + M <= u * M
    BY <1>1, <1>4, MulMono
  <2> QED BY <2>1, <1>1, <1>2, <1>3, <1>4
<1>7. u = q \/ u = q + 1
  BY <1>1, <1>5, <1>6
<1>8. CASE u = q
  BY <1>1, <1>2, <1>3, <1>8 DEF M, r, v
<1>9. CASE u = q + 1
  BY <1>1, <1>2, <1>3, <1>4, <1>9 DEF M, r, v
<1> QED BY <1>7, <1>8, <1>9

LEMMA CountsAgree ==
  ASSUME NEW a \in Nat, NEW b \in Nat, a % CountMod = b % CountMod
  PROVE  /\ (a + 1) % CountMod = (b + 1) % CountMod
         /\ (a + 1) % CountMod <= a + 1
         /\ (a + 1) % CountMod <= (b % CountMod) + 1
<1>1. /\ (a + 1) % CountMod = IF a % CountMod = CountMod - 1 THEN 0 ELSE (a % CountMod) + 1
      /\ (b + 1) % CountMod = IF b % CountMod = CountMod - 1 THEN 0 ELSE (b % CountMod) + 1
  BY CountNext
<1>2. a % CountMod \in 0 .. CountMod - 1 /\ b % CountMod \in 0 .. CountMod - 1
  BY CountType
<1>3. a % CountMod <= a
  BY SizeAssumption
<1> DEFINE x == a % CountMod
           y == b % CountMod
           z == (a + 1) % CountMod
           w == (b + 1) % CountMod
<1>4. /\ z = IF x = CountMod - 1 THEN 0 ELSE x + 1
      /\ w = IF y = CountMod - 1 THEN 0 ELSE y + 1
      /\ x = y /\ x <= a /\ x \in 0 .. CountMod - 1 /\ CountMod \in Nat \ {0}
  BY <1>1, <1>2, <1>3, SizeAssumption
<1> HIDE DEF x, y, z, w
<1>5. z = w /\ z <= a + 1 /\ z <= y + 1
  BY <1>4
<1> QED BY <1>5 DEF x, y, z, w

LEMMA OfflineInit == Init => OfflineInv
  BY IdPageIs DEF Init, OfflineInv, WritesId

\* The list of the lost connections with one more at its head.
LEMMA OffsGrow ==
  ASSUME offs \in Seq(Times), now \in Times
  PROVE  /\ Len(<<now>> \o offs) = Len(offs) + 1
         /\ (<<now>> \o offs)[1] = now
         /\ \A i \in 1 .. Len(offs) : (<<now>> \o offs)[i + 1] = offs[i]
  OBVIOUS

LEMMA OfflineErasesOffline ==
  ASSUME IInv, OfflineInv, OfflineLog, OfflineErases
  PROVE  OfflineInv'
<1>1. /\ TypeOK /\ pc = "loop" /\ pc' = "writeOffline"
      /\ total % CountMod = Len(offs) % CountMod
      /\ total' = total + 1 /\ offs' = <<now>> \o offs
      /\ total \in Nat /\ Len(offs) \in Nat
  BY DEF IInv, TypeOK, OfflineInv, OfflineErases
<1>2. flash'[IdPage] = Blank
  BY <1>1, IdErased DEF OfflineErases
<1>3. Len(offs') = Len(offs) + 1
  BY <1>1, OffsGrow DEF TypeOK
<1> DEFINE c == (total + 1) % CountMod
<1>4. /\ c = (Len(offs) + 1) % CountMod
      /\ c <= total + 1 /\ c <= (Len(offs) % CountMod) + 1
  BY <1>1, CountsAgree
<1>5. c \in Nat /\ Len(offs) % CountMod \in Nat
  <2>1. total + 1 \in Nat
    BY <1>1
  <2>2. CountMod - 1 \in Nat /\ 0 .. CountMod - 1 \subseteq Nat
    BY SizeAssumption
  <2> QED BY <1>1, <2>1, <2>2, CountType
<1>6. ASSUME CopyAccepted PROVE LogIs(buf)'
  <2>1. flash[IdPage] # Blank /\ LogIs(flash[IdPage])
    BY <1>1, <1>6 DEF IInv, LogInv, IdPageWritten, OfflineLog
  <2>2. buf'.total = c /\ buf'.log = ShiftedLog
    BY DEF OfflineErases
  <2> HIDE DEF c
  <2>3. ASSUME NEW i \in 0 .. LogLen, i < Len(offs) + 1, i <= c
        PROVE  buf'.log[i] = offs'[i + 1]
    <3>1. CASE i = 0
      <4>1. buf'.log[i] = now
        BY <2>2, <3>1, SizeAssumption DEF ShiftedLog
      <4> QED BY <1>1, <3>1, <4>1, OffsGrow DEF TypeOK
    <3>2. CASE i # 0
      <4>1. /\ i - 1 \in 0 .. LogLen /\ i - 1 < Len(offs) /\ i \in 1 .. Len(offs)
            /\ i <= total + 1 /\ i - 1 <= Len(offs) % CountMod
        BY <1>1, <1>4, <1>5, <2>3, <3>2, SizeAssumption
      <4>2. buf'.log[i] = OldLog(i - 1)
        BY <2>2, <4>1, <3>2 DEF ShiftedLog
      <4>3. OldLog(i - 1) = offs[i - 1 + 1]
        BY <2>1, <4>1 DEF OldLog, LogIs
      <4>4. i - 1 + 1 = i
        BY <4>1
      <4> QED BY <1>1, <4>1, <4>2, <4>3, <4>4, OffsGrow DEF TypeOK
    <3> QED BY <3>1, <3>2
  <2> QED BY <1>3, <1>4, <2>2, <2>3 DEF LogIs
<1>7. total' % CountMod = Len(offs') % CountMod
  BY <1>1, <1>3, <1>4
<1> QED BY <1>1, <1>2, <1>6, <1>7 DEF OfflineInv, WritesId

LEMMA OfflineStep ==
  ASSUME IInv, OfflineInv, OfflineLog, [Next]_vars
  PROVE  OfflineInv' /\ OfflineLog'
<1> USE DEF OfflineInv, OfflineLog, WritesId
<1>0. TypeOK
  BY DEF IInv
<1>1. CASE PowerOn
  BY <1>1 DEF PowerOn, LogIs
<1>2. CASE \/ PowerOff \/ SwapMeter \/ Tick \/ SetClock \/ FreezePrepares
           \/ UNCHANGED vars
  BY <1>2 DEF PowerOff, SwapMeter, Tick, SetClock, FreezePrepares, vars, LogIs
<1>3. CASE CheckIdMatches
  <2>1. /\ flash[IdPage] # Blank /\ total' = flash[IdPage].total /\ offs' = offs
        /\ pc' = "loop" /\ flash' = flash /\ Len(offs) \in Nat
    BY <1>0, <1>3 DEF CheckIdMatches, SameId, TypeOK
  <2>2. total' = Len(offs) % CountMod
    BY <2>1 DEF LogIs
  <2>3. total' % CountMod = Len(offs) % CountMod
    <3> DEFINE c == Len(offs) % CountMod
    <3>1. c \in 0 .. CountMod - 1 /\ CountMod \in Nat \ {0}
      BY <2>1, CountType, SizeAssumption
    <3> HIDE DEF c
    <3>2. c % CountMod = c
      BY <3>1
    <3> QED BY <2>2, <3>2 DEF c
  <2> QED BY <2>1, <2>3 DEF LogIs
<1>4. CASE CheckIdErases
  <2>1. flash'[IdPage] = Blank
    BY <1>0, <1>4, AllErased, IdPageIs DEF CheckIdErases
  <2>2. Len(offs') = 0 /\ total' = 0 /\ buf'.total = 0 /\ pc' = "writeId"
    BY <1>4 DEF CheckIdErases
  <2>3. 0 % CountMod = 0
    BY SizeAssumption
  <2>4. LogIs(buf)'
    BY <2>2, <2>3 DEF LogIs
  <2> QED BY <2>1, <2>2, <2>3, <2>4
<1>5. CASE CheckIdWrites \/ OfflineWrites
  <2>1. /\ WriteIdPage /\ WritesId /\ pc' = "loop"
        /\ offs' = offs /\ total' = total
        /\ total % CountMod = Len(offs) % CountMod
    BY <1>5 DEF CheckIdWrites, OfflineWrites
  <2>2. flash'[IdPage] = IF CopyAccepted THEN buf ELSE flash[IdPage]
    BY <1>0, <2>1, IdWritten
  <2>3. CopyAccepted => LogIs(flash'[IdPage])
    BY <2>1, <2>2
  <2>4. LogIs(flash'[IdPage]) => LogIs(flash[IdPage])'
    BY <2>1 DEF LogIs
  <2> QED BY <2>1, <2>2, <2>3, <2>4
<1>6. CASE FreezeFindsPage
  <2>1. flash'[IdPage] \in {flash[IdPage], Blank}
    BY <1>0, <1>6, TakesByErasing, IdPageIs DEF FreezeFindsPage
  <2> QED BY <1>6, <2>1 DEF FreezeFindsPage, LogIs
<1>7. CASE FreezeWrites
  BY <1>0, <1>7, FrameWritten DEF FreezeWrites, LogIs
<1>8. CASE OfflineErases
  <2>1. OfflineInv'
    BY <1>8, OfflineErasesOffline
  <2>2. flash'[IdPage] = Blank
    BY <1>0, <1>8, IdErased DEF OfflineErases
  <2> QED BY <2>1, <2>2
<1> QED BY <1>1, <1>2, <1>3, <1>4, <1>5, <1>6, <1>7, <1>8 DEF Next

LEMMA OfflineHolds == Spec => [](OfflineInv /\ OfflineLog)
<1>1. Init => OfflineLog
  BY IdPageIs DEF Init, OfflineLog
<1> QED BY <1>1, OfflineInit, OfflineStep, InvHolds, PTL DEF Spec

(***************************************************************************)
(* The log of lost connections is their times, newest first, and its count *)
(* is theirs, for any number of them and wherever power fails.             *)
(***************************************************************************)
THEOREM OfflineLogHolds == Spec => []OfflineLog
  BY OfflineHolds, PTL

(***************************************************************************)
(* No page is programmed again before its sector has been erased: not by   *)
(* freeze_frame(), whose page is blank until it is written, and not by the *)
(* two writers of the ID page.                                             *)
(***************************************************************************)
THEOREM WriteOnceHolds == Spec => WriteOnce
<1> DEFINE Once == \A p \in 0 .. N :
                     flash[p] # Blank => flash'[p] \in {flash[p], Blank}
<1>1. ASSUME IInv, OfflineInv, Next PROVE Once
  <2>0. TypeOK /\ BlankTarget
    BY <1>1 DEF IInv, LogInv, LogShape, FrameUnderWay, BlankTarget
  <2>1. CASE \/ PowerOn \/ PowerOff \/ SwapMeter \/ CheckIdMatches \/ Tick
             \/ SetClock \/ FreezePrepares
    BY <2>1 DEF PowerOn, PowerOff, SwapMeter, CheckIdMatches, Tick, SetClock, FreezePrepares
  <2>2. CASE CheckIdErases
    BY <2>0, <2>2, AllErased DEF CheckIdErases
  <2>3. CASE CheckIdWrites \/ OfflineWrites
    <3>1. flash[IdPage] = Blank /\ WriteIdPage
      BY <1>1, <2>3 DEF CheckIdWrites, OfflineWrites, OfflineInv, WritesId
    <3>2. \A p \in 0 .. N : p = IdPage \/ p \in 0 .. N - 1
      BY IdPageIs
    <3> QED BY <2>0, <3>1, <3>2, IdWritten
  <2>4. CASE FreezeFindsPage
    BY <2>0, <2>4, TakesByErasing DEF FreezeFindsPage
  <2>5. CASE FreezeWrites
    <3>1. flash[addr] = Blank
      BY <2>0, <2>5 DEF BlankTarget, FreezeWrites
    <3> QED BY <2>0, <2>5, <3>1, FrameWritten
  <2>6. CASE OfflineErases
    BY <2>0, <2>6 DEF OfflineErases, Erased
  <2> QED BY <1>1, <2>1, <2>2, <2>3, <2>4, <2>5, <2>6 DEF Next
<1>2. IInv /\ OfflineInv /\ [Next]_vars => [Once]_vars
  BY <1>1
<1> QED BY <1>2, InvHolds, OfflineHolds, PTL DEF Spec, WriteOnce
-----------------------------------------------------------------------------
\* Frames of one meter stay so where every page is kept, erased, or written
\* with a frame of the same meter.
LEMMA FramesKept ==
  ASSUME NEW m, FramesOf(m),
         \A p \in 0 .. N - 1 :
           \/ flash'[p] = flash[p] \/ flash'[p] = Blank
           \/ flash'[p] = buf /\ (IsFrame(buf) => buf.meter = m)
  PROVE  \A p \in 0 .. N - 1 : IsFrame(flash'[p]) => flash'[p].meter = m
  BY IsFrameFacts DEF FramesOf

LEMMA FramesPrime ==
  ASSUME NEW m
  PROVE  FramesOf(m)' <=>
           \A p \in 0 .. N - 1 : IsFrame(flash'[p]) => flash'[p].meter = m'
  BY DEF FramesOf, IsFrame

LEMMA MeterInit == Init => MeterInv
<1> SUFFICES ASSUME Init PROVE MeterInv
  OBVIOUS
<1>1. \A p \in 0 .. N - 1 : ~IsFrame(flash[p])
  BY IdPageIs, IsFrameFacts DEF Init
<1>2. flash[IdPage] = Blank /\ pc = "off"
  BY IdPageIs DEF Init
<1>3. meter \in Meters /\ FramesOf(meter)
  BY <1>1 DEF Init, FramesOf
<1> QED BY <1>2, <1>3 DEF MeterInv, WritesId

LEMMA MeterStep ==
  ASSUME ~BootSilent, IInv, OfflineInv, MeterInv, [Next]_vars
  PROVE  MeterInv'
<1> USE DEF WritesId
<1>0. TypeOK
  BY DEF IInv
<1>1. PICK m \in Meters : FramesOf(m)
  BY DEF MeterInv
<1>2. CASE PowerOn
  <2>1. /\ paraId' = meter /\ meter' = meter /\ flash' = flash /\ buf' = Zero
        /\ pc' = "checkId"
    BY <1>2 DEF PowerOn
  <2> QED BY <2>1, IsFrameFacts DEF MeterInv, FramesOf, IsFrame
<1>3. CASE PowerOff
  BY <1>3 DEF PowerOff, MeterInv, FramesOf, IsFrame
<1>4. CASE SwapMeter
  BY <1>4 DEF SwapMeter, MeterInv, FramesOf, IsFrame
<1>5. CASE Tick \/ SetClock \/ UNCHANGED vars
  BY <1>5 DEF Tick, SetClock, vars, MeterInv, FramesOf, IsFrame
<1>6. CASE CheckIdMatches
  <2>1. /\ flash[IdPage] # Blank /\ flash[IdPage].id = paraId /\ pc = "checkId"
        /\ pc' = "loop" /\ flash' = flash /\ buf' = buf /\ meter' = meter
        /\ paraId' = paraId
    BY <1>6 DEF CheckIdMatches, SameId
  <2> QED BY <2>1 DEF MeterInv, FramesOf, IsFrame
<1>7. CASE CheckIdErases
  <2>1. \A p \in 0 .. N : flash'[p] = Blank
    BY <1>0, <1>7, AllErased DEF CheckIdErases
  <2>2. flash'[IdPage] = Blank /\ \A p \in 0 .. N - 1 : ~IsFrame(flash'[p])
    BY <2>1, IdPageIs, IsFrameFacts
  <2>3. /\ pc' = "writeId" /\ meter' = meter /\ paraId' = paraId
        /\ paraId = meter /\ buf'.id = paraId
    BY <1>7 DEF CheckIdErases, MeterInv
  <2>4. buf' \in IdImage
    BY <1>7, <1>0, SizeAssumption DEF CheckIdErases, TypeOK, IdImage, LogEntry
  <2>5. meter \in Meters /\ FramesOf(meter)'
    BY <1>0, <2>2, <2>3, FramesPrime DEF TypeOK
  <2> QED BY <2>2, <2>3, <2>4, <2>5, IsFrameFacts DEF MeterInv, IsFrame
<1>8. CASE CheckIdWrites \/ OfflineWrites
  <2>1. /\ WriteIdPage /\ pc \in {"writeId", "writeOffline"} /\ pc' = "loop"
        /\ buf' = buf /\ meter' = meter /\ paraId' = paraId
    BY <1>8 DEF CheckIdWrites, OfflineWrites
  <2>2. /\ \A p \in 0 .. N - 1 : flash'[p] = flash[p]
        /\ flash'[IdPage] = IF CopyAccepted THEN buf ELSE flash[IdPage]
    BY <1>0, <2>1, IdWritten
  <2>3. flash'[IdPage] # Blank => flash'[IdPage].id = meter
    BY <2>1, <2>2 DEF MeterInv, OfflineInv
  <2>4. FramesOf(meter)
    BY <2>1 DEF MeterInv, FramesOf
  <2>5. FramesOf(meter)' /\ meter \in Meters
    BY <1>0, <2>1, <2>2, <2>4, FramesKept, FramesPrime DEF TypeOK
  <2> QED BY <2>1, <2>3, <2>5 DEF MeterInv, FramesOf, IsFrame
<1>9. CASE FreezeFindsPage
  <2>1. \A p \in 0 .. N : flash'[p] \in {flash[p], Blank}
    BY <1>0, <1>9, TakesByErasing DEF FreezeFindsPage
  <2>2. /\ pc = "loop" /\ pc' = "prepare" /\ buf' = buf /\ meter' = meter
        /\ paraId' = paraId /\ meter \in Meters
    BY <1>0, <1>9 DEF FreezeFindsPage, TypeOK
  <2>3. FramesOf(meter)
    BY <2>2 DEF MeterInv
  <2>4. FramesOf(meter)'
    BY <2>1, <2>2, <2>3, IdPageIs, FramesKept, FramesPrime
  <2>5. flash'[IdPage] # Blank => flash'[IdPage].id = meter
    BY <2>1, <2>2, IdPageIs DEF MeterInv
  <2> QED BY <2>2, <2>4, <2>5 DEF MeterInv, FramesOf, IsFrame
<1>10. CASE FreezePrepares
  <2>1. /\ pc = "prepare" /\ pc' = "write" /\ flash' = flash /\ meter' = meter
        /\ paraId' = paraId
        /\ \/ buf' = buf
           \/ buf' = [label |-> now, meter |-> meter, answers |-> Len(saved) + 1]
    BY <1>10 DEF FreezePrepares
  <2>2. IsFrame(buf)' => buf'.meter = meter
    BY <2>1 DEF MeterInv, IsFrame
  <2> QED BY <2>1, <2>2 DEF MeterInv, FramesOf, IsFrame
<1>11. CASE FreezeWrites
  <2>1. /\ \A p \in 0 .. N : p # addr => flash'[p] = flash[p]
        /\ flash'[addr] = buf /\ flash'[IdPage] = flash[IdPage]
    BY <1>0, <1>11, FrameWritten
  <2>2. /\ pc = "write" /\ pc' = "loop" /\ buf' = buf /\ meter' = meter
        /\ paraId' = paraId /\ meter \in Meters
    BY <1>0, <1>11 DEF FreezeWrites, TypeOK
  <2>3. FramesOf(meter) /\ (IsFrame(buf) => buf.meter = meter)
    BY <2>2 DEF MeterInv
  <2>4. FramesOf(meter)'
    BY <2>1, <2>2, <2>3, IdPageIs, FramesKept, FramesPrime
  <2>5. flash'[IdPage] # Blank => flash'[IdPage].id = meter
    BY <2>1, <2>2 DEF MeterInv
  <2> QED BY <2>2, <2>3, <2>4, <2>5 DEF MeterInv, FramesOf, IsFrame
<1>12. CASE OfflineErases
  <2>1. flash'[IdPage] = Blank /\ \A p \in 0 .. N - 1 : flash'[p] = flash[p]
    BY <1>0, <1>12, IdErased DEF OfflineErases
  <2>2. /\ pc = "loop" /\ pc' = "writeOffline" /\ meter' = meter
        /\ paraId' = paraId /\ meter \in Meters
        /\ buf'.id = IF flash[IdPage] = Blank THEN NoId ELSE flash[IdPage].id
    BY <1>0, <1>12 DEF OfflineErases, TypeOK
  <2>3. CopyAccepted => flash[IdPage] # Blank
    BY <2>2 DEF IInv, LogInv, IdPageWritten
  <2>4. CopyAccepted => buf'.id = meter
    BY <2>2, <2>3 DEF MeterInv
  <2>5. buf' \in IdImage
    BY <1>12, OfflineErasesInv, <2>2 DEF IInv, IdBuffer
  <2>6. FramesOf(meter)'
    BY <2>1, <2>2, FramesKept, FramesPrime DEF MeterInv
  <2> QED BY <2>1, <2>2, <2>4, <2>5, <2>6, IsFrameFacts DEF MeterInv, IsFrame
<1> QED BY <1>2, <1>3, <1>4, <1>5, <1>6, <1>7, <1>8, <1>9, <1>10, <1>11, <1>12
        DEF Next

LEMMA MeterHolds == ASSUME ~BootSilent PROVE Spec => []MeterInv
<1>1. IInv /\ OfflineInv /\ MeterInv /\ [Next]_vars => MeterInv'
  BY MeterStep
<1> QED BY <1>1, MeterInit, InvHolds, OfflineHolds, PTL DEF Spec

(***************************************************************************)
(* Where the meter answers at start-up, the module never keeps a frame of  *)
(* the meter it was plugged into before, whatever it was doing when it     *)
(* lost its power there.                                                   *)
(***************************************************************************)
THEOREM NoForeignFramesHolds == ASSUME ~BootSilent PROVE Spec => []NoForeignFrames
<1>1. IInv /\ MeterInv => NoForeignFrames
  BY DEF IInv, TypeOK, MeterInv, NoForeignFrames, FramesOf
<1> QED BY <1>1, InvHolds, MeterHolds, PTL

-----------------------------------------------------------------------------
\* A clock that is set goes to a time that no label has but ambiguous ones.
LEMMA SetClockLabels ==
  ASSUME TypeOK, LabelInv, ClockSet,
         NEW l \in Times \ ambiguous', Given(l)
  PROVE  l < now'
<1>1. /\ now \in Nat /\ now' \in Nat /\ l \in Nat
      /\ ambiguous' = ambiguous \cup now' .. now
  BY SizeAssumption DEF ClockSet, TypeOK, Times
<1>2. l \notin ambiguous /\ l \notin now' .. now
  BY <1>1
<1>3. l <= now
  BY <1>2 DEF LabelInv
<1> QED BY <1>1, <1>2, <1>3

LEMMA LabelInit == Init => LabelInv
  BY DEF Init, LabelInv, Given

LEMMA LabelStep ==
  ASSUME AnswersFit, IInv, LabelInv, [Next]_vars
  PROVE  LabelInv'
<1>0. /\ TypeOK /\ now \in Nat /\ Times \subseteq Nat /\ now \in Times
      /\ saved \in Seq(Image) /\ Len(saved) \in Nat
  BY SizeAssumption DEF IInv, TypeOK, Times
<1>0a. /\ \A i, j \in 1 .. Len(saved) :
            /\ IsFrame(saved[i]) /\ IsFrame(saved[j])
            /\ saved[i].label = saved[j].label /\ saved[i].label \notin ambiguous
            => i = j
       /\ \A l \in Times \ ambiguous : Given(l) => l <= now
       /\ now \notin ambiguous /\ Given(now) => ~due /\ pc # "prepare"
       /\ now \notin ambiguous /\ pc = "prepare" => ~due
       /\ pc = "write" /\ IsFrame(buf) /\ buf.label \notin ambiguous =>
            ~Given(buf.label) /\ buf.label <= now /\ (buf.label = now => ~due)
  BY DEF LabelInv
\* Where no frame is saved and no time stops being ambiguous.
<1>1. ASSUME saved' = saved, ambiguous \subseteq ambiguous'
      PROVE  /\ \A i, j \in 1 .. Len(saved)' :
                  /\ IsFrame(saved[i])' /\ IsFrame(saved[j])'
                  /\ (saved[i].label = saved[j].label)' /\ (saved[i].label \notin ambiguous)'
                  => i = j
             /\ \A l : Given(l)' <=> Given(l)
  BY <1>0a, <1>1 DEF Given, IsFrame
<1>2. CASE PowerOn
  <2>1. /\ saved' = saved /\ ambiguous \subseteq ambiguous' /\ pc' = "checkId" /\ ~due'
        /\ ClockSet \/ (now' = now /\ ambiguous' = ambiguous)
    BY <1>2 DEF PowerOn, ClockSet, clock
  <2>2. \A l \in Times \ ambiguous' : Given(l) => l <= now'
    <3>1. CASE ClockSet
      <4>1. now' \in Nat
        BY <1>0, <3>1 DEF ClockSet
      <4> QED BY <1>0, <3>1, <4>1, SetClockLabels
    <3>2. CASE now' = now /\ ambiguous' = ambiguous
      BY <1>0a, <3>2
    <3> QED BY <2>1, <3>1, <3>2
  <2> QED BY <1>1, <2>1, <2>2 DEF LabelInv
<1>3. CASE SetClock
  <2>1. /\ saved' = saved /\ ambiguous \subseteq ambiguous' /\ pc' = "loop" /\ ClockSet
        /\ now' \in Times
    BY <1>3 DEF SetClock, ClockSet
  <2>2. \A l \in Times \ ambiguous' : Given(l) => l < now'
    BY <1>0, <2>1, SetClockLabels
  <2>3. \A l \in Times \ ambiguous' : Given(l) => l <= now'
    BY <1>0, <2>1, <2>2
  <2>4. ~ (now' \notin ambiguous' /\ Given(now'))
    BY <1>0, <2>1, <2>2
  <2>5. Given(now)' <=> Given(now')
    BY <2>1 DEF Given, IsFrame
  <2> QED BY <1>1, <2>1, <2>3, <2>4, <2>5 DEF LabelInv
<1>4. CASE Tick
  <2>1. /\ saved' = saved /\ ambiguous \subseteq ambiguous' /\ pc' = pc /\ buf' = buf
        /\ now' = now + 1
        /\ pc = "prepare" => now' \in ambiguous'
        /\ now' \in Times
    BY <1>0, <1>4, SizeAssumption DEF Tick, Times
  <2>2. ~ (now' \notin ambiguous' /\ Given(now'))
    BY <1>0, <1>0a, <2>1
  <2>3. Given(now)' <=> Given(now')
    BY <2>1 DEF Given, IsFrame
  <2>4. \A l \in Times \ ambiguous' : Given(l) => l <= now'
    BY <1>0, <1>0a, <2>1
  <2>5. ASSUME pc' = "write", IsFrame(buf)', (buf.label \notin ambiguous)'
        PROVE  ~Given(buf.label)' /\ buf'.label <= now' /\ buf'.label # now'
    <3>1. pc = "write" /\ IsFrame(buf) /\ buf.label \notin ambiguous /\ buf.label \in Nat
      BY <1>0, <2>1, <2>5, IsFrameFacts DEF IsFrame
    <3>2. ~Given(buf.label) /\ buf.label <= now
      BY <1>0a, <3>1
    <3> QED BY <1>0, <2>1, <3>1, <3>2 DEF Given, IsFrame
  <2> QED BY <1>1, <2>1, <2>2, <2>3, <2>4, <2>5 DEF LabelInv
<1>5. CASE CheckIdErases
  <2>1. saved' = <<>> /\ pc' = "writeId"
    BY <1>5 DEF CheckIdErases
  <2>2. 1 .. Len(saved)' = {}
    BY <2>1
  <2> QED BY <2>1, <2>2 DEF LabelInv, Given
<1>6. CASE PowerOff \/ SwapMeter \/ CheckIdMatches \/ CheckIdWrites
           \/ OfflineErases \/ OfflineWrites
  <2>1. /\ saved' = saved /\ ambiguous' = ambiguous /\ now' = now /\ due' = due
        /\ pc' \notin {"prepare", "write"}
    BY <1>6 DEF PowerOff, SwapMeter, CheckIdMatches, CheckIdWrites, OfflineErases,
                OfflineWrites, clock
  <2> QED BY <1>0a, <1>1, <2>1 DEF LabelInv
<1>7. CASE UNCHANGED vars
  <2>1. /\ saved' = saved /\ ambiguous' = ambiguous /\ now' = now /\ due' = due
        /\ pc' = pc /\ buf' = buf
    BY <1>7 DEF vars
  <2> QED BY <1>0a, <2>1 DEF LabelInv, Given, IsFrame
<1>8. CASE FreezeFindsPage
  <2>1. /\ saved' = saved /\ ambiguous' = ambiguous /\ now' = now /\ due /\ ~due'
        /\ pc' = "prepare"
    BY <1>8 DEF FreezeFindsPage, clock
  <2> QED BY <1>0a, <1>1, <2>1 DEF LabelInv
<1>9. CASE FreezePrepares
  <2>1. /\ saved' = saved /\ ambiguous' = ambiguous /\ now' = now /\ due' = due
        /\ pc = "prepare" /\ pc' = "write" /\ buf'.label = now
    BY <1>9 DEF FreezePrepares, clock
  <2>2. Given(buf.label)' <=> Given(now)
    BY <2>1 DEF Given, IsFrame
  <2> QED BY <1>0, <1>0a, <1>1, <2>1, <2>2 DEF LabelInv
<1>10. CASE FreezeWrites
  <2>1. /\ saved' = Append(saved, buf) /\ ambiguous' = ambiguous /\ now' = now /\ due' = due
        /\ pc = "write" /\ pc' = "loop" /\ buf \in Image
    BY <1>0, <1>10 DEF FreezeWrites, clock, TypeOK
  <2>2. /\ Len(saved') = Len(saved) + 1 /\ saved'[Len(saved) + 1] = buf
        /\ \A i \in 1 .. Len(saved) : saved'[i] = saved[i]
    BY <1>0, <2>1
  <2>3. \A i \in 1 .. Len(saved') : i \in 1 .. Len(saved) \/ i = Len(saved) + 1
    BY <1>0, <2>2
  <2>4. ASSUME NEW l, Given(l)' PROVE Given(l) \/ (IsFrame(buf) /\ buf.label = l)
    <3>1. PICK i \in 1 .. Len(saved') : IsFrame(saved'[i]) /\ saved'[i].label = l
      BY <2>4 DEF Given, IsFrame
    <3> QED BY <2>2, <2>3, <3>1 DEF Given
  <2>5. \A l \in Times \ ambiguous' : Given(l)' => l <= now'
    BY <1>0a, <2>1, <2>4
  <2>6. (now \notin ambiguous /\ Given(now))' => ~due' /\ pc' # "prepare"
    <3>1. now' \notin ambiguous' /\ Given(now)'
            => Given(now) \/ (IsFrame(buf) /\ buf.label = now)
      <4>1. Given(now)' => \E i \in 1 .. Len(saved') :
                             IsFrame(saved'[i]) /\ saved'[i].label = now
        BY <2>1 DEF Given, IsFrame
      <4> QED BY <2>2, <2>3, <4>1 DEF Given
    <3> QED BY <1>0a, <2>1, <3>1
  <2>7. ASSUME NEW i \in 1 .. Len(saved'), NEW j \in 1 .. Len(saved'),
               IsFrame(saved'[i]), IsFrame(saved'[j]),
               saved'[i].label = saved'[j].label, saved'[i].label \notin ambiguous'
        PROVE  i = j
    <3>1. CASE i \in 1 .. Len(saved) /\ j \in 1 .. Len(saved)
      BY <1>0a, <2>1, <2>2, <2>7, <3>1
    <3>2. CASE i \in 1 .. Len(saved) /\ j = Len(saved) + 1
      <4>1. Given(buf.label) /\ IsFrame(buf) /\ buf.label \notin ambiguous
        BY <2>1, <2>2, <2>7, <3>2 DEF Given
      <4> QED BY <1>0a, <2>1, <4>1
    <3>3. CASE i = Len(saved) + 1 /\ j \in 1 .. Len(saved)
      <4>1. Given(buf.label) /\ IsFrame(buf) /\ buf.label \notin ambiguous
        BY <2>1, <2>2, <2>7, <3>3 DEF Given
      <4> QED BY <1>0a, <2>1, <4>1
    <3> QED BY <2>3, <3>1, <3>2, <3>3
  <2>8. \A i, j \in 1 .. Len(saved)' :
          /\ IsFrame(saved[i])' /\ IsFrame(saved[j])'
          /\ (saved[i].label = saved[j].label)' /\ (saved[i].label \notin ambiguous)'
          => i = j
    BY <2>7 DEF IsFrame
  <2> QED BY <2>1, <2>5, <2>6, <2>8 DEF LabelInv
<1> QED BY <1>2, <1>3, <1>4, <1>5, <1>6, <1>7, <1>8, <1>9, <1>10 DEF Next

LEMMA LabelHolds == ASSUME AnswersFit PROVE Spec => []LabelInv
<1>1. IInv /\ LabelInv /\ [Next]_vars => LabelInv'
  BY LabelStep
<1> QED BY <1>1, LabelInit, InvHolds, PTL DEF Spec

(***************************************************************************)
(* The parts of ContentInv the runs check together.                        *)
(***************************************************************************)
THEOREM ContentInvHolds == Spec => []ContentInv
<1>1. Spec => [](~BootSilent => MeterInv)
  <2>1. CASE BootSilent
    <3>1. ~BootSilent => MeterInv
      BY <2>1
    <3> QED BY <3>1, PTL
  <2>2. CASE ~BootSilent
    BY <2>2, MeterHolds, PTL
  <2> QED BY <2>1, <2>2
<1>2. Spec => [](AnswersFit => LabelInv)
  <2>1. CASE AnswersFit
    BY <2>1, LabelHolds, PTL
  <2>2. CASE ~AnswersFit
    <3>1. AnswersFit => LabelInv
      BY <2>2
    <3> QED BY <3>1, PTL
  <2> QED BY <2>1, <2>2
<1>3. OfflineInv /\ (~BootSilent => MeterInv) /\ (AnswersFit => LabelInv) => ContentInv
  BY DEF ContentInv
<1> QED BY <1>1, <1>2, <1>3, OfflineHolds, PTL

\* Every frame in the flash is one of those saved since the log was erased.
LEMMA PageIsSaved ==
  ASSUME IInv, NEW p \in 0 .. N - 1, IsFrame(flash[p])
  PROVE  \E k \in 1 .. Len(saved) : flash[p] = saved[k]
<1>1. PICK f \in 0 .. N - 1 : \E lap \in 0 .. Len(saved) : LogShape(f, lap)
  BY DEF IInv, LogInv
<1>2. PICK lap \in 0 .. Len(saved) : LogShape(f, lap)
  BY <1>1
<1>3. /\ N \in Nat /\ N >= 4 /\ lap \in Nat /\ Len(saved) \in Nat
      /\ lap * (N - 1) \in Nat /\ flash[p] # Blank
      /\ Len(saved) = lap * (N - 1) + f
  BY <1>2, IdPageIs, LapBound, IsFrameFacts DEF LogShape, IInv, TypeOK
<1>4. CASE p < f
  <2>1. flash[p] = saved[lap * (N - 1) + p + 1]
    BY <1>2, <1>3, <1>4 DEF LogShape
  <2> QED BY <1>3, <1>4, <2>1
<1>5. CASE f <= p
  <2>1. p \in f .. N - 2
    BY <1>2, <1>3, <1>5 DEF LogShape
  <2>2. lap > 0 /\ flash[p] = saved[(lap - 1) * (N - 1) + p + 1]
    BY <1>2, <1>3, <2>1 DEF LogShape
  <2>3. lap - 1 \in Nat /\ (lap - 1 + 1) * (N - 1) = (lap - 1) * (N - 1) + (N - 1)
        /\ (lap - 1) * (N - 1) \in Nat /\ lap - 1 + 1 = lap
    BY <1>3, <2>2, LapBound
  <2>4. (lap - 1) * (N - 1) + p + 1 \in 1 .. Len(saved)
    BY <1>3, <2>1, <2>3
  <2> QED BY <2>2, <2>4
<1> QED BY <1>3, <1>4, <1>5

(***************************************************************************)
(* The server gets every recent frame it asks for, with the answers of the *)
(* meter for that time, although a frame is looked for by its label in     *)
(* address order, over laps of the log that left older frames behind the   *)
(* newer ones; except for the half hours that ended while a frame was      *)
(* being prepared and those that the clock was set back by.                *)
(***************************************************************************)
THEOREM ReadableHolds == ASSUME AnswersFit PROVE Spec => []Readable
<1>1. IInv /\ Retained /\ LabelInv => Readable
  <2> SUFFICES ASSUME IInv, Retained, LabelInv,
                      NEW i \in 1 .. Len(saved), Recent(i), IsFrame(saved[i])
               PROVE  /\ IsFrame(ReadFreezeFrame(saved[i].label))
                      /\ ReadFreezeFrame(saved[i].label).label = saved[i].label
                      /\ saved[i].label \notin ambiguous
                           => ReadFreezeFrame(saved[i].label) = saved[i]
    BY DEF Readable
  <2> DEFINE t == saved[i].label
             j == PageOf(i)
  <2>1. flash[j] = saved[i]
    BY DEF Retained
  <2>2. j \in 0 .. N - 1
    <3> DEFINE M == N - 1
    <3>1. i - 1 \in Nat /\ M \in Nat \ {0}
      BY IdPageIs DEF IInv, TypeOK
    <3>2. j = (i - 1) % M
      BY DEF PageOf
    <3> HIDE DEF M
    <3>3. (i - 1) % M \in 0 .. M - 1
      BY <3>1
    <3> QED BY <3>1, <3>2, <3>3, IdPageIs DEF M
  <2> HIDE DEF j
  <2>3. j \in Labelled(t)
    BY <2>1, <2>2 DEF Labelled
  <2>4. \E p \in Labelled(t) : \A q \in Labelled(t) : p <= q
    <3>1. Labelled(t) \in SUBSET Nat /\ Labelled(t) # {}
      BY <2>3, IdPageIs DEF Labelled
    <3> QED BY <3>1, LeastNat
  <2>5. Found(t) \in Labelled(t)
    BY <2>4 DEF Found
  <2>6. ASSUME NEW p \in Labelled(t)
        PROVE  /\ IsFrame(flash[p]) /\ flash[p].label = t
               /\ t \notin ambiguous => flash[p] = saved[i]
    <3>1. IsFrame(flash[p]) /\ flash[p].label = t /\ p \in 0 .. N - 1
      BY DEF Labelled
    <3>2. PICK k \in 1 .. Len(saved) : flash[p] = saved[k]
      BY <3>1, PageIsSaved
    <3> QED BY <3>1, <3>2 DEF LabelInv
  <2>7. ReadFreezeFrame(t) = flash[Found(t)]
    BY <2>3 DEF ReadFreezeFrame
  <2> QED BY <2>5, <2>6, <2>7
<1> QED BY <1>1, InvHolds, RetainedHolds, LabelHolds, PTL
=============================================================================
