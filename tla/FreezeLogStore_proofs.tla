------------------------ MODULE FreezeLogStore_proofs ------------------------
(***************************************************************************)
(* FreezeLog implements FrameStore, for every number and size of sectors.  *)
(* LiveLog is always an end of saved, so a step of the log is known by     *)
(* what it does to saved and to the number of pages in use.                *)
(***************************************************************************)
EXTENDS FreezeLogContents_proofs

\* Two pages no more than P apart are in the same sector or in neighbours.
LEMMA SectorsInOrder ==
  ASSUME NEW p \in Nat, NEW q \in Nat, p <= q
  PROVE  /\ Sector(p) <= Sector(q)
         /\ q <= p + P => Sector(q) <= Sector(p) + 1
<1> DEFINE s == Sector(p)
           t == Sector(q)
<1>1. /\ s \in Nat /\ s * P <= p /\ p < s * P + P
      /\ t \in Nat /\ t * P <= q /\ q < t * P + P
      /\ P \in Nat /\ s * P \in Nat /\ t * P \in Nat /\ P > 0
  <2>1. P \in Nat /\ P > 0
    BY SizeAssumption
  <2>2. /\ s \in Nat /\ P * s <= p /\ p < P * s + P
        /\ t \in Nat /\ P * t <= q /\ q < P * t + P
    BY DivBounds
  <2> HIDE DEF s, t
  <2>3. P * s = s * P /\ P * t = t * P /\ s * P \in Nat /\ t * P \in Nat
    BY <2>1, <2>2
  <2> QED BY <2>1, <2>2, <2>3
<1> HIDE DEF s, t
<1>2. s <= t
  <2> SUFFICES ASSUME t < s PROVE FALSE
    BY <1>1
  <2>1. t * P + P <= s * P
    BY <1>1, MulMono
  <2> QED BY <1>1, <2>1
<1>3. ASSUME q <= p + P PROVE t <= s + 1
  <2> SUFFICES ASSUME s + 1 < t PROVE FALSE
    BY <1>1
  <2>1. (s + 1) * P + P <= t * P
    <3>1. s + 1 \in Nat
      BY <1>1
    <3> QED BY <1>1, <3>1, MulMono
  <2>2. (s + 1) * P = s * P + P
    BY <1>1
  <2> QED BY <1>1, <1>3, <2>1, <2>2
<1> QED BY <1>2, <1>3 DEF s, t

\* Behind the first page left from the last lap there is no blank one but the
\* last, which is never used.
LEMMA NoGap ==
  ASSUME NEW f \in 0 .. N - 1, NEW lap \in Nat, LogShape(f, lap),
         NEW p \in f .. N - 2, flash[p] # Blank, NEW q \in p .. N - 2
  PROVE  flash[q] # Blank
<1>1. N \in Nat /\ P \in Nat /\ P > 0 /\ f \in Nat /\ p \in Nat /\ q \in Nat
        /\ f <= p /\ p <= q /\ q \in f .. N - 2 /\ p \in f .. N - 1
  BY SectorRange, SizeAssumption
<1>2. lap > 0
  BY DEF LogShape
<1>3. CASE q \in f + P + 1 .. N - 2
  BY <1>2, <1>3 DEF LogShape
<1>4. CASE q <= f + P
  <2>1. Sector(p) # Sector(f)
    BY <1>1 DEF LogShape
  <2>2. /\ Sector(f) <= Sector(p) /\ Sector(p) <= Sector(q)
        /\ Sector(q) <= Sector(f) + 1
    <3>1. f <= q
      BY <1>1
    <3> QED BY <1>1, <1>4, <3>1, SectorsInOrder
  <2>3. Sector(f) \in Nat /\ Sector(p) \in Nat /\ Sector(q) \in Nat
    BY <1>1, DivBounds
  <2>4. Sector(p) = Sector(q)
    BY <2>1, <2>2, <2>3
  <2> QED BY <1>1, <2>4 DEF LogShape
<1> QED BY <1>1, <1>3, <1>4

(***************************************************************************)
(* The pages in use, from the shape of the log.                            *)
(***************************************************************************)
LiveFrom(f, lap) ==
  /\ OldPages = {p \in f .. N - 2 : flash[p] # Blank}
  /\ \A p \in 0 .. f - 1 : flash[p] # Blank
  /\ OldStart \in f .. N - 1
  /\ \A p \in OldStart .. N - 2 : flash[p] # Blank
  /\ \A p \in f .. OldStart - 1 : flash[p] = Blank
  /\ lap > 0 => OldStart <= f + P + 1
  /\ lap = 0 => OldStart = N - 1
  /\ Len(LiveLog) = N - 1 - OldStart + f
  /\ LiveLog \in Seq(Image)

\* LiveLog holds the images saved last.
LiveSuffix ==
  /\ Len(LiveLog) <= Len(saved)
  /\ \A k \in 1 .. Len(LiveLog) :
       LiveLog[k] = saved[Len(saved) - Len(LiveLog) + k]

LEMMA OldStartIs ==
  ASSUME TypeOK, NEW f \in 0 .. N - 1, NEW lap \in Nat, LogShape(f, lap)
  PROVE  /\ OldStart \in f .. N - 1
         /\ \A p \in OldStart .. N - 2 : flash[p] # Blank
         /\ \A p \in f .. OldStart - 1 : flash[p] = Blank
         /\ lap > 0 => OldStart <= f + P + 1
         /\ lap = 0 => OldStart = N - 1
<1>1. N \in Nat /\ N >= 4 /\ f \in Nat /\ P \in Nat /\ FirstFree = f
  BY SectorRange, SizeAssumption, FirstFreeIs
<1>2. OldPages = {p \in f .. N - 2 : flash[p] # Blank}
  BY <1>1 DEF OldPages
<1>3. lap > 0 /\ f + P + 1 <= N - 2 => f + P + 1 \in OldPages
  BY <1>1, <1>2 DEF LogShape
<1>4. lap = 0 => OldPages = {}
  BY <1>2 DEF LogShape
<1>5. CASE OldPages = {}
  <2>1. OldStart = N - 1
    BY <1>5 DEF OldStart
  <2>2. N - 1 .. N - 2 = {}
    BY <1>1
  <2>3. lap > 0 => N - 1 <= f + P + 1
    BY <1>1, <1>3, <1>5
  <2>4. \A p \in f .. N - 2 : flash[p] = Blank
    BY <1>2, <1>5
  <2>5. N - 1 - 1 = N - 2 /\ N - 1 \in f .. N - 1
    BY <1>1
  <2> QED BY <2>1, <2>2, <2>3, <2>4, <2>5
<1>6. CASE OldPages # {}
  <2>1. \E p \in OldPages : \A q \in OldPages : p <= q
    <3>1. OldPages \in SUBSET Nat
      BY <1>1, <1>2
    <3> QED BY <1>6, <3>1, LeastNat
  <2>2. OldStart = CHOOSE p \in OldPages : \A q \in OldPages : p <= q
    BY <1>6 DEF OldStart
  <2>3. OldStart \in OldPages /\ \A q \in OldPages : OldStart <= q
    BY <2>1, <2>2
  <2>4. OldStart \in f .. N - 2 /\ flash[OldStart] # Blank
    BY <1>2, <2>3
  <2>5. \A p \in OldStart .. N - 2 : flash[p] # Blank
    BY <2>4, NoGap
  <2>6. lap > 0 => OldStart <= f + P + 1
    BY <1>1, <1>3, <2>3, <2>4
  <2>7. \A p \in f .. OldStart - 1 : flash[p] = Blank
    <3>1. \A p \in f .. OldStart - 1 : p \in f .. N - 2 /\ ~(OldStart <= p)
      BY <1>1, <2>4
    <3> QED BY <1>2, <2>3, <3>1
  <2> QED BY <1>1, <1>4, <1>6, <2>4, <2>5, <2>6, <2>7
<1> QED BY <1>5, <1>6

LEMMA LiveIs ==
  ASSUME TypeOK, NEW f \in 0 .. N - 1, NEW lap \in Nat, LogShape(f, lap)
  PROVE  LiveFrom(f, lap) /\ LiveSuffix
<1> DEFINE o == OldStart
           old == [i \in 1 .. N - 1 - o |-> flash[o + i - 1]]
           new == [i \in 1 .. f |-> flash[i - 1]]
           base == lap * (N - 1)
<1>1. /\ N \in Nat /\ N >= 4 /\ f \in Nat /\ base \in Nat
      /\ o \in f .. N - 1 /\ o \in Nat
  BY SectorRange, SizeAssumption, LapBound, OldStartIs
<1>2. LiveLog = old \o new
  BY FirstFreeIs DEF LiveLog
<1>3. /\ Len(saved) = base + f
      /\ \A p \in 0 .. f - 1 : flash[p] = saved[base + p + 1]
      /\ \A p \in f .. N - 2 :
           flash[p] # Blank =>
             lap > 0 /\ flash[p] = saved[(lap - 1) * (N - 1) + p + 1]
  BY DEF LogShape
<1>4. lap > 0 => (lap - 1) * (N - 1) \in Nat
                   /\ base = (lap - 1) * (N - 1) + (N - 1)
  <2> SUFFICES ASSUME lap > 0 PROVE (lap - 1) * (N - 1) \in Nat
                   /\ base = (lap - 1) * (N - 1) + (N - 1)
    OBVIOUS
  <2>1. lap - 1 \in Nat /\ (lap - 1) + 1 = lap
    OBVIOUS
  <2> QED BY <2>1, LapBound
<1>5. \A p \in o .. N - 2 : lap > 0 /\ flash[p] = saved[base - (N - 1) + p + 1]
  <2> SUFFICES ASSUME NEW p \in o .. N - 2
               PROVE  lap > 0 /\ flash[p] = saved[base - (N - 1) + p + 1]
    OBVIOUS
  <2>1. flash[p] # Blank /\ p \in f .. N - 2
    BY <1>1, OldStartIs
  <2>2. lap > 0 /\ flash[p] = saved[(lap - 1) * (N - 1) + p + 1]
    BY <1>3, <2>1
  <2> QED BY <1>1, <1>4, <2>2
<1>6. \A p \in 0 .. N - 1 : flash[p] # Blank => flash[p] \in Image
  BY <1>1 DEF TypeOK
<1>7. old \in Seq(Image) /\ Len(old) = N - 1 - o
  <2>1. ASSUME NEW i \in 1 .. N - 1 - o PROVE flash[o + i - 1] \in Image
    <3>1. o + i - 1 \in o .. N - 2 /\ o + i - 1 \in 0 .. N - 1
      BY <1>1
    <3> QED BY <1>6, <3>1, OldStartIs
  <2>2. N - 1 - o \in Nat
    BY <1>1
  <2> HIDE DEF o
  <2> QED BY <2>1, <2>2
<1>8. new \in Seq(Image) /\ Len(new) = f
  <2>1. ASSUME NEW i \in 1 .. f PROVE flash[i - 1] \in Image
    <3>1. i - 1 \in 0 .. f - 1 /\ base + (i - 1) + 1 \in 1 .. Len(saved)
      <4>1. f \in Nat /\ base \in Nat /\ Len(saved) = base + f
        BY <1>1, <1>3
      <4> HIDE DEF base
      <4> QED BY <4>1
    <3>2. saved[base + (i - 1) + 1] \in Image
      BY <3>1 DEF TypeOK
    <3> QED BY <1>3, <3>1, <3>2
  <2> QED BY <1>1, <2>1
<1>9. LiveLog \in Seq(Image) /\ Len(LiveLog) = N - 1 - o + f
  <2>1. \A s, t \in Seq(Image) :
          s \o t \in Seq(Image) /\ Len(s \o t) = Len(s) + Len(t)
    OBVIOUS
  <2> HIDE DEF old, new
  <2>2. LiveLog \in Seq(Image) /\ Len(LiveLog) = Len(old) + Len(new)
    BY <1>2, <1>7, <1>8, <2>1
  <2> QED BY <1>7, <1>8, <2>2
<1>10. LiveFrom(f, lap)
  <2>1. OldPages = {p \in f .. N - 2 : flash[p] # Blank}
    BY FirstFreeIs DEF OldPages
  <2>2. ASSUME NEW p \in 0 .. f - 1 PROVE flash[p] # Blank
    <3>1. base + p + 1 \in 1 .. Len(saved)
      BY <1>1, <1>3
    <3>2. saved[base + p + 1] \in Image
      BY <3>1 DEF TypeOK
    <3> QED BY <1>3, <3>2, ImageFacts
  <2> QED BY <1>9, <2>1, <2>2, OldStartIs DEF LiveFrom
<1>11. Len(LiveLog) <= Len(saved)
  <2>1. CASE lap = 0
    BY <1>1, <1>3, <1>9, <2>1, OldStartIs
  <2>2. CASE lap > 0
    BY <1>1, <1>3, <1>4, <1>9, <2>2
  <2> QED BY <2>1, <2>2
<1>12. ASSUME NEW k \in 1 .. Len(LiveLog)
       PROVE  LiveLog[k] = saved[Len(saved) - Len(LiveLog) + k]
  <2>1. Len(saved) - Len(LiveLog) + k = base - (N - 1) + o + k
    BY <1>1, <1>3, <1>9
  <2>2. CASE k <= N - 1 - o
    <3>1. LiveLog[k] = old[k] /\ k \in 1 .. N - 1 - o
      <4>1. k \in 1 .. N - 1 - o
        BY <1>1, <1>9, <2>2
      <4> HIDE DEF old, new
      <4> QED BY <1>2, <1>7, <1>8, <4>1
    <3>2. LiveLog[k] = flash[o + k - 1]
      BY <3>1
    <3>3. o + k - 1 \in o .. N - 2
      BY <1>1, <3>1
    <3>4. flash[o + k - 1] = saved[base - (N - 1) + (o + k - 1) + 1]
      BY <1>5, <3>3
    <3>5. base - (N - 1) + (o + k - 1) + 1 = base - (N - 1) + o + k
      BY <1>1
    <3> QED BY <2>1, <3>2, <3>4, <3>5
  <2>3. CASE k > N - 1 - o
    <3> DEFINE j == k - (N - 1 - o)
    <3>1. j \in 1 .. f
      BY <1>1, <1>9, <2>3
    <3>2. LiveLog[k] = new[j]
      <4>1. k \in Nat /\ k > Len(old) /\ k <= Len(old) + Len(new)
        BY <1>1, <1>7, <1>8, <1>9, <2>3
      <4>2. j = k - Len(old)
        BY <1>7
      <4>3. \A s, t \in Seq(Image) : \A i \in Nat :
              i > Len(s) /\ i <= Len(s) + Len(t) => (s \o t)[i] = t[i - Len(s)]
        OBVIOUS
      <4> HIDE DEF old, new, j
      <4>4. (old \o new)[k] = new[k - Len(old)]
        BY <1>7, <1>8, <4>1, <4>3
      <4> QED BY <1>2, <4>2, <4>4
    <3>3. LiveLog[k] = flash[j - 1]
      <4> HIDE DEF j
      <4> QED BY <3>1, <3>2
    <3>4. j - 1 \in 0 .. f - 1
      BY <1>1, <3>1
    <3>5. flash[j - 1] = saved[base + (j - 1) + 1]
      <4> HIDE DEF j
      <4> QED BY <1>3, <3>4
    <3>6. base + (j - 1) + 1 = base - (N - 1) + o + k
      BY <1>1
    <3> QED BY <2>1, <3>3, <3>5, <3>6
  <2> QED BY <1>1, <1>9, <2>2, <2>3
<1> QED BY <1>10, <1>11, <1>12 DEF LiveSuffix

LiveAll ==
  \A f \in 0 .. N - 1, lap \in Nat :
    LogShape(f, lap) => LiveFrom(f, lap) /\ LiveSuffix

LEMMA LiveHolds == TypeOK => LiveAll
  BY LiveIs DEF LiveAll

LEMMA LiveHoldsNext == TypeOK' => LiveAll'
  BY LiveHolds, PTL

\* Some shape of the log, and the images that are in use with it.
LEMMA Shaped ==
  ASSUME IInv
  PROVE  \E f \in 0 .. N - 1, lap \in Nat :
           /\ LogShape(f, lap) /\ FrameUnderWay(f)
           /\ LiveFrom(f, lap) /\ LiveSuffix
<1>1. PICK f \in 0 .. N - 1 : \E lap \in 0 .. Len(saved) :
              LogShape(f, lap) /\ FrameUnderWay(f)
  BY DEF IInv, LogInv
<1>2. PICK lap \in 0 .. Len(saved) : LogShape(f, lap) /\ FrameUnderWay(f)
  BY <1>1
<1>3. lap \in Nat
  OBVIOUS
<1> QED BY <1>2, <1>3, LiveIs DEF IInv

\* Two ends of the same saved: the shorter is an end of the longer.
LEMMA EndsOf ==
  ASSUME LiveSuffix, LiveSuffix', saved' = saved, saved \in Seq(Image),
         LiveLog \in Seq(Image), LiveLog' \in Seq(Image),
         Len(LiveLog') <= Len(LiveLog)
  PROVE  LET k == Len(LiveLog) - Len(LiveLog') IN
         /\ k \in 0 .. Len(LiveLog)
         /\ LiveLog' = SubSeq(LiveLog, k + 1, Len(LiveLog))
<1> DEFINE n == Len(LiveLog)
           m == Len(LiveLog')
           k == n - m
           tail == SubSeq(LiveLog, k + 1, n)
<1>1. n \in Nat /\ m \in Nat /\ m <= n /\ k \in 0 .. n /\ Len(saved) \in Nat
        /\ n <= Len(saved)
  BY DEF LiveSuffix
<1>2. tail \in Seq(Image) /\ Len(tail) = m
        /\ \A i \in 1 .. m : tail[i] = LiveLog[k + i]
  <2>1. \A a, b \in Nat : \A t \in Seq(Image) :
          a >= 1 /\ a <= b + 1 /\ b <= Len(t) =>
            /\ SubSeq(t, a, b) \in Seq(Image)
            /\ Len(SubSeq(t, a, b)) = b - a + 1
            /\ \A i \in 1 .. b - a + 1 : SubSeq(t, a, b)[i] = t[a + i - 1]
    OBVIOUS
  <2>2. k + 1 \in Nat /\ k + 1 >= 1 /\ k + 1 <= n + 1 /\ n - (k + 1) + 1 = m
    BY <1>1
  <2>3. /\ tail \in Seq(Image) /\ Len(tail) = m
        /\ \A i \in 1 .. m : tail[i] = LiveLog[(k + 1) + i - 1]
    <3> HIDE DEF k
    <3> QED BY <1>1, <2>1, <2>2
  <2>4. \A i \in 1 .. m : (k + 1) + i - 1 = k + i
    BY <1>1
  <2> QED BY <2>3, <2>4
<1>3. ASSUME NEW i \in 1 .. m PROVE LiveLog'[i] = tail[i]
  <2>1. LiveLog'[i] = saved[Len(saved) - m + i]
    BY DEF LiveSuffix
  <2>2. k + i \in 1 .. n /\ Len(saved) - n + (k + i) = Len(saved) - m + i
    BY <1>1
  <2>3. LiveLog[k + i] = saved[Len(saved) - m + i]
    BY <2>2 DEF LiveSuffix
  <2> QED BY <1>2, <2>1, <2>3
<1>4. \A s, t \in Seq(Image) :
        Len(s) = Len(t) /\ (\A i \in 1 .. Len(s) : s[i] = t[i]) => s = t
  OBVIOUS
<1>5. LiveLog' = tail
  <2> HIDE DEF tail, m
  <2>1. Len(LiveLog') = m
    BY DEF m
  <2> QED BY <1>2, <1>3, <1>4, <2>1
<1> QED BY <1>1, <1>5

\* Nothing happens to the store if no frame page and nothing saved changes.
LEMMA StoreKept ==
  ASSUME IInv, IInv', saved' = saved,
         \A p \in 0 .. N - 1 : flash'[p] = flash[p]
  PROVE  LiveLog' = LiveLog
<1>1. N \in Nat /\ N >= 4
  BY SectorRange, SizeAssumption
<1>2. PICK f \in 0 .. N - 1, lap \in Nat : LogShape(f, lap) /\ LiveFrom(f, lap)
  BY Shaped
<1>3. FreePages' = FreePages
  BY DEF FreePages
<1>4. FirstFree' = FirstFree
  BY <1>3 DEF FirstFree
<1>5. FreePages # {} /\ FirstFree = f
  BY <1>2, FirstFreeIs DEF IInv
<1>6. OldPages' = OldPages
  <2>1. \A p \in f .. N - 2 : p \in 0 .. N - 1
    BY <1>1
  <2> QED BY <1>4, <1>5, <2>1 DEF OldPages
<1>7. OldStart' = OldStart
  BY <1>6 DEF OldStart
<1>8. OldStart \in 0 .. N - 1
  BY <1>1, <1>2 DEF LiveFrom
<1>9. [i \in 1 .. N - 1 - OldStart |-> flash'[OldStart + i - 1]]
        = [i \in 1 .. N - 1 - OldStart |-> flash[OldStart + i - 1]]
  <2>1. \A i \in 1 .. N - 1 - OldStart : OldStart + i - 1 \in 0 .. N - 1
    BY <1>1, <1>8
  <2> QED BY <2>1
<1>10. [i \in 1 .. FirstFree |-> flash'[i - 1]]
         = [i \in 1 .. FirstFree |-> flash[i - 1]]
  <2>1. \A i \in 1 .. FirstFree : i - 1 \in 0 .. N - 1
    BY <1>1, <1>5
  <2> QED BY <2>1
<1> QED BY <1>3, <1>4, <1>5, <1>7, <1>9, <1>10 DEF LiveLog

\* What a step gives up, it gives up oldest first, and Keep remain.
LEMMA GivesUp ==
  ASSUME IInv, IInv', saved' = saved, Len(LiveLog') <= Len(LiveLog),
         Len(LiveLog') >= Keep \/ Len(LiveLog') = Len(LiveLog)
  PROVE  Store!GiveUp \/ LiveLog' = LiveLog
<1>1. LiveLog \in Seq(Image) /\ LiveLog' \in Seq(Image) /\ saved \in Seq(Image)
        /\ LiveSuffix /\ LiveSuffix'
  <2>1. LiveLog \in Seq(Image) /\ LiveSuffix
    BY Shaped DEF LiveFrom
  <2>2. LiveLog' \in Seq(Image) /\ LiveSuffix'
    BY LiveHoldsNext DEF LiveAll, LiveFrom, IInv, LogInv
  <2> QED BY <2>1, <2>2 DEF IInv, TypeOK
<1> DEFINE k == Len(LiveLog) - Len(LiveLog')
<1>2. k \in 0 .. Len(LiveLog)
        /\ LiveLog' = SubSeq(LiveLog, k + 1, Len(LiveLog))
  BY <1>1, EndsOf
<1>3. Len(LiveLog) \in Nat /\ Len(LiveLog') \in Nat /\ Keep \in Int
  BY <1>1, SizeAssumption DEF Keep
<1>4. CASE k = 0
  <2>1. \A s \in Seq(Image) : SubSeq(s, 0 + 1, Len(s)) = s
    OBVIOUS
  <2> QED BY <1>1, <1>2, <1>4, <2>1
<1>5. CASE k # 0
  <2>1. k \in 1 .. Len(LiveLog) /\ Len(LiveLog) >= k + Keep
    BY <1>2, <1>3, <1>5
  <2> QED BY <1>2, <2>1 DEF Store!GiveUp
<1> QED BY <1>4, <1>5

\* Counting the pages in use, o being the first left from the last lap.
LEMMA PagesInUse ==
  ASSUME NEW f \in Nat, NEW g \in Nat, NEW o \in Int, NEW q \in Int,
         NEW n \in Nat, NEW p \in Nat
  PROVE  LET a == n - 1 - o + f
             b == n - 1 - q + g
         IN /\ q <= g + p + 1 => b >= n - p - 2
            /\ f = g /\ ~(q < o) => b <= a
            /\ f = n - 1 /\ o <= f /\ g = 0 /\ q >= 0 => b <= a
            /\ f = g /\ o = q => b = a
  OBVIOUS

LEMMA FindsPageGivesUp ==
  ASSUME IInv, IInv', FreezeFindsPage
  PROVE  Store!GiveUp \/ LiveLog' = LiveLog
<1>1. /\ N \in Nat /\ N >= 4 /\ P \in Nat /\ TypeOK /\ TypeOK' /\ saved' = saved
      /\ Keep = N - P - 2 /\ pc' = "prepare"
  BY SectorRange, SizeAssumption DEF IInv, FreezeFindsPage, Keep, N
<1>2. PICK f \in 0 .. N - 1, lap \in Nat : LogShape(f, lap) /\ LiveFrom(f, lap)
  BY Shaped
<1>3. PICK g \in 0 .. N - 1, l \in Nat :
        LogShape(g, l)' /\ LiveFrom(g, l)' /\ FrameUnderWay(g)'
  <2>1. PICK g \in 0 .. N - 1 : \E l \in 0 .. Len(saved') :
                LogShape(g, l)' /\ FrameUnderWay(g)'
    BY DEF IInv, LogInv
  <2>2. PICK l \in 0 .. Len(saved') : LogShape(g, l)' /\ FrameUnderWay(g)'
    BY <2>1
  <2>3. l \in Nat
    OBVIOUS
  <2> QED BY <1>1, <2>2, <2>3, LiveHoldsNext DEF LiveAll
<1>4. FreePages # {} /\ FirstFree = f
  BY <1>1, <1>2, FirstFreeIs
<1>5. addr' = g /\ g < N - 1
  BY <1>1, <1>3 DEF FrameUnderWay
<1>6. /\ f \in Nat /\ g \in Nat /\ lap * (N - 1) \in Nat /\ l * (N - 1) \in Nat
      /\ Len(saved) = lap * (N - 1) + f
      /\ Len(saved) = l * (N - 1) + g
  BY <1>1, <1>2, <1>3, LapBound DEF LogShape
<1>7. /\ OldStart \in f .. N - 1 /\ OldStart' \in g .. N - 1
      /\ Len(LiveLog) = N - 1 - OldStart + f
      /\ Len(LiveLog') = N - 1 - OldStart' + g
  BY <1>2, <1>3 DEF LiveFrom
<1>8. /\ f \in Nat /\ g \in Nat /\ OldStart \in Int /\ OldStart' \in Int
      /\ Len(LiveLog) \in Nat /\ Len(LiveLog') \in Nat
  <2>1. LiveLog \in Seq(Image) /\ LiveLog' \in Seq(Image)
    BY <1>2, <1>3 DEF LiveFrom
  <2>2. Len(LiveLog) \in Nat /\ Len(LiveLog') \in Nat
    BY <2>1
  <2>3. f \in Nat /\ g \in Nat
    BY <1>1
  <2>4. OldStart \in Int
    BY <1>1, <1>7
  <2>5. OldStart' \in Int
    BY <1>1, <1>7
  <2> QED BY <2>2, <2>3, <2>4, <2>5
<1>9. /\ OldStart' <= g + P + 1 => Len(LiveLog') >= Keep
      /\ f = g /\ ~(OldStart' < OldStart) => Len(LiveLog') <= Len(LiveLog)
      /\ f = N - 1 /\ OldStart <= f /\ g = 0 /\ OldStart' >= 0 =>
           Len(LiveLog') <= Len(LiveLog)
      /\ f = g /\ OldStart = OldStart' => Len(LiveLog') = Len(LiveLog)
  <2> DEFINE o == OldStart
             q == OldStart'
  <2>1. o \in Int /\ q \in Int /\ N \in Nat /\ P \in Nat
          /\ Keep = N - P - 2
    BY <1>1, <1>8
  <2>2. Len(LiveLog) = N - 1 - o + f /\ Len(LiveLog') = N - 1 - q + g
    BY <1>7
  <2> HIDE DEF o, q
  <2>3. LET a == N - 1 - o + f
            b == N - 1 - q + g
        IN /\ q <= g + P + 1 => b >= N - P - 2
           /\ f = g /\ ~(q < o) => b <= a
           /\ f = N - 1 /\ o <= f /\ g = 0 /\ q >= 0 => b <= a
           /\ f = g /\ o = q => b = a
    BY <1>8, <2>1, PagesInUse
  <2> QED BY <2>1, <2>2, <2>3 DEF o, q
<1>10. CASE addr' = f
  <2>1. ~(OldStart' < OldStart)
    <3> SUFFICES ASSUME OldStart' < OldStart PROVE FALSE
      OBVIOUS
    <3>1. OldStart' \in OldStart' .. N - 2 /\ OldStart' \in f .. OldStart - 1
            /\ OldStart' \in 0 .. N
      BY <1>1, <1>5, <1>7, <1>8, <1>10
    <3>2. flash'[OldStart'] # Blank
      BY <1>3, <3>1 DEF LiveFrom
    <3>3. flash[OldStart'] = Blank
      BY <1>2, <3>1 DEF LiveFrom
    <3>4. flash'[OldStart'] \in {flash[OldStart'], Blank}
      BY <1>1, <3>1, TakesByErasing DEF FreezeFindsPage
    <3> QED BY <3>2, <3>3, <3>4
  <2>2. Len(LiveLog') <= Len(LiveLog)
    BY <1>5, <1>10, <1>9, <2>1
  <2>3. CASE l > 0
    <3>1. OldStart' <= g + P + 1
      BY <1>3, <2>3 DEF LiveFrom
    <3>2. Len(LiveLog') >= Keep
      BY <1>9, <3>1
    <3> QED BY <1>1, <2>2, <3>2, GivesUp
  <2>4. CASE l = 0
    <3>1. OldStart' = N - 1
      BY <1>3, <2>4 DEF LiveFrom
    <3>2. lap = 0
      <4>1. lap <= lap * (N - 1) + 0
        BY LapBound
      <4>2. l * (N - 1) = 0
        BY <1>1, <2>4
      <4> QED BY <1>5, <1>6, <1>10, <4>1, <4>2
    <3>3. OldStart = N - 1
      BY <1>2, <3>2 DEF LiveFrom
    <3>4. Len(LiveLog') = Len(LiveLog)
      BY <1>5, <1>10, <1>9, <3>1, <3>3
    <3> QED BY <1>1, <2>2, <3>4, GivesUp
  <2> QED BY <2>3, <2>4
<1>11. CASE addr' # f
  <2>1. addr' = 0 /\ flash[f + 1] # Blank /\ f >= RolloverPage
    BY <1>4, <1>11 DEF FreezeFindsPage, TakeFreePage
  <2>2. f = N - 1 /\ g = 0
    <3>1. f # N - 2
      <4>1. flash[N - 1] = Blank
        BY <1>2 DEF LogShape
      <4>2. f = N - 2 => f + 1 = N - 1
        BY <1>1
      <4> QED BY <2>1, <4>1, <4>2
    <3>2. f >= N - 2 /\ N \in Nat /\ f \in 0 .. N - 1
      BY <1>1, <2>1 DEF RolloverPage
    <3>3. f = N - 1
      BY <3>1, <3>2
    <3> QED BY <2>1, <3>3, <1>5
  <2>3. Len(LiveLog') <= Len(LiveLog)
    <3>1. OldStart <= f /\ OldStart' >= 0
      BY <1>1, <1>7, <1>8, <2>2
    <3> QED BY <1>9, <2>2, <3>1
  <2>4. l > 0
    <3> SUFFICES ASSUME l = 0 PROVE FALSE
      OBVIOUS
    <3>1. l * (N - 1) = 0
      BY <1>1
    <3> QED BY <1>1, <1>6, <2>2, <3>1
  <2>5. OldStart' <= g + P + 1
    BY <1>3, <2>4 DEF LiveFrom
  <2>6. Len(LiveLog') >= Keep
    BY <1>9, <2>5
  <2> QED BY <1>1, <2>3, <2>6, GivesUp
<1> QED BY <1>10, <1>11

\* The next image is written behind those of this lap; the old ones stay.
LEMMA WritesSave == ASSUME IInv, IInv', FreezeWrites PROVE Store!Save
<1>1. /\ N \in Nat /\ N >= 4 /\ TypeOK /\ pc = "write"
      /\ saved' = Append(saved, buf) /\ saved \in Seq(Image) /\ buf \in Image
  BY SectorRange, SizeAssumption DEF IInv, TypeOK, FreezeWrites
<1>2. PICK f \in 0 .. N - 1, lap \in Nat :
        LogShape(f, lap) /\ FrameUnderWay(f) /\ LiveFrom(f, lap) /\ LiveSuffix
  BY Shaped
<1>3. PICK g \in 0 .. N - 1, l \in Nat :
        LogShape(g, l)' /\ LiveFrom(g, l)' /\ LiveSuffix'
  <2>1. PICK g \in 0 .. N - 1 : \E l \in 0 .. Len(saved') : LogShape(g, l)'
    BY DEF IInv, LogInv
  <2>2. PICK l \in 0 .. Len(saved') : LogShape(g, l)'
    BY <2>1
  <2>3. l \in Nat
    OBVIOUS
  <2> QED BY <2>2, <2>3, LiveHoldsNext DEF LiveAll, IInv
<1>4. /\ addr = f /\ f < N - 1 /\ flash[f + 1] = Blank /\ flash[f] = Blank
      /\ f \in Nat /\ g \in Nat
  BY <1>1, <1>2 DEF FrameUnderWay, LogShape
<1>5. /\ \A p \in 0 .. N : p # f => flash'[p] = flash[p]
      /\ flash'[f] = buf /\ buf # Blank
  BY <1>1, <1>4, FrameWritten, ImageFacts
<1>6. g = f + 1
  <2>1. flash'[g] = Blank
    BY <1>3 DEF LogShape
  <2>2. \A p \in 0 .. f - 1 : flash'[p] # Blank
    <3>1. \A p \in 0 .. f - 1 : p \in 0 .. N /\ p # f
      BY <1>1, <1>4
    <3> QED BY <1>2, <1>5, <3>1 DEF LiveFrom
  <2>3. ~(g < f + 1)
    <3>1. g < f + 1 => g = f \/ g \in 0 .. f - 1
      BY <1>4
    <3> QED BY <1>5, <2>1, <2>2, <3>1
  <2>4. flash'[f + 1] = Blank
    <3>1. f + 1 \in 0 .. N /\ f + 1 # f
      BY <1>1, <1>4
    <3> QED BY <1>4, <1>5, <3>1
  <2>5. ~(f + 1 < g)
    <3>1. f + 1 < g => f + 1 \in 0 .. g - 1
      BY <1>4
    <3>2. \A p \in 0 .. g - 1 : flash'[p] # Blank
      BY <1>3 DEF LiveFrom
    <3> QED BY <2>4, <3>1, <3>2
  <2> QED BY <1>4, <2>3, <2>5
<1>7. OldStart' = OldStart
  <2>1. OldPages = {p \in f .. N - 2 : flash[p] # Blank}
    BY <1>2 DEF LiveFrom
  <2>2. OldPages' = {p \in g .. N - 2 : flash'[p] # Blank}
    BY <1>3 DEF LiveFrom
  <2>3. \A p : p \in g .. N - 2 <=> p \in f .. N - 2 /\ p # f
    BY <1>1, <1>4, <1>6
  <2>4. \A p \in f .. N - 2 : p \in 0 .. N
    BY <1>1, <1>4
  <2>5. OldPages' = OldPages
    BY <1>4, <1>5, <2>1, <2>2, <2>3, <2>4
  <2> QED BY <2>5 DEF OldStart
<1> DEFINE n == Len(LiveLog)
<1>8. /\ LiveLog \in Seq(Image) /\ LiveLog' \in Seq(Image)
      /\ n \in Nat /\ Len(LiveLog') = n + 1
  <2>1. /\ LiveLog \in Seq(Image) /\ LiveLog' \in Seq(Image)
        /\ OldStart \in f .. N - 1
        /\ n = N - 1 - OldStart + f
        /\ Len(LiveLog') = N - 1 - OldStart' + g
    BY <1>2, <1>3 DEF LiveFrom
  <2>2. n \in Nat /\ OldStart \in Int
    BY <1>1, <1>4, <2>1
  <2> HIDE DEF n
  <2>3. Len(LiveLog') = N - 1 - OldStart + (f + 1)
    BY <1>6, <1>7, <2>1
  <2>4. N - 1 - OldStart + (f + 1) = n + 1
    BY <1>1, <1>4, <2>1, <2>2
  <2> QED BY <2>1, <2>2, <2>3, <2>4
<1>9. /\ Len(saved) \in Nat /\ n <= Len(saved) /\ Len(saved') = Len(saved) + 1
      /\ \A i \in 1 .. Len(saved) : saved'[i] = saved[i]
  BY <1>1, <1>2 DEF LiveSuffix
<1>10. ASSUME NEW k \in 1 .. n PROVE LiveLog'[k] = LiveLog[k]
  <2> HIDE DEF n
  <2>1. k \in 1 .. n + 1 /\ Len(saved) - n + k \in 1 .. Len(saved)
          /\ (Len(saved) + 1) - (n + 1) + k = Len(saved) - n + k
    BY <1>8, <1>9
  <2>2. LiveLog'[k] = saved'[Len(saved') - Len(LiveLog') + k]
    BY <1>3, <1>8, <2>1 DEF LiveSuffix
  <2>3. LiveLog'[k] = saved[Len(saved) - n + k]
    BY <1>8, <1>9, <2>1, <2>2
  <2>4. LiveLog[k] = saved[Len(saved) - n + k]
    BY <1>2 DEF LiveSuffix, n
  <2> QED BY <2>3, <2>4
<1>11. SubSeq(LiveLog', 1, n) = LiveLog
  <2>1. \A s, t \in Seq(Image) :
          Len(t) = Len(s) + 1 /\ (\A k \in 1 .. Len(s) : t[k] = s[k]) =>
            SubSeq(t, 1, Len(s)) = s
    OBVIOUS
  <2> QED BY <1>8, <1>10, <2>1
<1> QED BY <1>8, <1>11 DEF Store!Save

LEMMA ErasesEmpty == ASSUME IInv, IInv', CheckIdErases PROVE Store!Empty
<1>1. saved' = <<>> /\ LiveSuffix' /\ LiveLog' \in Seq(Image)
  <2>1. LiveSuffix' /\ LiveLog' \in Seq(Image)
    BY LiveHoldsNext DEF LiveAll, LiveFrom, IInv, LogInv
  <2> QED BY <2>1 DEF CheckIdErases
<1>2. Len(LiveLog') <= 0
  BY <1>1 DEF LiveSuffix
<1>3. \A s \in Seq(Image) : Len(s) <= 0 => s = <<>>
  OBVIOUS
<1> QED BY <1>1, <1>2, <1>3 DEF Store!Empty

LEMMA StoreInit == Init => Store!Init
<1> SUFFICES ASSUME Init PROVE LiveLog = <<>>
  BY DEF Store!Init
<1>1. LiveSuffix /\ LiveLog \in Seq(Image)
  BY InitInv, Shaped DEF LiveFrom
<1>2. Len(LiveLog) <= 0
  BY <1>1 DEF LiveSuffix, Init
<1>3. \A s \in Seq(Image) : Len(s) <= 0 => s = <<>>
  OBVIOUS
<1> QED BY <1>1, <1>2, <1>3

LEMMA StoreStep ==
  ASSUME IInv, IInv', [Next]_vars PROVE [Store!Next]_LiveLog
<1>1. CASE FreezeFindsPage
  BY <1>1, FindsPageGivesUp DEF Store!Next
<1>2. CASE FreezeWrites
  BY <1>2, WritesSave DEF Store!Next
<1>3. CASE CheckIdErases
  BY <1>3, ErasesEmpty DEF Store!Next
<1>4. CASE CheckIdWrites \/ OfflineWrites
  <2>1. saved' = saved /\ \A p \in 0 .. N - 1 : flash'[p] = flash[p]
    BY <1>4, IdWritten DEF CheckIdWrites, OfflineWrites, IInv
  <2> QED BY <2>1, StoreKept
<1>5. CASE OfflineErases
  <2>1. saved' = saved /\ \A p \in 0 .. N - 1 : flash'[p] = flash[p]
    BY <1>5, IdErased DEF OfflineErases, IInv
  <2> QED BY <2>1, StoreKept
<1>6. CASE \/ PowerOn \/ PowerOff \/ SwapMeter \/ CheckIdMatches \/ Tick
           \/ SetClock \/ FreezePrepares \/ UNCHANGED vars
  <2>1. saved' = saved /\ flash' = flash
    BY <1>6 DEF PowerOn, PowerOff, SwapMeter, CheckIdMatches, Tick, SetClock,
                FreezePrepares, vars
  <2> QED BY <2>1, StoreKept
<1> QED BY <1>1, <1>2, <1>3, <1>4, <1>5, <1>6 DEF Next

(***************************************************************************)
(* The log is a store in the order of saving that gives up its oldest      *)
(* images only and never falls below (Sectors - 1) * P - 2 of them by      *)
(* doing so, although no index is kept, for every number and size of       *)
(* sectors, across laps, losses of power and changes of the meter.         *)
(***************************************************************************)
THEOREM ImplementsStoreHolds == Spec => ImplementsStore
<1>1. Init => Store!Init
  BY StoreInit
<1>2. IInv /\ IInv' /\ [Next]_vars => [Store!Next]_LiveLog
  BY StoreStep
<1> QED BY <1>1, <1>2, InvHolds, PTL DEF Spec, ImplementsStore, Store!Spec
=============================================================================
