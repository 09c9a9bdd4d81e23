------------------------- MODULE FreezeSchedule_proofs -------------------------
(***************************************************************************)
(* Proofs about the freeze schedule, for any length of time: type          *)
(* correctness; one freeze at most for an interval, wherever the interrupt *)
(* comes; how far a label may be off, wherever it comes; and, where no     *)
(* minute begins between two instructions of the main loop that belong     *)
(* together, that the flag of an interval is not lost and that a frame is  *)
(* filled for the interval it closes.                                      *)
(***************************************************************************)
EXTENDS FreezeSchedule, TLAPS

\* The halfword, bit by bit.
LEMMA FlagBits ==
  ASSUME NEW f \in Flags
  PROVE  /\ f.auto_save_data \in BOOLEAN /\ f.have_data_300F \in BOOLEAN
         /\ f.have_time_300F \in BOOLEAN /\ f.mode_save_one_hour \in BOOLEAN
BY DEF Flags

LEMMA FlagWritten ==
  ASSUME NEW f \in Flags, NEW b \in BOOLEAN
  PROVE  /\ [f EXCEPT !.auto_save_data = b] \in Flags
         /\ [f EXCEPT !.have_data_300F = b] \in Flags
         /\ [f EXCEPT !.have_time_300F = b] \in Flags
         /\ [f EXCEPT !.mode_save_one_hour = b] \in Flags
BY DEF Flags

LEMMA ZeroQuarter == 0 \in Quarters
BY ScheduleAssumption DEF Quarters

LEMMA UnnamedQuarter == Unnamed \in Nat \ {0}
BY ScheduleAssumption DEF Unnamed, Quarter

LEMMA NowType == ASSUME TypeOK PROVE now \in Quarters
BY ScheduleAssumption DEF TypeOK, now, Quarter, Quarters

-----------------------------------------------------------------------------
(***************************************************************************)
(* Type correctness.                                                       *)
(***************************************************************************)
LEMMA TickTypes == TypeOK /\ RTCHandler => TypeOK'
<1> SUFFICES ASSUME TypeOK, RTCHandler PROVE TypeOK'
  OBVIOUS
<1>1. HOUR' \in MinHour .. MaxHour /\ MIN' \in 0 .. 3
  BY ScheduleAssumption DEF TypeOK, RTCHandler, Quarter
<1>2. rtc_flag' \in Flags
  <2> DEFINE t == rtc_flag.have_time_300F \/ MIN' \in {1, 3}
             s == rtc_flag.auto_save_data \/ HalfHourEnds
  <2>1. rtc_flag' = [rtc_flag EXCEPT !.have_time_300F = t, !.auto_save_data = s]
    BY DEF RTCHandler
  <2>2. rtc_flag \in Flags /\ t \in BOOLEAN /\ s \in BOOLEAN
    BY DEF TypeOK
  <2> HIDE DEF t, s
  <2> QED
    BY <2>1, <2>2 DEF Flags
<1>3. /\ half_hour' \in {0, 1} /\ owed' \in Quarters \cup {Unnamed}
      /\ crossed' \in BOOLEAN
  BY <1>1, ScheduleAssumption DEF TypeOK, RTCHandler, Quarter, Quarters
<1> QED
  BY <1>1, <1>2, <1>3 DEF TypeOK, RTCHandler, frame

LEMMA DivMod24 ==
  ASSUME NEW h \in Nat
  PROVE  h % 24 \in 0 .. 23 /\ h \div 24 \in Nat /\ h = 24 * (h \div 24) + (h % 24)
<1>1. h % 24 \in 0 .. 23
  OBVIOUS
<1>2. h \div 24 \in Nat
  OBVIOUS
<1>3. h = 24 * (h \div 24) + (h % 24)
  OBVIOUS
<1> QED
  BY <1>1, <1>2, <1>3

\* An hour is split into its date and the hour of the day.
LEMMA HourOfDay ==
  ASSUME NEW h \in Nat
  PROVE  /\ h % 24 \in 0 .. 23 /\ h \div 24 \in 0 .. h
         /\ h = 24 * (h \div 24) + (h % 24)
         /\ \A k \in Nat : h <= k => h \div 24 <= k \div 24
<1>1. h % 24 \in 0 .. 23 /\ h \div 24 \in Nat /\ h = 24 * (h \div 24) + (h % 24)
  BY DivMod24
<1>2. h \div 24 \in 0 .. h
  BY <1>1
<1>3. ASSUME NEW k \in Nat, h <= k PROVE h \div 24 <= k \div 24
  <2>1. k % 24 \in 0 .. 23 /\ k \div 24 \in Nat /\ k = 24 * (k \div 24) + (k % 24)
    BY DivMod24
  <2> QED
    BY <1>1, <1>3, <2>1
<1> QED
  BY <1>1, <1>2, <1>3

LEMMA LoopTypes == TypeOK /\ (RequestTaken \/ SetMinute \/ MainLoop) => TypeOK'
<1> SUFFICES ASSUME TypeOK, RequestTaken \/ SetMinute \/ MainLoop PROVE TypeOK'
  OBVIOUS
<1> USE ScheduleAssumption DEF TypeOK, Load, Store, Goto, clock, frame, history, Slow, Fast,
        Storing, Labelling
<1>1. CASE CheckId
  BY <1>1 DEF CheckId
<1>2. CASE SetMode
  BY <1>2, FlagWritten DEF SetMode
<1>3. CASE Test300F
  BY <1>3 DEF Test300F
<1>4. CASE Clear300F
  BY <1>4, FlagWritten DEF Clear300F
<1>5. CASE Read300F
  BY <1>5, NowType DEF Read300F
<1>6. CASE Load300F
  BY <1>6 DEF Load300F
<1>7. CASE Have300F
  BY <1>7, FlagWritten DEF Have300F
<1>8. CASE TestSave
  BY <1>8 DEF TestSave
<1>9. CASE ClearSave
  BY <1>9, FlagWritten, ZeroQuarter DEF ClearSave
<1>10. CASE FreezeReads
  BY <1>10, NowType DEF FreezeReads
<1>11. CASE ClearData
  BY <1>11, FlagWritten DEF ClearData
<1>12. CASE LabelHalf
  BY <1>12 DEF LabelHalf
<1>13. CASE LabelHour
  BY <1>13, HourOfDay DEF LabelHour
<1>14. CASE LabelDate
  <2>1. HOUR \div 24 \in 0 .. MaxHour
    <3>1. HOUR \in Nat /\ HOUR <= MaxHour
      OBVIOUS
    <3> QED
      BY <3>1, HourOfDay
  <2>2. image' \in [date : 0 .. MaxHour, hour : 0 .. 23, half : {0, 1}]
    BY <1>14, <2>1 DEF LabelDate
  <2> QED
    BY <1>14, <2>2 DEF LabelDate
<1>15. CASE FreezeWrites
  BY <1>15, ZeroQuarter DEF FreezeWrites
<1>16. CASE RequestTaken
  BY <1>16 DEF RequestTaken
<1>17. CASE SetMinute
  BY <1>17, ZeroQuarter DEF SetMinute, Rebased
<1>18. CASE SetHour
  BY <1>18, ZeroQuarter DEF SetHour, Rebased
<1>19. CASE RequestDone
  BY <1>19 DEF RequestDone
<1> QED
  BY <1>1, <1>2, <1>3, <1>4, <1>5, <1>6, <1>7, <1>8, <1>9, <1>10, <1>11,
     <1>12, <1>13, <1>14, <1>15, <1>16, <1>17, <1>18, <1>19, Zenon
     DEF MainLoop, check_freeze_data

LEMMA NextTypes == TypeOK /\ [Next]_vars => TypeOK'
<1>1. TypeOK /\ UNCHANGED vars => TypeOK'
  BY DEF TypeOK, vars
<1> QED
  BY <1>1, TickTypes, LoopTypes DEF Next

(***************************************************************************)
(* The flags stay flags and the label stays a label.                       *)
(***************************************************************************)
THEOREM TypeCorrect == Spec => []TypeOK
<1>1. Init => TypeOK
  <2> SUFFICES ASSUME Init PROVE TypeOK
    OBVIOUS
  <2>1. rtc_flag \in Flags /\ loaded \in Flags
    BY DEF Init, Flags
  <2>2. image \in [date : 0 .. MaxHour, hour : 0 .. 23, half : {0, 1}]
    BY ScheduleAssumption DEF Init
  <2>3. /\ HOUR \in MinHour .. MaxHour
        /\ {owed, begun} \cup buff300F \cup used300F \subseteq Quarters \cup {Unnamed}
    BY ScheduleAssumption, ZeroQuarter DEF Init
  <2> QED
    BY <2>1, <2>2, <2>3 DEF Init, TypeOK, Slow
<1> QED
  BY <1>1, NextTypes, PTL DEF Spec

-----------------------------------------------------------------------------
(***************************************************************************)
(* An interval is owed whenever its flag is up.  Of the main loop's stores *)
(* only ClearSave takes the flag down, and none can bring it back, because *)
(* the interrupt only raises flags.                                        *)
(***************************************************************************)
LEMMA TickOwes ==
  ASSUME TypeOK, RTCHandler
  PROVE  /\ owed' # owed => owed' # 0
         /\ rtc_flag'.auto_save_data => rtc_flag.auto_save_data \/ owed' # 0
<1>1. HalfHourEnds => owed' # 0
  <2> SUFFICES ASSUME HalfHourEnds PROVE owed' # 0
    OBVIOUS
  <2>1. /\ HOUR \in Nat /\ MIN \in 0 .. 3 /\ (MIN' = 0 \/ MIN' = 2)
        /\ IF MIN = 3 THEN MIN' = 0 /\ HOUR' = HOUR + 1
                      ELSE MIN' = MIN + 1 /\ HOUR' = HOUR
        /\ owed' = 4 * HOUR' + MIN'
    BY ScheduleAssumption DEF RTCHandler, HalfHourEnds, TypeOK, Quarter
  <2>2. CASE MIN = 3
    <3>1. MIN' = 0 /\ HOUR' = HOUR + 1
      BY <2>1, <2>2
    <3> QED
      BY <2>1, <3>1
  <2>3. CASE MIN # 3
    <3>1. MIN' = 2 /\ HOUR' = HOUR
      BY <2>1, <2>3
    <3> QED
      BY <2>1, <3>1
  <2> QED
    BY <2>2, <2>3
<1>2. rtc_flag'.auto_save_data <=> rtc_flag.auto_save_data \/ HalfHourEnds
  BY DEF RTCHandler, TypeOK, Flags
<1>3. owed' # owed => HalfHourEnds
  BY DEF RTCHandler
<1> QED
  BY <1>1, <1>2, <1>3

LEMMA NextOwed == TypeOK /\ OwedInv /\ [Next]_vars => OwedInv'
<1> SUFFICES ASSUME TypeOK, OwedInv, [Next]_vars PROVE OwedInv'
  OBVIOUS
<1> USE DEF OwedInv, TypeOK, Load, Store, Goto, clock, frame, history, Storing,
            Freezing, Filled, Flags
<1>1. CASE CheckId
  BY <1>1 DEF CheckId
<1>2. CASE SetMode
  BY <1>2 DEF SetMode
<1>3. CASE Test300F
  BY <1>3 DEF Test300F
<1>4. CASE Clear300F
  BY <1>4 DEF Clear300F
<1>5. CASE Read300F
  BY <1>5 DEF Read300F
<1>6. CASE Load300F
  BY <1>6 DEF Load300F
<1>7. CASE Have300F
  BY <1>7 DEF Have300F
<1>8. CASE TestSave
  BY <1>8 DEF TestSave
<1>9. CASE ClearSave
  BY <1>9 DEF ClearSave
<1>10. CASE FreezeReads
  BY <1>10 DEF FreezeReads
<1>11. CASE ClearData
  BY <1>11 DEF ClearData
<1>12. CASE LabelHalf
  BY <1>12 DEF LabelHalf
<1>13. CASE LabelHour
  BY <1>13 DEF LabelHour
<1>14. CASE LabelDate
  BY <1>14 DEF LabelDate
<1>15. CASE FreezeWrites
  BY <1>15 DEF FreezeWrites
<1>16. CASE RequestTaken
  BY <1>16 DEF RequestTaken
<1>17. CASE SetMinute
  BY <1>17, UnnamedQuarter DEF SetMinute, Rebased
<1>18. CASE SetHour
  BY <1>18, UnnamedQuarter DEF SetHour, Rebased
<1>19. CASE RequestDone
  BY <1>19 DEF RequestDone
<1>20. CASE UNCHANGED vars
  BY <1>20 DEF vars
<1>21. CASE RTCHandler
  <2>1. UNCHANGED <<loaded, pc, begun>>
    BY <1>21 DEF RTCHandler
  <2> QED
    BY <1>21, <2>1, TickOwes
<1> QED
  BY <1>1, <1>2, <1>3, <1>4, <1>5, <1>6, <1>7, <1>8, <1>9, <1>10, <1>11,
     <1>12, <1>13, <1>14, <1>15, <1>16, <1>17, <1>18, <1>19, <1>20, <1>21,
     Zenon
     DEF MainLoop, check_freeze_data, Next

THEOREM OwedInvHolds == Spec => []OwedInv
<1>1. Init => OwedInv
  BY DEF Init, OwedInv, Storing, Freezing, Filled
<1> QED
  BY <1>1, NextOwed, TypeCorrect, PTL DEF Spec

(***************************************************************************)
(* A freeze begins only for an interval that has ended since the last one  *)
(* began, even if the interrupt comes between any two instructions.        *)
(***************************************************************************)
THEOREM OnePerIntervalHolds == Spec => OnePerInterval
<1>1. OwedInv /\ [Next]_vars => [ClearSave => owed # 0]_vars
  BY DEF OwedInv, ClearSave
<1> QED
  BY <1>1, OwedInvHolds, PTL DEF Spec, OnePerInterval

-----------------------------------------------------------------------------
LEMMA Numbers ==
  ASSUME TypeOK
  PROVE  /\ HOUR \in Nat /\ MIN \in 0 .. 3 /\ half_hour \in {0, 1}
         /\ owed \in Nat /\ begun \in Nat /\ Unnamed \in Nat \ {0}
         /\ buff300F \subseteq Nat /\ used300F \subseteq Nat
         /\ image \in [date : Nat, hour : 0 .. 23, half : {0, 1}]
         /\ rtc_flag \in Flags /\ loaded \in Flags
         /\ crossed \in BOOLEAN /\ savedSince \in BOOLEAN
BY ScheduleAssumption, UnnamedQuarter DEF TypeOK, Quarters

\* The clock goes on by a quarter.
LEMMA TickClock ==
  ASSUME TypeOK, RTCHandler, ~rtc_flag.mode_save_one_hour
  PROVE  /\ IF MIN = 3 THEN MIN' = 0 /\ HOUR' = HOUR + 1
                       ELSE MIN' = MIN + 1 /\ HOUR' = HOUR
         /\ half_hour' = IF MIN' = 0 THEN 0 ELSE IF MIN' = 2 THEN 1 ELSE half_hour
         /\ owed' = IF MIN' \in {0, 2} THEN Quarter(HOUR', MIN') ELSE owed
         /\ rtc_flag'.auto_save_data <=> rtc_flag.auto_save_data \/ MIN' \in {0, 2}
         /\ rtc_flag'.have_time_300F <=> rtc_flag.have_time_300F \/ MIN' \in {1, 3}
         /\ rtc_flag'.have_data_300F = rtc_flag.have_data_300F
         /\ ~rtc_flag'.mode_save_one_hour
         /\ UNCHANGED <<loaded, pc, buff300F, used300F, image, begun, savedSince>>
<1>1. HalfHourEnds <=> MIN' \in {0, 2}
  BY DEF HalfHourEnds
<1>2. /\ IF MIN = 3 THEN MIN' = 0 /\ HOUR' = HOUR + 1
                    ELSE MIN' = MIN + 1 /\ HOUR' = HOUR
      /\ UNCHANGED <<loaded, pc, buff300F, used300F, image, begun, savedSince>>
  BY DEF RTCHandler, frame
<1>3. /\ half_hour' = IF MIN' = 0 THEN 0 ELSE IF MIN' = 2 THEN 1 ELSE half_hour
      /\ owed' = IF MIN' \in {0, 2} THEN Quarter(HOUR', MIN') ELSE owed
  BY <1>1 DEF RTCHandler
<1>4. /\ rtc_flag'.auto_save_data <=> rtc_flag.auto_save_data \/ MIN' \in {0, 2}
      /\ rtc_flag'.have_time_300F <=> rtc_flag.have_time_300F \/ MIN' \in {1, 3}
      /\ rtc_flag'.have_data_300F = rtc_flag.have_data_300F
      /\ ~rtc_flag'.mode_save_one_hour
  BY <1>1 DEF RTCHandler, TypeOK, Flags
<1> QED
  BY <1>2, <1>3, <1>4

(***************************************************************************)
(* The label, wherever a minute may begin.                                 *)
(***************************************************************************)
LEMMA TickLabel ==
  ASSUME TypeOK, OwedInv, LabelInv, LabelOfInterval, RTCHandler
  PROVE  LabelInv' /\ LabelOfInterval'
<1>1. /\ IF MIN = 3 THEN MIN' = 0 /\ HOUR' = HOUR + 1
                    ELSE MIN' = MIN + 1 /\ HOUR' = HOUR
      /\ half_hour' = IF MIN' = 0 THEN 0 ELSE IF MIN' = 2 THEN 1 ELSE half_hour
      /\ owed' = IF MIN' \in {0, 2} THEN Quarter(HOUR', MIN') ELSE owed
      /\ ~rtc_flag'.mode_save_one_hour
      /\ UNCHANGED <<loaded, pc, buff300F, used300F, image, begun, savedSince>>
  BY TickClock DEF LabelInv
<1>2. /\ HOUR \in Nat /\ MIN \in 0 .. 3 /\ half_hour \in {0, 1}
      /\ owed \in Nat /\ begun \in Nat /\ Unnamed \in Nat \ {0}
      /\ buff300F \subseteq Nat /\ used300F \subseteq Nat
      /\ image \in [date : Nat, hour : 0 .. 23, half : {0, 1}]
      /\ rtc_flag \in Flags /\ loaded \in Flags
      /\ crossed \in BOOLEAN /\ savedSince \in BOOLEAN
  BY Numbers
<1>3. crossed' = (crossed \/ (pc \in Labelling /\ MIN' = 0))
  BY DEF RTCHandler
<1>4. /\ HOUR' \in Nat /\ HOUR <= HOUR'
      /\ HOUR \div 24 <= HOUR' \div 24
      /\ HOUR \div 24 \in Nat /\ HOUR' \div 24 \in Nat
      /\ HOUR % 24 \in Nat
  <2>1. HOUR' \in Nat /\ HOUR <= HOUR'
    BY <1>1, <1>2
  <2>2. HOUR \div 24 \in Nat /\ HOUR % 24 \in Nat
    BY <1>2, DivMod24
  <2>3. HOUR' \div 24 \in Nat
    BY <2>1, DivMod24
  <2>4. HOUR \div 24 <= HOUR' \div 24
    <3> DEFINE h == HOUR
               k == HOUR'
    <3>1. h \in Nat /\ k \in Nat /\ h <= k
      BY <1>2, <2>1
    <3> HIDE DEF h, k
    <3>2. h \div 24 <= k \div 24
      BY <3>1, HourOfDay
    <3> QED
      BY <3>2 DEF h, k
  <2> QED
    BY <2>1, <2>2, <2>3, <2>4
<1>5. LabelInv'
  <2> DEFINE d == HOUR \div 24
             e == HOUR' \div 24
             r == HOUR % 24
             s == HOUR' % 24
  <2>1. /\ Named(owed') => MIN' \in {2 * half_hour', 2 * half_hour' + 1}
        /\ Named(begun) => MIN' \in {2 * half_hour', 2 * half_hour' + 1}
        /\ Named(owed') => owed' = Interval'
        /\ Named(begun) => begun <= Interval'
    BY <1>1, <1>2 DEF LabelInv, Named, Interval, Quarter
  <2>2. /\ pc \in Labelling /\ ~crossed' /\ Named(begun) => image.half <= half_hour'
        /\ pc \in Labelling /\ ~crossed' => HOUR' = HOUR /\ ~crossed
        /\ pc = "labelHour" /\ Named(begun) => begun <= Quarter(HOUR', 2 * image.half)
    <3>1. pc \in Labelling /\ ~crossed' => HOUR' = HOUR /\ ~crossed /\ half_hour <= half_hour'
      <4>1. pc \in Labelling /\ ~crossed' => ~crossed /\ MIN' # 0
        BY <1>3
      <4>2. MIN' # 0 => HOUR' = HOUR /\ half_hour <= half_hour'
        BY <1>1, <1>2
      <4> QED
        BY <4>1, <4>2
    <3>2. pc = "labelHour" /\ Named(begun) => begun <= Quarter(HOUR', 2 * image.half)
      <4>1. pc = "labelHour" /\ Named(begun) => begun <= Quarter(HOUR, 2 * image.half)
        BY DEF LabelInv
      <4> QED
        BY <4>1, <1>2, <1>4 DEF Quarter
    <3>3. pc \in Labelling /\ ~crossed /\ Named(begun) => image.half <= half_hour
      BY DEF LabelInv
    <3> QED
      BY <3>1, <3>2, <3>3, <1>1, <1>2
  <2>3. pc = "labelDate" /\ ~crossed' => image.hour = s
    BY <2>2 DEF LabelInv, Labelling
  <2>4. pc = "labelDate" /\ Named(begun)
          => begun <= Quarter(24 * e + image.hour, 2 * image.half)
    <3>1. pc = "labelDate" /\ Named(begun)
            => begun <= Quarter(24 * d + image.hour, 2 * image.half)
      BY DEF LabelInv, Midnight
    <3>2. d \in Nat /\ e \in Nat /\ d <= e
      BY <1>4
    <3> HIDE DEF d, e
    <3> QED
      BY <3>1, <3>2, <1>2 DEF Quarter
  <2> QED
    BY <1>1, <2>1, <2>2, <2>3, <2>4 DEF LabelInv, Named, Midnight, Unnamed
<1>6. LabelOfInterval'
  BY <1>1, <1>2, <1>3, <1>4 DEF LabelOfInterval, Named, Label, Day, now, Quarter, Labelling
<1> QED
  BY <1>5, <1>6

LEMMA LoopLabel ==
  ASSUME TypeOK, OwedInv, LabelInv, LabelOfInterval,
         RequestTaken \/ SetMinute \/ MainLoop
  PROVE  LabelInv' /\ LabelOfInterval'
<1>1. /\ HOUR \in Nat /\ MIN \in 0 .. 3 /\ half_hour \in {0, 1}
      /\ owed \in Nat /\ begun \in Nat /\ Unnamed \in Nat \ {0}
      /\ buff300F \subseteq Nat /\ used300F \subseteq Nat
      /\ image \in [date : Nat, hour : 0 .. 23, half : {0, 1}]
      /\ rtc_flag \in Flags /\ loaded \in Flags
      /\ crossed \in BOOLEAN /\ savedSince \in BOOLEAN
  BY Numbers
<1>2. LabelInv'
  <2> USE DEF LabelInv, Named, Interval, Quarter, Goto, Load, Store, Flags, Labelling, Storing,
              frame, history, clock
  <2>1. CASE CheckId
    BY <2>1, <1>1 DEF CheckId
  <2>2. CASE SetMode
    BY <2>2, <1>1 DEF SetMode
  <2>3. CASE Test300F
    BY <2>3, <1>1 DEF Test300F
  <2>4. CASE Clear300F
    BY <2>4, <1>1 DEF Clear300F
  <2>5. CASE Read300F
    BY <2>5, <1>1 DEF Read300F
  <2>6. CASE Load300F
    BY <2>6, <1>1 DEF Load300F
  <2>7. CASE Have300F
    BY <2>7, <1>1 DEF Have300F
  <2>8. CASE TestSave
    BY <2>8, <1>1 DEF TestSave
  <2>9. CASE ClearSave
    BY <2>9, <1>1 DEF ClearSave
  <2>10. CASE FreezeReads
    BY <2>10, <1>1 DEF FreezeReads
  <2>11. CASE ClearData
    BY <2>11, <1>1 DEF ClearData
  <2>12. CASE LabelHalf
    BY <2>12, <1>1 DEF LabelHalf
  <2>13. CASE LabelHour
    <3>1. /\ HOUR = Midnight + (HOUR % 24) /\ Midnight \in Nat
          /\ image' = [image EXCEPT !.hour = HOUR % 24]
          /\ pc = "labelHour" /\ pc' = "labelDate"
          /\ UNCHANGED <<clock, history, rtc_flag, loaded>>
      BY <2>13, <1>1, HourOfDay DEF LabelHour, Midnight
    <3>2. image'.hour = HOUR % 24 /\ image'.half = image.half /\ HOUR % 24 \in Nat
      BY <3>1, <1>1, HourOfDay
    <3>3. Midnight' = Midnight
      BY <3>1 DEF Midnight
    <3>4. Named(begun) => begun <= Quarter(Midnight + (HOUR % 24), 2 * image.half)
      BY <3>1
    <3>5. /\ Interval' = Interval /\ Unnamed' = Unnamed /\ HOUR' = HOUR
          /\ MIN' = MIN /\ half_hour' = half_hour /\ owed' = owed
          /\ begun' = begun /\ crossed' = crossed
          /\ rtc_flag' = rtc_flag /\ loaded' = loaded
      BY <3>1 DEF Unnamed
    <3> HIDE DEF Quarter, Interval
    <3>6. pc' = "labelDate" =>
            /\ ~crossed' => image'.hour = HOUR' % 24
            /\ Named(begun)' => begun' <= Quarter(Midnight' + image'.hour, 2 * image'.half)
      BY <3>1, <3>2, <3>3, <3>4, <3>5
    <3>7. pc' \in Labelling /\ ~crossed' /\ Named(begun)' => image'.half <= half_hour'
      BY <3>1, <3>2, <3>5
    <3> QED
      BY <3>1, <3>5, <3>6, <3>7
  <2>14. CASE LabelDate
    BY <2>14, <1>1 DEF LabelDate
  <2>15. CASE FreezeWrites
    BY <2>15, <1>1 DEF FreezeWrites
  <2>16. CASE RequestTaken
    BY <2>16, <1>1 DEF RequestTaken
  <2>17. CASE SetMinute
    BY <2>17, <1>1 DEF SetMinute, Rebased, OwedInv, Freezing, Filled
  <2>18. CASE SetHour
    BY <2>18, <1>1 DEF SetHour, Rebased, OwedInv, Freezing, Filled
  <2>19. CASE RequestDone
    BY <2>19, <1>1 DEF RequestDone
  <2> QED
    BY <2>1, <2>2, <2>3, <2>4, <2>5, <2>6, <2>7, <2>8, <2>9, <2>10, <2>11,
       <2>12, <2>13, <2>14, <2>15, <2>16, <2>17, <2>18, <2>19, Zenon
       DEF MainLoop, check_freeze_data
<1>3. LabelOfInterval'
  <2> USE DEF LabelOfInterval, Named, Label, Day, now, Quarter, Goto, Load, Store, frame, history, clock
  <2>1. CASE CheckId
    BY <2>1, <1>1 DEF CheckId
  <2>2. CASE SetMode
    BY <2>2, <1>1 DEF SetMode
  <2>3. CASE Test300F
    BY <2>3, <1>1 DEF Test300F
  <2>4. CASE Clear300F
    BY <2>4, <1>1 DEF Clear300F
  <2>5. CASE Read300F
    BY <2>5, <1>1 DEF Read300F
  <2>6. CASE Load300F
    BY <2>6, <1>1 DEF Load300F
  <2>7. CASE Have300F
    BY <2>7, <1>1 DEF Have300F
  <2>8. CASE TestSave
    BY <2>8, <1>1 DEF TestSave
  <2>9. CASE ClearSave
    BY <2>9, <1>1 DEF ClearSave
  <2>10. CASE FreezeReads
    BY <2>10, <1>1 DEF FreezeReads
  <2>11. CASE ClearData
    BY <2>11, <1>1 DEF ClearData
  <2>12. CASE LabelHalf
    BY <2>12, <1>1 DEF LabelHalf
  <2>13. CASE LabelHour
    BY <2>13, <1>1 DEF LabelHour
  <2>14. CASE LabelDate
    <3> DEFINE d == HOUR \div 24
               r == HOUR % 24
    <3>1. /\ HOUR = 24 * d + r /\ d \in Nat /\ r \in 0 .. 23
          /\ image' = [image EXCEPT !.date = d]
          /\ pc = "labelDate" /\ pc' = "write"
          /\ UNCHANGED <<clock, history, rtc_flag, loaded>>
      BY <2>14, <1>1, HourOfDay DEF LabelDate
    <3>2. image'.date = d /\ image'.hour = image.hour /\ image'.half = image.half
      BY <3>1, <1>1
    <3>3. /\ ~crossed => image.hour = r
          /\ Named(begun) => begun <= Quarter(24 * d + image.hour, 2 * image.half)
          /\ ~crossed /\ Named(begun) => image.half <= half_hour
          /\ Named(begun) => MIN \in {2 * half_hour, 2 * half_hour + 1}
      BY <3>1 DEF LabelInv, Midnight, Labelling
    <3> HIDE DEF d, r
    <3> QED
      BY <3>1, <3>2, <3>3, <1>1
  <2>15. CASE FreezeWrites
    BY <2>15, <1>1 DEF FreezeWrites
  <2>16. CASE RequestTaken
    BY <2>16, <1>1 DEF RequestTaken
  <2>17. CASE SetMinute
    BY <2>17, <1>1 DEF SetMinute, Rebased
  <2>18. CASE SetHour
    BY <2>18, <1>1 DEF SetHour, Rebased
  <2>19. CASE RequestDone
    BY <2>19, <1>1 DEF RequestDone
  <2> QED
    BY <2>1, <2>2, <2>3, <2>4, <2>5, <2>6, <2>7, <2>8, <2>9, <2>10, <2>11,
       <2>12, <2>13, <2>14, <2>15, <2>16, <2>17, <2>18, <2>19, Zenon
       DEF MainLoop, check_freeze_data
<1> QED
  BY <1>2, <1>3

THEOREM LabelInvHolds == Spec => [](LabelInv /\ LabelOfInterval)
<1>1. Init => LabelInv /\ LabelOfInterval
  BY ScheduleAssumption DEF Init, LabelInv, LabelOfInterval, Named, Labelling
<1>2. /\ TypeOK /\ OwedInv /\ LabelInv /\ LabelOfInterval /\ [Next]_vars
      => (LabelInv /\ LabelOfInterval)'
  <2>1. LabelInv /\ LabelOfInterval /\ UNCHANGED vars => (LabelInv /\ LabelOfInterval)'
    BY DEF vars, LabelInv, LabelOfInterval, Named, Interval, Midnight, Quarter, Label, now
  <2> QED
    BY <2>1, TickLabel, LoopLabel DEF Next
<1> QED
  BY <1>1, <1>2, TypeCorrect, OwedInvHolds, PTL DEF Spec

(***************************************************************************)
(* No label names an interval before the one its freeze began for, nor one *)
(* that has not ended, except in the two cases the property names; this    *)
(* wherever the interrupt comes and whenever the clock is set.             *)
(***************************************************************************)
THEOREM LabelHolds == Spec => []LabelOfInterval
BY LabelInvHolds, PTL

-----------------------------------------------------------------------------
(***************************************************************************)
(* A reading from before the clock was set goes into one frame at most:    *)
(* have_data_300F is written by the main loop alone.                       *)
(***************************************************************************)
LEMMA NextKept == TypeOK /\ LabelInv /\ KeptInv /\ [Next]_vars => KeptInv'
<1> SUFFICES ASSUME TypeOK, LabelInv, KeptInv, [Next]_vars PROVE KeptInv'
  OBVIOUS
<1> USE DEF KeptInv, Load, Store, Goto, clock, frame, history, Storing, Filled, Flags
<1>0. /\ now \in Quarters /\ Unnamed \notin Quarters
      /\ rtc_flag \in Flags /\ loaded \in Flags
  BY NowType, ScheduleAssumption DEF TypeOK, Unnamed, Quarters, Quarter
<1>1. CASE CheckId
  BY <1>1, <1>0 DEF CheckId
<1>2. CASE SetMode
  BY <1>2, <1>0 DEF SetMode
<1>3. CASE Test300F
  BY <1>3, <1>0 DEF Test300F
<1>4. CASE Clear300F
  BY <1>4, <1>0 DEF Clear300F
<1>5. CASE Read300F
  BY <1>5, <1>0 DEF Read300F
<1>6. CASE Load300F
  BY <1>6, <1>0 DEF Load300F
<1>7. CASE Have300F
  BY <1>7, <1>0 DEF Have300F
<1>8. CASE TestSave
  BY <1>8, <1>0 DEF TestSave
<1>9. CASE ClearSave
  BY <1>9, <1>0 DEF ClearSave
<1>10. CASE FreezeReads
  BY <1>10, <1>0 DEF FreezeReads
<1>11. CASE ClearData
  BY <1>11, <1>0 DEF ClearData
<1>12. CASE LabelHalf
  BY <1>12, <1>0 DEF LabelHalf
<1>13. CASE LabelHour
  BY <1>13, <1>0 DEF LabelHour
<1>14. CASE LabelDate
  BY <1>14, <1>0 DEF LabelDate
<1>15. CASE FreezeWrites
  BY <1>15, <1>0 DEF FreezeWrites
<1>16. CASE RequestTaken
  BY <1>16, <1>0 DEF RequestTaken
<1>17. CASE SetMinute
  BY <1>17, <1>0 DEF SetMinute, Rebased
<1>18. CASE SetHour
  BY <1>18, <1>0 DEF SetHour, Rebased
<1>19. CASE RequestDone
  BY <1>19, <1>0 DEF RequestDone
<1>20. CASE UNCHANGED vars
  BY <1>20 DEF vars
<1>21. CASE RTCHandler
  BY <1>21, TickClock DEF LabelInv
<1> QED
  BY <1>1, <1>2, <1>3, <1>4, <1>5, <1>6, <1>7, <1>8, <1>9, <1>10, <1>11,
     <1>12, <1>13, <1>14, <1>15, <1>16, <1>17, <1>18, <1>19, <1>20, <1>21,
     Zenon
     DEF MainLoop, check_freeze_data, Next

LEMMA KeptInvHolds == Spec => []KeptInv
<1>1. Init => KeptInv
  BY DEF Init, KeptInv, Storing, Filled
<1> QED
  BY <1>1, NextKept, TypeCorrect, LabelInvHolds, PTL DEF Spec

-----------------------------------------------------------------------------
(***************************************************************************)
(* From here on no minute begins between a load and its store.             *)
(***************************************************************************)
LEMMA NextFlags ==
  ASSUME Interrupted \cap Storing = {}
  PROVE  TypeOK /\ OwedInv /\ LabelInv /\ FlagInv /\ [Next]_vars => FlagInv'
<1> SUFFICES ASSUME TypeOK, OwedInv, LabelInv, FlagInv, [Next]_vars PROVE FlagInv'
  OBVIOUS
<1> USE DEF FlagInv, Storing, Flags, Load, Store, Goto, frame, history, clock
<1>0. rtc_flag \in Flags /\ loaded \in Flags
  BY DEF TypeOK
<1>1. CASE CheckId
  BY <1>1, <1>0 DEF CheckId
<1>2. CASE SetMode
  BY <1>2, <1>0 DEF SetMode
<1>3. CASE Test300F
  BY <1>3, <1>0 DEF Test300F
<1>4. CASE Clear300F
  BY <1>4, <1>0 DEF Clear300F
<1>5. CASE Read300F
  BY <1>5, <1>0 DEF Read300F
<1>6. CASE Load300F
  BY <1>6, <1>0 DEF Load300F
<1>7. CASE Have300F
  BY <1>7, <1>0 DEF Have300F
<1>8. CASE TestSave
  BY <1>8, <1>0 DEF TestSave
<1>9. CASE ClearSave
  BY <1>9, <1>0 DEF ClearSave
<1>10. CASE FreezeReads
  BY <1>10, <1>0 DEF FreezeReads
<1>11. CASE ClearData
  BY <1>11, <1>0 DEF ClearData
<1>12. CASE LabelHalf
  BY <1>12, <1>0 DEF LabelHalf
<1>13. CASE LabelHour
  BY <1>13, <1>0 DEF LabelHour
<1>14. CASE LabelDate
  BY <1>14, <1>0 DEF LabelDate
<1>15. CASE FreezeWrites
  BY <1>15, <1>0 DEF FreezeWrites
<1>16. CASE RequestTaken
  BY <1>16, <1>0 DEF RequestTaken
<1>17. CASE SetMinute
  BY <1>17, <1>0 DEF SetMinute, Rebased, OwedInv
<1>18. CASE SetHour
  BY <1>18, <1>0 DEF SetHour, Rebased, OwedInv
<1>19. CASE RequestDone
  BY <1>19, <1>0 DEF RequestDone
<1>20. CASE UNCHANGED vars
  BY <1>20 DEF vars
<1>21. CASE RTCHandler
  <2>1. pc \notin Storing
    BY <1>21 DEF RTCHandler, Slow
  <2> QED
    BY <1>21, <2>1, TickClock DEF LabelInv
<1> QED
  BY <1>1, <1>2, <1>3, <1>4, <1>5, <1>6, <1>7, <1>8, <1>9, <1>10, <1>11,
     <1>12, <1>13, <1>14, <1>15, <1>16, <1>17, <1>18, <1>19, <1>20, <1>21,
     Zenon
     DEF MainLoop, check_freeze_data, Next

THEOREM FlagInvHolds ==
  ASSUME Interrupted \cap Storing = {} PROVE Spec => []FlagInv
<1>1. Init => FlagInv
  BY DEF Init, FlagInv, Storing
<1> QED
  BY <1>1, NextFlags, TypeCorrect, OwedInvHolds, LabelInvHolds, PTL DEF Spec

(***************************************************************************)
(* The flag of an interval that has ended is up until a freeze begins.     *)
(***************************************************************************)
THEOREM IntervalFlaggedHolds ==
  ASSUME Interrupted \cap Storing = {} PROVE Spec => []IntervalFlagged
<1>1. FlagInv => IntervalFlagged
  BY DEF FlagInv, IntervalFlagged
<1> QED
  BY <1>1, FlagInvHolds, PTL

-----------------------------------------------------------------------------
(***************************************************************************)
(* From here on a minute may begin while the main loop waits and while it  *)
(* puts the label together.                                                *)
(***************************************************************************)
LEMMA TickNewest ==
  ASSUME Interrupted \subseteq Labelling, TypeOK, LabelInv, Newest300F, RTCHandler
  PROVE  Newest300F'
<1>1. pc \in Slow \cup Labelling
  BY DEF RTCHandler
<1>2. /\ HOUR \in Nat /\ MIN \in 0 .. 3 /\ half_hour \in {0, 1}
      /\ owed \in Nat /\ begun \in Nat /\ Unnamed \in Nat \ {0}
      /\ buff300F \subseteq Nat /\ used300F \subseteq Nat
      /\ image \in [date : Nat, hour : 0 .. 23, half : {0, 1}]
      /\ rtc_flag \in Flags /\ loaded \in Flags
      /\ crossed \in BOOLEAN /\ savedSince \in BOOLEAN
  BY Numbers
<1>3. /\ IF MIN = 3 THEN MIN' = 0 /\ HOUR' = HOUR + 1
                    ELSE MIN' = MIN + 1 /\ HOUR' = HOUR
      /\ owed' = IF MIN' \in {0, 2} THEN Quarter(HOUR', MIN') ELSE owed
      /\ rtc_flag'.have_time_300F <=> rtc_flag.have_time_300F \/ MIN' \in {1, 3}
      /\ UNCHANGED <<loaded, pc, buff300F, used300F, image, begun, savedSince>>
  BY TickClock DEF LabelInv
<1> QED
  BY <1>1, <1>2, <1>3 DEF Newest300F, Named, Slow, Labelling, Filled, now, Quarter

LEMMA LoopNewest ==
  ASSUME TypeOK, OwedInv, LabelInv, FlagInv, Newest300F,
         RequestTaken \/ SetMinute \/ MainLoop
  PROVE  Newest300F'
<1>0. /\ HOUR \in Nat /\ MIN \in 0 .. 3 /\ half_hour \in {0, 1}
      /\ owed \in Nat /\ begun \in Nat /\ Unnamed \in Nat \ {0}
      /\ buff300F \subseteq Nat /\ used300F \subseteq Nat
      /\ image \in [date : Nat, hour : 0 .. 23, half : {0, 1}]
      /\ rtc_flag \in Flags /\ loaded \in Flags
      /\ crossed \in BOOLEAN /\ savedSince \in BOOLEAN
  BY Numbers
<1> USE DEF Newest300F, Named, now, Quarter, Goto, Load, Store, Flags, FlagInv,
            LabelInv, Interval, Storing, Filled, frame, history, clock
<1>1. CASE CheckId
  BY <1>1, <1>0 DEF CheckId
<1>2. CASE SetMode
  BY <1>2, <1>0 DEF SetMode
<1>3. CASE Test300F
  BY <1>3, <1>0 DEF Test300F
<1>4. CASE Clear300F
  BY <1>4, <1>0 DEF Clear300F
<1>5. CASE Read300F
  BY <1>5, <1>0 DEF Read300F
<1>6. CASE Load300F
  BY <1>6, <1>0 DEF Load300F
<1>7. CASE Have300F
  BY <1>7, <1>0 DEF Have300F
<1>8. CASE TestSave
  BY <1>8, <1>0 DEF TestSave
<1>9. CASE ClearSave
  BY <1>9, <1>0 DEF ClearSave
<1>10. CASE FreezeReads
  BY <1>10, <1>0 DEF FreezeReads
<1>11. CASE ClearData
  BY <1>11, <1>0 DEF ClearData
<1>12. CASE LabelHalf
  BY <1>12, <1>0 DEF LabelHalf
<1>13. CASE LabelHour
  BY <1>13, <1>0 DEF LabelHour
<1>14. CASE LabelDate
  BY <1>14, <1>0 DEF LabelDate
<1>15. CASE FreezeWrites
  BY <1>15, <1>0 DEF FreezeWrites
<1>16. CASE RequestTaken
  BY <1>16, <1>0 DEF RequestTaken
<1>17. CASE SetMinute
  BY <1>17, <1>0 DEF SetMinute, Rebased
<1>18. CASE SetHour
  BY <1>18, <1>0 DEF SetHour, Rebased
<1>19. CASE RequestDone
  BY <1>19, <1>0 DEF RequestDone
<1> QED
  BY <1>1, <1>2, <1>3, <1>4, <1>5, <1>6, <1>7, <1>8, <1>9, <1>10, <1>11,
     <1>12, <1>13, <1>14, <1>15, <1>16, <1>17, <1>18, <1>19, Zenon
     DEF MainLoop, check_freeze_data

LEMMA NewestHolds ==
  ASSUME Interrupted \subseteq Labelling PROVE Spec => []Newest300F
<1>1. Init => Newest300F
  BY DEF Init, Newest300F, Named, Filled
<1>2. Interrupted \cap Storing = {}
  BY DEF Labelling, Storing
<1>3. TypeOK /\ OwedInv /\ LabelInv /\ FlagInv /\ Newest300F /\ [Next]_vars => Newest300F'
  <2>1. Newest300F /\ UNCHANGED vars => Newest300F'
    BY DEF vars, Newest300F, Named, now, Quarter
  <2> QED
    BY <2>1, TickNewest, LoopNewest DEF Next
<1> QED
  BY <1>1, <1>2, <1>3, TypeCorrect, OwedInvHolds, LabelInvHolds, FlagInvHolds, PTL DEF Spec

(***************************************************************************)
(* The value of code 0F30 in a frame is not from before the half hour that *)
(* ended, nor, but for the first frame after it, from before the clock was *)
(* set.                                                                    *)
(***************************************************************************)
THEOREM Fresh300FHolds ==
  ASSUME Interrupted \subseteq Labelling PROVE Spec => []Fresh300F
<1>1. Newest300F /\ KeptInv => Fresh300F
  BY DEF Newest300F, KeptInv, Fresh300F, Filled
<1> QED
  BY <1>1, NewestHolds, KeptInvHolds, PTL

(***************************************************************************)
(* What these follow from: flags, label and kept value go with the clock   *)
(* although the RTC interrupt comes at any point, each as far as where a   *)
(* minute may begin allows it.                                             *)
(***************************************************************************)
THEOREM ScheduleInvHolds == Spec => []ScheduleInv
<1> DEFINE Whole == Interrupted \cap Storing = {}
           Quiet == Interrupted \subseteq Labelling
<1>1. Spec => [](Whole => FlagInv)
  <2>1. CASE Whole
    BY <2>1, FlagInvHolds, PTL
  <2>2. CASE ~Whole
    <3>1. Whole => FlagInv
      BY <2>2
    <3> QED BY <3>1, PTL
  <2> QED
    BY <2>1, <2>2
<1>2. Spec => [](Quiet => Newest300F)
  <2>1. CASE Quiet
    BY <2>1, NewestHolds, PTL
  <2>2. CASE ~Quiet
    <3>1. Quiet => Newest300F
      BY <2>2
    <3> QED BY <3>1, PTL
  <2> QED
    BY <2>1, <2>2
<1>3. OwedInv /\ LabelInv /\ LabelOfInterval /\ KeptInv /\ (Whole => FlagInv)
        /\ (Quiet => Newest300F) => ScheduleInv
  BY DEF ScheduleInv
<1> HIDE DEF Whole, Quiet
<1> QED
  BY <1>1, <1>2, <1>3, OwedInvHolds, LabelInvHolds, KeptInvHolds, PTL
=============================================================================
