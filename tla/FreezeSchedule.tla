---------------------------- MODULE FreezeSchedule ----------------------------
(***************************************************************************)
(* The freeze schedule: RTCHandler() raises flags at the quarters of an    *)
(* hour, check_freeze_data() in the main loop takes them down, reads the   *)
(* meter and labels the frame.  The flags are bit fields of one halfword,  *)
(* which the main loop changes by a load and a store with nothing to keep  *)
(* the interrupt out; and the label is read from half_hour, HOUR and the   *)
(* date, one after the other, when the reading, which may take long, is    *)
(* over.  Between two passes of check_freeze_data() the main loop may      *)
(* carry out a request of the server, which may set the clock.             *)
(*                                                                         *)
(* FreezeLog has the rest of a freeze: the page, the writing.              *)
(* ServerRequests has the rest of the requests.                            *)
(***************************************************************************)
EXTENDS Naturals

CONSTANTS
  MinHour, MaxHour, \* bounds on the clock
  Interrupted       \* where a minute may begin between two instructions

\* Where the main loop spends its time; everywhere else its next step is the
\* next instruction.
Slow == {"check_id", "loop", "request", "read300F", "read", "readRest", "write"}
Storing == {"setMode", "clear300F", "have300F", "clearSave", "clearData"}
Labelling == {"labelHour", "labelDate"}
Fast == {"setHour", "answered", "load300F", "testSave"} \cup Storing \cup Labelling

ASSUME ScheduleAssumption ==
  /\ MinHour \in Nat /\ MaxHour \in Nat /\ MinHour <= MaxHour
  /\ Interrupted \subseteq Fast

Flags == [auto_save_data : BOOLEAN, have_data_300F : BOOLEAN,
          have_time_300F : BOOLEAN, mode_save_one_hour : BOOLEAN]

VARIABLES
  HOUR, MIN,  \* the RTC; MIN in quarters of an hour, HOUR with the date
  rtc_flag,
  loaded,     \* the halfword as the main loop loaded it to change a bit
  half_hour,
  pc,
  buff300F,   \* the quarters in which buff_frame_300F was read, in the time
              \* that the clock shows now: none or one
  used300F,   \* the same of the value of code 0F30 in the frame
  image,      \* the label in my_bl_data[0 .. 4]
  owed,       \* history: the last interval that ended, until a freeze begins
  begun,      \* history: the interval for which the freeze began
  crossed,    \* history: an hour has begun since half_hour was read
  savedSince  \* history: a frame has been saved since the clock was set

vars == <<HOUR, MIN, rtc_flag, loaded, half_hour, pc, buff300F, used300F, image,
          owed, begun, crossed, savedSince>>
clock == <<HOUR, MIN, half_hour>>
frame == <<buff300F, used300F, image>>
history == <<owed, begun, crossed, savedSince>>

Quarter(h, q) == 4 * h + q
now == Quarter(HOUR, MIN)
Quarters == 0 .. 4 * MaxHour + 3

\* What was before the clock was set, the end of an interval or a reading, has no
\* name in the time that the clock shows now; 0 stands for no interval.
Unnamed == Quarter(MaxHour, 3) + 1
Named(interval) == interval \notin {0, Unnamed}

TypeOK ==
  /\ HOUR \in MinHour .. MaxHour /\ MIN \in 0 .. 3
  /\ rtc_flag \in Flags /\ loaded \in Flags
  /\ half_hour \in {0, 1}
  /\ pc \in Slow \cup Fast
  /\ {owed, begun} \cup buff300F \cup used300F \subseteq Quarters \cup {Unnamed}
  /\ image \in [date : 0 .. MaxHour, hour : 0 .. 23, half : {0, 1}]
  /\ crossed \in BOOLEAN /\ savedSince \in BOOLEAN

\* var_start(), then RTC_start(); check_id() comes when the clock is running.
Init ==
  /\ HOUR = MinHour /\ MIN \in 0 .. 3
  /\ rtc_flag = [auto_save_data |-> FALSE, have_data_300F |-> FALSE,
                 have_time_300F |-> TRUE, mode_save_one_hour |-> FALSE]
  /\ loaded = rtc_flag
  /\ half_hour = 0
  /\ pc = "check_id"
  /\ buff300F = {} /\ used300F = {}
  /\ image = [date |-> 0, hour |-> 0, half |-> 0]
  /\ owed = 0 /\ begun = 0 /\ crossed = FALSE /\ savedSince = TRUE

-----------------------------------------------------------------------------
(***************************************************************************)
(* The interrupt, of which only the minutes 0, 15, 30 and 45 do anything.  *)
(***************************************************************************)
HalfHourEnds == MIN' = 0 \/ (MIN' = 2 /\ ~rtc_flag.mode_save_one_hour)

RTCHandlerHalfKept ==  \* mutant: half_hour is not reset at the full hour
  /\ pc \in Slow \cup Interrupted
  /\ Quarter(HOUR, MIN) < Quarter(MaxHour, 3)
  /\ HOUR' = (IF MIN = 3 THEN HOUR + 1 ELSE HOUR)
  /\ MIN' = (IF MIN = 3 THEN 0 ELSE MIN + 1)
  /\ rtc_flag' = [rtc_flag EXCEPT
       !.have_time_300F = @ \/ MIN' \in {1, 3},
       !.auto_save_data = @ \/ HalfHourEnds]
  /\ half_hour' = (IF HalfHourEnds /\ MIN' = 2 THEN 1 ELSE half_hour)
  /\ owed' = (IF HalfHourEnds THEN Quarter(HOUR', MIN') ELSE owed)
  /\ crossed' = (crossed \/ (pc \in Labelling /\ MIN' = 0))
  /\ UNCHANGED <<loaded, pc, frame, begun, savedSince>>
RTCHandler ==
  /\ pc \in Slow \cup Interrupted
  /\ Quarter(HOUR, MIN) < Quarter(MaxHour, 3)
  /\ HOUR' = (IF MIN = 3 THEN HOUR + 1 ELSE HOUR)
  /\ MIN' = (IF MIN = 3 THEN 0 ELSE MIN + 1)
  /\ rtc_flag' = [rtc_flag EXCEPT
       !.have_time_300F = @ \/ MIN' \in {1, 3},
       !.auto_save_data = @ \/ HalfHourEnds]
  /\ half_hour' = (IF ~HalfHourEnds THEN half_hour ELSE IF MIN' = 2 THEN 1 ELSE 0)
  /\ owed' = (IF HalfHourEnds THEN Quarter(HOUR', MIN') ELSE owed)
  /\ crossed' = (crossed \/ (pc \in Labelling /\ MIN' = 0))
  /\ UNCHANGED <<loaded, pc, frame, begun, savedSince>>

-----------------------------------------------------------------------------
(***************************************************************************)
(* Writing a bit field: the halfword is loaded, the bit changed, and the   *)
(* halfword stored.                                                        *)
(***************************************************************************)
Load(next) ==
  /\ loaded' = rtc_flag
  /\ pc' = next

Store(halfword, next) ==
  /\ rtc_flag' = halfword
  /\ pc' = next
  /\ UNCHANGED loaded

Goto(next) ==
  /\ pc' = next
  /\ UNCHANGED <<rtc_flag, loaded>>

\* check_id(), once; nothing in the firmware puts a 1 into byte 10 of the ID
\* page, so it is the mode of half hours that is set.
CheckId ==
  /\ pc = "check_id"
  /\ Load("setMode")
  /\ UNCHANGED <<clock, rtc_flag, frame, history>>

SetMode ==
  /\ pc = "setMode"
  /\ Store([loaded EXCEPT !.mode_save_one_hour = FALSE], "loop")
  /\ UNCHANGED <<clock, frame, history>>

(***************************************************************************)
(* A request of the server, in the main loop's turn before                 *)
(* check_freeze_data().  process_syntime() writes the registers of the     *)
(* clock one after the other while it runs; that raises no interrupt, and  *)
(* half_hour and the flags stay as they are.  SetMinute is SEC and MIN,    *)
(* SetHour is HOUR and the date.                                           *)
(***************************************************************************)
RequestTaken ==
  /\ pc = "loop"
  /\ Goto("request")
  /\ UNCHANGED <<clock, frame, history>>

Rebased ==
  /\ owed' = (IF owed = 0 THEN 0 ELSE Unnamed)
  /\ buff300F' = (IF buff300F = {} THEN {} ELSE {Unnamed})
  /\ savedSince' = FALSE
  /\ UNCHANGED <<half_hour, used300F, image, begun, crossed>>

SetMinute ==
  /\ pc = "request"
  /\ MIN' \in 0 .. 3 /\ UNCHANGED HOUR
  /\ Goto("setHour")
  /\ Rebased

SetHour ==
  /\ pc = "setHour"
  /\ HOUR' \in MinHour .. MaxHour /\ UNCHANGED MIN
  /\ Goto("answered")
  /\ Rebased

RequestDone ==
  /\ pc = "request"
  /\ Goto("answered")
  /\ UNCHANGED <<clock, frame, history>>

(***************************************************************************)
(* The first half of check_freeze_data(): the value of code 0F30 is read   *)
(* in the middle of every half hour and kept for the next freeze.  A meter *)
(* that does not answer leaves buff_frame_300F empty; the flag is set all  *)
(* the same.                                                               *)
(***************************************************************************)
Test300FAfterSave ==  \* mutant: the freeze comes first
  /\ pc \in {"loop", "answered"}
  /\ IF rtc_flag.have_time_300F /\ ~rtc_flag.auto_save_data
       THEN Load("clear300F") /\ UNCHANGED rtc_flag
       ELSE Goto("testSave")
  /\ UNCHANGED <<clock, frame, history>>
Test300F ==
  /\ pc \in {"loop", "answered"}
  /\ IF rtc_flag.have_time_300F
       THEN Load("clear300F") /\ UNCHANGED rtc_flag
       ELSE Goto("testSave")
  /\ UNCHANGED <<clock, frame, history>>

Clear300F ==
  /\ pc = "clear300F"
  /\ Store([loaded EXCEPT !.have_time_300F = FALSE], "read300F")
  /\ UNCHANGED <<clock, frame, history>>

Read300F ==
  /\ pc = "read300F"
  /\ buff300F' \in {{}, {now}}
  /\ Goto("load300F")
  /\ UNCHANGED <<clock, used300F, image, history>>

Load300FBefore ==  \* mutant: the halfword loaded before the reading is used
  /\ pc = "load300F"
  /\ Goto("have300F")
  /\ UNCHANGED <<clock, frame, history>>
Load300F ==
  /\ pc = "load300F"
  /\ Load("have300F")
  /\ UNCHANGED <<clock, rtc_flag, frame, history>>

Have300F ==
  /\ pc = "have300F"
  /\ Store([loaded EXCEPT !.have_data_300F = TRUE], "testSave")
  /\ UNCHANGED <<clock, frame, history>>

(***************************************************************************)
(* The second half: the freeze.                                            *)
(***************************************************************************)
TestSave ==
  /\ pc = "testSave"
  /\ IF rtc_flag.auto_save_data
       THEN Load("clearSave") /\ UNCHANGED rtc_flag
       ELSE Goto("loop")
  /\ UNCHANGED <<clock, frame, history>>

ClearSaveKept ==  \* mutant: the flag stays up
  /\ pc = "clearSave"
  /\ Store(loaded, "read")
  /\ begun' = owed /\ owed' = 0
  /\ UNCHANGED <<clock, frame, crossed, savedSince>>
ClearSave ==
  /\ pc = "clearSave"
  /\ Store([loaded EXCEPT !.auto_save_data = FALSE], "read")
  /\ begun' = owed /\ owed' = 0
  /\ UNCHANGED <<clock, frame, crossed, savedSince>>

\* prepare_freeze_frame(), up to code 0F30 and from there to the break.
FreezeReads ==
  /\ pc = "read"
  /\ \/ /\ rtc_flag.have_data_300F
        /\ Load("clearData")
        /\ UNCHANGED <<rtc_flag, used300F>>
     \/ /\ ~rtc_flag.have_data_300F
        /\ used300F' \in {{}, {now}}
        /\ Goto("readRest")
  /\ UNCHANGED <<clock, buff300F, image, history>>

ClearDataFromStale ==  \* mutant: the halfword read when the freeze began
  /\ pc = "clearData"
  /\ Store([auto_save_data |-> FALSE, have_data_300F |-> FALSE,
            have_time_300F |-> FALSE, mode_save_one_hour |-> FALSE], "readRest")
  /\ used300F' = buff300F
  /\ UNCHANGED <<clock, buff300F, image, history>>
ClearData ==
  /\ pc = "clearData"
  /\ Store([loaded EXCEPT !.have_data_300F = FALSE], "readRest")
  /\ used300F' = buff300F
  /\ UNCHANGED <<clock, buff300F, image, history>>

LabelHalf ==
  /\ pc = "readRest"
  /\ image' = [image EXCEPT !.half = half_hour]
  /\ crossed' = FALSE
  /\ Goto("labelHour")
  /\ UNCHANGED <<clock, buff300F, used300F, owed, begun, savedSince>>

LabelHourEnding ==  \* mutant: the hour that ends
  /\ pc = "labelHour"
  /\ image' = [image EXCEPT !.hour = (HOUR % 24) + half_hour]
  /\ Goto("labelDate")
  /\ UNCHANGED <<clock, buff300F, used300F, history>>
LabelHour ==
  /\ pc = "labelHour"
  /\ image' = [image EXCEPT !.hour = HOUR % 24]
  /\ Goto("labelDate")
  /\ UNCHANGED <<clock, buff300F, used300F, history>>

\* DOM, MONTH and YEAR.
LabelDate ==
  /\ pc = "labelDate"
  /\ image' = [image EXCEPT !.date = HOUR \div 24]
  /\ Goto("write")
  /\ UNCHANGED <<clock, buff300F, used300F, history>>

FreezeWrites ==
  /\ pc = "write"
  /\ begun' = 0 /\ savedSince' = TRUE
  /\ Goto("loop")
  /\ UNCHANGED <<clock, frame, owed, crossed>>

check_freeze_data ==
  \/ Test300F \/ Clear300F \/ Read300F \/ Load300F \/ Have300F
  \/ TestSave \/ ClearSave
  \/ FreezeReads \/ ClearData \/ LabelHalf \/ LabelHour \/ LabelDate
  \/ FreezeWrites

MainLoop == CheckId \/ SetMode \/ SetHour \/ RequestDone \/ check_freeze_data

Next == RTCHandler \/ RequestTaken \/ SetMinute \/ MainLoop

Spec == Init /\ [][Next]_vars

\* The main loop comes back to check_freeze_data(): the meter and the server
\* do not keep it for ever.
FairSpec == Spec /\ WF_vars(MainLoop)
-----------------------------------------------------------------------------
Label == Quarter(24 * image.date + image.hour, 2 * image.half)
Day == Quarter(24, 0)

(***************************************************************************)
(* "Freeze data metter every interval" (main.c:73): when an interval has   *)
(* ended, its flag is up until a freeze begins; in particular none of the  *)
(* three other bits the main loop writes takes it down.                    *)
(***************************************************************************)
IntervalFlagged == pc = "loop" /\ owed # 0 => rtc_flag.auto_save_data

(***************************************************************************)
(* And the freeze does begin.                                              *)
(***************************************************************************)
EveryInterval == owed # 0 ~> owed = 0

(***************************************************************************)
(* A freeze begins only when an interval has ended since the last one      *)
(* began, wherever the interrupt comes.                                    *)
(***************************************************************************)
OnePerInterval == [][ClearSave => owed # 0]_vars

(***************************************************************************)
(* The label of a frame, put together from half_hour, HOUR and the date    *)
(* when a reading of any length is over, never names an interval before    *)
(* the one the freeze began for.  It names one that has ended, but for two *)
(* cases: if the clock has been set while the freeze was owed it may name  *)
(* the half hour in progress; and if an hour begins between the reading of *)
(* half_hour and of the date it may name any that ends within a day.       *)
(***************************************************************************)
LabelOfInterval ==
  pc = "write" =>
    /\ Label < now + Day
    /\ ~crossed => Label <= now + 2
    /\ Named(begun) => begun <= Label /\ (~crossed => Label <= now)

(***************************************************************************)
(* The value of code 0F30 in a frame, kept from an earlier reading or not, *)
(* is from the half hour that the frame closes or newer.  Only the first   *)
(* frame after the clock has been set may have one from before that.       *)
(***************************************************************************)
Fresh300F ==
  pc = "write" => \A q \in used300F :
    IF q = Unnamed THEN ~savedSince ELSE Named(begun) => begun <= q + 1

(***************************************************************************)
(* Why these hold.  A flag is up only if its interval is owed, and where   *)
(* no minute begins between a load and its store it is up as long as that, *)
(* and what has been loaded is what is going to be overwritten.            *)
(***************************************************************************)
Filled == {"readRest", "labelHour", "labelDate", "write"}
Freezing == {"read", "clearData"} \cup Filled

OwedInv ==
  /\ rtc_flag.auto_save_data => owed # 0
  /\ pc \in Storing /\ loaded.auto_save_data => owed # 0
  /\ pc = "clearSave" => owed # 0
  /\ pc \in Freezing <=> begun # 0

FlagInv ==
  /\ owed # 0 => rtc_flag.auto_save_data
  /\ pc \in Storing => loaded = rtc_flag

\* half_hour goes with MIN once an interval has ended since the clock was set,
\* and the intervals are named by the two.  What happens while the label is put
\* together can only make it later.
Interval == Quarter(HOUR, 2 * half_hour)
Midnight == 24 * (HOUR \div 24)

LabelInv ==
  /\ ~rtc_flag.mode_save_one_hour /\ ~loaded.mode_save_one_hour
  /\ Named(owed) \/ Named(begun) => MIN \in {2 * half_hour, 2 * half_hour + 1}
  /\ Named(owed) => owed = Interval
  /\ Named(begun) => begun <= Interval
  /\ pc \in Labelling /\ ~crossed /\ Named(begun) => image.half <= half_hour
  /\ pc = "labelHour" /\ Named(begun) => begun <= Quarter(HOUR, 2 * image.half)
  /\ pc = "labelDate" =>
       /\ ~crossed => image.hour = HOUR % 24
       /\ Named(begun) => begun <= Quarter(Midnight + image.hour, 2 * image.half)

\* Without have_time_300F no middle of a half hour has passed since the
\* reading; a reading that a freeze may take is not older than that.
Newest300F ==
  /\ ~rtc_flag.have_time_300F /\ pc # "read300F" =>
       \A q \in buff300F \ {Unnamed} :
         IF MIN \in {1, 3} THEN now <= q ELSE now <= q + 1
  /\ pc \in {"load300F", "have300F", "testSave", "clearSave"} /\ Named(owed) =>
       \A q \in buff300F \ {Unnamed} : owed <= q + 1
  /\ pc \in {"read", "clearData"} /\ Named(begun) =>
       \A q \in buff300F \ {Unnamed} : begun <= q + 1
  /\ pc \in Filled /\ Named(begun) =>
       \A q \in used300F \ {Unnamed} : begun <= q + 1

\* A reading from before the clock was set is used once.
KeptInv ==
  /\ pc \in Storing => loaded.have_data_300F = rtc_flag.have_data_300F
  /\ savedSince /\ (rtc_flag.have_data_300F \/ pc \in {"load300F", "have300F"}) =>
       Unnamed \notin buff300F
  /\ pc = "clearData" => rtc_flag.have_data_300F
  /\ pc \in Filled => ~rtc_flag.have_data_300F
  /\ pc \in Filled /\ savedSince => Unnamed \notin used300F

ScheduleInv ==
  /\ OwedInv /\ LabelInv /\ LabelOfInterval /\ KeptInv
  /\ Interrupted \cap Storing = {} => FlagInv
  /\ Interrupted \subseteq Labelling => Newest300F
=============================================================================
