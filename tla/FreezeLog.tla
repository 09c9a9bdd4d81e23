------------------------------ MODULE FreezeLog ------------------------------
(***************************************************************************)
(* The freeze log of the module: the pages of on-chip flash in which       *)
(* save_flash.c keeps the meter's half-hourly frames, and the page after   *)
(* them that holds the meter's ID and the log of lost connections.         *)
(*                                                                         *)
(* The frame pages are the pages 0 .. N-1 of Sectors sectors of P pages    *)
(* (0x1000 .. 0x6FFF in the code); page N is the ID page (0x7000).  A page *)
(* can be written once after an erase and only a whole sector can be       *)
(* erased, so saving a frame may first have to give up the oldest sector.  *)
(* There is no index in RAM: the place of the next frame is found again by *)
(* scanning the flash, also after a loss of power, which may come between  *)
(* any two commands to the flash.                                          *)
(***************************************************************************)
EXTENDS Naturals, Sequences

CONSTANTS
  Sectors,     \* number of sectors that hold frames (6 in the code)
  P,           \* pages of PAGESIZE_FLASH bytes in a sector (32 in the code)
  LogLen,      \* shifted entries of the log of lost connections (10)
  Meters,      \* the IDs of the meters the module may be plugged into
  NoId,        \* the ID of which no byte was received
  Blank,       \* the content of an erased page
  Zero,        \* my_bl_data after the start-up code cleared it
  Junk,        \* a log entry made of bytes of something else
  BootSilent,  \* TRUE if the meter may be silent while the module starts
  PageBytes,   \* sizeof(my_bl_data)
  CopySizes,   \* the sizes the boot ROM accepts to program
  FreezeDigits, \* digits of a full reading of freeze_code (230)
  CountMod,    \* the count of lost connections on the page is modulo this (2^16)
  MaxTime,     \* bound on the clock
  MaxSets,     \* bound on the times that the clock is set
  MaxLost      \* bound on the lost connections

N == Sectors * P
IdPage == N
IdSector == Sectors

ASSUME SizeAssumption ==
  /\ Sectors \in Nat /\ Sectors >= 2
  /\ P \in Nat /\ P >= 2
  /\ LogLen \in Nat \ {0} /\ CountMod \in Nat \ {0}
  /\ MaxTime \in Nat /\ MaxSets \in Nat /\ MaxLost \in Nat
ASSUME FlagAssumption == BootSilent \in BOOLEAN

Ids == Meters \cup {NoId}
Times == 0 .. MaxTime
LogEntry == Times \cup {Junk}

\* The three things my_bl_data can hold; a page holds one of them or is blank.
\* What the meter answered differs from one frame that is saved to the next.
FrameImage == [label : Times, meter : Meters, answers : Nat \ {0}]
IdImage == [id : Ids, total : 0 .. CountMod - 1, log : [0 .. LogLen -> LogEntry]]
Image == FrameImage \cup IdImage \cup {Zero}

ASSUME BlankAssumption ==
  Blank \notin Image /\ NoId \notin Meters /\ Zero \notin FrameImage

VARIABLES
  flash,    \* content of the pages 0 .. N
  buf,      \* my_bl_data, shared by every writer of the flash
  pc,       \* where the main loop is
  addr,     \* the page check_add_free() returned
  due,      \* rtc_flag.bits.auto_save_data
  now,      \* the RTC, in freeze intervals
  total,    \* total_times
  meter,    \* the meter the module is plugged into
  paraId,   \* para_plc._ID
  saved,    \* history: the images written to the log since it was erased
  offs,     \* history: the times of lost connections, newest first
  sets,     \* history: how often the clock has been set
  ambiguous \* history: the times that more than one of saved may be labelled with

vars == <<flash, buf, pc, addr, due, now, total, meter, paraId, saved, offs, sets,
          ambiguous>>
clock == <<now, sets, ambiguous>>

TypeOK ==
  /\ flash \in [0 .. N -> Image \cup {Blank}]
  /\ flash[IdPage] \in IdImage \cup {Blank}
  /\ buf \in Image
  /\ pc \in {"off", "checkId", "writeId", "loop", "prepare", "write",
             "writeOffline"}
  /\ addr \in 0 .. N - 1
  /\ due \in BOOLEAN
  /\ now \in Times
  /\ total \in Nat
  /\ meter \in Meters
  /\ paraId \in Ids
  /\ saved \in Seq(Image)
  /\ offs \in Seq(Times)
  /\ sets \in 0 .. MaxSets
  /\ ambiguous \subseteq Times

(***************************************************************************)
(* The flash as the boot ROM offers it: erasing a set of sectors, and      *)
(* programming a page from my_bl_data, refused when the size is not one of *)
(* CopySizes.  Interrupts are masked, so each call is one step.            *)
(***************************************************************************)
Sector(p) == p \div P
Erased(S) == [p \in 0 .. N |-> IF Sector(p) \in S THEN Blank ELSE flash[p]]
CopyAccepted == PageBytes \in CopySizes

IsFrame(image) == image \in FrameImage

(***************************************************************************)
(* check_add_free(): the first blank page f in address order, and the      *)
(* sectors that are erased before it is used.  Page N, after the last      *)
(* frame page, is the ID page.  RolloverPage is the literal 0x5F00.        *)
(***************************************************************************)
RolloverPageLate == N  \* mutant
RolloverPage == N - 2
FreePages == {p \in 0 .. N - 1 : flash[p] = Blank}
FirstFree == CHOOSE p \in FreePages : \A q \in FreePages : p <= q

\* Mutants of TakeFreePage: the address is not reset when the log goes round,
\* the sector is not erased, one sector too many is erased.
TakeFreePageNoReset ==
  LET f == FirstFree IN
  IF flash[f + 1] = Blank THEN addr' = f /\ flash' = flash
  ELSE IF f >= RolloverPage THEN addr' = f + 1 /\ flash' = Erased({Sector(0)})
  ELSE addr' = f /\ flash' = Erased({Sector(f + 1)})
TakeFreePageNoErase ==
  LET f == FirstFree IN
  /\ addr' = IF flash[f + 1] # Blank /\ f >= RolloverPage THEN 0 ELSE f
  /\ flash' = flash
TakeFreePageTwoSectors ==
  LET f == FirstFree IN
  IF flash[f + 1] = Blank THEN addr' = f /\ flash' = flash
  ELSE IF f >= RolloverPage
         THEN addr' = 0 /\ flash' = Erased({Sector(0), Sector(P)})
         ELSE addr' = f /\ flash' = Erased({Sector(f + 1), Sector(f + 1) + 1})

TakeFreePage ==
  IF FreePages = {}
    THEN addr' = 0 /\ flash' = Erased(0 .. Sectors - 1)
    ELSE LET f == FirstFree IN
         IF flash[f + 1] = Blank
           THEN addr' = f /\ flash' = flash
           ELSE IF f >= RolloverPage
                  THEN addr' = 0 /\ flash' = Erased({Sector(0)})
                  ELSE addr' = f /\ flash' = Erased({Sector(f + 1)})
(***************************************************************************)
(* read_freeze_frame(): check_add_current() takes the first page in        *)
(* address order with the label the server asks for.                       *)
(***************************************************************************)
LabelledFromOne(t) ==  \* mutant: the first page is skipped
  {p \in 1 .. N - 1 : IsFrame(flash[p]) /\ flash[p].label = t}
Labelled(t) == {p \in 0 .. N - 1 : IsFrame(flash[p]) /\ flash[p].label = t}
Found(t) == CHOOSE p \in Labelled(t) : \A q \in Labelled(t) : p <= q
ReadFreezeFrame(t) == IF Labelled(t) = {} THEN Blank ELSE flash[Found(t)]

-----------------------------------------------------------------------------
Init ==
  /\ flash = [p \in 0 .. N |-> Blank]
  /\ buf = Zero
  /\ pc = "off"
  /\ addr = 0
  /\ due = FALSE
  /\ now = 0
  /\ total = 0
  /\ meter \in Meters
  /\ paraId = NoId
  /\ saved = <<>>
  /\ offs = <<>>
  /\ sets = 0
  /\ ambiguous = {}

(***************************************************************************)
(* The clock is set.  The half hours it is set back by are going to be     *)
(* lived through again.                                                    *)
(***************************************************************************)
ClockSet ==
  /\ sets < MaxSets
  /\ sets' = sets + 1
  /\ now' \in Times \ {now}
  /\ ambiguous' = ambiguous \cup now' .. now

(***************************************************************************)
(* Power.  RAM starts cleared; set_time_from_rtc() asks the meter for its  *)
(* ID and returns early, leaving para_plc._ID empty, when it is silent;    *)
(* else it asks for the time, and sets the clock if there is an answer.    *)
(***************************************************************************)
PowerOn ==
  /\ pc = "off"
  /\ pc' = "checkId"
  /\ \/ paraId' = meter /\ (ClockSet \/ UNCHANGED clock)
     \/ BootSilent /\ paraId' = NoId /\ UNCHANGED clock
  /\ buf' = Zero /\ total' = 0 /\ due' = FALSE /\ addr' = 0
  /\ UNCHANGED <<flash, meter, saved, offs>>

PowerOff ==
  /\ pc # "off"
  /\ pc' = "off"
  /\ UNCHANGED <<flash, buf, addr, due, clock, total, meter, paraId, saved, offs>>

\* The module is moved to another meter; it takes its power from the meter.
SwapMeter ==
  /\ pc = "off"
  /\ meter' \in Meters \ {meter}
  /\ UNCHANGED <<flash, buf, pc, addr, due, clock, total, paraId, saved, offs>>

(***************************************************************************)
(* check_id().  With an empty para_plc._ID only hexstring[0] is set, to 0: *)
(* the comparison with an ID page that was itself written from an empty    *)
(* one depends on uninitialized bytes.                                     *)
(***************************************************************************)
SameId ==
  /\ flash[IdPage] # Blank
  /\ flash[IdPage].id = paraId

CheckIdMatches ==
  /\ pc = "checkId"
  /\ SameId
  /\ pc' = "loop"
  /\ total' = flash[IdPage].total
  /\ UNCHANGED <<flash, buf, addr, due, clock, meter, paraId, saved, offs>>

CheckIdErasesLogKept ==  \* mutant: only the ID page is erased
  /\ pc = "checkId"
  /\ ~SameId \/ paraId = NoId
  /\ pc' = "writeId"
  /\ flash' = Erased({IdSector})
  /\ buf' = [id |-> paraId, total |-> 0, log |-> [i \in 0 .. LogLen |-> Junk]]
  /\ total' = 0
  /\ saved' = <<>> /\ offs' = <<>> /\ ambiguous' = {}
  /\ UNCHANGED <<addr, due, now, sets, meter, paraId>>
CheckIdErases ==
  /\ pc = "checkId"
  /\ ~SameId \/ paraId = NoId
  /\ pc' = "writeId"
  /\ flash' = Erased(0 .. IdSector)
  /\ buf' = [id |-> paraId, total |-> 0, log |-> [i \in 0 .. LogLen |-> Junk]]
  /\ total' = 0
  /\ saved' = <<>> /\ offs' = <<>> /\ ambiguous' = {}
  /\ UNCHANGED <<addr, due, now, sets, meter, paraId>>

\* iap_Write(0x7000): the result is not looked at.
WriteIdPage ==
  flash' = IF CopyAccepted THEN [flash EXCEPT ![IdPage] = buf] ELSE flash

CheckIdWrites ==
  /\ pc = "writeId"
  /\ pc' = "loop"
  /\ WriteIdPage
  /\ UNCHANGED <<buf, addr, due, clock, total, meter, paraId, saved, offs>>

(***************************************************************************)
(* The RTC interrupt at the end of a freeze interval: auto_save_data.  A   *)
(* frame that is just being prepared gets the label of the next one too.   *)
(***************************************************************************)
Tick ==
  /\ now < MaxTime
  /\ now' = now + 1
  /\ due' = (pc # "off")
  /\ ambiguous' = ambiguous \cup (IF pc = "prepare" THEN {now'} ELSE {})
  /\ UNCHANGED <<flash, buf, pc, addr, total, meter, paraId, saved, offs, sets>>

\* process_syntime(), on a request of the server.
SetClock ==
  /\ pc = "loop"
  /\ ClockSet
  /\ UNCHANGED <<flash, buf, pc, addr, due, total, meter, paraId, saved, offs>>

(***************************************************************************)
(* freeze_frame(): find a page, read the meter, write.  A list of codes    *)
(* whose reading does not fit the page would return with my_bl_data as it  *)
(* was, and have that written; freeze_code's 27 codes fit.                 *)
(***************************************************************************)
FreezeFindsPage ==
  /\ pc = "loop"
  /\ due
  /\ due' = FALSE
  /\ pc' = "prepare"
  /\ TakeFreePage
  /\ UNCHANGED <<buf, clock, total, meter, paraId, saved, offs>>

AnswersFit == FreezeDigits < PageBytes * 2 - 12

FreezePrepares ==
  /\ pc = "prepare"
  /\ pc' = "write"
  /\ buf' = IF AnswersFit
             THEN [label |-> now, meter |-> meter, answers |-> Len(saved) + 1]
             ELSE buf
  /\ UNCHANGED <<flash, addr, due, clock, total, meter, paraId, saved, offs>>

\* while (iap_Write(current_add)); : refused copies are repeated for ever.
FreezeWrites ==
  /\ pc = "write"
  /\ CopyAccepted
  /\ pc' = "loop"
  /\ flash' = [flash EXCEPT ![addr] = buf]
  /\ saved' = Append(saved, buf)
  /\ UNCHANGED <<buf, addr, due, clock, total, meter, paraId, offs>>

(***************************************************************************)
(* save_time_offline(), when the connection to the server is lost: the ID  *)
(* page is rebuilt in my_bl_data, erased and written again.  Entries 1 ..  *)
(* of the log are the old entries 0 .., as many as there were lost         *)
(* connections; what follows is whatever my_bl_data held there.  The page  *)
(* has the two low bytes of the count.                                     *)
(***************************************************************************)
OldLog(i) == IF flash[IdPage] = Blank THEN Junk ELSE flash[IdPage].log[i]
StaleLog(i) == IF buf \in IdImage THEN buf.log[i] ELSE Junk

ShiftedLogShort ==  \* mutant: one entry too few is shifted
  [i \in 0 .. LogLen |->
     IF i = 0 THEN now
     ELSE IF i < total THEN OldLog(i - 1) ELSE StaleLog(i)]
ShiftedLog ==
  [i \in 0 .. LogLen |->
     IF i = 0 THEN now
     ELSE IF i <= total + 1 THEN OldLog(i - 1) ELSE StaleLog(i)]

OfflineErases ==
  /\ pc = "loop"
  /\ Len(offs) < MaxLost
  /\ pc' = "writeOffline"
  /\ total' = total + 1
  /\ buf' = [id    |-> IF flash[IdPage] = Blank THEN NoId ELSE flash[IdPage].id,
             total |-> (total + 1) % CountMod,
             log   |-> ShiftedLog]
  /\ flash' = Erased({IdSector})
  /\ offs' = <<now>> \o offs
  /\ UNCHANGED <<addr, due, clock, meter, paraId, saved>>

OfflineWrites ==
  /\ pc = "writeOffline"
  /\ pc' = "loop"
  /\ WriteIdPage
  /\ UNCHANGED <<buf, addr, due, clock, total, meter, paraId, saved, offs>>

Next ==
  \/ PowerOn \/ PowerOff \/ SwapMeter
  \/ CheckIdMatches \/ CheckIdErases \/ CheckIdWrites
  \/ Tick \/ SetClock
  \/ FreezeFindsPage \/ FreezePrepares \/ FreezeWrites
  \/ OfflineErases \/ OfflineWrites

Spec == Init /\ [][Next]_vars
-----------------------------------------------------------------------------
\* The frames that are never given up: all sectors but the one being refilled.
Keep == (Sectors - 1) * P - 2

\* The i-th image written since the log was erased, and its page: the last
\* page of the log is never used.
PageOf(i) == (i - 1) % (N - 1)
Recent(i) == i + Keep > Len(saved)

(***************************************************************************)
(* The last Keep frames saved are in the flash, each in its page, whatever *)
(* sector check_add_free() erased to make room and wherever power failed.  *)
(***************************************************************************)
Retained ==
  \A i \in 1 .. Len(saved) : Recent(i) => flash[PageOf(i)] = saved[i]

(***************************************************************************)
(* The server gets every recent frame it asks for, and with the answers of *)
(* the meter for that time, although frames are found by label in address  *)
(* order and not in the order they were saved.  Only for a half hour that  *)
(* ended while a frame was being prepared, and for those that the clock    *)
(* was set back by, there may be two, and it may get the other.            *)
(***************************************************************************)
Readable ==
  \A i \in 1 .. Len(saved) :
    LET found == ReadFreezeFrame(saved[i].label) IN
    Recent(i) /\ IsFrame(saved[i]) =>
      /\ IsFrame(found) /\ found.label = saved[i].label
      /\ saved[i].label \notin ambiguous => found = saved[i]

(***************************************************************************)
(* The page freeze_frame() is going to write, chosen before a reading of   *)
(* the meter that takes minutes, is blank until it is written.             *)
(***************************************************************************)
BlankTarget == pc \in {"prepare", "write"} => flash[addr] = Blank

(***************************************************************************)
(* A programmed page is never programmed again before its sector has been  *)
(* erased, by no writer of the log or of the ID page.                      *)
(***************************************************************************)
WriteOnce ==
  [][\A p \in 0 .. N :
       flash[p] # Blank => flash'[p] \in {flash[p], Blank}]_vars

LogIs(image) ==
  /\ image.total = Len(offs) % CountMod
  /\ \A i \in 0 .. LogLen :
       i < Len(offs) /\ i <= image.total => image.log[i] = offs[i + 1]

(***************************************************************************)
(* The log of lost connections on the ID page is the list of the times at  *)
(* which the connection was lost, newest first, and its count is theirs in *)
(* 16 bits, although every update erases the page and rebuilds it from     *)
(* RAM, and the count is taken from the page again after a loss of power.  *)
(* Once the count has gone round the log is right as far as it says.       *)
(***************************************************************************)
OfflineLog == flash[IdPage] # Blank => LogIs(flash[IdPage])

(***************************************************************************)
(* After check_id() the log holds frames of the attached meter only.       *)
(***************************************************************************)
NoForeignFrames ==
  pc \notin {"off", "checkId", "writeId"} =>
    \A p \in 0 .. N - 1 : IsFrame(flash[p]) => flash[p].meter = meter

(***************************************************************************)
(* "return 1; //No change ID" (save_flash.c:331): the frames are erased    *)
(* only when the module finds itself on another meter.                     *)
(***************************************************************************)
KeptForSameMeter ==
  [][saved # <<>> /\ saved' = <<>> =>
       \E p \in 0 .. N - 1 : IsFrame(flash[p]) /\ flash[p].meter # meter]_vars

(***************************************************************************)
(* The log implements FrameStore.  Its images in the order they were saved *)
(* are those after the first blank page, left from the last lap, and then  *)
(* those before it.                                                        *)
(***************************************************************************)
OldPages == {p \in FirstFree .. N - 2 : flash[p] # Blank}
OldStart ==
  IF OldPages = {} THEN N - 1
  ELSE CHOOSE p \in OldPages : \A q \in OldPages : p <= q

LiveLog ==
  IF FreePages = {} THEN <<>>
  ELSE [i \in 1 .. N - 1 - OldStart |-> flash[OldStart + i - 1]]
         \o [i \in 1 .. FirstFree |-> flash[i - 1]]

Store == INSTANCE FrameStore WITH kept <- LiveLog

\* Frames are given up oldest first, never below Keep of them, and each save
\* adds one at the end, across erasures, laps and losses of power.
ImplementsStore == Store!Spec

(***************************************************************************)
(* The shape of the log, from which Retained follows: f is the first blank *)
(* page and lap the number of times the log went round its N - 1 pages.    *)
(* Pages before f hold the images of this lap.  Behind f a page is blank   *)
(* or holds its image of the last lap, sector by sector, and at most the   *)
(* P pages after f have been given up.                                     *)
(***************************************************************************)
LogShape(f, lap) ==
  /\ Len(saved) = lap * (N - 1) + f
  /\ \A p \in 0 .. f - 1 : flash[p] = saved[lap * (N - 1) + p + 1]
  /\ flash[f] = Blank
  /\ flash[N - 1] = Blank
  /\ \A p \in f .. N - 1 : Sector(p) = Sector(f) => flash[p] = Blank
  /\ \A p, q \in f .. N - 2 :
       Sector(p) = Sector(q) => (flash[p] = Blank <=> flash[q] = Blank)
  /\ \A p \in f .. N - 2 :
       flash[p] # Blank =>
         lap > 0 /\ flash[p] = saved[(lap - 1) * (N - 1) + p + 1]
  /\ lap > 0 => \A p \in f + P + 1 .. N - 2 : flash[p] # Blank

\* While a frame is under way its page is the first blank one, and the page
\* after it has been made blank.
FrameUnderWay(f) ==
  pc \in {"prepare", "write"} =>
    addr = f /\ f < N - 1 /\ flash[f + 1] = Blank

\* The ID page is written whenever the main loop may look for a free page.
IdPageWritten ==
  /\ CopyAccepted /\ pc \in {"loop", "prepare", "write"} => flash[IdPage] # Blank
  /\ ~CopyAccepted => saved = <<>>

LogInv ==
  /\ IdPageWritten
  /\ \E f \in 0 .. N - 1 : \E lap \in 0 .. Len(saved) :
       LogShape(f, lap) /\ FrameUnderWay(f)

(***************************************************************************)
(* From what OfflineLog and WriteOnce follow: the ID page is blank while   *)
(* it is to be written, the count in RAM is that of the lost connections,  *)
(* and the page rebuilt in RAM is right whenever it can be written.        *)
(***************************************************************************)
WritesId == pc \in {"writeId", "writeOffline"}

OfflineInv ==
  /\ WritesId => flash[IdPage] = Blank
  /\ ~CopyAccepted => flash[IdPage] = Blank
  /\ pc \notin {"off", "checkId"} => total % CountMod = Len(offs) % CountMod
  /\ WritesId /\ CopyAccepted => LogIs(buf)

(***************************************************************************)
(* From what NoForeignFrames follows where the meter is never silent at    *)
(* start-up: the frames are of one meter, the one the ID page names, and   *)
(* that is the attached one once check_id() is through.                    *)
(***************************************************************************)
FramesOf(m) == \A p \in 0 .. N - 1 : IsFrame(flash[p]) => flash[p].meter = m

MeterInv ==
  /\ pc # "off" =>
       paraId = meter /\ (IsFrame(buf) => buf.meter = meter)
  /\ WritesId /\ CopyAccepted => buf.id = meter
  /\ pc = "writeId" => \A p \in 0 .. N - 1 : ~IsFrame(flash[p])
  /\ pc \in {"loop", "prepare", "write", "writeOffline"} => FramesOf(meter)
  /\ pc \in {"loop", "prepare", "write"} /\ flash[IdPage] # Blank =>
       flash[IdPage].id = meter
  /\ flash[IdPage] # Blank => FramesOf(flash[IdPage].id)
  /\ \E m \in Meters : FramesOf(m)

(***************************************************************************)
(* From what Readable follows: a label that is not ambiguous is given once *)
(* and is not in the future; the current one has been given only when no   *)
(* frame is due for it.                                                    *)
(***************************************************************************)
Given(l) == \E i \in 1 .. Len(saved) : IsFrame(saved[i]) /\ saved[i].label = l

LabelInv ==
  /\ \A i, j \in 1 .. Len(saved) :
       /\ IsFrame(saved[i]) /\ IsFrame(saved[j])
       /\ saved[i].label = saved[j].label /\ saved[i].label \notin ambiguous
       => i = j
  /\ \A l \in Times \ ambiguous : Given(l) => l <= now
  /\ now \notin ambiguous /\ Given(now) => ~due /\ pc # "prepare"
  /\ now \notin ambiguous /\ pc = "prepare" => ~due
  /\ pc = "write" /\ IsFrame(buf) /\ buf.label \notin ambiguous =>
       /\ ~Given(buf.label)
       /\ buf.label <= now
       /\ buf.label = now => ~due

ContentInv ==
  OfflineInv /\ (~BootSilent => MeterInv) /\ (AnswersFit => LabelInv)
=============================================================================
