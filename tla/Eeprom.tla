------------------------------- MODULE Eeprom -------------------------------
(***************************************************************************)
(* The frame store of a build with EXTERNAL_EEPROM: the driver of the      *)
(* serial EEPROM (m25lc512.c) and the three functions at the end of        *)
(* save_flash.c that save a frame and find it again.                       *)
(*                                                                         *)
(* The chip writes on its own once a WRITE command has been given, hears   *)
(* nothing but questions for its status meanwhile, and writes within one   *)
(* page: an address that runs over the end of a page goes on at its        *)
(* beginning.  The driver polls the status before every command, for a     *)
(* limited time.  The power may fail at any step.                          *)
(***************************************************************************)
EXTENDS Naturals

CONSTANTS
  Page,        \* cells of a page of the chip (M25LC512_PAGESIZE)
  Chunk,       \* cells written or read at a time (PAGESIZE_EEPROM)
  Slot,        \* cells from one frame to the next (LENGTH_BUFF_SAVE)
  Length,      \* cells of a frame (LENGTH_DATA)
  Slots,       \* frames that are searched, 96 in the code
  Polls        \* polls after the first before the driver gives up, 10

ASSUME GeometryAssumption ==
  /\ {Page, Chunk, Slot, Length, Slots, Polls} \subseteq Nat \ {0}
  /\ Page % Chunk = 0 /\ Slot % Page = 0 /\ Length < Slot

Cells == 0 .. (Slots + 1) * Slot - 1
Blank == 0
Byte == 0 .. Length + 1

\* indexEEprom is 1 and is not changed; the data are a test pattern: after
\* prepare_freeze_frame() the label and the values are overwritten.
indexEEprom == 1
Frame == [i \in 0 .. Length - 1 |-> i + 1]
Label == Frame[0]
OtherLabel == Length + 1
OtherFrame == [Frame EXCEPT ![0] = OtherLabel]

NoWrite == [at |-> 0, data |-> <<>>]

VARIABLES
  mem,           \* the cells of the chip
  writing,       \* the WRITE the chip is busy with
  pc,            \* where the driver waits for the chip, "found", "idle" or "off"
  job,           \* the caller: "save", "search" or "fetch"
  address, left, \* of the chunk: its place and the cells still to be done
  attempt,       \* the attempts of the chunk that have failed
  polls,         \* the polls of the wait that have found the chip writing
  index,         \* the slot that is looked at
  asked,         \* the label the server asks for
  tempBuff,      \* the label read, uninitialised at first
  buffer_frezze, \* the frame read
  Buf,           \* the second reading, uninitialised at first
  answer,        \* what readFreezeFrame() has found
  timely         \* history: no wait of this call has run out

driver == <<pc, job, address, left, attempt, polls>>
reader == <<index, asked, tempBuff, buffer_frezze, answer>>
vars == <<mem, writing, driver, reader, Buf, timely>>

NoFrame == [i \in 0 .. Length - 1 |-> Blank]
Waits == {"write", "verify", "read", "again"}

TypeOK ==
  /\ mem \in [Cells -> Byte]
  /\ pc \in Waits \cup {"found", "idle", "off"}
  /\ job \in {"save", "search", "fetch"}
  /\ address \in Cells /\ left \in 0 .. Length
  /\ attempt \in 0 .. 2 /\ polls \in 0 .. Polls
  /\ index \in 1 .. Slots /\ asked \in Byte
  /\ tempBuff \in Byte
  /\ buffer_frezze \in [0 .. Length - 1 -> Byte]
  /\ Buf \in [0 .. Chunk - 1 -> Byte]
  /\ answer \in [0 .. Length - 1 -> Byte]
  /\ timely \in BOOLEAN

\* A slot is blank or was written before.
Init ==
  /\ \E held \in [1 .. Slots -> {NoFrame, Frame, OtherFrame}] :
       mem = [c \in Cells |->
                IF c \div Slot \in 1 .. Slots /\ c % Slot < Length
                THEN held[c \div Slot][c % Slot] ELSE Blank]
  /\ writing = NoWrite
  /\ pc = "idle" /\ job = "save" /\ address = 0 /\ left = 0 /\ attempt = 0
  /\ polls = 0 /\ index = 1 /\ asked = Label
  /\ tempBuff = Blank /\ buffer_frezze = NoFrame
  /\ Buf = [i \in 0 .. Chunk - 1 |-> Blank]
  /\ answer = NoFrame /\ timely = TRUE

-----------------------------------------------------------------------------
(***************************************************************************)
(* The chip.  A busy chip hears no WRITE, and drives no line for a READ.   *)
(***************************************************************************)
Busy == writing # NoWrite

\* The cells a WRITE goes to, within its page.
Cell(a, i) == (a \div Page) * Page + ((a + i) % Page)
Written(w) ==
  [c \in {Cell(w.at, i) : i \in DOMAIN w.data} |->
     w.data[CHOOSE i \in DOMAIN w.data : c = Cell(w.at, i)]]

GiveWrite(a, data) ==
  writing' = IF Busy THEN writing ELSE [at |-> a, data |-> data]

ReadCells(a, n) == [i \in 0 .. n - 1 |-> IF Busy THEN Blank ELSE mem[a + i]]

ChipWrites ==
  /\ Busy
  /\ LET w == Written(writing) IN
       mem' = [c \in Cells |-> IF c \in DOMAIN w THEN w[c] ELSE mem[c]]
  /\ writing' = NoWrite
  /\ UNCHANGED <<driver, reader, Buf, timely>>

(***************************************************************************)
(* m25lc512WaitNotWriting(): the command follows once a poll finds the     *)
(* chip not writing; after the last poll it is given up.                   *)
(***************************************************************************)
Poll ==
  /\ pc \in Waits
  /\ Busy /\ polls < Polls
  /\ polls' = polls + 1
  /\ UNCHANGED <<mem, writing, pc, job, address, left, attempt, reader, Buf, timely>>

ReadyAtOnce == TRUE  \* mutant: the status is not asked for
Ready == ~Busy

TimedOut == ~Ready /\ polls = Polls

Least(m, n) == IF m < n THEN m ELSE n
uiTmp == Least(left, Chunk)

\* Buf and tempBuff stand on the stack: what a call left there, or other data.
Uninitialised(buffer) == buffer' \in {buffer, [i \in DOMAIN buffer |-> Blank]}

(***************************************************************************)
(* writeEEPROM(): three attempts for each chunk to write it and to read it *)
(* back.  It returns 0 also when they have failed.                         *)
(***************************************************************************)
ThisChunk ==
  LET first == Length - left IN [i \in 0 .. uiTmp - 1 |-> Frame[first + i]]

eepromSaveFrameClose ==  \* mutant: the frames follow each other without gaps
  /\ pc = "idle"
  /\ job' = "save" /\ address' = indexEEprom * Length /\ left' = Length
  /\ pc' = "write" /\ attempt' = 0 /\ polls' = 0 /\ timely' = TRUE
  /\ Uninitialised(Buf)
  /\ UNCHANGED <<mem, writing, reader>>
eepromSaveFrame ==
  /\ pc = "idle"
  /\ job' = "save" /\ address' = indexEEprom * Slot /\ left' = Length
  /\ pc' = "write" /\ attempt' = 0 /\ polls' = 0 /\ timely' = TRUE
  /\ Uninitialised(Buf)
  /\ UNCHANGED <<mem, writing, reader>>

WriteChunk ==
  /\ pc = "write"
  /\ \/ Ready /\ GiveWrite(address, ThisChunk) /\ UNCHANGED timely
     \/ TimedOut /\ timely' = FALSE /\ UNCHANGED writing
  /\ pc' = "verify" /\ polls' = 0
  /\ UNCHANGED <<mem, job, address, left, attempt, reader, Buf>>

\* m25lc512ReadAddress() into Buf, which keeps what it holds when the wait runs out.
ReadIntoBuf ==
  \/ /\ Ready
     /\ LET got == ReadCells(address, uiTmp) IN
          Buf' = [i \in DOMAIN Buf |-> IF i < uiTmp THEN got[i] ELSE Buf[i]]
     /\ UNCHANGED timely
  \/ TimedOut /\ timely' = FALSE /\ UNCHANGED Buf

Same(chunk) == \A i \in 0 .. uiTmp - 1 : chunk[i] = Buf'[i]

NextChunkSamePlace ==  \* mutant: the address is not advanced
  /\ left' = left - uiTmp /\ attempt' = 0
  /\ UNCHANGED address
NextChunk ==
  /\ address' = address + uiTmp /\ left' = left - uiTmp
  /\ attempt' = 0

AgainEndless ==  \* mutant: the attempts are not counted
  UNCHANGED <<address, left, attempt>>
AgainOnceMore ==  \* mutant: four attempts
  /\ attempt <= 2 /\ attempt' = attempt + 1
  /\ UNCHANGED <<address, left>>
Again ==
  /\ attempt < 2 /\ attempt' = attempt + 1
  /\ UNCHANGED <<address, left>>

VerifyChunk ==
  /\ pc = "verify"
  /\ ReadIntoBuf
  /\ \/ /\ Same(ThisChunk) /\ NextChunk
        /\ pc' = IF left' = 0 THEN "idle" ELSE "write"
     \/ /\ ~Same(ThisChunk) /\ Again
        /\ pc' = "write"
     \/ /\ ~Same(ThisChunk) /\ attempt = 2
        /\ pc' = "idle" /\ UNCHANGED <<address, left, attempt>>
  /\ polls' = 0
  /\ UNCHANGED <<mem, writing, job, reader>>

(***************************************************************************)
(* readFreezeFrame(): checkHaveDataFreeze() reads the label of one slot    *)
(* after the other, and the first frame with the label asked for is read.  *)
(* readEEPROM() reads each chunk twice until both readings are the same,   *)
(* three times at most; a slot that cannot be read is passed over.         *)
(***************************************************************************)
readEEPROM(as, a, n) ==
  /\ job' = as /\ address' = a /\ left' = n
  /\ pc' = "read" /\ attempt' = 0

readFreezeFrame ==
  /\ pc = "idle"
  /\ asked' \in {Label, OtherLabel}
  /\ index' = 1
  /\ readEEPROM("search", Slot, 1) /\ polls' = 0
  /\ Uninitialised(Buf) /\ tempBuff' \in {tempBuff, Blank}
  /\ answer' = NoFrame /\ timely' = TRUE
  /\ UNCHANGED <<mem, writing, buffer_frezze>>

\* The first reading of a chunk goes to the caller's buffer.
Store(got) ==
  IF job = "search"
  THEN tempBuff' = got[0] /\ UNCHANGED buffer_frezze
  ELSE /\ buffer_frezze' =
            [i \in DOMAIN buffer_frezze |->
               IF i \in Length - left .. Length - left + uiTmp - 1
               THEN got[i - (Length - left)] ELSE buffer_frezze[i]]
       /\ UNCHANGED tempBuff

FirstReading ==
  /\ pc = "read"
  /\ \/ /\ Ready /\ Store(ReadCells(address, uiTmp))
        /\ UNCHANGED timely
     \/ TimedOut /\ timely' = FALSE /\ UNCHANGED <<tempBuff, buffer_frezze>>
  /\ pc' = "again" /\ polls' = 0
  /\ UNCHANGED <<mem, writing, job, address, left, attempt, index, asked, Buf,
                 answer>>

FirstRead ==
  IF job = "search" THEN [i \in {0} |-> tempBuff]
  ELSE [i \in 0 .. uiTmp - 1 |-> buffer_frezze[Length - left + i]]

NextSlot ==
  \/ /\ index < Slots /\ index' = index + 1
     /\ readEEPROM("search", index' * Slot, 1)
     /\ UNCHANGED answer
  \/ /\ index = Slots /\ pc' = "idle"
     /\ UNCHANGED <<index, job, address, left, attempt, answer>>

SearchEnds(ok) ==
  /\ job = "search"
  /\ \/ /\ ok /\ tempBuff = asked /\ pc' = "found"
        /\ UNCHANGED <<index, job, address, left, attempt, answer>>
     \/ ~(ok /\ tempBuff = asked) /\ NextSlot

FetchGoesOn(ok) ==
  /\ job = "fetch"
  /\ UNCHANGED <<index, job>>
  /\ \/ /\ ok /\ left > uiTmp /\ NextChunk
        /\ pc' = "read" /\ UNCHANGED answer
     \/ /\ ok => left <= uiTmp
        /\ pc' = "idle" /\ UNCHANGED <<address, left, attempt>>
        /\ answer' = IF ok THEN buffer_frezze ELSE answer

SecondReading ==
  /\ pc = "again"
  /\ ReadIntoBuf
  /\ \/ Same(FirstRead) /\ (SearchEnds(TRUE) \/ FetchGoesOn(TRUE))
     \/ /\ ~Same(FirstRead) /\ Again
        /\ pc' = "read" /\ UNCHANGED <<index, job, answer>>
     \/ /\ ~Same(FirstRead) /\ attempt = 2
        /\ SearchEnds(FALSE) \/ FetchGoesOn(FALSE)
  /\ polls' = 0
  /\ UNCHANGED <<mem, writing, asked, tempBuff, buffer_frezze>>

ReadFrame ==
  /\ pc = "found"
  /\ readEEPROM("fetch", index * Slot, Length)
  /\ Uninitialised(Buf)
  /\ UNCHANGED <<mem, writing, polls, index, asked, tempBuff, buffer_frezze,
                 answer, timely>>

-----------------------------------------------------------------------------
(***************************************************************************)
(* The power.  A page that is being written may be left partly written.    *)
(***************************************************************************)
PowerFails ==
  /\ pc # "off"
  /\ pc' = "off"
  /\ \E done \in SUBSET DOMAIN Written(writing) :
       mem' = [c \in Cells |-> IF c \in done THEN Written(writing)[c] ELSE mem[c]]
  /\ writing' = NoWrite
  /\ UNCHANGED <<job, address, left, attempt, polls, reader, Buf, timely>>

PowerOn ==
  /\ pc = "off"
  /\ pc' = "idle" /\ job' = "save"
  /\ address' = 0 /\ left' = 0 /\ attempt' = 0 /\ polls' = 0
  /\ index' = 1 /\ asked' = Label
  /\ tempBuff' = Blank /\ buffer_frezze' = NoFrame
  /\ Buf' = [i \in DOMAIN Buf |-> Blank]
  /\ answer' = NoFrame /\ timely' = TRUE
  /\ UNCHANGED <<mem, writing>>

Driver ==
  \/ Poll \/ WriteChunk \/ VerifyChunk
  \/ FirstReading \/ SecondReading \/ ReadFrame

Next ==
  \/ eepromSaveFrame \/ readFreezeFrame \/ Driver \/ ChipWrites
  \/ PowerFails \/ PowerOn

Spec == Init /\ [][Next]_vars

\* The driver goes on whatever the chip does; a chip that never ends a write
\* is one the driver has to put up with.
FairSpec == Spec /\ WF_vars(Driver)

-----------------------------------------------------------------------------
SlotHolds(s, frame) == \A i \in 0 .. Length - 1 : mem[s * Slot + i] = frame[i]

(***************************************************************************)
(* eepromSaveFrame() returns with the frame in the chip unless a wait for  *)
(* the chip has run out, although the driver commands the chip while it    *)
(* writes and does so in two chunks of one page.                           *)
(***************************************************************************)
SavedWhole ==
  [][pc = "verify" /\ pc' = "idle" /\ timely' => SlotHolds(indexEEprom, Frame)]_vars

(***************************************************************************)
(* A save changes no cell but those of its frame, although an address that *)
(* leaves a page goes on at the beginning of it.                           *)
(***************************************************************************)
OtherSlotsKept ==
  [][\A c \in Cells :
       c \notin indexEEprom * Slot .. indexEEprom * Slot + Length - 1 =>
         mem'[c] = mem[c]]_vars

(***************************************************************************)
(* A frame that readFreezeFrame() gives is what a slot holds, under the    *)
(* label asked for, unless a wait for the chip has run out meanwhile: then *)
(* the buffers hold what earlier calls have left in them.                  *)
(***************************************************************************)
FrameTrue ==
  [][answer' # answer /\ answer' # NoFrame /\ timely' =>
       /\ answer'[0] = asked
       /\ \E s \in 1 .. Slots : SlotHolds(s, answer')]_vars

(***************************************************************************)
(* Saving and reading come to an end, also with a chip that does not end a *)
(* write: the main loop has to serve the server.                           *)
(***************************************************************************)
DriverEnds == pc \in Waits ~> pc \in {"idle", "off"}
=============================================================================
