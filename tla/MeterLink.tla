------------------------------- MODULE MeterLink -------------------------------
(***************************************************************************)
(* The link to the meter: sign_in(), return_data() and load_data_meter()   *)
(* ask, the UART0 interrupt collects what lies between the start and the   *)
(* stop byte clear_para() has set, and the main loop waits for a second    *)
(* (three for a write) until check_frame is set.                           *)
(*                                                                         *)
(* The interrupt keeps start_OK and its index when a wait is over, so the  *)
(* rest of one answer meets the settings for the next.  An answer travels  *)
(* as its beginning, its end and its check character; each part is heard   *)
(* in one step or is lost.                                                 *)
(***************************************************************************)
EXTENDS Naturals, Sequences

CONSTANTS
  Codes,    \* bound on the codes a session reads or writes
  MAX_BUFFER, \* parts of answers that buffer_PLC holds
  MaxLine,  \* bound on the parts between the meter and UART0
  Late      \* TRUE if the meter may answer after the wait is over

ASSUME MeterAssumption ==
  /\ Codes \in Nat \ {0}
  /\ MAX_BUFFER \in Nat \ {0, 1, 2} /\ MaxLine \in Nat \ {0, 1, 2}
  /\ Late \in BOOLEAN

\* What the module asks, and what the meter answers to it: the identification
\* of "/?!", the operands of the option ACK021, an ACK, the value of a code.
Answers == {"identification", "operands", "ack", "value"}
Begins == [identification |-> "/", operands |-> "SOH", ack |-> "ACK", value |-> "STX"]
Ends == [identification |-> "LF", operands |-> "ETX", ack |-> "none", value |-> "ETX"]
Bytes == {"/", "SOH", "ACK", "STX", "LF", "ETX", "none"}

\* A value and the operands stand in brackets, one in each part.
Part == [of : Answers, part : {"begin", "end"}, own : BOOLEAN]
Bracketed == {"value", "operands"}
Zero == [of |-> "zero", part |-> "none", own |-> FALSE]
Bcc == [of : {"bcc"}, part : {"/", "SOH", "STX", "ACK", "none"}, own : {FALSE}]

VARIABLES
  pc,           \* the answer the main loop waits for, or "idle"
  job,          \* the caller: what it does with the results
  n,            \* the codes that it reads or writes
  i,            \* the one being read or written
  start_frame, stop_frame, stop_frame_immediately,
  check_frame,
  start_OK, index, \* static in the interrupt
  buffer_PLC,   \* the parts in the buffer, Zero where it is cleared
  line,         \* parts on their way
  asked,        \* the meter has been asked and has not answered
  own,          \* history: what set check_frame belongs to what is waited for
  whole,        \* history: the answer to what was asked last came whole
  wholeBefore,  \* history: so did the one before
  taken         \* history: what the last wait of a session came to

settings == <<start_frame, stop_frame, stop_frame_immediately>>
isr == <<check_frame, start_OK, index, buffer_PLC, own>>
history == <<whole, wholeBefore, taken>>
vars == <<pc, job, n, i, settings, isr, line, asked, history>>

Jobs == {"set_time", "read_para", "freeze", "direct", "write"}
Waits == {"identification", "operands", "password", "read", "write"}
Results == {"none", "right", "wrong", "missed", "lost"}

TypeOK ==
  /\ pc \in Waits \cup {"idle"}
  /\ job \in Jobs
  /\ n \in 0 .. Codes /\ i \in 0 .. n
  /\ start_frame \in Bytes /\ stop_frame \in Bytes
  /\ stop_frame_immediately \in BOOLEAN
  /\ check_frame \in BOOLEAN /\ start_OK \in BOOLEAN
  /\ index \in 0 .. MAX_BUFFER
  /\ buffer_PLC \in [1 .. MAX_BUFFER -> Part \cup {Zero}]
  /\ line \in Seq(Part \cup Bcc) /\ Len(line) <= MaxLine
  /\ asked \in BOOLEAN /\ own \in BOOLEAN
  /\ whole \in BOOLEAN /\ wholeBefore \in BOOLEAN
  /\ taken \in Results

Init ==
  /\ pc = "idle" /\ job = "set_time" /\ n = 0 /\ i = 0
  /\ start_frame = "none" /\ stop_frame = "none" /\ stop_frame_immediately = FALSE
  /\ check_frame = FALSE /\ start_OK = FALSE
  /\ index = 0 /\ buffer_PLC = [k \in 1 .. MAX_BUFFER |-> Zero]
  /\ line = <<>> /\ asked = FALSE
  /\ own = FALSE /\ whole = TRUE /\ wholeBefore = TRUE /\ taken = "none"

-----------------------------------------------------------------------------
(***************************************************************************)
(* The interrupt.  The first byte of a part may be the start byte, or its  *)
(* last one the stop byte; where only an ACK is waited for, the start byte *)
(* sets check_frame itself.                                                *)
(***************************************************************************)
FirstByte(p) == IF p.of = "bcc" THEN p.part
                ELSE IF p.part = "begin" THEN Begins[p.of] ELSE "none"
Ending(p) == p.part = "end" /\ Ends[p.of] = stop_frame

\* The check character leaves no trace in a buffer.
Keep(p, at) ==
  IF p.of = "bcc" THEN index' = at /\ UNCHANGED buffer_PLC
  ELSE /\ buffer_PLC' = [buffer_PLC EXCEPT ![at + 1] = p]
       /\ index' = (at + 1) % MAX_BUFFER

HearStart(p) ==
  /\ ~start_OK
  /\ FirstByte(p) = start_frame
  /\ IF stop_frame_immediately
       THEN /\ check_frame' = TRUE /\ own' = p.own
            /\ UNCHANGED <<start_OK, index, buffer_PLC>>
       ELSE /\ start_OK' = TRUE /\ Keep(p, 0)
            /\ UNCHANGED <<check_frame, own>>

HearNothing(p) ==
  /\ ~start_OK
  /\ FirstByte(p) # start_frame
  /\ UNCHANGED isr

HearMore(p) ==
  /\ start_OK
  /\ ~Ending(p)
  /\ Keep(p, index)
  /\ UNCHANGED <<check_frame, start_OK, own>>

\* A zero byte takes the place of the stop byte.
LastPart(p) ==
  /\ start_OK
  /\ Ending(p)
  /\ buffer_PLC' = [k \in 1 .. MAX_BUFFER |->
                     IF k = index + 1 THEN p
                     ELSE IF k = index + 2 THEN Zero ELSE buffer_PLC[k]]
  /\ index' = index + 1
  /\ check_frame' = TRUE /\ own' = p.own
HearStopGoesOn(p) == LastPart(p) /\ UNCHANGED start_OK  \* mutant: start_OK stays set
HearStop(p) == LastPart(p) /\ start_OK' = FALSE

myUart0_ISR ==
  /\ line # <<>>
  /\ line' = Tail(line)
  /\ LET p == Head(line) IN
       HearStart(p) \/ HearNothing(p) \/ HearMore(p) \/ HearStop(p)
  /\ UNCHANGED <<pc, job, n, i, settings, asked, history>>

(***************************************************************************)
(* A wait begins with clear_para(), which clears the buffer but not the    *)
(* interrupt's index, and a command to the meter.                          *)
(***************************************************************************)
AnswerTo(wait) == CASE wait = "identification" -> "identification"
                    [] wait = "operands"       -> "operands"
                    [] wait = "read"           -> "value"
                    [] OTHER                   -> "ack"

clear_paraFlagKept(start, stop, immediately) ==  \* mutant: check_frame stays set
  /\ start_frame' = start /\ stop_frame' = stop
  /\ stop_frame_immediately' = immediately
  /\ own' = FALSE
  /\ buffer_PLC' = [k \in 1 .. MAX_BUFFER |-> Zero]
  /\ UNCHANGED <<check_frame, start_OK, index>>
clear_para(start, stop, immediately) ==
  /\ start_frame' = start /\ stop_frame' = stop
  /\ stop_frame_immediately' = immediately
  /\ check_frame' = FALSE /\ own' = FALSE
  /\ buffer_PLC' = [k \in 1 .. MAX_BUFFER |-> Zero]
  /\ UNCHANGED <<start_OK, index>>

Ask(wait) ==
  LET a == AnswerTo(wait) IN
  /\ pc' = wait
  /\ clear_para(Begins[a], Ends[a], a = "ack")
  /\ asked' = TRUE
  /\ line' = [k \in DOMAIN line |-> [line[k] EXCEPT !.own = FALSE]]
  /\ wholeBefore' = whole /\ whole' = FALSE

Return ==
  /\ pc' = "idle" /\ i' = 0
  /\ UNCHANGED <<settings, isr, line, asked, whole, wholeBefore>>

TimedOut == Late \/ line = <<>>

-----------------------------------------------------------------------------
(***************************************************************************)
(* sign_in().  An identification that does not come, or comes in the last  *)
(* of the 1000 milliseconds, is asked for again without end.               *)
(***************************************************************************)
Begin ==
  /\ pc = "idle"
  /\ job' \in Jobs /\ n' \in 0 .. Codes
  /\ Ask("identification")
  /\ taken' = "none"
  /\ UNCHANGED i

SignInAgain ==
  /\ pc = "identification"
  /\ TimedOut /\ (~check_frame \/ Late)
  /\ Ask("identification")
  /\ UNCHANGED <<job, n, i, taken>>

SignInGoesOn ==
  /\ check_frame
  /\ \/ pc = "identification" /\ Ask("operands")
     \/ pc = "operands" /\ Ask("password")
  /\ UNCHANGED <<job, n, i, taken>>

FirstCode ==
  IF n = 0 THEN Return
  ELSE i' = 1 /\ Ask(IF job = "write" THEN "write" ELSE "read")

SignInDone ==
  /\ pc = "password"
  /\ check_frame
  /\ FirstCode
  /\ UNCHANGED <<job, n, taken>>

\* Of the callers only the requests of the server look at the result.
SignInFails ==
  /\ pc \in {"operands", "password"}
  /\ TimedOut /\ ~check_frame
  /\ IF job \in {"direct", "write"} THEN Return ELSE FirstCode
  /\ UNCHANGED <<job, n, taken>>

(***************************************************************************)
(* check_buffer() takes what stands between the first closing bracket and  *)
(* the last opening one before it, from the start of the buffer if there   *)
(* is none, in the string that the first zero byte ends.                   *)
(***************************************************************************)
Brackets(part) ==
  {k \in 1 .. MAX_BUFFER :
     /\ \A m \in 1 .. k : buffer_PLC[m] # Zero
     /\ buffer_PLC[k].of \in Bracketed /\ buffer_PLC[k].part = part}
Opening == Brackets("begin")
Closing == Brackets("end")
FirstClosing == CHOOSE k \in Closing : \A m \in Closing : k <= m
IsOwn(p) == p.of = "value" /\ p.own

check_buffer ==
  IF Closing = {} THEN "lost"
  ELSE LET before == {k \in Opening : k < FirstClosing} IN
       IF /\ before # {}
          /\ IsOwn(buffer_PLC[CHOOSE k \in before : \A m \in before : m <= k])
          /\ IsOwn(buffer_PLC[FirstClosing])
         THEN "right" ELSE "wrong"

\* After the last code the break is sent, which is not answered.
NextCodeOneMore ==  \* mutant: off by one
  IF i <= n THEN i' = i + 1 /\ Ask(pc) ELSE Return
NextCode ==
  IF i < n THEN i' = i + 1 /\ Ask(pc) ELSE Return

(***************************************************************************)
(* return_data() and load_data_meter().  set_time_from_rtc() gives up at   *)
(* the first value that does not come, the others go on to the next.       *)
(***************************************************************************)
ReadAnswered ==
  /\ pc = "read"
  /\ check_frame
  /\ taken' = check_buffer
  /\ NextCode
  /\ UNCHANGED <<job, n>>

WriteAnswered ==
  /\ pc = "write"
  /\ check_frame
  /\ taken' = IF own THEN "right" ELSE "wrong"
  /\ NextCode
  /\ UNCHANGED <<job, n>>

CodeTimesOutAgain ==  \* mutant: the code is asked for again
  /\ pc \in {"read", "write"}
  /\ TimedOut /\ ~check_frame
  /\ taken' = "missed"
  /\ Ask(pc)
  /\ UNCHANGED <<job, n, i>>
CodeTimesOut ==
  /\ pc \in {"read", "write"}
  /\ TimedOut /\ ~check_frame
  /\ taken' = "missed"
  /\ IF job = "set_time" THEN Return ELSE NextCode
  /\ UNCHANGED <<job, n>>

(***************************************************************************)
(* The meter answers or is silent, and the end of its answer may be lost,  *)
(* though not of so many in a row that the interrupt's index comes round.  *)
(* Its operand is "()", with a check character that starts nothing.        *)
(***************************************************************************)
MayCut == index + 3 < MAX_BUFFER

Own(a, part) == [of |-> a, part |-> part, own |-> TRUE]

Says(a) ==
  LET begin == Own(a, "begin")
      end == Own(a, "end")
  IN CASE a = "ack"   -> {<<begin>>}
       [] a = "value" -> {<<begin>>, <<begin, end>>} \cup {<<begin, end, b>> : b \in Bcc}
       [] OTHER       -> {<<begin>>, <<begin, end>>}

MeterAnswers ==
  /\ asked /\ pc # "idle"
  /\ \E says \in Says(AnswerTo(pc)) :
       /\ AnswerTo(pc) # "ack" /\ Len(says) = 1 => MayCut
       /\ Len(line) + Len(says) <= MaxLine
       /\ line' = line \o says
       /\ whole' = (AnswerTo(pc) = "ack" \/ Len(says) > 1)
  /\ asked' = FALSE
  /\ UNCHANGED <<pc, job, n, i, settings, isr, wholeBefore, taken>>

MainLoop ==
  \/ Begin \/ SignInAgain \/ SignInGoesOn \/ SignInDone \/ SignInFails
  \/ ReadAnswered \/ WriteAnswered \/ CodeTimesOut

Next == MainLoop \/ myUart0_ISR \/ MeterAnswers

Spec == Init /\ [][Next]_vars

\* A meter that is asked to identify itself again and again does so at last.
FairSpec ==
  /\ Spec
  /\ WF_vars(MainLoop) /\ WF_vars(myUart0_ISR)
  /\ SF_vars(MeterAnswers /\ pc = "identification" /\ whole')
-----------------------------------------------------------------------------
(***************************************************************************)
(* "Tra ve gia tri doc tu cong to" (read_para.c:210), it returns the value *)
(* read from the meter, of the code it was asked for: no value and no      *)
(* acknowledgement is taken that was given to an earlier command, or put   *)
(* together from parts of two.                                             *)
(***************************************************************************)
RightOrNone == taken # "wrong"

(***************************************************************************)
(* An answer that was cut off costs no more than itself and the next one:  *)
(* the interrupt finds the beginning of an answer again.                   *)
(***************************************************************************)
Resynchronised ==
  [][ReadAnswered \/ WriteAnswered \/ CodeTimesOut =>
       taken' = "right" \/ ~whole \/ ~wholeBefore]_vars

(***************************************************************************)
(* Whenever an ACK is waited for the interrupt is not in the middle of an  *)
(* answer, in which it would not see the ACK.                              *)
(***************************************************************************)
AckHeard == pc \in {"password", "write"} => ~start_OK

(***************************************************************************)
(* A session with the meter comes to its end, whatever is lost on the way. *)
(***************************************************************************)
SessionEnds == pc # "idle" ~> pc = "idle"

(***************************************************************************)
(* From what RightOrNone and AckHeard follow.  An answer is heard in three *)
(* stages: it is still on the line, behind at most the check character of  *)
(* the value before it; its beginning is in the buffer; all of it is, and  *)
(* check_frame is set.  Then a check character may be left on the line,    *)
(* and may look like the beginning of an answer, but one that ends where   *)
(* the next answer ends.                                                   *)
(***************************************************************************)
Answer == AnswerTo(pc)
Cleared == [k \in 1 .. MAX_BUFFER |-> Zero]
Left == {<<>>} \cup {<<b>> : b \in Bcc}

\* There is room for the rest of an answer, for another one.
Room(parts) == start_OK => index + parts + 1 <= MAX_BUFFER

NotBegun ==
  /\ buffer_PLC = Cleared /\ ~check_frame
  /\ \E left \in Left, says \in Says(Answer) :
       /\ line = left \o says
       /\ pc \notin {"identification", "read"} => left = <<>>
       /\ Answer # "ack" /\ Len(says) = 1 => Room(3) /\ MAX_BUFFER >= 4
  /\ Room(2)

Begun ==
  /\ Answer # "ack"
  /\ start_OK /\ ~check_frame
  /\ index \in 1 .. MAX_BUFFER - 2
  /\ buffer_PLC = [Cleared EXCEPT ![index] = Own(Answer, "begin")]
  /\ line \in {<<>>, <<Own(Answer, "end")>>}
                \cup {<<Own(Answer, "end"), b>> : b \in Bcc}
  /\ Len(line) = 2 => Answer = "value"
  /\ line = <<>> => Room(2)

Ended ==
  /\ check_frame
  /\ Answer = "ack" => own /\ line = <<>>
  /\ Answer # "ack" =>
       \E k \in 1 .. MAX_BUFFER - 1 :
         buffer_PLC = [Cleared EXCEPT ![k] = Own(Answer, "begin"),
                                      ![k + 1] = Own(Answer, "end")]
  /\ Answer # "value" => ~start_OK \/ Answer = "ack"
  /\ IF Answer = "value" THEN line \in Left ELSE line = <<>>
  /\ Room(2)

Listening ==
  /\ start_frame = Begins[Answer] /\ stop_frame = Ends[Answer]
  /\ stop_frame_immediately = (Answer = "ack")

WaitInv ==
  /\ pc = "idle" => line \in Left /\ Room(2)
  /\ pc # "idle" => Listening
  /\ pc # "idle" /\ asked =>
       /\ line \in Left /\ buffer_PLC = Cleared /\ ~check_frame /\ Room(2)
       /\ pc \notin {"identification", "read"} => line = <<>>
  /\ pc # "idle" /\ ~asked => NotBegun \/ Begun \/ Ended
  /\ pc \in {"password", "write"} => ~start_OK
  /\ pc = "write" => job = "write"
  /\ pc = "read" => job # "write"
  /\ pc \in {"read", "write"} \/ i = 0

HeardInv == ~Late => WaitInv /\ RightOrNone
=============================================================================
