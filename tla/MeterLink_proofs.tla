--------------------------- MODULE MeterLink_proofs ---------------------------
(***************************************************************************)
(* Proofs about MeterLink for any number of codes and any buffer, where    *)
(* the meter does not answer after a wait is over.                         *)
(***************************************************************************)
EXTENDS MeterLink, TLAPS

LEMMA AnswerFacts ==
  ASSUME NEW wait \in Waits
  PROVE  /\ AnswerTo(wait) \in Answers
         /\ AnswerTo(wait) = "ack" <=> wait \in {"password", "write"}
         /\ AnswerTo(wait) = "value" <=> wait = "read"
         /\ AnswerTo(wait) = "identification" <=> wait = "identification"
         /\ AnswerTo(wait) = "operands" <=> wait = "operands"
  BY DEF Waits, AnswerTo, Answers

LEMMA PartFacts ==
  ASSUME NEW a \in Answers
  PROVE  /\ Own(a, "begin") \in Part /\ Own(a, "end") \in Part
         /\ Own(a, "begin") # Zero /\ Own(a, "end") # Zero
         /\ Own(a, "begin").of = a /\ Own(a, "end").of = a
         /\ Own(a, "begin").own /\ Own(a, "end").own
         /\ Own(a, "begin").part = "begin" /\ Own(a, "end").part = "end"
         /\ a # "bcc"
  BY DEF Own, Part, Zero, Answers

LEMMA BccFacts ==
  ASSUME NEW b \in Bcc
  PROVE  b.of = "bcc" /\ b.own = FALSE /\ b.part # "end"
  BY DEF Bcc

\* What is said, one part after the other.
LEMMA SeqFacts ==
  ASSUME NEW S, NEW x \in S, NEW y \in S, NEW z \in S
  PROVE  /\ <<x>> \in Seq(S) /\ Len(<<x>>) = 1 /\ Head(<<x>>) = x /\ Tail(<<x>>) = <<>>
         /\ <<x, y>> \in Seq(S) /\ Len(<<x, y>>) = 2 /\ Head(<<x, y>>) = x
         /\ Tail(<<x, y>>) = <<y>>
         /\ <<x, y, z>> \in Seq(S) /\ Len(<<x, y, z>>) = 3
         /\ Head(<<x, y, z>>) = x /\ Tail(<<x, y, z>>) = <<y, z>>
  OBVIOUS

LEMMA FrontFacts ==
  ASSUME NEW S, NEW x \in S, NEW s \in Seq(S)
  PROVE  /\ <<x>> \o s \in Seq(S) /\ Head(<<x>> \o s) = x
         /\ Tail(<<x>> \o s) = s /\ Len(<<x>> \o s) = Len(s) + 1
         /\ <<>> \o s = s /\ <<>> \o s \in Seq(S)
  OBVIOUS

LEMMA SaysFacts ==
  ASSUME NEW wait \in Waits, NEW says \in Says(AnswerTo(wait))
  PROVE  LET a == AnswerTo(wait)
             begin == Own(a, "begin")
             end == Own(a, "end")
         IN /\ says \in Seq(Part \cup Bcc)
            /\ says # <<>> /\ Head(says) = begin
            /\ \/ Len(says) = 1 /\ says = <<begin>> /\ Tail(says) = <<>>
               \/ Len(says) = 2 /\ Tail(says) = <<end>>
               \/ /\ Len(says) = 3 /\ a = "value"
                  /\ \E b \in Bcc : Tail(says) = <<end, b>>
            /\ a = "ack" => Len(says) = 1
<1> DEFINE a == AnswerTo(wait)
           begin == Own(a, "begin")
           end == Own(a, "end")
<1>1. a \in Answers /\ begin \in Part \cup Bcc /\ end \in Part \cup Bcc
  BY AnswerFacts, PartFacts
<1>2. says \in Says(a)
  OBVIOUS
<1> HIDE DEF a, begin, end
<1>3. /\ a = "ack" => says = <<begin>>
      /\ \/ says = <<begin>> \/ says = <<begin, end>>
         \/ a = "value" /\ \E b \in Bcc : says = <<begin, end, b>>
  BY <1>1, <1>2 DEF Says, begin, end, Answers
<1>4. CASE says = <<begin>>
  BY <1>1, <1>4, SeqFacts DEF a, begin, end
<1>5. CASE says = <<begin, end>>
  <2>1. Len(says) = 2 /\ Tail(says) = <<end>> /\ Head(says) = begin
        /\ says \in Seq(Part \cup Bcc) /\ says # <<>>
    BY <1>1, <1>5, SeqFacts
  <2>2. a # "ack"
    BY <1>3, <1>5, <2>1, <1>1, SeqFacts
  <2> QED BY <2>1, <2>2 DEF a, begin, end
<1>6. CASE a = "value" /\ \E b \in Bcc : says = <<begin, end, b>>
  <2>1. PICK b \in Bcc : says = <<begin, end, b>>
    BY <1>6
  <2>2. b \in Part \cup Bcc
    OBVIOUS
  <2>3. /\ Len(says) = 3 /\ Tail(says) = <<end, b>> /\ Head(says) = begin
        /\ says \in Seq(Part \cup Bcc) /\ says # <<>>
    BY <1>1, <2>1, <2>2, SeqFacts
  <2> QED BY <1>6, <2>3 DEF a, begin, end
<1> QED BY <1>3, <1>4, <1>5, <1>6

\* A check character that is left is never one of an answer to come.
LEMMA LeftFacts ==
  ASSUME NEW left \in Left
  PROVE  /\ left \in Seq(Part \cup Bcc) /\ Len(left) \in {0, 1}
         /\ left # <<>> => /\ Head(left) \in Bcc /\ Tail(left) = <<>>
                           /\ left = <<Head(left)>> /\ Len(left) = 1
         /\ [k \in DOMAIN left |-> [left[k] EXCEPT !.own = FALSE]] = left
<1>1. CASE left = <<>>
  BY <1>1
<1>2. CASE \E b \in Bcc : left = <<b>>
  <2>1. PICK b \in Bcc : left = <<b>>
    BY <1>2
  <2>2. [b EXCEPT !.own = FALSE] = b
    BY DEF Bcc
  <2>3. b \in Part \cup Bcc
    OBVIOUS
  <2>4. left \in Seq(Part \cup Bcc) /\ Len(left) = 1 /\ Head(left) = b
        /\ Tail(left) = <<>>
    BY <2>1, <2>3, SeqFacts
  <2>5. [k \in DOMAIN left |-> [left[k] EXCEPT !.own = FALSE]] = left
    <3> DEFINE same == [k \in DOMAIN left |-> [left[k] EXCEPT !.own = FALSE]]
    <3>1. DOMAIN left = 1 .. 1 /\ left[1] = b
      BY <2>1
    <3>2. same = [k \in 1 .. 1 |-> b]
      BY <2>2, <3>1
    <3>3. left = [k \in 1 .. 1 |-> b]
      BY <2>1
    <3> QED BY <3>2, <3>3
  <2> QED BY <2>1, <2>4, <2>5
<1> QED BY <1>1, <1>2 DEF Left
-----------------------------------------------------------------------------
(***************************************************************************)
(* check_buffer() on a buffer with one answer and nothing else: the value  *)
(* is found if it stands at the front, and otherwise nothing is.           *)
(***************************************************************************)
LEMMA ValueFound ==
  ASSUME NEW k \in 1 .. MAX_BUFFER - 1,
         buffer_PLC = [Cleared EXCEPT ![k] = Own("value", "begin"),
                                      ![k + 1] = Own("value", "end")]
  PROVE  /\ check_buffer \in {"right", "lost"}
         /\ k = 1 => check_buffer = "right"
<1> DEFINE begin == Own("value", "begin")
           end == Own("value", "end")
<1>1. /\ begin # Zero /\ end # Zero /\ begin # end
      /\ begin.of = "value" /\ end.of = "value" /\ begin.own /\ end.own
      /\ begin.part = "begin" /\ end.part = "end"
  BY DEF Own, Zero
<1>2. MAX_BUFFER \in Nat /\ k \in 1 .. MAX_BUFFER /\ k + 1 \in 1 .. MAX_BUFFER
  BY MeterAssumption
<1> HIDE DEF begin, end
<1>3. /\ buffer_PLC[k] = begin /\ buffer_PLC[k + 1] = end
      /\ \A m \in 1 .. MAX_BUFFER : m # k /\ m # k + 1 => buffer_PLC[m] = Zero
  BY <1>2 DEF Cleared, begin, end
<1>4. CASE k = 1
  <2>1. Opening = {1} /\ Closing = {2}
    <3>1. \A m \in 1 .. MAX_BUFFER : m \in {1, 2} \/ ~(m \in 1 .. 2)
      BY <1>2
    <3>2. ASSUME NEW m \in 1 .. MAX_BUFFER, m # 1, m # 2
          PROVE  ~(\A l \in 1 .. m : buffer_PLC[l] # Zero)
      <4>1. m # k /\ m # k + 1
        BY <1>4, <3>2
      <4>2. buffer_PLC[m] = Zero
        BY <1>3, <4>1
      <4>3. m \in 1 .. m
        BY <1>2
      <4> QED BY <4>2, <4>3
    <3>3. \A m \in 1 .. 1 : m = 1
      OBVIOUS
    <3>4. \A m \in 1 .. 2 : m = 1 \/ m = 2
      OBVIOUS
    <3>5. /\ \A m \in 1 .. 1 : buffer_PLC[m] # Zero
          /\ \A m \in 1 .. 2 : buffer_PLC[m] # Zero
      BY <1>1, <1>3, <1>4, <3>3, <3>4
    <3>6. 1 \in 1 .. MAX_BUFFER /\ 2 \in 1 .. MAX_BUFFER
      BY <1>2, <1>4
    <3>7. buffer_PLC[1] = begin /\ buffer_PLC[2] = end
      BY <1>3, <1>4
    <3> QED BY <1>1, <3>2, <3>5, <3>6, <3>7
            DEF Opening, Closing, Brackets, Bracketed
  <2>2. FirstClosing = 2
    BY <2>1 DEF FirstClosing
  <2>3. {m \in Opening : m < FirstClosing} = {1}
    BY <2>1, <2>2
  <2>4. (CHOOSE l \in {1} : \A m \in {1} : m <= l) = 1
    OBVIOUS
  <2>5. IsOwn(buffer_PLC[1]) /\ IsOwn(buffer_PLC[2])
    BY <1>1, <1>3, <1>4 DEF IsOwn
  <2>6. Closing # {} /\ {1} # {}
    BY <2>1
  <2> HIDE DEF begin, end
  <2> QED BY <2>2, <2>3, <2>4, <2>5, <2>6 DEF check_buffer
<1>5. CASE k # 1
  <2>1. buffer_PLC[1] = Zero
    <3>1. 1 \in 1 .. MAX_BUFFER /\ 1 # k /\ 1 # k + 1
      BY <1>2, <1>5
    <3> QED BY <1>3, <3>1
  <2>2. Closing = {}
    <3>1. \A m \in 1 .. MAX_BUFFER : 1 \in 1 .. m
      BY <1>2
    <3> QED BY <2>1, <3>1 DEF Closing, Brackets
  <2> QED BY <1>5, <2>2 DEF check_buffer
<1> QED BY <1>4, <1>5

(***************************************************************************)
(* A wait begins with a cleared buffer and nothing on the line but what is *)
(* left of the value before.                                               *)
(***************************************************************************)
LEMMA AskFacts ==
  ASSUME TypeOK, line \in Left, Room(2), NEW wait \in Waits, Ask(wait)
  PROVE  /\ pc' = wait /\ asked' = TRUE /\ line' = line
         /\ Listening' /\ buffer_PLC' = Cleared /\ check_frame' = FALSE /\ Room(2)'
         /\ start_OK' = start_OK /\ index' = index
         /\ start_frame' \in Bytes /\ stop_frame' \in Bytes
         /\ stop_frame_immediately' \in BOOLEAN
         /\ buffer_PLC' \in [1 .. MAX_BUFFER -> Part \cup {Zero}]
         /\ own' = FALSE /\ whole' = FALSE /\ wholeBefore' = whole
<1>1. line' = line
  BY LeftFacts DEF Ask
<1>2. AnswerTo(wait) \in Answers
  BY AnswerFacts
<1>3. Begins[AnswerTo(wait)] \in Bytes /\ Ends[AnswerTo(wait)] \in Bytes
  BY <1>2 DEF Answers, Begins, Ends, Bytes
<1>4. Answer' = AnswerTo(wait) /\ pc' = wait
  BY DEF Ask, Answer
<1>5. Listening'
  BY <1>4 DEF Ask, clear_para, Listening
<1>6. buffer_PLC' = Cleared /\ Cleared \in [1 .. MAX_BUFFER -> Part \cup {Zero}]
  BY DEF Ask, clear_para, Cleared
<1> QED BY <1>1, <1>3, <1>4, <1>5, <1>6 DEF Ask, clear_para, Room
-----------------------------------------------------------------------------
IInv == TypeOK /\ WaitInv /\ RightOrNone

LEMMA InitInv == Init => IInv
<1> SUFFICES ASSUME Init PROVE IInv
  OBVIOUS
<1>1. TypeOK
  <2>1. 0 \in 0 .. Codes /\ 0 \in 0 .. 0 /\ 0 \in 0 .. MAX_BUFFER
    BY MeterAssumption
  <2>2. buffer_PLC \in [1 .. MAX_BUFFER -> Part \cup {Zero}]
    BY DEF Init
  <2>3. line \in Seq(Part \cup Bcc) /\ Len(line) <= MaxLine
    BY MeterAssumption DEF Init
  <2>4. "set_time" \in Jobs /\ "none" \in Results /\ "none" \in Bytes
    BY DEF Jobs, Results, Bytes
  <2> QED BY <2>1, <2>2, <2>3, <2>4 DEF Init, TypeOK
<1>2. WaitInv
  BY DEF Init, WaitInv, Left, Room
<1>3. RightOrNone
  BY DEF Init, RightOrNone
<1> QED BY <1>1, <1>2, <1>3 DEF IInv

\* Any wait that begins with a step of the main loop.
LEMMA AskInv ==
  ASSUME IInv, line \in Left, Room(2), NEW wait \in Waits, Ask(wait),
         wait \notin {"identification", "read"} => line = <<>>,
         wait \in {"password", "write"} => ~start_OK,
         wait = "write" => job' = "write", wait = "read" => job' # "write",
         wait \in {"read", "write"} \/ i' = 0,
         job' \in Jobs, n' \in 0 .. Codes, i' \in 0 .. n',
         taken' \in Results \ {"wrong"}
  PROVE  IInv'
<1>1. TypeOK
  BY DEF IInv
<1>2. TypeOK'
  <2>1. /\ pc' = wait /\ asked' = TRUE /\ line' = line
        /\ start_OK' = start_OK /\ index' = index /\ check_frame' = FALSE
        /\ start_frame' \in Bytes /\ stop_frame' \in Bytes
        /\ stop_frame_immediately' \in BOOLEAN
        /\ buffer_PLC' \in [1 .. MAX_BUFFER -> Part \cup {Zero}]
        /\ own' = FALSE /\ whole' = FALSE /\ wholeBefore' = whole
    BY <1>1, AskFacts
  <2> QED BY <1>1, <2>1 DEF TypeOK
<1>3. WaitInv'
  BY <1>1, AskFacts DEF WaitInv, Waits
<1> QED BY <1>2, <1>3 DEF IInv, RightOrNone

LEMMA ReturnInv ==
  ASSUME IInv, line \in Left, Room(2), Return,
         job' \in Jobs, n' \in 0 .. Codes, taken' \in Results \ {"wrong"}
  PROVE  IInv'
<1>1. TypeOK'
  BY DEF IInv, TypeOK, Return, settings, isr
<1>2. WaitInv'
  BY DEF WaitInv, Return, settings, isr, Left, Room
<1> QED BY <1>1, <1>2 DEF IInv, RightOrNone

(***************************************************************************)
(* A wait that runs out leaves nothing on the line, and one that ends with *)
(* an answer only what follows a value; the meter has answered then.       *)
(***************************************************************************)
LEMMA RunOut ==
  ASSUME ~Late, IInv, pc # "idle", TimedOut, ~check_frame
  PROVE  line = <<>> /\ line \in Left /\ Room(2)
<1>1. line = <<>>
  BY DEF TimedOut
<1>2. Room(2)
  <2>1. CASE asked
    BY <2>1 DEF IInv, WaitInv
  <2>2. CASE ~asked
    BY <1>1, <2>2 DEF IInv, WaitInv, NotBegun, Begun, Ended
  <2> QED BY <2>1, <2>2
<1> QED BY <1>1, <1>2 DEF Left

LEMMA Answered ==
  ASSUME IInv, pc # "idle", check_frame
  PROVE  /\ ~asked /\ Ended /\ Room(2) /\ line \in Left
         /\ pc # "read" => line = <<>>
         /\ pc \notin {"read", "password", "write"} => ~start_OK
<1>1. ~asked /\ Ended
  BY DEF IInv, WaitInv, NotBegun, Begun
<1>2. pc \in Waits
  BY DEF IInv, TypeOK
<1> QED BY <1>1, <1>2, AnswerFacts DEF Ended, Answer, Left

LEMMA NextCodeInv ==
  ASSUME IInv, line \in Left, Room(2), NextCode,
         pc \in {"read", "write"}, pc = "write" => line = <<>>,
         UNCHANGED <<job, n>>, taken' \in Results \ {"wrong"}
  PROVE  IInv'
<1>1. TypeOK /\ pc \in Waits
  BY DEF IInv, TypeOK
<1>2. CASE i < n
  <2>1. i' \in 0 .. n' /\ job' \in Jobs /\ n' \in 0 .. Codes
    BY <1>1, <1>2 DEF TypeOK, NextCode
  <2> QED BY <1>1, <1>2, <2>1, AskInv DEF NextCode, IInv, WaitInv
<1>3. CASE ~(i < n)
  BY <1>1, <1>3, ReturnInv DEF NextCode, TypeOK
<1> QED BY <1>2, <1>3

LEMMA FirstCodeInv ==
  ASSUME IInv, line = <<>>, Room(2), FirstCode,
         job = "write" => ~start_OK,
         UNCHANGED <<job, n, taken>>
  PROVE  IInv'
<1>1. TypeOK /\ line \in Left /\ taken \in Results \ {"wrong"}
  BY DEF IInv, TypeOK, Left, RightOrNone
<1>2. CASE n = 0
  BY <1>1, <1>2, ReturnInv DEF FirstCode, TypeOK
<1>3. CASE n # 0
  <2>1. i' \in 0 .. n' /\ job' \in Jobs /\ n' \in 0 .. Codes
    BY <1>1, <1>3 DEF TypeOK, FirstCode
  <2>2. CASE job = "write"
    BY <1>1, <1>3, <2>1, <2>2, AskInv DEF FirstCode, Waits
  <2>3. CASE job # "write"
    BY <1>1, <1>3, <2>1, <2>3, AskInv DEF FirstCode, Waits
  <2> QED BY <2>2, <2>3
<1> QED BY <1>2, <1>3

LEMMA MainLoopInv ==
  ASSUME ~Late, IInv, MainLoop
  PROVE  IInv'
<1>1. TypeOK /\ taken \in Results \ {"wrong"}
  BY DEF IInv, TypeOK, RightOrNone
<1>2. CASE Begin
  <2>1. line \in Left /\ Room(2) /\ i = 0
    BY <1>2 DEF Begin, IInv, WaitInv
  <2> QED BY <1>1, <1>2, <2>1, AskInv DEF Begin, TypeOK, Waits, Results
<1>3. CASE SignInAgain
  <2>1. ~check_frame /\ pc = "identification" /\ i = 0
    BY <1>3 DEF SignInAgain, IInv, WaitInv
  <2>2. line = <<>> /\ line \in Left /\ Room(2)
    BY <1>3, <2>1, RunOut DEF SignInAgain
  <2> QED BY <1>1, <1>3, <2>1, <2>2, AskInv DEF SignInAgain, TypeOK, Waits
<1>4. CASE SignInGoesOn
  <2>1. pc \in {"identification", "operands"} /\ i = 0 /\ check_frame
    BY <1>4 DEF SignInGoesOn, IInv, WaitInv
  <2>2. line = <<>> /\ line \in Left /\ Room(2) /\ ~start_OK
    BY <2>1, Answered DEF Left
  <2>3. PICK wait \in {"operands", "password"} : Ask(wait)
    BY <1>4 DEF SignInGoesOn
  <2>4. wait \in Waits /\ wait \notin {"read", "write"}
    BY <2>3 DEF Waits
  <2> QED BY <1>1, <1>4, <2>1, <2>2, <2>3, <2>4, AskInv DEF SignInGoesOn, TypeOK
<1>5. CASE SignInDone
  <2>1. line = <<>> /\ Room(2) /\ ~start_OK
    BY <1>5, Answered DEF SignInDone, IInv, WaitInv
  <2> QED BY <1>5, <2>1, FirstCodeInv DEF SignInDone
<1>6. CASE SignInFails
  <2>1. line = <<>> /\ line \in Left /\ Room(2)
    BY <1>6, RunOut DEF SignInFails
  <2>2. CASE job \in {"direct", "write"}
    BY <1>1, <1>6, <2>1, <2>2, ReturnInv DEF SignInFails, TypeOK
  <2>3. CASE job \notin {"direct", "write"}
    BY <1>6, <2>1, <2>3, FirstCodeInv DEF SignInFails
  <2> QED BY <2>2, <2>3
<1>7. CASE ReadAnswered
  <2>1. pc = "read" /\ check_frame /\ NextCode /\ taken' = check_buffer
    BY <1>7 DEF ReadAnswered
  <2>2. Ended /\ line \in Left /\ Room(2)
    BY <2>1, Answered
  <2>3. Answer = "value"
    BY <2>1 DEF Answer, AnswerTo
  <2>4. taken' \in {"right", "lost"}
    BY <2>1, <2>2, <2>3, ValueFound DEF Ended
  <2> QED BY <1>7, <2>1, <2>2, <2>4, NextCodeInv DEF ReadAnswered, Results
<1>8. CASE WriteAnswered
  <2>1. pc = "write" /\ check_frame /\ NextCode
    BY <1>8 DEF WriteAnswered
  <2>2. Ended /\ line \in Left /\ Room(2) /\ line = <<>>
    BY <2>1, Answered
  <2>3. Answer = "ack"
    BY <2>1 DEF Answer, AnswerTo
  <2>4. taken' = "right"
    BY <1>8, <2>2, <2>3 DEF Ended, WriteAnswered
  <2> QED BY <1>8, <2>1, <2>2, <2>4, NextCodeInv DEF WriteAnswered, Results
<1>9. CASE CodeTimesOut
  <2>1. line = <<>> /\ line \in Left /\ Room(2)
    BY <1>9, RunOut DEF CodeTimesOut
  <2>2. taken' \in Results \ {"wrong"}
    BY <1>9 DEF CodeTimesOut, Results
  <2>3. CASE job = "set_time"
    BY <1>1, <1>9, <2>1, <2>2, <2>3, ReturnInv DEF CodeTimesOut, TypeOK
  <2>4. CASE job # "set_time"
    BY <1>9, <2>1, <2>2, <2>4, NextCodeInv DEF CodeTimesOut
  <2> QED BY <2>3, <2>4
<1> QED BY <1>2, <1>3, <1>4, <1>5, <1>6, <1>7, <1>8, <1>9 DEF MainLoop
-----------------------------------------------------------------------------
LEMMA MeterAnswersInv == ASSUME IInv, MeterAnswers PROVE IInv'
<1>1. TypeOK /\ pc \in Waits /\ asked
  BY DEF IInv, TypeOK, MeterAnswers
<1>2. /\ line \in Left /\ buffer_PLC = Cleared /\ ~check_frame /\ Room(2)
      /\ pc \notin {"identification", "read"} => line = <<>>
  BY <1>1 DEF IInv, WaitInv, Waits
<1>3. PICK says \in Says(Answer) :
        /\ Answer # "ack" /\ Len(says) = 1 => MayCut
        /\ Len(line) + Len(says) <= MaxLine
        /\ line' = line \o says
        /\ whole' = (Answer = "ack" \/ Len(says) > 1)
  BY DEF MeterAnswers, Answer
<1>4. /\ pc' = pc /\ asked' = FALSE /\ index' = index /\ start_OK' = start_OK
      /\ check_frame' = check_frame /\ buffer_PLC' = buffer_PLC /\ own' = own
      /\ UNCHANGED <<job, n, i, settings, wholeBefore, taken>>
  BY DEF MeterAnswers, isr
<1>5. says \in Seq(Part \cup Bcc)
  BY <1>1, SaysFacts DEF Answer
<1>6. TypeOK'
  <2>1. line' \in Seq(Part \cup Bcc) /\ Len(line') <= MaxLine
    BY <1>1, <1>3, <1>5 DEF TypeOK
  <2>2. whole' \in BOOLEAN
    BY <1>3
  <2> QED BY <1>1, <1>4, <2>1, <2>2 DEF TypeOK, settings
<1>7. Answer' = Answer
  BY <1>4 DEF Answer
<1>8. NotBegun'
  <2>1. Answer # "ack" /\ Len(says) = 1 => Room(3)' /\ MAX_BUFFER >= 4
    BY <1>1, <1>3, <1>4, MeterAssumption DEF MayCut, Room, TypeOK
  <2>2. Room(2)' /\ buffer_PLC' = Cleared /\ ~check_frame'
    BY <1>2, <1>4 DEF Room
  <2> QED BY <1>2, <1>3, <1>4, <1>7, <2>1, <2>2 DEF NotBegun, Cleared
<1>9. WaitInv'
  BY <1>1, <1>4, <1>7, <1>8 DEF IInv, WaitInv, Listening, settings, Waits
<1> QED BY <1>4, <1>6, <1>9 DEF IInv, RightOrNone

\* What the interrupt leaves alone.
LEMMA IsrKeeps ==
  ASSUME myUart0_ISR
  PROVE  /\ pc' = pc /\ job' = job /\ n' = n /\ i' = i /\ asked' = asked
         /\ start_frame' = start_frame /\ stop_frame' = stop_frame
         /\ stop_frame_immediately' = stop_frame_immediately
         /\ whole' = whole /\ wholeBefore' = wholeBefore /\ taken' = taken
         /\ Answer' = Answer /\ line' = Tail(line) /\ line # <<>>
  BY DEF myUart0_ISR, settings, history, Answer

LEMMA TailTyped ==
  ASSUME NEW S, NEW s \in Seq(S), s # <<>>
  PROVE  Head(s) \in S /\ Tail(s) \in Seq(S) /\ Len(Tail(s)) = Len(s) - 1
  OBVIOUS

LEMMA IsrTypeOK ==
  ASSUME TypeOK, myUart0_ISR, start_OK => index < MAX_BUFFER
  PROVE  TypeOK'
<1> DEFINE p == Head(line)
<1>1. /\ p \in Part \cup Bcc /\ line' \in Seq(Part \cup Bcc)
      /\ Len(line') <= MaxLine
  BY IsrKeeps, TailTyped, MeterAssumption DEF TypeOK
<1>2. p.own \in BOOLEAN /\ (p.of # "bcc" => p \in Part)
  BY <1>1 DEF Part, Bcc
<1> HIDE DEF p
<1>3. ASSUME NEW at \in 0 .. MAX_BUFFER - 1, Keep(p, at)
      PROVE  /\ index' \in 0 .. MAX_BUFFER
             /\ buffer_PLC' \in [1 .. MAX_BUFFER -> Part \cup {Zero}]
  <2>1. MAX_BUFFER \in Nat \ {0} /\ at + 1 \in Nat
    BY MeterAssumption
  <2>2. (at + 1) % MAX_BUFFER \in 0 .. MAX_BUFFER
    BY <2>1
  <2> QED BY <1>2, <1>3, <2>1, <2>2 DEF Keep, TypeOK
<1>4. /\ check_frame' \in BOOLEAN /\ start_OK' \in BOOLEAN /\ own' \in BOOLEAN
      /\ index' \in 0 .. MAX_BUFFER
      /\ buffer_PLC' \in [1 .. MAX_BUFFER -> Part \cup {Zero}]
  <2>1. CASE HearStart(p)
    <3>1. 0 \in 0 .. MAX_BUFFER - 1
      BY MeterAssumption
    <3> QED BY <1>2, <1>3, <2>1, <3>1 DEF HearStart, TypeOK
  <2>2. CASE HearNothing(p)
    BY <2>2 DEF HearNothing, isr, TypeOK
  <2>3. CASE HearMore(p)
    <3>1. index \in 0 .. MAX_BUFFER - 1
      BY <2>3, MeterAssumption DEF HearMore, TypeOK
    <3> QED BY <1>3, <2>3, <3>1 DEF HearMore, TypeOK
  <2>4. CASE HearStop(p)
    <3>1. index \in 0 .. MAX_BUFFER - 1
      BY <2>4, MeterAssumption DEF HearStop, LastPart, TypeOK
    <3>2. index' \in 0 .. MAX_BUFFER
      BY <2>4, <3>1, MeterAssumption DEF HearStop, LastPart
    <3>3. p \in Part
      BY <1>1, <2>4, BccFacts DEF HearStop, LastPart, Ending
    <3>4. buffer_PLC' \in [1 .. MAX_BUFFER -> Part \cup {Zero}]
      BY <2>4, <3>3 DEF HearStop, LastPart, TypeOK
    <3> QED BY <1>2, <2>4, <3>2, <3>4 DEF HearStop, LastPart
  <2> QED BY <2>1, <2>2, <2>3, <2>4 DEF myUart0_ISR, p
<1> QED BY <1>1, <1>4, IsrKeeps DEF TypeOK

(***************************************************************************)
(* A check character may begin a new answer in an empty buffer, and that   *)
(* is all it does.                                                         *)
(***************************************************************************)
LEMMA BccHeard ==
  ASSUME TypeOK, NEW b \in Bcc,
         HearStart(b) \/ HearNothing(b) \/ HearMore(b) \/ HearStop(b)
  PROVE  /\ buffer_PLC' = buffer_PLC
         /\ \/ start_OK' = start_OK /\ index' = index
            \/ start_OK' = TRUE /\ index' = 0
         /\ stop_frame_immediately => start_OK' = start_OK
         /\ ~stop_frame_immediately => check_frame' = check_frame /\ own' = own
<1>1. b.of = "bcc" /\ b.part # "end"
  BY BccFacts
<1>2. CASE HearStart(b)
  BY <1>1, <1>2 DEF HearStart, Keep
<1>3. CASE HearNothing(b)
  BY <1>3 DEF HearNothing, isr
<1>4. CASE HearMore(b)
  BY <1>1, <1>4 DEF HearMore, Keep
<1>5. CASE HearStop(b)
  BY <1>1, <1>5 DEF HearStop, LastPart, Ending
<1> QED BY <1>2, <1>3, <1>4, <1>5

LEMMA RoomKept ==
  ASSUME TypeOK, NEW parts \in {2, 3}, Room(parts), parts + 1 <= MAX_BUFFER,
         \/ start_OK' = start_OK /\ index' = index
         \/ start_OK' = TRUE /\ index' = 0
  PROVE  Room(parts)'
<1>1. parts \in Nat /\ MAX_BUFFER \in Nat /\ parts + 1 = 0 + parts + 1
  BY MeterAssumption
<1>2. CASE start_OK' = start_OK /\ index' = index
  BY <1>2 DEF Room
<1>3. CASE start_OK' = TRUE /\ index' = 0
  BY <1>1, <1>3 DEF Room
<1> QED BY <1>2, <1>3

(***************************************************************************)
(* The beginning of an answer, in the buffer that was cleared for it.      *)
(***************************************************************************)
LEMMA BeginHeard ==
  ASSUME TypeOK, Listening, pc \in Waits, Room(2), buffer_PLC = Cleared,
         ~check_frame, Answer = "ack" => ~start_OK,
         NEW p, p = Own(Answer, "begin"),
         HearStart(p) \/ HearNothing(p) \/ HearMore(p) \/ HearStop(p)
  PROVE  IF Answer = "ack"
           THEN /\ check_frame' = TRUE /\ own' = TRUE
                /\ start_OK' = start_OK /\ index' = index
           ELSE /\ start_OK' = TRUE /\ check_frame' = FALSE
                /\ index' \in 1 .. MAX_BUFFER - 2
                /\ buffer_PLC' = [Cleared EXCEPT ![index'] = p]
                /\ Room(3) /\ MAX_BUFFER >= 4 => index' + 3 <= MAX_BUFFER
                /\ index' = IF start_OK THEN index + 1 ELSE 1
<1>1. /\ Answer \in Answers /\ p.of = Answer /\ p.part = "begin" /\ p.own = TRUE
      /\ Answer # "bcc"
  BY AnswerFacts, PartFacts DEF Answer, Own
<1>2. FirstByte(p) = start_frame /\ ~Ending(p)
  BY <1>1 DEF FirstByte, Listening, Ending
<1>3. stop_frame_immediately = (Answer = "ack") /\ check_frame = FALSE
  BY DEF Listening, TypeOK
<1>4. ASSUME NEW x \in Nat, x < MAX_BUFFER PROVE x % MAX_BUFFER = x
  <2>1. MAX_BUFFER \in Nat \ {0}
    BY MeterAssumption
  <2> QED BY <1>4, <2>1
<1>5. CASE start_OK
  <2>1. HearMore(p) /\ Answer # "ack" /\ index + 3 <= MAX_BUFFER
    <3>1. HearMore(p)
      BY <1>2, <1>5 DEF HearStart, HearNothing, HearStop, LastPart
    <3>2. index + 2 + 1 <= MAX_BUFFER /\ index \in Nat /\ MAX_BUFFER \in Nat
      BY <1>5, MeterAssumption DEF Room, TypeOK
    <3>3. index + 3 <= MAX_BUFFER
      BY <3>2
    <3> QED BY <1>5, <3>1, <3>3
  <2>2. index + 1 \in Nat /\ index + 1 < MAX_BUFFER
    BY <2>1, MeterAssumption DEF TypeOK
  <2>3. index' = index + 1
    BY <1>1, <1>4, <2>1, <2>2 DEF HearMore, Keep
  <2>4. buffer_PLC' = [Cleared EXCEPT ![index'] = p]
    BY <1>1, <2>1, <2>3 DEF HearMore, Keep
  <2>5. index' \in 1 .. MAX_BUFFER - 2
    BY <2>1, <2>3, MeterAssumption DEF TypeOK
  <2>6. Room(3) => index' + 3 <= MAX_BUFFER
    BY <1>5, <2>3, MeterAssumption DEF Room, TypeOK
  <2>7. start_OK' = TRUE /\ check_frame' = FALSE
    BY <1>3, <1>5, <2>1 DEF HearMore, TypeOK
  <2> QED BY <1>5, <2>1, <2>3, <2>4, <2>5, <2>6, <2>7
<1>6. CASE ~start_OK
  <2>1. HearStart(p)
    BY <1>2, <1>6 DEF HearNothing, HearMore, HearStop, LastPart
  <2>2. CASE Answer = "ack"
    BY <1>1, <1>3, <2>1, <2>2 DEF HearStart
  <2>3. CASE Answer # "ack"
    <3>1. start_OK' = TRUE /\ Keep(p, 0) /\ check_frame' = check_frame
      BY <1>3, <2>1, <2>3 DEF HearStart
    <3>2. index' = 1
      <4>1. 1 \in Nat /\ 1 < MAX_BUFFER /\ 0 + 1 = 1
        BY MeterAssumption
      <4>2. index' = (0 + 1) % MAX_BUFFER
        BY <1>1, <3>1 DEF Keep
      <4> QED BY <1>4, <4>1, <4>2
    <3>3. buffer_PLC' = [Cleared EXCEPT ![index'] = p]
      BY <1>1, <3>1, <3>2 DEF Keep
    <3> QED BY <1>3, <1>6, <2>3, <3>1, <3>2, <3>3, MeterAssumption
  <2> QED BY <2>2, <2>3
<1> QED BY <1>5, <1>6

\* The end of an answer behind its beginning.
LEMMA EndHeard ==
  ASSUME TypeOK, Listening, pc \in Waits, Begun,
         NEW p, p = Own(Answer, "end"),
         HearStart(p) \/ HearNothing(p) \/ HearMore(p) \/ HearStop(p)
  PROVE  /\ check_frame' = TRUE /\ start_OK' = FALSE
         /\ index \in 1 .. MAX_BUFFER - 1
         /\ buffer_PLC' = [Cleared EXCEPT ![index] = Own(Answer, "begin"),
                                          ![index + 1] = p]
<1>1. Answer \in Answers /\ p.of = Answer /\ p.part = "end"
  BY AnswerFacts, PartFacts DEF Answer
<1>2. start_OK /\ Ending(p)
  BY <1>1 DEF Begun, Listening, Ending
<1>3. HearStop(p)
  BY <1>2 DEF HearStart, HearNothing, HearMore
<1>4. /\ index \in 1 .. MAX_BUFFER - 2
      /\ buffer_PLC = [Cleared EXCEPT ![index] = Own(Answer, "begin")]
  BY DEF Begun
<1>5. MAX_BUFFER \in Nat
  BY MeterAssumption
<1>6. buffer_PLC' = [k \in 1 .. MAX_BUFFER |->
                      IF k = index + 1 THEN p
                      ELSE IF k = index + 2 THEN Zero ELSE buffer_PLC[k]]
  BY <1>3 DEF HearStop, LastPart
<1>7. buffer_PLC' = [Cleared EXCEPT ![index] = Own(Answer, "begin"),
                                    ![index + 1] = p]
  <2>1. \A k \in 1 .. MAX_BUFFER :
          buffer_PLC[k] = IF k = index THEN Own(Answer, "begin") ELSE Zero
    BY <1>4, <1>5 DEF Cleared
  <2>2. \A k \in 1 .. MAX_BUFFER :
          [Cleared EXCEPT ![index] = Own(Answer, "begin"), ![index + 1] = p][k]
            = IF k = index + 1 THEN p
              ELSE IF k = index THEN Own(Answer, "begin") ELSE Zero
    BY <1>4, <1>5 DEF Cleared
  <2>3. \A k \in 1 .. MAX_BUFFER : k = index => k # index + 1 /\ k # index + 2
    BY <1>4, <1>5
  <2>4. [Cleared EXCEPT ![index] = Own(Answer, "begin"), ![index + 1] = p]
          = [k \in 1 .. MAX_BUFFER |->
               IF k = index + 1 THEN p
               ELSE IF k = index + 2 THEN Zero ELSE buffer_PLC[k]]
    BY <2>1, <2>2, <2>3 DEF Cleared
  <2> QED BY <1>6, <2>4
<1>8. index \in 1 .. MAX_BUFFER - 1
  BY <1>4, <1>5
<1> QED BY <1>3, <1>7, <1>8 DEF HearStop, LastPart
-----------------------------------------------------------------------------
LEMMA IsrInv == ASSUME IInv, myUart0_ISR PROVE IInv'
<1> DEFINE p == Head(line)
<1>1. TypeOK /\ WaitInv /\ MAX_BUFFER \in Nat /\ 2 + 1 <= MAX_BUFFER
  BY MeterAssumption DEF IInv
<1>2. HearStart(p) \/ HearNothing(p) \/ HearMore(p) \/ HearStop(p)
  BY DEF myUart0_ISR
<1>3. /\ pc' = pc /\ job' = job /\ i' = i /\ asked' = asked /\ taken' = taken
      /\ Answer' = Answer /\ line' = Tail(line) /\ line # <<>>
      /\ (Listening => Listening')
  BY IsrKeeps DEF Listening
<1> HIDE DEF p
<1>4. RightOrNone'
  BY <1>3 DEF IInv, RightOrNone
<1>5. CASE line \in Left /\ (pc = "idle" \/ asked \/ Ended)
  <2>1. p \in Bcc /\ line' = <<>> /\ line' \in Left
    BY <1>3, <1>5, LeftFacts DEF p, Left
  <2>2. /\ buffer_PLC' = buffer_PLC
        /\ \/ start_OK' = start_OK /\ index' = index
           \/ start_OK' = TRUE /\ index' = 0
        /\ stop_frame_immediately => start_OK' = start_OK
        /\ ~stop_frame_immediately => check_frame' = check_frame /\ own' = own
    BY <1>1, <1>2, <2>1, BccHeard
  <2>3. Room(2)
    BY <1>1, <1>5 DEF WaitInv, Ended
  <2>4. Room(2)'
    BY <1>1, <2>2, <2>3, RoomKept
  <2>5. TypeOK'
    <3>1. start_OK => index < MAX_BUFFER
      BY <1>1, <2>3 DEF Room, TypeOK
    <3> QED BY <1>1, <3>1, IsrTypeOK
  <2>6. CASE pc = "idle"
    <3>1. WaitInv'
      BY <1>1, <1>3, <2>1, <2>4, <2>6 DEF WaitInv
    <3> QED BY <1>4, <2>5, <3>1 DEF IInv
  <2>7. CASE pc # "idle" /\ asked
    <3>1. pc \in {"identification", "read"} /\ pc \in Waits
      BY <1>1, <1>3, <2>7 DEF WaitInv, Waits
    <3>2. ~stop_frame_immediately
      BY <1>1, <2>7, <3>1, AnswerFacts DEF WaitInv, Listening, Answer
    <3>3. buffer_PLC' = Cleared /\ ~check_frame'
      BY <1>1, <2>2, <2>7, <3>2 DEF WaitInv
    <3>4. WaitInv'
      BY <1>1, <1>3, <2>1, <2>4, <2>7, <3>1, <3>3 DEF WaitInv, Cleared
    <3> QED BY <1>4, <2>5, <3>4 DEF IInv
  <2>8. CASE pc # "idle" /\ ~asked
    <3>1. pc \in Waits /\ Ended /\ Answer = "value"
      BY <1>1, <1>3, <1>5, <2>8 DEF TypeOK, Ended
    <3>2. ~stop_frame_immediately /\ pc = "read"
      BY <1>1, <2>8, <3>1, AnswerFacts DEF WaitInv, Listening, Answer
    <3>3. check_frame'
      BY <2>2, <3>1, <3>2 DEF Ended
    <3>4. Ended'
      BY <1>3, <2>1, <2>2, <2>4, <3>1, <3>3 DEF Ended, Cleared
    <3>5. WaitInv'
      BY <1>1, <1>3, <2>4, <2>8, <3>2, <3>4 DEF WaitInv
    <3> QED BY <1>4, <2>5, <3>5 DEF IInv
  <2> QED BY <2>6, <2>7, <2>8
<1>6. CASE pc # "idle" /\ ~asked /\ NotBegun
  <2>1. pc \in Waits /\ Listening /\ Room(2) /\ buffer_PLC = Cleared
        /\ ~check_frame
    BY <1>1, <1>6 DEF TypeOK, WaitInv, NotBegun
  <2>2. PICK left \in Left, says \in Says(Answer) :
          /\ line = left \o says
          /\ pc \notin {"identification", "read"} => left = <<>>
          /\ Answer # "ack" /\ Len(says) = 1 => Room(3) /\ MAX_BUFFER >= 4
    BY <1>6 DEF NotBegun
  <2>3. says \in Seq(Part \cup Bcc)
    BY <2>1, SaysFacts DEF Answer
  <2>4. TypeOK'
    <3>1. start_OK => index < MAX_BUFFER
      BY <1>1, <2>1 DEF Room, TypeOK
    <3> QED BY <1>1, <3>1, IsrTypeOK
  <2>5. CASE left # <<>>
    <3>1. PICK b \in Bcc : left = <<b>>
      BY <2>5, LeftFacts
    <3>2. p = b /\ line' = says /\ line' = <<>> \o says
      <4>1. b \in Part \cup Bcc
        OBVIOUS
      <4> QED BY <1>3, <2>2, <2>3, <3>1, <4>1, FrontFacts DEF p
    <3>3. ~stop_frame_immediately /\ pc \in {"identification", "read"}
      BY <2>1, <2>2, <2>5, AnswerFacts DEF Listening, Answer
    <3>4. /\ buffer_PLC' = buffer_PLC
          /\ \/ start_OK' = start_OK /\ index' = index
             \/ start_OK' = TRUE /\ index' = 0
          /\ check_frame' = check_frame
      BY <1>1, <1>2, <3>2, <3>3, BccHeard
    <3>5. Room(2)'
      BY <1>1, <2>1, <3>4, RoomKept
    <3>6. Answer # "ack" /\ Len(says) = 1 => Room(3)' /\ MAX_BUFFER >= 4
      <4>1. ASSUME Room(3), MAX_BUFFER >= 4 PROVE Room(3)'
        <5>1. 3 \in {2, 3} /\ 3 + 1 <= MAX_BUFFER
          BY <1>1, <4>1
        <5> QED BY <1>1, <3>4, <4>1, <5>1, RoomKept
      <4> QED BY <2>2, <4>1
    <3>7. NotBegun'
      <4>1. <<>> \in Left
        BY DEF Left
      <4> QED BY <1>3, <2>1, <2>2, <3>2, <3>4, <3>5, <3>6, <4>1
              DEF NotBegun, Cleared
    <3>8. WaitInv'
      BY <1>1, <1>3, <1>6, <2>1, <3>3, <3>7 DEF WaitInv
    <3> QED BY <1>4, <2>4, <3>8 DEF IInv
  <2>6. CASE left = <<>>
    <3>1. line = says
      BY <2>2, <2>3, <2>6, FrontFacts
    <3>2. p = Own(Answer, "begin")
      BY <2>1, <3>1, SaysFacts DEF p, Answer
    <3>3. Answer = "ack" => ~start_OK
      BY <1>1, <2>1, AnswerFacts DEF WaitInv, Answer
    <3>4. IF Answer = "ack"
            THEN /\ check_frame' = TRUE /\ own' = TRUE
                 /\ start_OK' = start_OK /\ index' = index
            ELSE /\ start_OK' = TRUE /\ check_frame' = FALSE
                 /\ index' \in 1 .. MAX_BUFFER - 2
                 /\ buffer_PLC' = [Cleared EXCEPT ![index'] = p]
                 /\ Room(3) /\ MAX_BUFFER >= 4 => index' + 3 <= MAX_BUFFER
      BY <1>1, <1>2, <2>1, <3>2, <3>3, BeginHeard
    <3>5. CASE Answer = "ack"
      <4>1. line' = <<>>
        BY <1>3, <2>1, <3>1, <3>5, SaysFacts DEF Answer
      <4>2. ~start_OK'
        BY <3>3, <3>4, <3>5
      <4>3. Ended'
        BY <1>3, <3>4, <3>5, <4>1, <4>2 DEF Ended, Room
      <4>4. WaitInv'
        BY <1>1, <1>3, <1>6, <2>1, <4>2, <4>3 DEF WaitInv
      <4> QED BY <1>4, <2>4, <4>4 DEF IInv
    <3>6. CASE Answer # "ack"
      <4>1. \/ Len(says) = 1 /\ line' = <<>>
            \/ line' = <<Own(Answer, "end")>>
            \/ Answer = "value" /\ \E b \in Bcc : line' = <<Own(Answer, "end"), b>>
        BY <1>3, <2>1, <3>1, SaysFacts DEF Answer
      <4>2. line' = <<>> => Room(2)'
        <5>1. line' = <<>> => Len(says) = 1
          BY <4>1
        <5>2. line' = <<>> => index' + 3 <= MAX_BUFFER
          BY <2>2, <3>4, <3>6, <5>1
        <5>3. index' + 3 = index' + 2 + 1
          BY <1>1, <3>4, <3>6
        <5> QED BY <5>2, <5>3 DEF Room
      <4>3. Len(line') = 2 => Answer = "value"
        <5>1. Len(<<>>) = 0 /\ Len(<<Own(Answer, "end")>>) = 1
          OBVIOUS
        <5>2. Len(line') \in {0, 1} \/ Answer = "value"
          BY <4>1, <5>1
        <5> QED BY <5>2
      <4>4. Begun'
        BY <1>3, <3>2, <3>4, <3>6, <4>1, <4>2, <4>3 DEF Begun, Cleared
      <4>5. pc \notin {"password", "write"}
        BY <2>1, <3>6, AnswerFacts DEF Answer
      <4>6. WaitInv'
        BY <1>1, <1>3, <1>6, <2>1, <4>4, <4>5 DEF WaitInv
      <4> QED BY <1>4, <2>4, <4>6 DEF IInv
    <3> QED BY <3>5, <3>6
  <2> QED BY <2>5, <2>6
<1>7. CASE pc # "idle" /\ ~asked /\ Begun
  <2>1. pc \in Waits /\ Listening /\ Answer \in Answers
    BY <1>1, <1>7, AnswerFacts DEF TypeOK, WaitInv, Answer
  <2>2. p = Own(Answer, "end") /\ line' \in Left
        /\ (Answer # "value" => line' = <<>>)
    <3>1. CASE line = <<Own(Answer, "end")>>
      BY <1>3, <3>1 DEF p, Left
    <3>2. CASE \E b \in Bcc : line = <<Own(Answer, "end"), b>>
      <4>1. PICK b \in Bcc : line = <<Own(Answer, "end"), b>>
        BY <3>2
      <4>2. Len(line) = 2 /\ Head(line) = Own(Answer, "end") /\ Tail(line) = <<b>>
        BY <4>1
      <4> QED BY <1>3, <1>7, <4>2 DEF p, Left, Begun
    <3> QED BY <1>3, <1>7, <3>1, <3>2 DEF Begun
  <2>3. /\ check_frame' = TRUE /\ start_OK' = FALSE
        /\ \E k \in 1 .. MAX_BUFFER - 1 :
             buffer_PLC' = [Cleared EXCEPT ![k] = Own(Answer, "begin"), ![k + 1] = p]
    BY <1>1, <1>2, <1>7, <2>1, <2>2, EndHeard
  <2>4. Ended'
    BY <1>3, <1>7, <2>2, <2>3 DEF Ended, Cleared, Room, Begun
  <2>5. TypeOK'
    <3>1. start_OK => index < MAX_BUFFER
      BY <1>1, <1>7 DEF Begun
    <3> QED BY <1>1, <3>1, IsrTypeOK
  <2>6. WaitInv'
    BY <1>1, <1>3, <1>7, <2>1, <2>3, <2>4 DEF WaitInv
  <2> QED BY <1>4, <2>5, <2>6 DEF IInv
<1>8. CASE pc # "idle" /\ ~asked /\ Ended /\ line \notin Left
  BY <1>3, <1>8 DEF Ended, Left
<1> QED BY <1>1, <1>5, <1>6, <1>7, <1>8 DEF WaitInv

LEMMA StepInv == ASSUME ~Late, IInv, [Next]_vars PROVE IInv'
<1>1. CASE Next
  BY <1>1, MainLoopInv, IsrInv, MeterAnswersInv DEF Next
<1>2. CASE UNCHANGED vars
  <2>1. IInv
    OBVIOUS
  <2> QED BY <1>2, <2>1
          DEF IInv, TypeOK, WaitInv, RightOrNone, NotBegun, Begun, Ended,
              Listening, Room, Answer, vars, settings, isr, history
<1> QED BY <1>1, <1>2

LEMMA InvHolds == ASSUME ~Late PROVE Spec => []IInv
<1>1. IInv /\ [Next]_vars => IInv'
  BY StepInv
<1> QED BY <1>1, InitInv, PTL DEF Spec

(***************************************************************************)
(* No value and no acknowledgement is taken that belongs to an earlier     *)
(* command or is put together from parts of two, although the interrupt    *)
(* keeps its place in the buffer from one wait to the next.                *)
(***************************************************************************)
THEOREM RightOrNoneHolds == ASSUME ~Late PROVE Spec => []RightOrNone
<1>1. IInv => RightOrNone
  BY DEF IInv
<1> QED BY <1>1, InvHolds, PTL

(***************************************************************************)
(* The interrupt is never in the middle of an answer when an ACK comes.    *)
(***************************************************************************)
THEOREM AckHeardHolds == ASSUME ~Late PROVE Spec => []AckHeard
<1>1. IInv => AckHeard
  BY DEF IInv, WaitInv, AckHeard
<1> QED BY <1>1, InvHolds, PTL

(***************************************************************************)
(* The stages in which an answer is heard, in every wait of a session; the *)
(* interrupt's index never reaches the end of the buffer.                  *)
(***************************************************************************)
THEOREM HeardInvHolds == Spec => []HeardInv
<1>1. CASE Late
  <2>1. HeardInv
    BY <1>1 DEF HeardInv
  <2> QED BY <2>1, PTL
<1>2. CASE ~Late
  <2>1. IInv => HeardInv
    BY DEF IInv, HeardInv
  <2> QED BY <1>2, <2>1, InvHolds, PTL
<1> QED BY <1>1, <1>2

-----------------------------------------------------------------------------
(***************************************************************************)
(* The interrupt finds the beginning of an answer again.  It is misplaced  *)
(* when it takes itself to be in the middle of an answer, behind the first *)
(* place of the buffer: what comes then is not found by check_buffer().    *)
(* WholeInv says that it is so only behind an answer that did not come     *)
(* whole, and that the end of the next answer puts it right.               *)
(***************************************************************************)
Misplaced == start_OK /\ index # 0
EndComing == \E k \in 1 .. Len(line) : line[k] = Own(Answer, "end")
AtFront(a) ==
  buffer_PLC = [Cleared EXCEPT ![1] = Own(a, "begin"), ![2] = Own(a, "end")]

WholeInv ==
  /\ pc = "idle" => (Misplaced => ~whole)
  /\ pc # "idle" /\ asked => ~whole
  /\ pc # "idle" /\ ~check_frame =>
       /\ buffer_PLC = Cleared => (Misplaced => ~wholeBefore)
       /\ buffer_PLC # Cleared => (index # 1 => ~wholeBefore)
       /\ ~asked /\ Answer # "ack" => (whole => EndComing)
  /\ pc # "idle" /\ check_frame =>
       ~Misplaced /\ (wholeBefore => AtFront(Answer) \/ Answer = "ack")
\* A wait begins, or a session ends, behind an answer that has left the
\* interrupt where it was.
LEMMA AskWhole ==
  ASSUME TypeOK, line \in Left, Room(2), NEW wait \in Waits, Ask(wait),
         Misplaced => ~whole
  PROVE  WholeInv'
<1>1. /\ pc' = wait /\ asked' = TRUE /\ check_frame' = FALSE
      /\ buffer_PLC' = Cleared /\ whole' = FALSE /\ wholeBefore' = whole
      /\ start_OK' = start_OK /\ index' = index
  BY AskFacts
<1>2. wait # "idle" /\ Cleared' = Cleared
  BY DEF Waits, Cleared
<1> QED BY <1>1, <1>2 DEF WholeInv, Misplaced

LEMMA ReturnWhole ==
  ASSUME Return, Misplaced => ~whole PROVE WholeInv'
BY DEF Return, isr, WholeInv, Misplaced

LEMMA NextCodeWhole ==
  ASSUME IInv, line \in Left, Room(2), NextCode, pc \in Waits, Misplaced => ~whole
  PROVE  WholeInv'
BY AskWhole, ReturnWhole DEF NextCode, IInv

LEMMA FirstCodeWhole ==
  ASSUME IInv, line \in Left, Room(2), FirstCode, Misplaced => ~whole
  PROVE  WholeInv'
<1>1. {"read", "write"} \subseteq Waits
  BY DEF Waits
<1> QED BY <1>1, AskWhole, ReturnWhole DEF FirstCode, IInv

\* What a wait leaves that runs out, and one that ends with an answer.
LEMMA RunOutWhole ==
  ASSUME ~Late, IInv, WholeInv, pc # "idle", TimedOut, ~check_frame
  PROVE  ~whole
<1>1. line = <<>> /\ pc \in Waits
  BY DEF TimedOut, IInv, TypeOK
<1>2. CASE asked
  BY <1>2 DEF WholeInv
<1>3. CASE ~asked
  <2>1. ~EndComing
    BY <1>1 DEF EndComing
  <2>2. NotBegun \/ Begun
    BY <1>3 DEF IInv, WaitInv, Ended
  <2>3. ~NotBegun
    <3>1. ASSUME NEW left \in Left, NEW says \in Says(Answer)
          PROVE  line # left \o says
      <4>1. /\ says \in Seq(Part \cup Bcc) /\ says # <<>>
            /\ left \in Seq(Part \cup Bcc)
        BY <1>1, SaysFacts, LeftFacts DEF Answer
      <4>2. Len(left \o says) = Len(left) + Len(says) /\ Len(says) # 0
            /\ Len(left) \in Nat /\ Len(says) \in Nat
        BY <4>1
      <4>3. Len(left \o says) # 0 /\ Len(<<>>) = 0
        BY <4>2
      <4> QED BY <1>1, <4>3
    <3> QED BY <3>1 DEF NotBegun
  <2> QED BY <1>3, <2>1, <2>2, <2>3 DEF WholeInv, Begun
<1> QED BY <1>2, <1>3

LEMMA MainLoopWhole ==
  ASSUME ~Late, IInv, WholeInv, MainLoop
  PROVE  WholeInv'
<1>1. pc # "idle" /\ check_frame => (Misplaced => ~whole) /\ line \in Left /\ Room(2)
  BY Answered DEF WholeInv
<1>2. pc # "idle" /\ TimedOut /\ ~check_frame => ~whole /\ line \in Left /\ Room(2)
  BY RunOut, RunOutWhole
<1>3. TypeOK /\ {"identification", "operands", "password"} \subseteq Waits
  BY DEF IInv, Waits
<1>4. CASE Begin
  <2>1. line \in Left /\ Room(2) /\ (Misplaced => ~whole)
    BY <1>4 DEF Begin, IInv, WaitInv, WholeInv
  <2> QED BY <1>3, <1>4, <2>1, AskWhole DEF Begin
<1>5. CASE SignInAgain
  BY <1>2, <1>3, <1>5, AskWhole DEF SignInAgain
<1>6. CASE SignInGoesOn
  BY <1>1, <1>3, <1>6, AskWhole DEF SignInGoesOn
<1>7. CASE SignInDone
  BY <1>1, <1>7, FirstCodeWhole DEF SignInDone
<1>8. CASE SignInFails
  BY <1>2, <1>8, FirstCodeWhole, ReturnWhole DEF SignInFails
<1>9. CASE ReadAnswered \/ WriteAnswered
  <2>1. pc \in {"read", "write"} /\ check_frame /\ NextCode
    BY <1>9 DEF ReadAnswered, WriteAnswered
  <2> QED BY <1>1, <2>1, NextCodeWhole DEF Waits
<1>10. CASE CodeTimesOut
  <2>1. pc \in {"read", "write"} /\ TimedOut /\ ~check_frame
    BY <1>10 DEF CodeTimesOut
  <2> QED BY <1>2, <1>10, <2>1, NextCodeWhole, ReturnWhole DEF CodeTimesOut, Waits
<1> QED BY <1>4, <1>5, <1>6, <1>7, <1>8, <1>9, <1>10 DEF MainLoop

LEMMA MeterAnswersWhole ==
  ASSUME IInv, WholeInv, MeterAnswers PROVE WholeInv'
<1>1. TypeOK /\ pc \in Waits /\ pc # "idle" /\ asked
  BY DEF IInv, TypeOK, MeterAnswers
<1>2. line \in Seq(Part \cup Bcc) /\ buffer_PLC = Cleared /\ ~check_frame
  BY <1>1 DEF IInv, WaitInv, TypeOK
<1>3. PICK says \in Says(Answer) :
        line' = line \o says /\ whole' = (Answer = "ack" \/ Len(says) > 1)
  BY DEF MeterAnswers, Answer
<1>4. /\ pc' = pc /\ index' = index /\ start_OK' = start_OK
      /\ check_frame' = check_frame /\ buffer_PLC' = buffer_PLC
      /\ wholeBefore' = wholeBefore /\ Answer' = Answer /\ Cleared' = Cleared
  BY DEF MeterAnswers, isr, Answer, Cleared
<1>5. ASSUME Answer # "ack", whole' PROVE EndComing'
  <2>1. says \in Seq(Part \cup Bcc) /\ Len(says) > 1
    BY <1>1, <1>3, <1>5, SaysFacts DEF Answer
  <2>2. \/ Tail(says) = <<Own(Answer, "end")>>
        \/ \E b \in Bcc : Tail(says) = <<Own(Answer, "end"), b>>
    <3>1. Len(says) \in Nat /\ \A m \in Nat : m > 1 => m # 1
      BY <2>1
    <3>2. Len(says) # 1
      BY <2>1, <3>1, Zenon
    <3> QED BY <1>1, <3>2, SaysFacts DEF Answer
  <2>3. Tail(says)[1] = says[2]
    BY <2>1
  <2>4. says[2] = Own(Answer, "end")
    <3>1. \A x, y : <<x>>[1] = x /\ <<x, y>>[1] = x
      OBVIOUS
    <3> QED BY <2>2, <2>3, <3>1, Zenon
  <2>5. Len(line) + 2 \in 1 .. Len(line') /\ line'[Len(line) + 2] = says[2]
    BY <1>2, <1>3, <2>1
  <2> QED BY <1>4, <2>4, <2>5 DEF EndComing
<1>6. Misplaced => ~wholeBefore
  BY <1>1, <1>2 DEF WholeInv
<1>7. Misplaced' => ~wholeBefore'
  BY <1>4, <1>6 DEF Misplaced
<1>8. pc' # "idle" /\ ~asked' /\ ~check_frame' /\ buffer_PLC' = Cleared'
  BY <1>1, <1>2, <1>4 DEF MeterAnswers
<1> QED BY <1>4, <1>5, <1>7, <1>8, Zenon DEF WholeInv

LEMMA IsrWhole ==
  ASSUME IInv, WholeInv, myUart0_ISR PROVE WholeInv'
<1> DEFINE p == Head(line)
<1>1. TypeOK /\ WaitInv /\ line \in Seq(Part \cup Bcc)
  BY DEF IInv, TypeOK
<1>2. HearStart(p) \/ HearNothing(p) \/ HearMore(p) \/ HearStop(p)
  BY DEF myUart0_ISR
<1>3. /\ pc' = pc /\ asked' = asked /\ whole' = whole /\ wholeBefore' = wholeBefore
      /\ Answer' = Answer /\ line' = Tail(line) /\ line # <<>> /\ Cleared' = Cleared
  BY IsrKeeps DEF Cleared
<1>4. p # Own(Answer, "end") => (EndComing => EndComing')
  <2> SUFFICES ASSUME p # Own(Answer, "end"), EndComing PROVE EndComing'
    OBVIOUS
  <2>1. PICK k \in 1 .. Len(line) : line[k] = Own(Answer, "end")
    BY DEF EndComing
  <2>2. k # 1
    BY <1>1, <1>3, <2>1
  <2>3. k - 1 \in 1 .. Len(line') /\ line'[k - 1] = line[k]
    BY <1>1, <1>3, <2>1, <2>2
  <2> QED BY <1>3, <2>1, <2>3 DEF EndComing
<1>5. pc # "idle" => Answer \in Answers
  BY <1>1, AnswerFacts DEF TypeOK, Answer
<1> HIDE DEF p
<1>6. CASE /\ p \in Bcc
           /\ pc # "idle" => ~stop_frame_immediately
           /\ pc # "idle" /\ ~check_frame => buffer_PLC = Cleared
  <2>1. /\ buffer_PLC' = buffer_PLC
        /\ \/ start_OK' = start_OK /\ index' = index
           \/ start_OK' = TRUE /\ index' = 0
        /\ ~stop_frame_immediately => check_frame' = check_frame
    BY <1>1, <1>2, <1>6, BccHeard
  <2>2. Misplaced' => Misplaced
    BY <2>1 DEF Misplaced
  <2>3. pc # "idle" => (EndComing => EndComing')
    BY <1>4, <1>5, <1>6, BccFacts, PartFacts
  <2>4. pc # "idle" => (AtFront(Answer) => AtFront(Answer)')
    BY <1>3, <2>1 DEF AtFront
  <2>5. CASE pc = "idle" \/ asked
    BY <1>3, <1>6, <2>1, <2>2, <2>4, <2>5 DEF WholeInv
  <2>6. CASE pc # "idle" /\ ~asked /\ ~check_frame
    <3>1. ~check_frame' /\ buffer_PLC' = Cleared'
      BY <1>3, <1>6, <2>1, <2>6
    <3>2. Misplaced' => ~wholeBefore
      BY <1>6, <2>2, <2>6 DEF WholeInv
    <3>3. Answer # "ack" => (whole => EndComing')
      BY <2>3, <2>6 DEF WholeInv
    <3> QED BY <1>3, <2>6, <3>1, <3>2, <3>3, Zenon DEF WholeInv
  <2>7. CASE pc # "idle" /\ ~asked /\ check_frame
    <3>1. check_frame' /\ ~Misplaced'
      BY <1>6, <2>1, <2>2, <2>7 DEF WholeInv
    <3>2. wholeBefore => AtFront(Answer)' \/ Answer = "ack"
      BY <2>4, <2>7 DEF WholeInv
    <3> QED BY <1>3, <2>7, <3>1, <3>2, Zenon DEF WholeInv
  <2> QED BY <2>5, <2>6, <2>7
<1>7. CASE pc # "idle" /\ ~asked /\ NotBegun /\ p = Own(Answer, "begin")
  <2>1. pc \in Waits /\ Listening /\ Room(2) /\ buffer_PLC = Cleared
        /\ ~check_frame
    BY <1>1, <1>7 DEF TypeOK, WaitInv, NotBegun
  <2>2. Answer = "ack" => ~start_OK
    BY <1>1, <2>1, AnswerFacts DEF WaitInv, Answer
  <2>3. IF Answer = "ack"
          THEN check_frame' = TRUE /\ start_OK' = start_OK
          ELSE /\ start_OK' = TRUE /\ check_frame' = FALSE
               /\ index' \in 1 .. MAX_BUFFER - 2
               /\ buffer_PLC' = [Cleared EXCEPT ![index'] = p]
               /\ index' = IF start_OK THEN index + 1 ELSE 1
    BY <1>1, <1>2, <1>7, <2>1, <2>2, BeginHeard
  <2>4. CASE Answer = "ack"
    BY <1>3, <2>2, <2>3, <2>4 DEF WholeInv, Misplaced
  <2>5. CASE Answer # "ack"
    <3>1. index' # 1 => ~wholeBefore
      <4>1. index' # 1 => Misplaced
        BY <1>1, <2>3, <2>5, MeterAssumption DEF TypeOK, Misplaced
      <4> QED BY <1>7, <2>1, <4>1 DEF WholeInv
    <3>2. whole => EndComing'
      <4>1. p # Own(Answer, "end")
        BY <1>5, <1>7, PartFacts
      <4> QED BY <1>4, <1>7, <2>1, <2>5, <4>1 DEF WholeInv
    <3>3. buffer_PLC' # Cleared
      <4>1. buffer_PLC'[index'] = p /\ p # Zero
        BY <1>5, <1>7, <2>3, <2>5, PartFacts, MeterAssumption DEF Cleared
      <4>2. Cleared[index'] = Zero
        BY <2>3, <2>5, MeterAssumption DEF Cleared
      <4> QED BY <4>1, <4>2
    <3> QED BY <1>3, <1>7, <2>3, <2>5, <3>1, <3>2, <3>3 DEF WholeInv
  <2> QED BY <2>4, <2>5
<1>8. CASE pc # "idle" /\ ~asked /\ Begun /\ p = Own(Answer, "end")
  <2>1. pc \in Waits /\ Listening
    BY <1>1, <1>8 DEF TypeOK, WaitInv
  <2>2. /\ check_frame' = TRUE /\ start_OK' = FALSE
        /\ buffer_PLC' = [Cleared EXCEPT ![index] = Own(Answer, "begin"),
                                         ![index + 1] = p]
    BY <1>1, <1>2, <1>8, <2>1, EndHeard
  <2>3. wholeBefore => index = 1
    <3>1. buffer_PLC # Cleared
      <4>1. buffer_PLC[index] = Own(Answer, "begin") /\ Cleared[index] = Zero
        BY <1>8, MeterAssumption DEF Begun, Cleared
      <4> QED BY <1>5, <1>8, <4>1, PartFacts
    <3> QED BY <1>8, <3>1 DEF WholeInv, Begun
  <2>4. wholeBefore => AtFront(Answer)'
    BY <1>3, <1>8, <2>2, <2>3 DEF AtFront
  <2> QED BY <1>3, <1>8, <2>2, <2>4 DEF WholeInv, Misplaced
<1>9. CASE line \in Left /\ (pc = "idle" \/ asked \/ Ended)
  <2>1. p \in Bcc
    BY <1>3, <1>9, LeftFacts DEF p
  <2>2. pc # "idle" => Answer \in {"identification", "value"} /\ Listening
    BY <1>1, <1>3, <1>9, AnswerFacts DEF TypeOK, WaitInv, Answer, Ended
  <2>3. pc # "idle" => ~stop_frame_immediately
    BY <2>2 DEF Listening
  <2>4. pc # "idle" /\ ~check_frame => buffer_PLC = Cleared
    BY <1>1, <1>9 DEF WaitInv, Ended
  <2> QED BY <1>6, <2>1, <2>3, <2>4
<1>10. CASE pc # "idle" /\ ~asked /\ NotBegun
  <2>1. pc \in Waits /\ Listening /\ buffer_PLC = Cleared
    BY <1>1, <1>10 DEF TypeOK, WaitInv, NotBegun
  <2>2. PICK left \in Left, says \in Says(Answer) :
          /\ line = left \o says
          /\ pc \notin {"identification", "read"} => left = <<>>
    BY <1>10 DEF NotBegun
  <2>3. says \in Seq(Part \cup Bcc)
    BY <2>1, SaysFacts DEF Answer
  <2>4. CASE left # <<>>
    <3>1. PICK b \in Bcc : left = <<b>>
      BY <2>4, LeftFacts
    <3>2. b \in Part \cup Bcc
      OBVIOUS
    <3>3. p = b
      BY <2>2, <2>3, <3>1, <3>2, FrontFacts DEF p
    <3>4. ~stop_frame_immediately
      BY <2>1, <2>2, <2>4, AnswerFacts DEF Listening, Answer
    <3> QED BY <1>6, <2>1, <3>3, <3>4
  <2>5. CASE left = <<>>
    <3>1. line = says
      BY <2>2, <2>3, <2>5, FrontFacts
    <3>2. p = Own(Answer, "begin")
      BY <2>1, <3>1, SaysFacts DEF p, Answer
    <3> QED BY <1>7, <1>10, <3>2
  <2> QED BY <2>4, <2>5
<1>11. CASE pc # "idle" /\ ~asked /\ Begun
  <2>1. CASE line = <<Own(Answer, "end")>>
    BY <1>8, <1>11, <2>1 DEF p
  <2>2. CASE \E b \in Bcc : line = <<Own(Answer, "end"), b>>
    <3>1. PICK b \in Bcc : line = <<Own(Answer, "end"), b>>
      BY <2>2
    <3>2. Head(line) = Own(Answer, "end")
      BY <3>1
    <3> QED BY <1>8, <1>11, <3>2 DEF p
  <2> QED BY <1>3, <1>11, <2>1, <2>2 DEF Begun
<1>12. pc = "idle" \/ asked => line \in Left
  BY <1>1 DEF WaitInv
<1>13. Ended => line \in Left
  BY DEF Ended, Left
<1> QED BY <1>1, <1>9, <1>10, <1>11, <1>12, <1>13 DEF WaitInv

LEMMA WholeHolds == ASSUME ~Late PROVE Spec => [](IInv /\ WholeInv)
<1>1. Init => WholeInv
  BY DEF Init, WholeInv, Misplaced
<1>2. IInv /\ WholeInv /\ [Next]_vars => WholeInv'
  <2> SUFFICES ASSUME IInv, WholeInv, [Next]_vars PROVE WholeInv'
    OBVIOUS
  <2>1. CASE UNCHANGED vars
    BY <2>1 DEF vars, isr, history, WholeInv, Misplaced, EndComing, AtFront,
       Answer, Cleared
  <2> QED BY <2>1, MainLoopWhole, IsrWhole, MeterAnswersWhole DEF Next
<1>3. IInv /\ [Next]_vars => IInv'
  BY StepInv
<1> QED BY <1>1, <1>2, <1>3, InitInv, PTL DEF Spec

(***************************************************************************)
(* An answer that was cut off costs no more than itself and the next one:  *)
(* a code whose answer came whole, like the answer before it, is read or   *)
(* written with its own value, whatever was cut off or lost earlier.       *)
(***************************************************************************)
THEOREM ResynchronisedHolds == ASSUME ~Late PROVE Spec => Resynchronised
<1>1. ASSUME IInv, WholeInv, ReadAnswered \/ WriteAnswered \/ CodeTimesOut
      PROVE  taken' = "right" \/ ~whole \/ ~wholeBefore
  <2>1. CASE ReadAnswered
    <3>1. pc = "read" /\ check_frame /\ taken' = check_buffer
      BY <2>1 DEF ReadAnswered
    <3>2. Answer = "value"
      BY <3>1 DEF Answer, AnswerTo
    <3>3. wholeBefore => AtFront("value")
      BY <1>1, <3>1, <3>2 DEF WholeInv, AtFront
    <3>4. 1 \in 1 .. MAX_BUFFER - 1 /\ 1 + 1 = 2
      BY MeterAssumption
    <3> QED BY <3>1, <3>3, <3>4, ValueFound DEF AtFront
  <2>2. CASE WriteAnswered
    <3>1. pc = "write" /\ check_frame /\ taken' = IF own THEN "right" ELSE "wrong"
      BY <2>2 DEF WriteAnswered
    <3>2. Answer = "ack"
      BY <3>1 DEF Answer, AnswerTo
    <3>3. Ended
      BY <1>1, <3>1, Answered
    <3> QED BY <3>1, <3>2, <3>3 DEF Ended
  <2>3. CASE CodeTimesOut
    BY <1>1, <2>3, RunOutWhole DEF CodeTimesOut
  <2> QED BY <1>1, <2>1, <2>2, <2>3, Zenon
<1>2. IInv /\ WholeInv =>
        [ReadAnswered \/ WriteAnswered \/ CodeTimesOut =>
           taken' = "right" \/ ~whole \/ ~wholeBefore]_vars
  BY <1>1
<1> QED BY <1>2, WholeHolds, PTL DEF Resynchronised

-----------------------------------------------------------------------------
(***************************************************************************)
(* How far a session is from its end: the part of the session, the codes   *)
(* left, whether the meter has still to answer, and what is on the line.   *)
(* What comes first weighs most.                                           *)
(***************************************************************************)
Stage == IF pc = "identification" THEN 4 ELSE IF pc = "operands" THEN 3
         ELSE IF pc = "password" THEN 2 ELSE IF pc = "idle" THEN 0 ELSE 1

Rank == <<Stage, n - i, IF asked THEN 1 ELSE 0, Len(line)>>

Before(r, s) ==
  \E k \in 1 .. 4 : r[k] < s[k] /\ \A j \in 1 .. k - 1 : r[j] = s[j]

CountInv ==
  /\ pc \in Waits \cup {"idle"}
  /\ n \in Nat /\ i \in 0 .. n /\ asked \in BOOLEAN
  /\ pc \in {"read", "write"} \/ i = 0
  /\ line \in Seq(Part \cup Bcc)

LEMMA RankFacts == ASSUME CountInv PROVE Rank \in [1 .. 4 -> Nat]
<1>1. Stage \in Nat /\ n - i \in Nat /\ Len(line) \in Nat
      /\ (IF asked THEN 1 ELSE 0) \in Nat
  BY DEF CountInv, Stage, Waits
<1> QED BY <1>1 DEF Rank

\* A smaller component counts if those before it are the same.
LEMMA Smaller ==
  /\ Stage' < Stage => Before(Rank', Rank)
  /\ Stage' = Stage /\ n' - i' < n - i => Before(Rank', Rank)
  /\ Stage' = Stage /\ n' = n /\ i' = i /\ asked /\ ~asked' => Before(Rank', Rank)
  /\ Stage' = Stage /\ n' = n /\ i' = i /\ (asked' <=> asked) /\ Len(line') < Len(line)
       => Before(Rank', Rank)
<1> DEFINE a == IF asked THEN 1 ELSE 0
           b == IF asked' THEN 1 ELSE 0
<1>1. /\ Rank[1] = Stage /\ Rank[2] = n - i /\ Rank[3] = a /\ Rank[4] = Len(line)
      /\ Rank'[1] = Stage' /\ Rank'[2] = n' - i' /\ Rank'[3] = b
      /\ Rank'[4] = Len(line')
  BY DEF Rank
<1>2. 1 .. 1 - 1 = {} /\ 1 .. 2 - 1 = {1} /\ 1 .. 3 - 1 = {1, 2}
      /\ 1 .. 4 - 1 = {1, 2, 3} /\ 1 .. 4 = {1, 2, 3, 4}
  OBVIOUS
<1>3. (asked /\ ~asked' => b < a) /\ ((asked' <=> asked) => b = a)
  OBVIOUS
<1> HIDE DEF a, b
<1>4. ASSUME NEW k \in {1, 2, 3, 4}, Rank'[k] < Rank[k],
             \A j \in 1 .. k - 1 : Rank'[j] = Rank[j]
      PROVE  Before(Rank', Rank)
  BY <1>2, <1>4 DEF Before
<1>5. Stage' < Stage => Before(Rank', Rank)
  BY <1>1, <1>2, <1>4
<1>6. Stage' = Stage /\ n' - i' < n - i => Before(Rank', Rank)
  BY <1>1, <1>2, <1>4
<1>7. Stage' = Stage /\ n' = n /\ i' = i /\ b < a => Before(Rank', Rank)
  BY <1>1, <1>2, <1>4
<1>8. Stage' = Stage /\ n' = n /\ i' = i /\ b = a /\ Len(line') < Len(line)
        => Before(Rank', Rank)
  BY <1>1, <1>2, <1>4
<1> QED BY <1>3, <1>5, <1>6, <1>7, <1>8

LEMMA AskCounts ==
  ASSUME CountInv, NEW wait \in Waits, Ask(wait)
  PROVE  pc' = wait /\ asked' = TRUE /\ line' \in Seq(Part \cup Bcc)
<1>1. \A k \in DOMAIN line : [line[k] EXCEPT !.own = FALSE] \in Part \cup Bcc
  <2> SUFFICES ASSUME NEW k \in DOMAIN line
               PROVE  [line[k] EXCEPT !.own = FALSE] \in Part \cup Bcc
    OBVIOUS
  <2>1. line[k] \in Part \/ line[k] \in Bcc
    BY DEF CountInv
  <2> QED BY <2>1 DEF Part, Bcc
<1>2. line' = [k \in DOMAIN line |-> [line[k] EXCEPT !.own = FALSE]]
  BY DEF Ask
<1>3. DOMAIN line = 1 .. Len(line) /\ Len(line) \in Nat
  BY DEF CountInv
<1> QED BY <1>1, <1>2, <1>3 DEF Ask

\* What a session goes on with: the next code, or nothing more.
LEMMA NextCodeCloser ==
  ASSUME CountInv, NextCode, n' = n, pc \in {"read", "write"}
  PROVE  CountInv' /\ Before(Rank', Rank)
<1>1. Stage = 1 /\ n \in Nat /\ i \in 0 .. n
  BY DEF Stage, CountInv
<1>2. CASE i < n /\ i' = i + 1 /\ Ask(pc)
  <2>1. pc' = pc /\ CountInv'
    <3>1. pc' = pc /\ asked' = TRUE /\ line' \in Seq(Part \cup Bcc)
      BY <1>2, AskCounts DEF Waits
    <3> QED BY <1>1, <1>2, <3>1 DEF CountInv
  <2>2. Stage' = Stage /\ n' - i' < n - i
    BY <1>1, <1>2, <2>1 DEF Stage
  <2> QED BY <2>1, <2>2, Smaller
<1>3. CASE Return
  <2>1. Stage' = 0 /\ CountInv'
    BY <1>1, <1>3 DEF Return, isr, Stage, CountInv
  <2> QED BY <2>1, <1>1, Smaller
<1> QED BY <1>2, <1>3 DEF NextCode

LEMMA FirstCodeCloser ==
  ASSUME CountInv, FirstCode \/ Return, n' = n, pc \in Waits \ {"read"}, pc # "write"
  PROVE  CountInv' /\ Before(Rank', Rank)
<1>1. Stage > 1 /\ n \in Nat
  BY DEF Stage, CountInv, Waits
<1>2. CASE Return
  <2>1. Stage' = 0 /\ CountInv'
    BY <1>1, <1>2 DEF Return, isr, Stage, CountInv
  <2>2. Stage' < Stage
    BY <1>1, <2>1 DEF Stage
  <2> QED BY <2>1, <2>2, Smaller
<1>3. CASE n # 0 /\ i' = 1 /\ Ask(IF job = "write" THEN "write" ELSE "read")
  <2> DEFINE w == IF job = "write" THEN "write" ELSE "read"
  <2>1. w \in Waits /\ w \in {"read", "write"} /\ Ask(w)
    BY <1>3 DEF Waits
  <2> HIDE DEF w
  <2>2. pc' = w /\ asked' = TRUE /\ line' \in Seq(Part \cup Bcc)
    BY <2>1, AskCounts
  <2>3. CountInv'
    BY <1>1, <1>3, <2>1, <2>2 DEF CountInv
  <2>4. Stage' = 1 /\ Stage' < Stage
    BY <1>1, <2>1, <2>2 DEF Stage
  <2> QED BY <2>3, <2>4, Smaller
<1> QED BY <1>2, <1>3 DEF FirstCode

LEMMA CountStep ==
  ASSUME CountInv, Next
  PROVE  CountInv' /\ (Begin \/ SignInAgain \/ Before(Rank', Rank))
<1>1. CASE Begin
  <2>1. n' \in Nat /\ i' = 0
    BY <1>1, MeterAssumption DEF Begin, CountInv
  <2>2. /\ pc' = "identification" /\ asked' = TRUE
        /\ line' \in Seq(Part \cup Bcc)
    BY <1>1, AskCounts DEF Begin, Waits
  <2> QED BY <1>1, <2>1, <2>2 DEF CountInv, Waits
<1>2. CASE SignInAgain
  BY <1>2, AskCounts DEF SignInAgain, CountInv, Waits
<1>3. CASE SignInGoesOn
  <2>1. UNCHANGED <<n, i>> /\ CountInv'
    BY <1>3, AskCounts DEF SignInGoesOn, CountInv, Waits
  <2>2. \/ pc = "identification" /\ pc' = "operands"
        \/ pc = "operands" /\ pc' = "password"
    BY <1>3, AskCounts DEF SignInGoesOn, Waits
  <2>3. Stage' < Stage
    BY <2>2 DEF Stage
  <2> QED BY <2>1, <2>3, Smaller
<1>4. CASE SignInDone \/ SignInFails
  BY <1>4, FirstCodeCloser DEF SignInDone, SignInFails, Waits
<1>5. CASE ReadAnswered \/ WriteAnswered \/ CodeTimesOut
  <2>1. n' = n /\ pc \in {"read", "write"} /\ (NextCode \/ Return)
    BY <1>5 DEF ReadAnswered, WriteAnswered, CodeTimesOut
  <2>2. CASE NextCode
    BY <2>1, <2>2, NextCodeCloser
  <2>3. CASE Return
    <3>1. Stage' = 0 /\ Stage = 1 /\ CountInv'
      BY <2>1, <2>3 DEF Return, isr, Stage, CountInv
    <3> QED BY <3>1, Smaller
  <2> QED BY <2>1, <2>2, <2>3
<1>6. CASE myUart0_ISR
  <2>1. UNCHANGED <<pc, n, i, asked>> /\ line' = Tail(line) /\ line # <<>>
    BY <1>6, IsrKeeps
  <2>2. line' \in Seq(Part \cup Bcc) /\ Len(line') = Len(line) - 1
        /\ Len(line) \in Nat
    BY <2>1, TailTyped DEF CountInv
  <2>3. Stage' = Stage /\ CountInv' /\ Len(line') < Len(line)
    BY <2>1, <2>2 DEF Stage, CountInv
  <2> QED BY <2>1, <2>3, Smaller
<1>7. CASE MeterAnswers
  <2>1. UNCHANGED <<pc, n, i>> /\ asked /\ asked' = FALSE
    BY <1>7 DEF MeterAnswers
  <2>2. Stage' = Stage
    BY <2>1 DEF Stage
  <2>3. PICK says \in Says(AnswerTo(pc)) : line' = line \o says
    BY <1>7 DEF MeterAnswers
  <2>4. says \in Seq(Part \cup Bcc)
    <3>1. pc \in Waits
      BY <1>7 DEF MeterAnswers, CountInv
    <3> QED BY <3>1, SaysFacts, AnswerFacts
  <2>5. line' \in Seq(Part \cup Bcc)
    BY <2>3, <2>4 DEF CountInv
  <2>6. CountInv'
    BY <2>1, <2>5 DEF CountInv
  <2> QED BY <2>1, <2>2, <2>6, Smaller
<1> QED BY <1>1, <1>2, <1>3, <1>4, <1>5, <1>6, <1>7 DEF Next, MainLoop

(***************************************************************************)
(* A session does nothing twice but the question for the identification:   *)
(* every other step of the main loop, the interrupt or the meter, in       *)
(* whatever order and also with answers that come late, brings its end     *)
(* closer, and the line comes to rest after it.                            *)
(***************************************************************************)
SessionProgress == [][Begin \/ SignInAgain \/ Before(Rank', Rank)]_vars

THEOREM SessionProgressHolds ==
  Spec => SessionProgress /\ [](Rank \in [1 .. 4 -> Nat])
<1>1. Init => CountInv
  <2> SUFFICES ASSUME Init PROVE CountInv
    OBVIOUS
  <2>1. pc = "idle" /\ n = 0 /\ i = 0 /\ line = <<>> /\ asked = FALSE
    BY DEF Init
  <2>2. line \in Seq(Part \cup Bcc)
    BY <2>1
  <2>3. n \in Nat /\ i \in 0 .. n
    BY <2>1
  <2> QED BY <2>1, <2>2, <2>3, Zenon DEF CountInv
<1>2. CountInv /\ [Next]_vars => CountInv'
  <2>1. CountInv /\ UNCHANGED vars => CountInv'
    BY DEF vars, CountInv
  <2> QED BY <2>1, CountStep
<1>3. CountInv /\ [Next]_vars => [Begin \/ SignInAgain \/ Before(Rank', Rank)]_vars
  BY CountStep
<1>4. CountInv => Rank \in [1 .. 4 -> Nat]
  BY RankFacts
<1> QED BY <1>1, <1>2, <1>3, <1>4, PTL DEF Spec, SessionProgress
=============================================================================
