-------------------------- MODULE MeterValues_proofs --------------------------
(***************************************************************************)
(* Proofs about MeterValues for any lists of codes, where the meter does   *)
(* not answer after a wait is over.                                        *)
(***************************************************************************)
EXTENDS MeterValues, MeterLink_proofs

(***************************************************************************)
(* What has been put into buf_send_server is of codes already asked for.   *)
(***************************************************************************)
Places ==
  /\ \A k \in DOMAIN buf_send_server : buf_send_server[k].at \in 1 .. n
  /\ pc \in {"identification", "operands", "password"} => buf_send_server = <<>>
  /\ pc \in {"read", "write"} =>
       /\ i \in 1 .. n /\ Len(buf_send_server) < i
       /\ \A k \in DOMAIN buf_send_server : buf_send_server[k].at < i

ListInv ==
  /\ codes \in Seq(Known \cup FixedCodes) /\ Len(codes) = n
  /\ job \in {"direct", "freeze", "write"} => codes \in Seq(Known)
  /\ job = "read_para" => codes = ParaCodes
  /\ buf_send_server \in Seq([at : 1 .. n, of : Known \cup {"none"}])
  /\ Len(buf_send_server) <= n
  /\ Places

PlainTypes ==
  /\ data_PLC \in DOMAIN Setting \cup {"none"}
  /\ config_network \in [Settings -> DOMAIN Setting \cup {"none"}]

VInv == IInv /\ ListInv /\ PlainTypes /\ AnswerTrue

LEMMA Refines == ASSUME [ValuesNext]_valuesVars PROVE [Next]_vars
  BY DEF ValuesNext, valuesVars, SessionBegins, SignInOrLine, IdRead, ParaRead,
     DataRead, DataWritten, TimeRead, ValueComes, ValueMissing, Next, MainLoop, vars

LEMMA CodeFacts ==
  /\ "none" \notin Known /\ Requested \subseteq Seq(Known)
  /\ \A c \in Known : Reported(c) \in Known
  /\ ParaCodes \in Seq(FixedCodes) /\ TimeCodes \in Seq(FixedCodes)
  /\ \A k \in DOMAIN ParaCodes : ParaCodes[k] \in DOMAIN Setting
  /\ \A c \in DOMAIN Setting : Setting[c] \in Settings
<1>1. ParaCodes \in Seq(FixedCodes) /\ TimeCodes \in Seq(FixedCodes)
  BY DEF ParaCodes, TimeCodes, FixedCodes, Setting
<1>2. \A k \in DOMAIN ParaCodes : ParaCodes[k] \in DOMAIN Setting
  BY DEF ParaCodes, Setting
<1>3. \A c \in DOMAIN Setting : Setting[c] \in Settings
  BY DEF Settings
<1>4. \A c \in Known : Reported(c) \in Known
  BY CodeAssumption DEF Reported
<1> QED BY <1>1, <1>2, <1>3, <1>4, CodeAssumption

LEMMA ValuesInitInv == ValuesInit => VInv
<1> SUFFICES ASSUME ValuesInit PROVE VInv
  OBVIOUS
<1>1. IInv
  BY InitInv DEF ValuesInit
<1>2. ListInv
  BY DEF ValuesInit, Init, ListInv, Places
<1>3. PlainTypes
  BY DEF ValuesInit, PlainTypes
<1>4. AnswerTrue
  BY DEF ValuesInit, AnswerTrue
<1> QED BY <1>1, <1>2, <1>3, <1>4 DEF VInv

\* A session begins with its list and with nothing to send.
LEMMA SessionBeginsInv == ASSUME VInv, SessionBegins PROVE ListInv' /\ AnswerTrue'
<1>1. /\ codes' \in CodeLists(job') /\ n' = Len(codes') /\ buf_send_server' = <<>>
      /\ pc' = "identification"
  BY DEF SessionBegins, Begin, Ask
<1>2. /\ codes' \in Seq(Known \cup FixedCodes)
      /\ job' \in {"direct", "freeze", "write"} => codes' \in Seq(Known)
      /\ job' = "read_para" => codes' = ParaCodes
  <2>1. CASE job' = "read_para"
    BY <1>1, <2>1, CodeFacts DEF CodeLists
  <2>2. CASE job' = "set_time"
    BY <1>1, <2>2, CodeFacts DEF CodeLists
  <2>3. CASE job' \notin {"read_para", "set_time"}
    BY <1>1, <2>3, CodeFacts DEF CodeLists
  <2> QED BY <2>1, <2>2, <2>3
<1>3. Len(codes') \in Nat
  BY <1>2
<1>4. ListInv'
  BY <1>1, <1>2, <1>3 DEF ListInv, Places
<1> QED BY <1>1, <1>4 DEF AnswerTrue

\* A step of a session that puts nothing into buf_send_server.
LEMMA NothingAdded ==
  ASSUME VInv, IInv', UNCHANGED <<job, n, codes, buf_send_server>>,
         pc' \in {"identification", "operands", "password"} =>
           pc \in {"identification", "operands", "password"},
         pc' \in {"read", "write"} =>
           /\ i' \in 1 .. n
           /\ \/ pc \in {"read", "write"} /\ i <= i'
              \/ pc \in {"identification", "operands", "password"}
  PROVE  ListInv' /\ AnswerTrue'
<1>1. Places'
  <2>1. i' \in Nat /\ i \in Nat /\ Len(buf_send_server) \in Nat
    BY DEF VInv, IInv, TypeOK, ListInv
  <2>2. \A k \in DOMAIN buf_send_server : buf_send_server[k].at \in Nat
    BY DEF VInv, ListInv, Places
  <2>3. Len(<<>>) = 0 /\ DOMAIN <<>> = {}
    OBVIOUS
  <2> QED BY <2>1, <2>2, <2>3 DEF VInv, ListInv, Places
<1> QED BY <1>1 DEF VInv, ListInv, AnswerTrue

\* A value or a report for the code that was asked for.
LEMMA OneAdded ==
  ASSUME VInv, IInv', UNCHANGED <<job, n, codes>>,
         pc \in {"read", "write"},
         job \in {"direct", "freeze", "write"},
         NEW of, of = IF job = "write" THEN Reported(Code) ELSE Code,
         buf_send_server' = Append(buf_send_server, [at |-> i, of |-> of]),
         pc' = "idle" \/ (pc' = pc /\ i' = i + 1 /\ i' \in 1 .. n)
  PROVE  ListInv' /\ AnswerTrue'
<1> DEFINE B == buf_send_server
           Entry == [at : 1 .. n, of : Known \cup {"none"}]
<1>1. /\ i \in 1 .. n /\ Len(B) < i /\ Len(B) \in Nat /\ n \in Nat
      /\ \A k \in DOMAIN B : B[k].at < i
      /\ B \in Seq(Entry) /\ DOMAIN B = 1 .. Len(B)
  BY DEF VInv, IInv, TypeOK, ListInv, Places
<1>2. Code \in Known
  BY <1>1 DEF VInv, ListInv, Code
<1>3. of \in Known /\ [at |-> i, of |-> of] \in Entry
  BY <1>1, <1>2, CodeFacts
<1> HIDE DEF Entry
<1>4. /\ B' \in Seq(Entry) /\ Len(B') = Len(B) + 1 /\ DOMAIN B' = 1 .. Len(B) + 1
      /\ B'[Len(B) + 1] = [at |-> i, of |-> of]
      /\ \A k \in 1 .. Len(B) : B'[k] = B[k]
  BY <1>1, <1>3
<1>5. \A k \in DOMAIN B' : k \in DOMAIN B \/ k = Len(B) + 1
  BY <1>1, <1>4
<1>6. \A k \in DOMAIN B' : B'[k].at \in 1 .. n /\ B'[k].at <= i
  <2>1. \A k \in DOMAIN B : B[k].at \in 1 .. n /\ B[k].at <= i
    BY <1>1 DEF VInv, ListInv, Places
  <2> QED BY <1>1, <1>4, <1>5, <2>1
<1>7. Places'
  <2>1. pc' \in {"read", "write"} =>
          /\ Len(B') < i'
          /\ \A k \in DOMAIN B' : B'[k].at < i'
    BY <1>1, <1>4, <1>6
  <2> QED BY <1>6, <2>1 DEF Places
<1>8. ListInv'
  <2>1. Entry' = Entry /\ Len(B') <= n
    BY <1>1, <1>4 DEF Entry
  <2> QED BY <1>4, <1>7, <2>1 DEF VInv, ListInv, Entry
<1>9. AnswerTrue'
  <2>1. ASSUME NEW k \in DOMAIN B'
        PROVE  B'[k].of = IF job = "write" THEN Reported(codes[B'[k].at])
                                           ELSE codes[B'[k].at]
    <3>1. CASE k \in DOMAIN B
      BY <1>1, <1>4, <3>1 DEF VInv, AnswerTrue
    <3>2. CASE k = Len(B) + 1
      BY <1>4, <3>2 DEF Code
    <3> QED BY <1>5, <3>1, <3>2
  <2>2. ASSUME NEW k \in DOMAIN B', NEW m \in DOMAIN B', k < m
        PROVE  B'[k].at < B'[m].at
    <3>1. k \in DOMAIN B
      BY <1>1, <1>4, <2>2
    <3>2. CASE m \in DOMAIN B
      BY <1>1, <1>4, <2>2, <3>1, <3>2 DEF VInv, AnswerTrue
    <3>3. CASE m = Len(B) + 1
      BY <1>1, <1>4, <3>1, <3>3
    <3> QED BY <1>5, <3>2, <3>3
  <2> QED BY <2>1, <2>2 DEF AnswerTrue
<1> QED BY <1>8, <1>9

\* Where the main loop is after a code.
LEMMA AfterCode ==
  ASSUME IInv, NextCode
  PROVE  pc' = "idle" \/ (pc' = pc /\ i' = i + 1 /\ i' \in 1 .. n)
  BY DEF IInv, TypeOK, NextCode, Return, Ask

LEMMA ValueTaken ==
  ASSUME RightOrNone', ReadAnswered, check_buffer # "lost"
  PROVE  ValueHeard = Code
  BY DEF RightOrNone, ReadAnswered, ValueHeard, check_buffer

LEMMA SignInSteps ==
  ASSUME VInv, IInv', SignInOrLine
  PROVE  ListInv' /\ AnswerTrue'
<1>1. UNCHANGED <<job, n, codes, buf_send_server>>
  BY DEF SignInOrLine, SignInAgain, SignInGoesOn, SignInDone, SignInFails,
         myUart0_ISR, MeterAnswers, values
<1>2. pc' \in {"identification", "operands", "password"} =>
        pc \in {"identification", "operands", "password"}
  BY DEF SignInOrLine, SignInAgain, SignInGoesOn, SignInDone, SignInFails,
         FirstCode, Return, Ask, myUart0_ISR, MeterAnswers
<1>3. pc' \in {"read", "write"} =>
        /\ i' \in 1 .. n
        /\ \/ pc \in {"read", "write"} /\ i <= i'
           \/ pc \in {"identification", "operands", "password"}
  <2>1. n \in Nat /\ i \in Nat
    BY DEF VInv, IInv, TypeOK
  <2>2. CASE myUart0_ISR \/ MeterAnswers
    BY <2>1, <2>2 DEF myUart0_ISR, MeterAnswers, VInv, ListInv, Places
  <2>3. CASE SignInAgain \/ SignInGoesOn
    BY <2>3 DEF SignInAgain, SignInGoesOn, Ask
  <2>4. CASE SignInDone \/ SignInFails
    BY <2>1, <2>4 DEF SignInDone, SignInFails, FirstCode, Return, Ask
  <2> QED BY <2>2, <2>3, <2>4 DEF SignInOrLine
<1> QED BY <1>1, <1>2, <1>3, NothingAdded

LEMMA NothingHeard ==
  ASSUME VInv, IInv', ReadAnswered \/ CodeTimesOut,
         UNCHANGED <<codes, buf_send_server>>
  PROVE  ListInv' /\ AnswerTrue'
<1>1. UNCHANGED <<job, n>> /\ pc \in {"read", "write"} /\ n \in Nat
  BY DEF ReadAnswered, CodeTimesOut, VInv, IInv, TypeOK
<1>2. pc' = "idle" \/ (pc' = pc /\ i' = i + 1 /\ i' \in 1 .. n)
  BY AfterCode DEF ReadAnswered, CodeTimesOut, Return, VInv
<1>3. i <= i + 1
  BY DEF VInv, IInv, TypeOK
<1> QED BY <1>1, <1>2, <1>3, NothingAdded

LEMMA DataReadInv == ASSUME VInv, IInv', DataRead PROVE ListInv' /\ AnswerTrue'
<1>1. CASE ValueMissing /\ UNCHANGED buf_send_server
  BY <1>1, NothingHeard DEF DataRead, ValueMissing
<1>2. CASE /\ ValueComes
           /\ buf_send_server' = Append(buf_send_server, [at |-> i, of |-> ValueHeard])
  <2>1. ReadAnswered /\ NextCode /\ UNCHANGED <<job, n, codes>>
    BY <1>2 DEF DataRead, ValueComes, ReadAnswered
  <2>2. ValueHeard = Code
    BY <1>2, ValueTaken DEF ValueComes, IInv
  <2>3. job \in {"direct", "freeze"} /\ pc = "read"
    BY DEF DataRead
  <2> QED BY <1>2, <2>1, <2>2, <2>3, AfterCode, OneAdded DEF VInv
<1> QED BY <1>1, <1>2 DEF DataRead

LEMMA DataWrittenInv ==
  ASSUME VInv, IInv', DataWritten
  PROVE  ListInv' /\ AnswerTrue'
<1>1. CASE CodeTimesOut /\ UNCHANGED buf_send_server
  BY <1>1, NothingHeard DEF DataWritten
<1>2. CASE /\ WriteAnswered
           /\ buf_send_server' =
                Append(buf_send_server,
                       [at |-> i, of |-> IF own THEN Reported(Code) ELSE "none"])
  <2>1. NextCode /\ UNCHANGED <<job, n, codes>>
    BY <1>2 DEF DataWritten, WriteAnswered
  <2>2. own
    BY <1>2 DEF WriteAnswered, IInv, RightOrNone
  <2>3. job = "write" /\ pc = "write"
    BY DEF DataWritten
  <2> QED BY <1>2, <2>1, <2>2, <2>3, AfterCode, OneAdded DEF VInv
<1> QED BY <1>1, <1>2 DEF DataWritten

\* read_para() makes a setting only of what data_PLC can hold.
LEMMA ParaTypes ==
  ASSUME VInv, IInv', IdRead \/ ParaRead
  PROVE  PlainTypes'
<1>1. codes = ParaCodes /\ i \in DOMAIN ParaCodes
  BY DEF VInv, ListInv, Places, IdRead, ParaRead, IInv, TypeOK
<1>2. Code \in DOMAIN Setting
  BY <1>1, CodeFacts DEF Code
<1>3. ValueComes => ValueHeard = Code
  BY ValueTaken DEF ValueComes, IInv
<1>4. CASE IdRead
  BY <1>2, <1>3, <1>4 DEF IdRead, VInv, PlainTypes
<1>5. CASE ParaRead
  <2>1. data_PLC' \in DOMAIN Setting \cup {"none"}
    BY <1>2, <1>3, <1>5 DEF ParaRead, VInv, PlainTypes
  <2>2. config_network' = [config_network EXCEPT ![Setting[Code]] = data_PLC']
    BY <1>5 DEF ParaRead
  <2> QED BY <2>1, <2>2 DEF VInv, PlainTypes
<1> QED BY <1>4, <1>5

LEMMA ValuesStepInv == ASSUME ~Late, VInv, [ValuesNext]_valuesVars PROVE VInv'
<1>1. IInv'
  BY Refines, StepInv DEF VInv
<1>2. CASE SessionBegins
  <2>1. PlainTypes'
    BY <1>2 DEF SessionBegins, VInv, PlainTypes
  <2> QED BY <1>1, <1>2, <2>1, SessionBeginsInv DEF VInv
<1>3. CASE SignInOrLine
  <2>1. PlainTypes'
    BY <1>3 DEF SignInOrLine, values, VInv, PlainTypes
  <2> QED BY <1>1, <1>3, <2>1, SignInSteps DEF VInv
<1>4. CASE IdRead \/ ParaRead
  <2>1. ListInv' /\ AnswerTrue'
    BY <1>1, <1>4, NothingHeard
       DEF IdRead, ParaRead, ValueComes, ValueMissing
  <2> QED BY <1>1, <1>4, <2>1, ParaTypes DEF VInv
<1>5. CASE DataRead
  <2>1. PlainTypes'
    BY <1>5 DEF DataRead, VInv, PlainTypes
  <2> QED BY <1>1, <1>5, <2>1, DataReadInv DEF VInv
<1>6. CASE DataWritten
  <2>1. PlainTypes'
    BY <1>6 DEF DataWritten, VInv, PlainTypes
  <2> QED BY <1>1, <1>6, <2>1, DataWrittenInv DEF VInv
<1>7. CASE TimeRead
  <2>1. PlainTypes' /\ UNCHANGED <<codes, buf_send_server>>
    BY <1>7 DEF TimeRead, values, VInv, PlainTypes
  <2> QED BY <1>1, <1>7, <2>1, NothingHeard DEF TimeRead, VInv
<1>8. CASE UNCHANGED valuesVars
  <2>1. ListInv' /\ PlainTypes' /\ AnswerTrue'
    BY <1>8 DEF valuesVars, vars, values, VInv, ListInv, Places, PlainTypes, AnswerTrue
  <2> QED BY <1>1, <2>1 DEF VInv
<1> QED BY <1>2, <1>3, <1>4, <1>5, <1>6, <1>7, <1>8 DEF ValuesNext

LEMMA ValuesInvHolds == ASSUME ~Late PROVE ValuesSpec => []VInv
<1>1. VInv /\ [ValuesNext]_valuesVars => VInv'
  BY ValuesStepInv
<1> QED BY <1>1, ValuesInitInv, PTL DEF ValuesSpec

(***************************************************************************)
(* Every variable keeps its type: buf_send_server never holds more than    *)
(* one entry for a code, and no setting is made of anything but the values *)
(* of read_para()'s own codes.                                             *)
(***************************************************************************)
THEOREM ValuesTypeCorrect == ASSUME ~Late PROVE ValuesSpec => []ValuesTypeOK
<1>1. VInv => ValuesTypeOK
  BY DEF VInv, IInv, ListInv, PlainTypes, ValuesTypeOK
<1> QED BY <1>1, ValuesInvHolds, PTL

(***************************************************************************)
(* What goes to the server or into a frame names for each value and each   *)
(* report the code it is of, in the order of the request, whichever        *)
(* answers of the meter are missing or cut off.                            *)
(***************************************************************************)
THEOREM AnswerTrueHolds == ASSUME ~Late PROVE ValuesSpec => []AnswerTrue
<1>1. VInv => AnswerTrue
  BY DEF VInv
<1> QED BY <1>1, ValuesInvHolds, PTL
=============================================================================
