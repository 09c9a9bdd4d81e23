------------------------------ MODULE MeterValues ------------------------------
(***************************************************************************)
(* Where the values that MeterLink hears go: read_para() takes them        *)
(* through the one buffer data_PLC into the network settings, without a    *)
(* look at what return_data() returns; read_data_meter() appends them to   *)
(* buf_send_server, for the server behind their codes and for a freeze     *)
(* frame without; write_data() appends a report of what the meter took.    *)
(***************************************************************************)
EXTENDS MeterLink

CONSTANTS
  Known,     \* the codes of table_control_code and of write_data_metter()
  Requested  \* the lists of known codes in requests, and of a freeze

ASSUME CodeAssumption ==
  /\ Codes >= 5 /\ "none" \notin Known /\ {"05C1", "08C1"} \subseteq Known
  /\ Requested \subseteq Seq(Known) /\ \A list \in Requested : Len(list) <= Codes

\* read_para()'s codes, and the setting that is made of each one's value.
ParaCodes == <<"C100", "C105", "C106", "C107", "C108">>
Setting == [C100 |-> "_ID", C105 |-> "_IP1", C106 |-> "_PORT", C107 |-> "_APN",
            C108 |-> "_IP2"]
TimeCodes == <<"C100", "C001">>
FixedCodes == DOMAIN Setting \cup {"C001"}
Settings == {Setting[c] : c \in DOMAIN Setting}

VARIABLES
  codes,            \* the codes the session asks the meter for
  data_PLC,         \* the code whose value stands in the buffer, or "none"
  config_network,   \* for each setting the code whose value it was made of
  buf_send_server   \* what is to be sent or saved: the place of a code in the
                    \* list, and whose value follows it

values == <<codes, data_PLC, config_network, buf_send_server>>
valuesVars == <<vars, values>>

ValuesTypeOK ==
  /\ TypeOK
  /\ codes \in Seq(Known \cup FixedCodes) /\ Len(codes) = n
  /\ data_PLC \in DOMAIN Setting \cup {"none"}
  /\ config_network \in [Settings -> DOMAIN Setting \cup {"none"}]
  /\ buf_send_server \in Seq([at : 1 .. n, of : Known \cup {"none"}])
  /\ Len(buf_send_server) <= n

ValuesInit ==
  /\ Init
  /\ codes = <<>> /\ data_PLC = "none"
  /\ config_network = [s \in Settings |-> "none"]
  /\ buf_send_server = <<>>

(***************************************************************************)
(* A session begins with the list of its codes; of those that a request    *)
(* names the ones that are not known are passed over without a question.   *)
(***************************************************************************)
CodeLists(who) == CASE who = "read_para" -> {ParaCodes}
                    [] who = "set_time"  -> {TimeCodes}
                    [] OTHER             -> Requested

SessionBegins ==
  /\ Begin
  /\ codes' \in CodeLists(job')
  /\ n' = Len(codes')
  /\ buf_send_server' = <<>>
  /\ UNCHANGED <<data_PLC, config_network>>

Code == codes[i]
ValueHeard == IF check_buffer = "right" THEN Code ELSE "none"
ValueComes == ReadAnswered /\ check_buffer # "lost"
ValueMissing == CodeTimesOut \/ (ReadAnswered /\ check_buffer = "lost")

(***************************************************************************)
(* read_para().  The ID is read into its own place; every other setting is *)
(* made of what is in data_PLC, whether return_data() has put it there or  *)
(* not.                                                                    *)
(***************************************************************************)
IdRead ==
  /\ job = "read_para" /\ pc = "read" /\ Code = "C100"
  /\ \/ ValueComes /\ config_network' = [config_network EXCEPT !._ID = ValueHeard]
     \/ ValueMissing /\ UNCHANGED config_network
  /\ UNCHANGED <<codes, data_PLC, buf_send_server>>

ParaRead ==
  /\ job = "read_para" /\ pc = "read" /\ Code # "C100"
  /\ \/ ValueComes /\ data_PLC' = ValueHeard
     \/ ValueMissing /\ UNCHANGED data_PLC
  /\ config_network' = [config_network EXCEPT ![Setting[Code]] = data_PLC']
  /\ UNCHANGED <<codes, buf_send_server>>

(***************************************************************************)
(* read_data_meter(), write_data(): code and value, or the report, are     *)
(* appended only if return_data() or load_data_meter() is content.         *)
(***************************************************************************)
DataReadAnyway ==  \* mutant: the result of return_data() is not looked at
  /\ job \in {"direct", "freeze"} /\ pc = "read"
  /\ ValueComes \/ ValueMissing
  /\ buf_send_server' = Append(buf_send_server, [at |-> i, of |-> ValueHeard])
  /\ UNCHANGED <<codes, data_PLC, config_network>>
DataRead ==
  /\ job \in {"direct", "freeze"} /\ pc = "read"
  /\ \/ /\ ValueComes
        /\ buf_send_server' = Append(buf_send_server, [at |-> i, of |-> ValueHeard])
     \/ ValueMissing /\ UNCHANGED buf_send_server
  /\ UNCHANGED <<codes, data_PLC, config_network>>

\* The second IP's write is reported under the code of the first.
Reported(c) == IF c = "08C1" THEN "05C1" ELSE c

DataWritten ==
  /\ job = "write" /\ pc = "write"
  /\ \/ /\ WriteAnswered
        /\ buf_send_server' =
             Append(buf_send_server,
                    [at |-> i, of |-> IF own THEN Reported(Code) ELSE "none"])
     \/ CodeTimesOut /\ UNCHANGED buf_send_server
  /\ UNCHANGED <<codes, data_PLC, config_network>>

\* set_time_from_rtc() sets the clock.
TimeRead ==
  /\ job = "set_time" /\ pc = "read"
  /\ ReadAnswered \/ CodeTimesOut
  /\ UNCHANGED values

SignInOrLine ==
  /\ SignInAgain \/ SignInGoesOn \/ SignInDone \/ SignInFails
       \/ myUart0_ISR \/ MeterAnswers
  /\ UNCHANGED values

ValuesNext ==
  \/ SessionBegins \/ SignInOrLine
  \/ IdRead \/ ParaRead \/ DataRead \/ DataWritten \/ TimeRead

ValuesSpec == ValuesInit /\ [][ValuesNext]_valuesVars

ValuesFairSpec ==
  /\ ValuesSpec
  /\ WF_valuesVars(MainLoop /\ ValuesNext) /\ WF_valuesVars(myUart0_ISR /\ ValuesNext)
  /\ SF_valuesVars(MeterAnswers /\ pc = "identification" /\ whole' /\ UNCHANGED values)
-----------------------------------------------------------------------------
(***************************************************************************)
(* What is sent to the server, or saved, names for each value and each     *)
(* report the code that it is of, in the order in which they were asked    *)
(* for, though any of the answers may be missing: no value is left over    *)
(* from the code before, and no write is reported that the meter did not   *)
(* acknowledge.  The one name that is wrong is 05C1 for the second IP.     *)
(***************************************************************************)
AnswerTrue ==
  /\ \A k \in DOMAIN buf_send_server :
       LET c == codes[buf_send_server[k].at] IN
       buf_send_server[k].of = IF job = "write" THEN Reported(c) ELSE c
  /\ \A k, m \in DOMAIN buf_send_server :
       k < m => buf_send_server[k].at < buf_send_server[m].at

(***************************************************************************)
(* "Doc thong so co ban tu cong to" (read_para.c:125), it reads the basic  *)
(* parameters from the meter: a setting is made of the value of its code,  *)
(* or is as it was.                                                        *)
(***************************************************************************)
SettingsOwn == \A c \in DOMAIN Setting : config_network[Setting[c]] \in {c, "none"}
=============================================================================
