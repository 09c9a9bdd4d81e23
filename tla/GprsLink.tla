------------------------------- MODULE GprsLink -------------------------------
(***************************************************************************)
(* The link to the server: the state machine of main(), the functions of   *)
(* gprs_com.c that drive the SIM800 modem, and the UART1 interrupt, which  *)
(* hears both the modem's answers and, on the same line, the frames of the *)
(* server.                                                                 *)
(*                                                                         *)
(* The main loop waits inside connectToServerNow(), prepare_trans_data(),  *)
(* trans_data_server() and get_RSSI_signal() by polling what the interrupt *)
(* has collected, so the modem, the server, the timer and the interrupt    *)
(* take steps at each of these waits.  A line of the modem and a frame of  *)
(* the server are one unit each; the bytes of a unit are heard in one      *)
(* step.                                                                   *)
(***************************************************************************)
EXTENDS Naturals, Sequences

CONSTANTS
  MaxFrames,  \* bound on the frames the server sends
  MaxDrops,   \* bound on the losses of the TCP connection
  MaxLine,    \* bound on the units between the modem and UART1
  MaxEaten,   \* units that fill buffer_rx up to its limit of 500 bytes
  Late,       \* TRUE if the modem may answer after the module's timeout
  BadFrames,  \* TRUE if a frame may fail check_data_rx_server()
  CutFrames   \* TRUE if the end of a frame may be lost on the way

ASSUME BoundAssumption ==
  /\ MaxFrames \in Nat /\ MaxDrops \in Nat
  /\ MaxLine \in Nat \ {0} /\ MaxEaten \in Nat \ {0}
ASSUME FaultAssumption == {Late, BadFrames, CutFrames} \subseteq BOOLEAN

\* What a frame asks for: "data" (a saved frame, the clock, reading or writing
\* the meter) is answered unless the meter was wanted and does not take part,
\* "signal" after a question to the modem, "accept" is not answered.
Requests == {"data", "signal", "accept"}
Frame == [kind : {"frame"}, no : 0 .. MaxFrames, req : Requests, good : BOOLEAN]
BadFrame == [kind |-> "frame", no |-> 0, req |-> "accept", good |-> FALSE]
CutFrame == [kind |-> "cut"]

\* What the modem says; the bytes of a text in Spaced include a space.
Spaced == {"CONNECT_OK", "CONNECT_FAIL", "ALREADY_CONNECT", "PROMPT", "SEND_OK",
           "CSQ_OK", "CGATT_0", "CGATT_1", "PDP_DEACT"}
Texts == Spaced \cup {"ERROR", "CLOSED"}
Line(t) == [kind |-> "line", text |-> t]
Unit == Frame \cup {CutFrame} \cup {Line(t) : t \in Texts}

States == {"STATE_MODULE", "OFF_GPRS", "ON_GPRS", "READ_PARA_CONFIG",
           "INIT_GPRS", "CONNECTING_SERVER", "LOGIN", "HOLD_SOCKET",
           "READY_CONNECT", "PROCESS_DATA_SERVER", "UPDATE_DATA_SERVER",
           "LOST_CONNECT"}

VARIABLES
  stateModule,
  pc,          \* where the main loop is: "loop" or one of its waits
  tries,       \* the attempts of this wait that have failed
  sendSocket,  \* system_flag.bits.SEND_SOCKET
  uart_state,  \* para_rx.uart_state
  full,        \* para_rx.state_buf_rx = BUF_RX_FULL
  buffer_rx,   \* the last whole frame
  eaten,       \* units heard into buffer_rx since its 0x68
  responses,   \* buf_response_command
  prepareOk,   \* flag.bits.PREPARE_SEND_OK
  buffer_tx,   \* what the frame to send is, and the request it answers
  line,        \* units on their way from the modem to UART1
  powered,     \* the modem is switched on
  modem,       \* what the modem is doing
  connected,   \* the TCP connection, as the modem sees it
  asked,       \* frames sent by the server
  drops,       \* losses of the connection
  carriedOut,  \* history: the last frame carried out
  handedOver,  \* history: the modem has taken buffer_tx to send it
  early        \* history: a blocked frame has been taken for the prompt

main == <<stateModule, pc, tries>>
uart == <<uart_state, full, buffer_rx, eaten>>
heard == <<responses, prepareOk, early>>
external == <<line, powered, modem, connected, asked, drops>>
vars == <<stateModule, pc, tries, sendSocket, uart_state, full, buffer_rx, eaten,
          responses, prepareOk, buffer_tx, line, powered, modem, connected,
          asked, drops, carriedOut, handedOver, early>>

TypeOK ==
  /\ stateModule \in States
  /\ pc \in {"loop", "key", "network", "connect", "prompt", "sent", "signal"}
  /\ tries \in 0 .. IF pc = "network" THEN 9 ELSE 2
  /\ sendSocket \in BOOLEAN
  /\ uart_state \in {"NOTHING", "RECEIVING", "BLOCK"}
  /\ full \in BOOLEAN
  /\ buffer_rx \in Frame
  /\ eaten \in 0 .. MaxEaten - 1
  /\ responses \subseteq Texts \cup {"overflow"}
  /\ prepareOk \in BOOLEAN
  /\ buffer_tx \in [what : {"none", "login", "socket", "reply"}, no : 0 .. MaxFrames]
  /\ line \in Seq(Unit) /\ Len(line) <= MaxLine
  /\ powered \in BOOLEAN
  /\ modem \in {"idle", "CGATT", "CIPSTART", "CIPSEND", "CSQ", "prompted",
                "sending"}
  /\ connected \in BOOLEAN
  /\ asked \in 0 .. MaxFrames
  /\ drops \in 0 .. MaxDrops
  /\ carriedOut \in 0 .. MaxFrames
  /\ handedOver \in BOOLEAN /\ early \in BOOLEAN

Init ==
  /\ stateModule = "STATE_MODULE" /\ pc = "loop" /\ tries = 0
  /\ sendSocket = FALSE
  /\ uart_state = "NOTHING" /\ full = FALSE /\ buffer_rx = BadFrame /\ eaten = 0
  /\ responses = {} /\ prepareOk = FALSE
  /\ buffer_tx = [what |-> "none", no |-> 0]
  /\ line = <<>> /\ powered \in BOOLEAN /\ modem = "idle" /\ connected = FALSE
  /\ asked = 0 /\ drops = 0
  /\ carriedOut = 0 /\ handedOver = FALSE /\ early = FALSE

-----------------------------------------------------------------------------
(***************************************************************************)
(* Switching the modem on.  The power key toggles: checkPowerOnOffGPRS()   *)
(* asks whether the modem answers, offModuleGprs() switches off one that   *)
(* does, and onOffModuleGprs() presses the key, waits three seconds and    *)
(* asks ten times for the network, 4 seconds each.  If it does not hear    *)
(* that the modem is attached, the main loop presses the key again.  A     *)
(* modem that is switched off says nothing more than it had said; that has *)
(* arrived when the three seconds are over.                                *)
(***************************************************************************)
checkPowerOnOffGPRS ==
  /\ stateModule = "STATE_MODULE"
  /\ \/ powered /\ stateModule' = "OFF_GPRS"
     \/ stateModule' = "ON_GPRS"
  /\ UNCHANGED <<pc, tries, sendSocket, uart, heard, buffer_tx, external,
                 carriedOut, handedOver>>

PressKey == powered' = ~powered /\ modem' = "idle"

offModuleGprs ==
  /\ stateModule = "OFF_GPRS"
  /\ stateModule' = "ON_GPRS"
  /\ PressKey
  /\ UNCHANGED <<pc, tries, sendSocket, uart, heard, buffer_tx, line,
                 connected, asked, drops, carriedOut, handedOver>>

onOffModuleGprs ==
  /\ stateModule = "ON_GPRS" /\ pc = "loop"
  /\ PressKey
  /\ pc' = "key"
  /\ UNCHANGED <<stateModule, tries, sendSocket, uart, heard, buffer_tx, line,
                 connected, asked, drops, carriedOut, handedOver>>

\* AT+CGATT?; a modem that is switched off does not hear it.
AskNetworkUnprepared ==  \* mutant: what has been heard so far is not cleared
  /\ UNCHANGED heard
  /\ modem' = IF powered THEN "CGATT" ELSE modem
AskNetwork ==
  /\ responses' = {} /\ prepareOk' = FALSE /\ early' = FALSE
  /\ modem' = IF powered THEN "CGATT" ELSE modem

KeyPressed ==
  /\ pc = "key"
  /\ line = <<>>
  /\ pc' = "network" /\ tries' = 0
  /\ AskNetwork
  /\ UNCHANGED <<stateModule, sendSocket, uart, buffer_tx, line, powered,
                 connected, asked, drops, carriedOut, handedOver>>

NetworkFound ==
  /\ pc = "network"
  /\ "CGATT_1" \in responses
  /\ stateModule' = "READ_PARA_CONFIG"
  /\ pc' = "loop" /\ tries' = 0
  /\ UNCHANGED <<sendSocket, uart, heard, buffer_tx, external, carriedOut,
                 handedOver>>

\* The wait for an answer is over without one.  Unless the modem may be late,
\* nothing more is on its way then.
TimedOut == Late \/ (modem \in {"idle", "prompted"} /\ line = <<>>)

NetworkMissed ==
  /\ pc = "network"
  /\ "CGATT_1" \notin responses
  /\ responses \cap {"CGATT_0", "ERROR"} # {} \/ TimedOut
  /\ \/ /\ tries < 9 /\ tries' = tries + 1 /\ pc' = pc
        /\ AskNetwork
     \/ /\ tries = 9 /\ tries' = 0 /\ pc' = "loop"
        /\ UNCHANGED <<heard, modem>>
  /\ UNCHANGED <<stateModule, sendSocket, uart, buffer_tx, line, powered,
                 connected, asked, drops, carriedOut, handedOver>>

read_para ==
  /\ stateModule = "READ_PARA_CONFIG"
  /\ stateModule' = "INIT_GPRS"
  /\ UNCHANGED <<pc, tries, sendSocket, uart, heard, buffer_tx, external,
                 carriedOut, handedOver>>

(***************************************************************************)
(* The modem, as the module's commands take it to be.  A command given to  *)
(* a modem that waits for data is taken as the data; a busy modem may not  *)
(* hear it.  establishTCPClient() gives the commands that close the        *)
(* connection; what they are answered is not looked at afterwards.         *)
(***************************************************************************)
Command(c) ==
  /\ responses' = {} /\ prepareOk' = FALSE /\ early' = FALSE
  /\ CASE modem = "prompted" -> modem' = "sending"
       [] modem = "idle"     -> modem' = c
       [] OTHER              -> modem' \in {modem, c}

establishTCPClient ==
  /\ stateModule = "INIT_GPRS"
  /\ stateModule' = "CONNECTING_SERVER"
  /\ responses' = {} /\ prepareOk' = FALSE /\ early' = FALSE
  /\ modem' = "idle"
  /\ connected' \in {FALSE} \cup (IF modem = "prompted" THEN {connected} ELSE {})
  /\ UNCHANGED <<pc, tries, sendSocket, uart, buffer_tx, line, powered, asked,
                 drops, carriedOut, handedOver>>

(***************************************************************************)
(* connectToServerNow(): three times AT+CIPSTART, each with 20 seconds for *)
(* an answer.                                                              *)
(***************************************************************************)
connectToServerNow ==
  /\ stateModule = "CONNECTING_SERVER" /\ pc = "loop"
  /\ pc' = "connect" /\ tries' = 0
  /\ Command("CIPSTART")
  /\ UNCHANGED <<stateModule, sendSocket, uart, buffer_tx, line, powered,
                 connected, asked, drops, carriedOut, handedOver>>

ConnectSucceedsSendsAgain ==  \* mutant: a connection still there goes on sending
  /\ pc = "connect"
  /\ \/ "CONNECT_OK" \in responses /\ stateModule' = "LOGIN"
     \/ /\ "CONNECT_OK" \notin responses /\ "ALREADY_CONNECT" \in responses
        /\ stateModule' = "UPDATE_DATA_SERVER"
  /\ pc' = "loop" /\ tries' = 0
  /\ UNCHANGED <<sendSocket, uart, heard, buffer_tx, external, carriedOut,
                 handedOver>>
ConnectSucceeds ==
  /\ pc = "connect"
  /\ \/ "CONNECT_OK" \in responses /\ stateModule' = "LOGIN"
     \/ /\ "CONNECT_OK" \notin responses /\ "ALREADY_CONNECT" \in responses
        /\ stateModule' = "READY_CONNECT"
  /\ pc' = "loop" /\ tries' = 0
  /\ UNCHANGED <<sendSocket, uart, heard, buffer_tx, external, carriedOut,
                 handedOver>>

ConnectFailsOnceMore ==  \* mutant: four attempts
  /\ pc = "connect"
  /\ responses \cap {"CONNECT_OK", "ALREADY_CONNECT"} = {}
  /\ "CONNECT_FAIL" \in responses \/ TimedOut
  /\ \/ /\ tries <= 2 /\ tries' = tries + 1
        /\ Command("CIPSTART")
        /\ UNCHANGED <<stateModule, pc>>
     \/ /\ tries = 3
        /\ pc' = "loop" /\ tries' = 0 /\ stateModule' = "INIT_GPRS"
        /\ UNCHANGED <<heard, modem>>
  /\ UNCHANGED <<sendSocket, uart, buffer_tx, line, powered, connected, asked,
                 drops, carriedOut, handedOver>>
ConnectFails ==
  /\ pc = "connect"
  /\ responses \cap {"CONNECT_OK", "ALREADY_CONNECT"} = {}
  /\ "CONNECT_FAIL" \in responses \/ TimedOut
  /\ \/ /\ tries < 2 /\ tries' = tries + 1
        /\ Command("CIPSTART")
        /\ UNCHANGED <<stateModule, pc>>
     \/ /\ tries = 2
        /\ pc' = "loop" /\ tries' = 0 /\ stateModule' = "INIT_GPRS"
        /\ UNCHANGED <<heard, modem>>
  /\ UNCHANGED <<sendSocket, uart, buffer_tx, line, powered, connected, asked,
                 drops, carriedOut, handedOver>>

(***************************************************************************)
(* trans_data_server(): prepare_trans_data() asks three times for the      *)
(* prompt, 5 seconds each, and takes PREPARE_SEND_OK for it; the frame is  *)
(* sent and SEND OK awaited for 30 seconds.  An ERROR sets LOST_CONNECT    *)
(* and the next attempt is made all the same.  Without an answer to the    *)
(* data stateModule stays as it is and the main loop comes back.           *)
(***************************************************************************)
trans_data_server ==
  /\ stateModule = "UPDATE_DATA_SERVER" /\ pc = "loop"
  /\ pc' = "prompt" /\ tries' = 0
  /\ Command("CIPSEND")
  /\ UNCHANGED <<stateModule, sendSocket, uart, buffer_tx, line, powered,
                 connected, asked, drops, carriedOut, handedOver>>

PromptComes ==
  /\ pc = "prompt"
  /\ prepareOk
  /\ pc' = "sent" /\ tries' = 0
  /\ responses' = {} /\ prepareOk' = FALSE /\ UNCHANGED early
  /\ modem' = IF modem = "prompted" THEN "sending" ELSE modem
  /\ handedOver' = (handedOver \/ (modem = "prompted" /\ connected))
  /\ UNCHANGED <<stateModule, sendSocket, uart, buffer_tx, line, powered,
                 connected, asked, drops, carriedOut>>

PromptFails ==
  /\ pc = "prompt"
  /\ ~prepareOk
  /\ "ERROR" \in responses \/ TimedOut
  /\ \/ /\ tries < 2 /\ tries' = tries + 1
        /\ Command("CIPSEND")
        /\ stateModule' = IF "ERROR" \in responses THEN "LOST_CONNECT"
                                                   ELSE stateModule
        /\ pc' = pc
     \/ /\ tries = 2
        /\ pc' = "loop" /\ tries' = 0 /\ stateModule' = "LOST_CONNECT"
        /\ UNCHANGED <<heard, modem>>
  /\ UNCHANGED <<sendSocket, uart, buffer_tx, line, powered, connected, asked,
                 drops, carriedOut, handedOver>>

SendAnsweredByTimeout ==  \* mutant: no answer is taken for SEND OK
  /\ pc = "sent"
  /\ pc' = "loop"
  /\ \/ /\ "SEND_OK" \in responses \/ ("ERROR" \notin responses /\ TimedOut)
        /\ stateModule' = "READY_CONNECT"
     \/ "ERROR" \in responses /\ stateModule' = "LOST_CONNECT"
  /\ UNCHANGED <<tries, sendSocket, uart, heard, buffer_tx, external, carriedOut,
                 handedOver>>
SendAnswered ==
  /\ pc = "sent"
  /\ pc' = "loop"
  /\ \/ "SEND_OK" \in responses /\ stateModule' = "READY_CONNECT"
     \/ /\ "SEND_OK" \notin responses /\ "ERROR" \in responses
        /\ stateModule' = "LOST_CONNECT"
     \/ /\ responses \cap {"SEND_OK", "ERROR"} = {} /\ TimedOut
        /\ stateModule' = stateModule
  /\ UNCHANGED <<tries, sendSocket, uart, heard, buffer_tx, external, carriedOut,
                 handedOver>>

LostConnectStays ==  \* mutant: the state is not left
  /\ stateModule = "LOST_CONNECT" /\ pc = "loop"
  /\ UNCHANGED vars
\* vSaveTimeLostConnect() writes the log of lost connections (FreezeLog).
LostConnect ==
  /\ stateModule = "LOST_CONNECT" /\ pc = "loop"
  /\ stateModule' = "CONNECTING_SERVER"
  /\ UNCHANGED <<pc, tries, sendSocket, uart, heard, buffer_tx, external,
                 carriedOut, handedOver>>

(***************************************************************************)
(* The frames the module sends of itself.  HOLD_SOCKET has no break: the   *)
(* rest of READY_CONNECT follows, which may turn to a frame of the server. *)
(***************************************************************************)
send_command_to_server(what) ==
  /\ buffer_tx' = [what |-> what, no |-> 0]
  /\ handedOver' = FALSE

Login ==
  /\ stateModule = "LOGIN"
  /\ send_command_to_server("login")
  /\ stateModule' = "UPDATE_DATA_SERVER"
  /\ UNCHANGED <<pc, tries, sendSocket, uart, heard, external, carriedOut>>

TakeFrameTwice ==  \* mutant: the buffer is not marked empty
  /\ full
  /\ stateModule' = "PROCESS_DATA_SERVER"
  /\ UNCHANGED <<full, sendSocket>>
TakeFrame ==
  /\ full
  /\ full' = FALSE /\ stateModule' = "PROCESS_DATA_SERVER"
  /\ UNCHANGED sendSocket

TakeFlag ==
  /\ ~full /\ sendSocket
  /\ sendSocket' = FALSE /\ stateModule' = "HOLD_SOCKET"
  /\ UNCHANGED full

HoldSocket ==
  /\ stateModule = "HOLD_SOCKET"
  /\ send_command_to_server("socket")
  /\ \/ TakeFrame
     \/ TakeFlag
     \/ /\ ~full /\ ~sendSocket
        /\ stateModule' = "UPDATE_DATA_SERVER"
        /\ UNCHANGED <<full, sendSocket>>
  /\ UNCHANGED <<pc, tries, uart_state, buffer_rx, eaten, heard, external,
                 carriedOut>>

ReadyConnect ==
  /\ stateModule = "READY_CONNECT" /\ pc = "loop"
  /\ TakeFrame \/ TakeFlag
  /\ UNCHANGED <<pc, tries, uart_state, buffer_rx, eaten, heard, buffer_tx,
                 external, carriedOut, handedOver>>

(***************************************************************************)
(* get_command_from_server(): a frame that fails the check is left where   *)
(* it is, and so are stateModule and uart_state, and the main loop comes   *)
(* back to it.  The interrupt leaves a blocked buffer_rx alone, so reading *)
(* or writing the meter meanwhile is one step.                             *)
(***************************************************************************)
Answer ==
  /\ buffer_tx' = [what |-> "reply", no |-> buffer_rx.no]
  /\ handedOver' = FALSE
  /\ stateModule' = "UPDATE_DATA_SERVER"

NoAnswerStays ==  \* mutant: a refused request does not change stateModule
  /\ UNCHANGED <<stateModule, handedOver, buffer_tx>>
NoAnswerSends ==  \* mutant: what a refused request left in buffer_tx is sent
  /\ stateModule' = "UPDATE_DATA_SERVER"
  /\ UNCHANGED handedOver
  /\ buffer_tx' = IF buffer_rx.req = "data" THEN [what |-> "none", no |-> 0]
                                            ELSE buffer_tx
NoAnswer ==
  /\ stateModule' = "READY_CONNECT"
  /\ UNCHANGED handedOver
  /\ buffer_tx' = IF buffer_rx.req = "data" THEN [what |-> "none", no |-> 0]
                                            ELSE buffer_tx

CarriedOut ==
  /\ uart_state' = "NOTHING"
  /\ carriedOut' = buffer_rx.no

get_command_from_server ==
  /\ stateModule = "PROCESS_DATA_SERVER" /\ pc = "loop"
  /\ buffer_rx.good
  /\ \/ buffer_rx.req = "data" /\ Answer
     \/ buffer_rx.req \in {"data", "accept"} /\ NoAnswer
  /\ CarriedOut
  /\ UNCHANGED <<pc, tries, sendSocket, full, buffer_rx, eaten, heard, external>>

(***************************************************************************)
(* get_RSSI_signal(), in the middle of a request: AT+CSQ, and 3 seconds    *)
(* for anything with OK or ERROR in it.  The request is answered all the   *)
(* same, out of buffer_rx as it is by then.                                *)
(***************************************************************************)
get_RSSI_signal ==
  /\ stateModule = "PROCESS_DATA_SERVER" /\ pc = "loop"
  /\ buffer_rx.good /\ buffer_rx.req = "signal"
  /\ pc' = "signal"
  /\ Command("CSQ")
  /\ UNCHANGED <<stateModule, tries, sendSocket, uart, buffer_tx, line, powered,
                 connected, asked, drops, carriedOut, handedOver>>

SignalHeard ==
  /\ pc = "signal"
  /\ \/ responses \cap {"CSQ_OK", "CGATT_0", "CGATT_1", "CONNECT_OK", "SEND_OK",
                      "ERROR"} # {}
     \/ TimedOut
  /\ pc' = "loop"
  /\ Answer
  /\ CarriedOut
  /\ UNCHANGED <<tries, sendSocket, full, buffer_rx, eaten, heard, external>>

-----------------------------------------------------------------------------
(***************************************************************************)
(* The interrupts.  UART1: while a frame is being received everything that *)
(* arrives goes into buffer_rx, the modem's answers too, until a byte 0x16 *)
(* comes where the length says or 500 bytes have come.  While buffer_rx is *)
(* blocked the bytes of a frame go where the answers go; they may fill     *)
(* that buffer, and a byte 0x20 among them, as in any line with a space,   *)
(* is taken for the prompt.                                                *)
(***************************************************************************)
HearFrame(u) ==
  /\ uart_state = "NOTHING"
  /\ u.kind = "frame"
  /\ full' = TRUE /\ uart_state' = "BLOCK" /\ buffer_rx' = u
  /\ UNCHANGED <<eaten, heard>>

HearFrameStart(u) ==
  /\ uart_state = "NOTHING"
  /\ u.kind = "cut"
  /\ uart_state' = "RECEIVING" /\ eaten' = 0
  /\ UNCHANGED <<full, buffer_rx, heard>>

HearFrameRestUnbounded ==  \* mutant: no limit of 500 bytes
  /\ uart_state = "RECEIVING"
  /\ UNCHANGED <<uart, heard>>
HearFrameRest ==
  /\ uart_state = "RECEIVING"
  /\ \/ /\ eaten + 1 < MaxEaten /\ eaten' = eaten + 1
        /\ UNCHANGED <<uart_state, full, buffer_rx>>
     \/ /\ eaten + 1 = MaxEaten /\ eaten' = 0
        /\ uart_state' = "NOTHING"
        /\ UNCHANGED <<full, buffer_rx>>
     \/ /\ BadFrames /\ eaten' = 0
        /\ full' = TRUE /\ uart_state' = "BLOCK" /\ buffer_rx' = BadFrame
  /\ UNCHANGED heard

HearLine(u) ==
  /\ u.kind = "line"
  /\ uart_state # "RECEIVING"
  /\ prepareOk' = (prepareOk \/ u.text \in Spaced)
  /\ responses' = IF "overflow" \in responses THEN responses
                                              ELSE responses \cup {u.text}
  /\ UNCHANGED <<uart, early>>

HearBlockedFrameStored(u) ==  \* mutant: a blocked buffer is written all the same
  /\ u.kind # "line"
  /\ uart_state = "BLOCK"
  /\ buffer_rx' = IF u.kind = "frame" THEN u ELSE buffer_rx
  /\ UNCHANGED <<uart_state, full, eaten, heard>>
HearBlockedFrame(u) ==
  /\ u.kind # "line"
  /\ uart_state = "BLOCK"
  /\ prepareOk' \in {prepareOk, TRUE}
  /\ responses' \in {responses, responses \cup {"overflow"}}
  /\ early' = (early \/ (pc = "prompt" /\ ~prepareOk /\ prepareOk'))
  /\ UNCHANGED uart

myUart1_ISR ==
  /\ line # <<>>
  /\ line' = Tail(line)
  /\ LET u == Head(line) IN
       \/ HearFrame(u) \/ HearFrameStart(u) \/ HearFrameRest
       \/ HearLine(u) \/ HearBlockedFrame(u)
  /\ UNCHANGED <<main, sendSocket, buffer_tx, powered, modem, connected, asked,
                 drops, carriedOut, handedOver>>

\* The timer, every TIME_SEND_SOCKET seconds.  The main loop writes the flags of
\* the byte by load and store (gprs_com.c:313, main.c:53); a flag that is set
\* between the two and overwritten is as if this step had not been taken.
myTimer0_ISR ==
  /\ ~sendSocket
  /\ sendSocket' = TRUE
  /\ UNCHANGED <<main, uart, heard, buffer_tx, external, carriedOut, handedOver>>

(***************************************************************************)
(* The modem and the server.                                               *)
(***************************************************************************)
Says(t) == Len(line) < MaxLine /\ line' = Append(line, Line(t))

NetworkAttached ==
  /\ modem = "CGATT"
  /\ Says("CGATT_1") /\ modem' = "idle"
  /\ UNCHANGED <<main, sendSocket, uart, heard, buffer_tx, powered, connected,
                 asked, drops, carriedOut, handedOver>>

ModemConnects ==
  /\ modem = "CIPSTART"
  /\ \/ connected /\ Says("ALREADY_CONNECT") /\ connected' = connected
     \/ ~connected /\ Says("CONNECT_FAIL") /\ connected' = connected
  /\ modem' = "idle"
  /\ UNCHANGED <<main, sendSocket, uart, heard, buffer_tx, powered, asked, drops,
                 carriedOut, handedOver>>

ServerAccepts ==
  /\ modem = "CIPSTART" /\ ~connected
  /\ Says("CONNECT_OK")
  /\ connected' = TRUE /\ modem' = "idle"
  /\ UNCHANGED <<main, sendSocket, uart, heard, buffer_tx, powered, asked, drops,
                 carriedOut, handedOver>>

ModemAnswers ==
  /\ \/ /\ modem \in {"CIPSEND", "sending"} /\ ~connected
        /\ Says("ERROR") /\ modem' = "idle"
     \/ modem = "CIPSEND" /\ connected /\ Says("PROMPT") /\ modem' = "prompted"
     \/ modem = "CSQ" /\ Says("CSQ_OK") /\ modem' = "idle"
     \/ modem = "CGATT" /\ (Says("CGATT_0") \/ Says("ERROR")) /\ modem' = "idle"
     \/ modem = "sending" /\ connected /\ Says("SEND_OK") /\ modem' = "idle"
  /\ UNCHANGED <<main, sendSocket, uart, heard, buffer_tx, powered, connected,
                 asked, drops, carriedOut, handedOver>>

ConnectionDrops ==
  /\ connected /\ drops < MaxDrops
  /\ connected' = FALSE /\ drops' = drops + 1
  /\ Says("CLOSED") \/ Says("PDP_DEACT")
  /\ UNCHANGED <<main, sendSocket, uart, heard, buffer_tx, powered, modem, asked,
                 carriedOut, handedOver>>

ServerSends ==
  /\ connected /\ asked < MaxFrames /\ Len(line) < MaxLine
  /\ asked' = asked + 1
  /\ \E u \in [kind : {"frame"}, no : {asked'}, req : Requests, good : {TRUE}]
            \cup (IF BadFrames THEN {BadFrame} ELSE {})
            \cup (IF CutFrames THEN {CutFrame} ELSE {}) :
       line' = Append(line, u)
  /\ UNCHANGED <<main, sendSocket, uart, heard, buffer_tx, powered, modem,
                 connected, drops, carriedOut, handedOver>>

MainLoop ==
  \/ checkPowerOnOffGPRS \/ offModuleGprs \/ onOffModuleGprs
  \/ KeyPressed \/ NetworkFound \/ NetworkMissed
  \/ read_para \/ establishTCPClient
  \/ connectToServerNow \/ ConnectSucceeds \/ ConnectFails
  \/ trans_data_server \/ PromptComes \/ PromptFails \/ SendAnswered
  \/ LostConnect \/ Login \/ HoldSocket \/ ReadyConnect
  \/ get_command_from_server \/ get_RSSI_signal \/ SignalHeard

Modem == NetworkAttached \/ ModemConnects \/ ServerAccepts \/ ModemAnswers

Next == MainLoop \/ myUart1_ISR \/ myTimer0_ISR \/ Modem \/ ConnectionDrops
          \/ ServerSends

Spec == Init /\ [][Next]_vars

(***************************************************************************)
(* The main loop goes on, the interrupts are served, the timer runs, the   *)
(* modem answers, a modem that is asked for the network again and again is *)
(* attached at last, and a server that is called again and again accepts.  *)
(* The timer's 150 seconds are not over at every pass of the main loop     *)
(* through HOLD_SOCKET.                                                    *)
(***************************************************************************)
Leaves(A) == A /\ stateModule' # stateModule

FairSpec ==
  /\ Spec
  /\ WF_vars(MainLoop)
  /\ SF_vars(NetworkAttached) /\ SF_vars(Leaves(HoldSocket))
  /\ WF_vars(myUart1_ISR) /\ WF_vars(myTimer0_ISR)
  /\ WF_vars(Modem) /\ SF_vars(ServerAccepts)
-----------------------------------------------------------------------------
(***************************************************************************)
(* A frame that has been received stays as it is until it has been carried *)
(* out, whatever else the server sends meanwhile: the interrupt and the    *)
(* main loop share buffer_rx with no lock but uart_state.                  *)
(***************************************************************************)
FrameHeld ==
  [][full \/ stateModule = "PROCESS_DATA_SERVER" => buffer_rx' = buffer_rx]_vars

(***************************************************************************)
(* No request is carried out twice, and none out of order: a frame that    *)
(* writes the meter must not be repeated because the connection was lost   *)
(* or its answer had to be sent again.                                     *)
(***************************************************************************)
CarriedOutOnce ==
  [][get_command_from_server \/ SignalHeard => buffer_rx.no > carriedOut]_vars

(***************************************************************************)
(* Why the two hold: buffer_rx is blocked as long as its frame is wanted,  *)
(* the frame is either waiting or being carried out, and the requests come *)
(* in the order in which the server sent them, behind those carried out.   *)
(***************************************************************************)
Wanted == full \/ stateModule = "PROCESS_DATA_SERVER"
IsRequest(u) == u.kind = "frame" /\ u.good

FrameGuarded ==
  /\ Wanted => uart_state = "BLOCK"
  /\ full => stateModule # "PROCESS_DATA_SERVER"

RequestsInOrder ==
  /\ \A i \in 1 .. Len(line) :
       IsRequest(line[i]) => line[i].no > carriedOut /\ line[i].no <= asked
  /\ \A i, j \in 1 .. Len(line) :
       i < j /\ IsRequest(line[i]) /\ IsRequest(line[j]) => line[i].no < line[j].no
  /\ Wanted /\ buffer_rx.good =>
       /\ buffer_rx.no > carriedOut /\ buffer_rx.no <= asked
       /\ \A i \in 1 .. Len(line) :
            IsRequest(line[i]) => line[i].no > buffer_rx.no
  /\ carriedOut <= asked

SignalAsked ==
  pc = "signal" => stateModule = "PROCESS_DATA_SERVER" /\ buffer_rx.good

LinkInv == FrameGuarded /\ RequestsInOrder /\ SignalAsked

(***************************************************************************)
(* The link as the server sees it.  The answer to a request is on its way  *)
(* as long as trans_data_server() is to send it or is sending it; neither  *)
(* a connection lost meanwhile, nor a heartbeat, a login or a request that *)
(* is not answered brings an earlier one out of buffer_tx again.           *)
(***************************************************************************)
Sending == stateModule = "UPDATE_DATA_SERVER" \/ pc \in {"prompt", "sent"}

AnswerSent == IF Sending /\ buffer_tx.what = "reply" THEN buffer_tx.no ELSE 0

Service == INSTANCE RequestService WITH
  sent <- asked, done <- carriedOut, answer <- AnswerSent

ImplementsService == Service!Spec

(***************************************************************************)
(* What is sent is a login, a heartbeat or an answer.  A request of the    *)
(* meter overwrites buffer_tx before it is known to be refused, a waiting  *)
(* heartbeat too; its remains are not sent, also not in a repeated attempt.*)
(***************************************************************************)
SentWhole == Sending => buffer_tx.what # "none"

(***************************************************************************)
(* From READ_PARA_CONFIG on the modem is switched on, although its power   *)
(* key only toggles and the module learns the modem's state by asking: an  *)
(* answer that comes late, when the key has switched the modem off again,  *)
(* is not taken for one to a question asked since.                         *)
(***************************************************************************)
PoweredWhenUsed ==
  stateModule \notin {"STATE_MODULE", "OFF_GPRS", "ON_GPRS"} => powered

(***************************************************************************)
(* "Alarm send error <=> Can not send data to server" (gprs_com.c:422):    *)
(* trans_data_server() ends in READY_CONNECT only if the modem has taken   *)
(* the frame, unless the bytes of another frame, heard while buffer_rx was *)
(* blocked, have been taken for the prompt of this attempt.                *)
(***************************************************************************)
SendErrorAlarm ==
  [][SendAnswered /\ stateModule' = "READY_CONNECT" =>
       handedOver \/ early]_vars

(***************************************************************************)
(* A frame in the buffer is taken up, also when the connection is lost or  *)
(* the modem's answers are swallowed by a frame that was cut off.          *)
(***************************************************************************)
FrameTaken == full ~> ~full

(***************************************************************************)
(* A lost connection is noticed, though nothing tells the module but the   *)
(* failure of what it sends, and is made again, and the module hears of it *)
(* and is ready for the server.                                            *)
(***************************************************************************)
Reconnects ==
  ~connected ~> (connected /\ stateModule = "READY_CONNECT")

(***************************************************************************)
(* "send data to hold socket of transmission (A4_Command)" (system.h:96):  *)
(* once the timer has set the flag a heartbeat is sent at last, although a *)
(* frame that comes while one is prepared takes its place in buffer_tx and *)
(* the flag is down by then.                                               *)
(***************************************************************************)
SocketHeld == sendSocket ~> (Sending /\ buffer_tx.what = "socket")
=============================================================================
