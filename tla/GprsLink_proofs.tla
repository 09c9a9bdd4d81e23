---------------------------- MODULE GprsLink_proofs ----------------------------
(***************************************************************************)
(* Proofs about the link to the server, for every number of frames, losses *)
(* of the connection and units on the line, and for every combination of   *)
(* faults: type correctness, the frame that is held while it is wanted,    *)
(* requests that are carried out once and in order, a modem that is on     *)
(* when it is used, and, for a modem that answers in time, the alarm for a *)
(* frame that could not be sent.                                           *)
(***************************************************************************)
EXTENDS GprsLink, TLAPS

(***************************************************************************)
(* TypeOK by groups of variables that change together.                     *)
(***************************************************************************)
MainType ==
  /\ stateModule \in States
  /\ pc \in {"loop", "key", "network", "connect", "prompt", "sent", "signal"}
  /\ tries \in 0 .. IF pc = "network" THEN 9 ELSE 2
UartType ==
  /\ uart_state \in {"NOTHING", "RECEIVING", "BLOCK"}
  /\ full \in BOOLEAN /\ buffer_rx \in Frame /\ eaten \in 0 .. MaxEaten - 1
HeardType ==
  responses \subseteq Texts \cup {"overflow"} /\ prepareOk \in BOOLEAN /\ early \in BOOLEAN
SendType ==
  /\ sendSocket \in BOOLEAN
  /\ buffer_tx \in [what : {"none", "login", "socket", "reply"}, no : 0 .. MaxFrames]
  /\ carriedOut \in 0 .. MaxFrames /\ handedOver \in BOOLEAN
ModemType ==
  /\ powered \in BOOLEAN /\ connected \in BOOLEAN
  /\ modem \in {"idle", "CGATT", "CIPSTART", "CIPSEND", "CSQ", "prompted",
                "sending"}
LineType ==
  /\ line \in Seq(Unit) /\ Len(line) <= MaxLine
  /\ asked \in 0 .. MaxFrames /\ drops \in 0 .. MaxDrops

Types ==
  MainType /\ UartType /\ HeardType /\ SendType /\ ModemType /\ LineType

BufferInv == FrameGuarded /\ RequestsInOrder

IInv == Types /\ BufferInv /\ SignalAsked

LEMMA Groups == TypeOK <=> Types
BY Zenon DEF TypeOK, Types, MainType, UartType, HeardType, SendType, ModemType,
   LineType

\* The units that travel on the line, and what may be put into the buffers.
LEMMA FrameUnits == Frame \subseteq Unit /\ CutFrame \in Unit
BY Zenon DEF Unit

LEMMA LineUnit == ASSUME NEW t \in Texts PROVE Line(t) \in Unit
BY Zenon DEF Unit

LEMMA BadFrameType == BadFrame \in Frame /\ BadFrame.good = FALSE
BY BoundAssumption DEF BadFrame, Frame, Requests

LEMMA SendsType ==
  ASSUME NEW w \in {"none", "login", "socket", "reply"}, NEW n \in 0 .. MaxFrames
  PROVE  [what |-> w, no |-> n]
           \in [what : {"none", "login", "socket", "reply"}, no : 0 .. MaxFrames]
OBVIOUS

LEMMA ZeroFrames == 0 \in 0 .. MaxFrames
BY BoundAssumption

\* The fields of a frame.
LEMMA FrameFields ==
  ASSUME NEW u \in Frame
  PROVE  u.kind = "frame" /\ u.no \in 0 .. MaxFrames /\ u.good \in BOOLEAN
BY DEF Frame

\* A unit that is a whole frame is one of Frame.
LEMMA UnitFrame ==
  ASSUME NEW u \in Unit, u.kind = "frame" PROVE u \in Frame
BY DEF Unit, CutFrame, Line

\* Neither a cut frame nor a line of the modem is a request.
LEMMA NoRequest ==
  /\ ~IsRequest(CutFrame) /\ ~IsRequest(BadFrame)
  /\ \A t : ~IsRequest(Line(t))
BY DEF IsRequest, CutFrame, BadFrame, Line

LEMMA InitTypes == Init => Types
<1> SUFFICES ASSUME Init PROVE Types
  OBVIOUS
<1>1. MainType
  BY DEF Init, MainType, States
<1>2. UartType
  <2>1. 0 \in 0 .. MaxEaten - 1
    BY BoundAssumption
  <2> QED
    BY <2>1, BadFrameType, Zenon DEF Init, UartType
<1>3. HeardType
  BY DEF Init, HeardType
<1>4. SendType
  <2>1. buffer_tx \in [what : {"none", "login", "socket", "reply"},
                       no : 0 .. MaxFrames]
    BY SendsType, ZeroFrames DEF Init
  <2> QED
    BY <2>1, ZeroFrames DEF Init, SendType
<1>5. ModemType
  BY DEF Init, ModemType
<1>6. LineType
  BY BoundAssumption DEF Init, LineType
<1> QED
  BY <1>1, <1>2, <1>3, <1>4, <1>5, <1>6 DEF Types

(***************************************************************************)
(* Types under the steps that switch the modem on, ...                     *)
(***************************************************************************)
PowerSteps ==
  \/ checkPowerOnOffGPRS \/ offModuleGprs \/ onOffModuleGprs
  \/ KeyPressed \/ NetworkFound \/ NetworkMissed

LEMMA PowerTypes == Types /\ PowerSteps => Types'
<1> SUFFICES ASSUME Types, PowerSteps PROVE Types'
  OBVIOUS
<1> USE BoundAssumption DEF Types, States, main, uart, heard, external
<1>1. CASE checkPowerOnOffGPRS
  <2>1. MainType'
    BY <1>1 DEF checkPowerOnOffGPRS, MainType
  <2>2. UartType'
    BY <1>1 DEF checkPowerOnOffGPRS, UartType
  <2>3. HeardType'
    BY <1>1 DEF checkPowerOnOffGPRS, HeardType
  <2>4. SendType'
    BY <1>1 DEF checkPowerOnOffGPRS, SendType
  <2>5. ModemType'
    BY <1>1 DEF checkPowerOnOffGPRS, ModemType
  <2>6. LineType'
    BY <1>1 DEF checkPowerOnOffGPRS, LineType
  <2> QED
    BY <2>1, <2>2, <2>3, <2>4, <2>5, <2>6 DEF Types
<1>2. CASE offModuleGprs
  <2>1. MainType'
    BY <1>2 DEF offModuleGprs, PressKey, MainType
  <2>2. UartType'
    BY <1>2 DEF offModuleGprs, PressKey, UartType
  <2>3. HeardType'
    BY <1>2 DEF offModuleGprs, PressKey, HeardType
  <2>4. SendType'
    BY <1>2 DEF offModuleGprs, PressKey, SendType
  <2>5. ModemType'
    BY <1>2 DEF offModuleGprs, PressKey, ModemType
  <2>6. LineType'
    BY <1>2 DEF offModuleGprs, PressKey, LineType
  <2> QED
    BY <2>1, <2>2, <2>3, <2>4, <2>5, <2>6 DEF Types
<1>3. CASE onOffModuleGprs
  <2>1. MainType'
    BY <1>3 DEF onOffModuleGprs, PressKey, MainType
  <2>2. UartType'
    BY <1>3 DEF onOffModuleGprs, PressKey, UartType
  <2>3. HeardType'
    BY <1>3 DEF onOffModuleGprs, PressKey, HeardType
  <2>4. SendType'
    BY <1>3 DEF onOffModuleGprs, PressKey, SendType
  <2>5. ModemType'
    BY <1>3 DEF onOffModuleGprs, PressKey, ModemType
  <2>6. LineType'
    BY <1>3 DEF onOffModuleGprs, PressKey, LineType
  <2> QED
    BY <2>1, <2>2, <2>3, <2>4, <2>5, <2>6 DEF Types
<1>4. CASE KeyPressed
  <2>1. MainType'
    BY <1>4 DEF KeyPressed, AskNetwork, MainType
  <2>2. UartType'
    BY <1>4 DEF KeyPressed, AskNetwork, UartType
  <2>3. HeardType'
    BY <1>4 DEF KeyPressed, AskNetwork, HeardType
  <2>4. SendType'
    BY <1>4 DEF KeyPressed, AskNetwork, SendType
  <2>5. ModemType'
    BY <1>4 DEF KeyPressed, AskNetwork, ModemType
  <2>6. LineType'
    BY <1>4 DEF KeyPressed, AskNetwork, LineType
  <2> QED
    BY <2>1, <2>2, <2>3, <2>4, <2>5, <2>6 DEF Types
<1>5. CASE NetworkFound
  <2>1. MainType'
    BY <1>5 DEF NetworkFound, MainType
  <2>2. UartType'
    BY <1>5 DEF NetworkFound, UartType
  <2>3. HeardType'
    BY <1>5 DEF NetworkFound, HeardType
  <2>4. SendType'
    BY <1>5 DEF NetworkFound, SendType
  <2>5. ModemType'
    BY <1>5 DEF NetworkFound, ModemType
  <2>6. LineType'
    BY <1>5 DEF NetworkFound, LineType
  <2> QED
    BY <2>1, <2>2, <2>3, <2>4, <2>5, <2>6 DEF Types
<1>6. CASE NetworkMissed
  <2>1. MainType'
    BY <1>6 DEF NetworkMissed, AskNetwork, MainType
  <2>2. UartType'
    BY <1>6 DEF NetworkMissed, AskNetwork, UartType
  <2>3. HeardType'
    BY <1>6 DEF NetworkMissed, AskNetwork, HeardType
  <2>4. SendType'
    BY <1>6 DEF NetworkMissed, AskNetwork, SendType
  <2>5. ModemType'
    BY <1>6 DEF NetworkMissed, AskNetwork, ModemType
  <2>6. LineType'
    BY <1>6 DEF NetworkMissed, AskNetwork, LineType
  <2> QED
    BY <2>1, <2>2, <2>3, <2>4, <2>5, <2>6 DEF Types
<1> QED
  BY <1>1, <1>2, <1>3, <1>4, <1>5, <1>6 DEF PowerSteps

(***************************************************************************)
(* ... and those that connect.                                             *)
(***************************************************************************)
ConnectSteps ==
  \/ read_para \/ establishTCPClient \/ connectToServerNow \/ ConnectSucceeds
  \/ ConnectFails \/ LostConnect \/ Login

LEMMA ConnectTypes == Types /\ ConnectSteps => Types'
<1> SUFFICES ASSUME Types, ConnectSteps PROVE Types'
  OBVIOUS
<1> USE BoundAssumption DEF Types, States, main, uart, heard, external
<1>1. CASE read_para
  <2>1. MainType'
    BY <1>1 DEF read_para, MainType
  <2>2. UartType'
    BY <1>1 DEF read_para, UartType
  <2>3. HeardType'
    BY <1>1 DEF read_para, HeardType
  <2>4. SendType'
    BY <1>1 DEF read_para, SendType
  <2>5. ModemType'
    BY <1>1 DEF read_para, ModemType
  <2>6. LineType'
    BY <1>1 DEF read_para, LineType
  <2> QED
    BY <2>1, <2>2, <2>3, <2>4, <2>5, <2>6 DEF Types
<1>2. CASE establishTCPClient
  <2>1. MainType'
    BY <1>2 DEF establishTCPClient, MainType
  <2>2. UartType'
    BY <1>2 DEF establishTCPClient, UartType
  <2>3. HeardType'
    BY <1>2 DEF establishTCPClient, HeardType
  <2>4. SendType'
    BY <1>2 DEF establishTCPClient, SendType
  <2>5. ModemType'
    BY <1>2 DEF establishTCPClient, ModemType
  <2>6. LineType'
    BY <1>2 DEF establishTCPClient, LineType
  <2> QED
    BY <2>1, <2>2, <2>3, <2>4, <2>5, <2>6 DEF Types
<1>3. CASE connectToServerNow
  <2>1. MainType'
    BY <1>3 DEF connectToServerNow, Command, MainType
  <2>2. UartType'
    BY <1>3 DEF connectToServerNow, Command, UartType
  <2>3. HeardType'
    BY <1>3 DEF connectToServerNow, Command, HeardType
  <2>4. SendType'
    BY <1>3 DEF connectToServerNow, Command, SendType
  <2>5. ModemType'
    BY <1>3 DEF connectToServerNow, Command, ModemType
  <2>6. LineType'
    BY <1>3 DEF connectToServerNow, Command, LineType
  <2> QED
    BY <2>1, <2>2, <2>3, <2>4, <2>5, <2>6 DEF Types
<1>4. CASE ConnectSucceeds
  <2>1. MainType'
    <3>1. stateModule' \in {"LOGIN", "READY_CONNECT"} /\ pc' = "loop" /\ tries' = 0
      BY <1>4 DEF ConnectSucceeds
    <3> QED
      BY <3>1 DEF MainType
  <2>2. UartType'
    BY <1>4 DEF ConnectSucceeds, UartType
  <2>3. HeardType'
    BY <1>4 DEF ConnectSucceeds, HeardType
  <2>4. SendType'
    BY <1>4 DEF ConnectSucceeds, SendType
  <2>5. ModemType'
    BY <1>4 DEF ConnectSucceeds, ModemType
  <2>6. LineType'
    BY <1>4 DEF ConnectSucceeds, LineType
  <2> QED
    BY <2>1, <2>2, <2>3, <2>4, <2>5, <2>6 DEF Types
<1>5. CASE ConnectFails
  <2>1. MainType'
    <3>1. \/ tries < 2 /\ tries' = tries + 1 /\ stateModule' = stateModule /\ pc' = pc
          \/ tries' = 0 /\ stateModule' = "INIT_GPRS" /\ pc' = "loop"
      BY <1>5, Zenon DEF ConnectFails
    <3> QED
      BY <3>1 DEF MainType
  <2>2. UartType'
    BY <1>5 DEF ConnectFails, Command, UartType
  <2>3. HeardType'
    BY <1>5 DEF ConnectFails, Command, HeardType
  <2>4. SendType'
    BY <1>5 DEF ConnectFails, Command, SendType
  <2>5. ModemType'
    BY <1>5 DEF ConnectFails, Command, ModemType
  <2>6. LineType'
    BY <1>5 DEF ConnectFails, Command, LineType
  <2> QED
    BY <2>1, <2>2, <2>3, <2>4, <2>5, <2>6 DEF Types
<1>6. CASE LostConnect
  <2>1. MainType'
    BY <1>6 DEF LostConnect, MainType
  <2>2. UartType'
    BY <1>6 DEF LostConnect, UartType
  <2>3. HeardType'
    BY <1>6 DEF LostConnect, HeardType
  <2>4. SendType'
    BY <1>6 DEF LostConnect, SendType
  <2>5. ModemType'
    BY <1>6 DEF LostConnect, ModemType
  <2>6. LineType'
    BY <1>6 DEF LostConnect, LineType
  <2> QED
    BY <2>1, <2>2, <2>3, <2>4, <2>5, <2>6 DEF Types
<1>7. CASE Login
  <2>1. MainType'
    BY <1>7 DEF Login, MainType
  <2>2. UartType'
    BY <1>7 DEF Login, UartType
  <2>3. HeardType'
    BY <1>7 DEF Login, HeardType
  <2>4. SendType'
    <3>1. buffer_tx' = [what |-> "login", no |-> 0]
      BY <1>7 DEF Login, send_command_to_server
    <3>2. buffer_tx' \in [what : {"none", "login", "socket", "reply"}, no : 0 .. MaxFrames]
      BY <3>1, SendsType, ZeroFrames
    <3> QED
      BY <1>7, <3>2 DEF Login, send_command_to_server, SendType
  <2>5. ModemType'
    BY <1>7 DEF Login, ModemType
  <2>6. LineType'
    BY <1>7 DEF Login, LineType
  <2> QED
    BY <2>1, <2>2, <2>3, <2>4, <2>5, <2>6 DEF Types
<1> QED
  BY <1>1, <1>2, <1>3, <1>4, <1>5, <1>6, <1>7 DEF ConnectSteps

(***************************************************************************)
(* Types under the steps that send a frame.                                *)
(***************************************************************************)
SendSteps ==
  trans_data_server \/ PromptComes \/ PromptFails \/ SendAnswered

LEMMA SendTypes == Types /\ SendSteps => Types'
<1> SUFFICES ASSUME Types, SendSteps PROVE Types'
  OBVIOUS
<1> USE BoundAssumption DEF Types, States, main, uart, heard, external
<1>1. CASE trans_data_server
  <2>1. MainType'
    BY <1>1 DEF trans_data_server, Command, MainType
  <2>2. UartType'
    BY <1>1 DEF trans_data_server, Command, UartType
  <2>3. HeardType'
    BY <1>1 DEF trans_data_server, Command, HeardType
  <2>4. SendType'
    BY <1>1 DEF trans_data_server, Command, SendType
  <2>5. ModemType'
    BY <1>1 DEF trans_data_server, Command, ModemType
  <2>6. LineType'
    BY <1>1 DEF trans_data_server, Command, LineType
  <2> QED
    BY <2>1, <2>2, <2>3, <2>4, <2>5, <2>6 DEF Types
<1>2. CASE PromptComes
  <2>1. MainType'
    BY <1>2 DEF PromptComes, MainType
  <2>2. UartType'
    BY <1>2 DEF PromptComes, UartType
  <2>3. HeardType'
    BY <1>2 DEF PromptComes, HeardType
  <2>4. SendType'
    BY <1>2 DEF PromptComes, SendType
  <2>5. ModemType'
    BY <1>2 DEF PromptComes, ModemType
  <2>6. LineType'
    BY <1>2 DEF PromptComes, LineType
  <2> QED
    BY <2>1, <2>2, <2>3, <2>4, <2>5, <2>6 DEF Types
<1>3. CASE PromptFails
  <2>1. MainType'
    BY <1>3 DEF PromptFails, Command, MainType
  <2>2. UartType'
    BY <1>3 DEF PromptFails, Command, UartType
  <2>3. HeardType'
    BY <1>3 DEF PromptFails, Command, HeardType
  <2>4. SendType'
    BY <1>3 DEF PromptFails, Command, SendType
  <2>5. ModemType'
    BY <1>3 DEF PromptFails, Command, ModemType
  <2>6. LineType'
    BY <1>3 DEF PromptFails, Command, LineType
  <2> QED
    BY <2>1, <2>2, <2>3, <2>4, <2>5, <2>6 DEF Types
<1>4. CASE SendAnswered
  <2>1. MainType'
    BY <1>4 DEF SendAnswered, MainType
  <2>2. UartType'
    BY <1>4 DEF SendAnswered, UartType
  <2>3. HeardType'
    BY <1>4 DEF SendAnswered, HeardType
  <2>4. SendType'
    BY <1>4 DEF SendAnswered, SendType
  <2>5. ModemType'
    BY <1>4 DEF SendAnswered, ModemType
  <2>6. LineType'
    BY <1>4 DEF SendAnswered, LineType
  <2> QED
    BY <2>1, <2>2, <2>3, <2>4, <2>5, <2>6 DEF Types
<1> QED
  BY <1>1, <1>2, <1>3, <1>4 DEF SendSteps

(***************************************************************************)
(* Types under the steps that serve the flag and the server's frames.      *)
(***************************************************************************)
ServeSteps ==
  \/ HoldSocket \/ ReadyConnect
  \/ get_command_from_server \/ get_RSSI_signal \/ SignalHeard

LEMMA ServeTypes == Types /\ ServeSteps => Types'
<1> SUFFICES ASSUME Types, ServeSteps PROVE Types'
  OBVIOUS
<1> USE BoundAssumption DEF Types, States, main, uart, heard, external
<1>1. CASE HoldSocket
  <2>1. MainType'
    BY <1>1 DEF HoldSocket, TakeFrame, TakeFlag, send_command_to_server, MainType
  <2>2. UartType'
    BY <1>1 DEF HoldSocket, TakeFrame, TakeFlag, send_command_to_server, UartType
  <2>3. HeardType'
    BY <1>1 DEF HoldSocket, TakeFrame, TakeFlag, send_command_to_server, HeardType
  <2>4. SendType'
    <3>1. buffer_tx' = [what |-> "socket", no |-> 0] /\ handedOver' = FALSE
          /\ carriedOut' = carriedOut
      BY <1>1 DEF HoldSocket, send_command_to_server
    <3>2. buffer_tx' \in [what : {"none", "login", "socket", "reply"}, no : 0 .. MaxFrames]
      BY <3>1, SendsType, ZeroFrames
    <3>3. sendSocket' \in BOOLEAN
      BY <1>1 DEF HoldSocket, TakeFrame, TakeFlag, SendType
    <3> QED
      BY <3>1, <3>2, <3>3 DEF SendType
  <2>5. ModemType'
    BY <1>1 DEF HoldSocket, TakeFrame, TakeFlag, send_command_to_server, ModemType
  <2>6. LineType'
    BY <1>1 DEF HoldSocket, TakeFrame, TakeFlag, send_command_to_server, LineType
  <2> QED
    BY <2>1, <2>2, <2>3, <2>4, <2>5, <2>6 DEF Types
<1>2. CASE ReadyConnect
  <2>1. MainType'
    BY <1>2 DEF ReadyConnect, TakeFrame, TakeFlag, MainType
  <2>2. UartType'
    BY <1>2 DEF ReadyConnect, TakeFrame, TakeFlag, UartType
  <2>3. HeardType'
    BY <1>2 DEF ReadyConnect, TakeFrame, TakeFlag, HeardType
  <2>4. SendType'
    BY <1>2 DEF ReadyConnect, TakeFrame, TakeFlag, SendType
  <2>5. ModemType'
    BY <1>2 DEF ReadyConnect, TakeFrame, TakeFlag, ModemType
  <2>6. LineType'
    BY <1>2 DEF ReadyConnect, TakeFrame, TakeFlag, LineType
  <2> QED
    BY <2>1, <2>2, <2>3, <2>4, <2>5, <2>6 DEF Types
<1>3. CASE get_command_from_server
  <2>1. MainType'
    BY <1>3 DEF get_command_from_server, Answer, NoAnswer, CarriedOut, MainType
  <2>2. UartType'
    BY <1>3 DEF get_command_from_server, Answer, NoAnswer, CarriedOut, UartType
  <2>3. HeardType'
    BY <1>3 DEF get_command_from_server, Answer, NoAnswer, CarriedOut, HeardType
  <2>4. SendType'
    <3>1. buffer_rx \in Frame
      BY DEF UartType
    <3>2. buffer_rx.no \in 0 .. MaxFrames
      BY <3>1, FrameFields
    <3>3. /\ carriedOut' = buffer_rx.no /\ sendSocket' = sendSocket
          /\ handedOver' \in {FALSE, handedOver}
          /\ buffer_tx' \in {[what |-> "reply", no |-> buffer_rx.no],
                             [what |-> "none", no |-> 0], buffer_tx}
      BY <1>3 DEF get_command_from_server, Answer, NoAnswer, CarriedOut
    <3>4. buffer_tx' \in [what : {"none", "login", "socket", "reply"}, no : 0 .. MaxFrames]
      BY <3>2, <3>3, SendsType, ZeroFrames DEF SendType
    <3> QED
      BY <3>2, <3>3, <3>4 DEF SendType
  <2>5. ModemType'
    BY <1>3 DEF get_command_from_server, Answer, NoAnswer, CarriedOut, ModemType
  <2>6. LineType'
    BY <1>3 DEF get_command_from_server, Answer, NoAnswer, CarriedOut, LineType
  <2> QED
    BY <2>1, <2>2, <2>3, <2>4, <2>5, <2>6 DEF Types
<1>4. CASE get_RSSI_signal
  <2>1. MainType'
    BY <1>4 DEF get_RSSI_signal, Command, MainType
  <2>2. UartType'
    BY <1>4 DEF get_RSSI_signal, Command, UartType
  <2>3. HeardType'
    BY <1>4 DEF get_RSSI_signal, Command, HeardType
  <2>4. SendType'
    BY <1>4 DEF get_RSSI_signal, Command, SendType
  <2>5. ModemType'
    BY <1>4 DEF get_RSSI_signal, Command, ModemType
  <2>6. LineType'
    BY <1>4 DEF get_RSSI_signal, Command, LineType
  <2> QED
    BY <2>1, <2>2, <2>3, <2>4, <2>5, <2>6 DEF Types
<1>5. CASE SignalHeard
  <2>1. MainType'
    BY <1>5 DEF SignalHeard, Answer, CarriedOut, MainType
  <2>2. UartType'
    BY <1>5 DEF SignalHeard, Answer, CarriedOut, UartType
  <2>3. HeardType'
    BY <1>5 DEF SignalHeard, Answer, CarriedOut, HeardType
  <2>4. SendType'
    <3>1. buffer_rx \in Frame
      BY DEF UartType
    <3>2. buffer_rx.no \in 0 .. MaxFrames
      BY <3>1, FrameFields
    <3>3. /\ carriedOut' = buffer_rx.no /\ sendSocket' = sendSocket
          /\ handedOver' \in {FALSE, handedOver}
          /\ buffer_tx' \in {[what |-> "reply", no |-> buffer_rx.no],
                             [what |-> "none", no |-> 0], buffer_tx}
      BY <1>5 DEF SignalHeard, Answer, CarriedOut
    <3>4. buffer_tx' \in [what : {"none", "login", "socket", "reply"}, no : 0 .. MaxFrames]
      BY <3>2, <3>3, SendsType, ZeroFrames DEF SendType
    <3> QED
      BY <3>2, <3>3, <3>4 DEF SendType
  <2>5. ModemType'
    BY <1>5 DEF SignalHeard, Answer, CarriedOut, ModemType
  <2>6. LineType'
    BY <1>5 DEF SignalHeard, Answer, CarriedOut, LineType
  <2> QED
    BY <2>1, <2>2, <2>3, <2>4, <2>5, <2>6 DEF Types
<1> QED
  BY <1>1, <1>2, <1>3, <1>4, <1>5 DEF ServeSteps

\* A line with room for one more unit.
LEMMA SaidUnit ==
  ASSUME LineType, Len(line) < MaxLine, NEW u \in Unit
  PROVE  Append(line, u) \in Seq(Unit) /\ Len(Append(line, u)) <= MaxLine
BY BoundAssumption DEF LineType

\* What the server sends is a unit.
LEMMA SentUnit ==
  ASSUME ServerSends, LineType
  PROVE  \E u \in Unit : line' = Append(line, u)
<1>1. asked' \in 0 .. MaxFrames
  BY BoundAssumption DEF ServerSends, LineType
<1>2. [kind : {"frame"}, no : {asked'}, req : Requests, good : {TRUE}] \subseteq Frame
  BY <1>1 DEF Frame
<1>3. PICK u \in [kind : {"frame"}, no : {asked'}, req : Requests, good : {TRUE}]
            \cup (IF BadFrames THEN {BadFrame} ELSE {})
            \cup (IF CutFrames THEN {CutFrame} ELSE {}) : line' = Append(line, u)
  BY DEF ServerSends
<1>4. u \in Frame \cup {CutFrame}
  BY <1>2, <1>3, BadFrameType
<1> QED
  BY <1>3, <1>4, FrameUnits

(***************************************************************************)
(* Types under the steps of the timer, the modem and the server.           *)
(***************************************************************************)
WorldSteps ==
  myTimer0_ISR \/ NetworkAttached \/ ModemConnects \/ ServerAccepts
  \/ ModemAnswers \/ ConnectionDrops \/ ServerSends

LEMMA WorldTypes == Types /\ WorldSteps => Types'
<1> SUFFICES ASSUME Types, WorldSteps PROVE Types'
  OBVIOUS
<1> USE BoundAssumption DEF Types, States, main, uart, heard, external
<1>1. CASE myTimer0_ISR
  <2>1. MainType'
    BY <1>1 DEF myTimer0_ISR, MainType
  <2>2. UartType'
    BY <1>1 DEF myTimer0_ISR, UartType
  <2>3. HeardType'
    BY <1>1 DEF myTimer0_ISR, HeardType
  <2>4. SendType'
    BY <1>1 DEF myTimer0_ISR, SendType
  <2>5. ModemType'
    BY <1>1 DEF myTimer0_ISR, ModemType
  <2>6. LineType'
    BY <1>1 DEF myTimer0_ISR, LineType
  <2> QED
    BY <2>1, <2>2, <2>3, <2>4, <2>5, <2>6 DEF Types
<1>2. CASE ModemConnects
  <2>1. MainType'
    BY <1>2 DEF ModemConnects, Says, MainType
  <2>2. UartType'
    BY <1>2 DEF ModemConnects, Says, UartType
  <2>3. HeardType'
    BY <1>2 DEF ModemConnects, Says, HeardType
  <2>4. SendType'
    BY <1>2 DEF ModemConnects, Says, SendType
  <2>5. ModemType'
    BY <1>2 DEF ModemConnects, Says, ModemType
  <2>6. LineType'
    <3>1. \E t \in Texts : Says(t)
      BY <1>2 DEF ModemConnects, Texts, Spaced
    <3>2. PICK t \in Texts : Says(t)
      BY <3>1
    <3>3. line' \in Seq(Unit) /\ Len(line') <= MaxLine
      BY <3>2, LineUnit, SaidUnit DEF Says, LineType
    <3>4. asked' = asked /\ (drops' = drops \/ (drops < MaxDrops /\ drops' = drops + 1))
      BY <1>2 DEF ModemConnects
    <3>5. drops' \in 0 .. MaxDrops
      BY <3>4 DEF LineType
    <3> QED
      BY <3>3, <3>4, <3>5 DEF LineType
  <2> QED
    BY <2>1, <2>2, <2>3, <2>4, <2>5, <2>6 DEF Types
<1>3. CASE ServerAccepts
  <2>1. MainType'
    BY <1>3 DEF ServerAccepts, Says, MainType
  <2>2. UartType'
    BY <1>3 DEF ServerAccepts, Says, UartType
  <2>3. HeardType'
    BY <1>3 DEF ServerAccepts, Says, HeardType
  <2>4. SendType'
    BY <1>3 DEF ServerAccepts, Says, SendType
  <2>5. ModemType'
    BY <1>3 DEF ServerAccepts, Says, ModemType
  <2>6. LineType'
    <3>1. \E t \in Texts : Says(t)
      BY <1>3 DEF ServerAccepts, Texts, Spaced
    <3>2. PICK t \in Texts : Says(t)
      BY <3>1
    <3>3. line' \in Seq(Unit) /\ Len(line') <= MaxLine
      BY <3>2, LineUnit, SaidUnit DEF Says, LineType
    <3>4. asked' = asked /\ (drops' = drops \/ (drops < MaxDrops /\ drops' = drops + 1))
      BY <1>3 DEF ServerAccepts
    <3>5. drops' \in 0 .. MaxDrops
      BY <3>4 DEF LineType
    <3> QED
      BY <3>3, <3>4, <3>5 DEF LineType
  <2> QED
    BY <2>1, <2>2, <2>3, <2>4, <2>5, <2>6 DEF Types
<1>4. CASE ModemAnswers
  <2>1. MainType'
    BY <1>4 DEF ModemAnswers, Says, MainType
  <2>2. UartType'
    BY <1>4 DEF ModemAnswers, Says, UartType
  <2>3. HeardType'
    BY <1>4 DEF ModemAnswers, Says, HeardType
  <2>4. SendType'
    BY <1>4 DEF ModemAnswers, Says, SendType
  <2>5. ModemType'
    BY <1>4 DEF ModemAnswers, Says, ModemType
  <2>6. LineType'
    <3>1. \E t \in Texts : Says(t)
      BY <1>4 DEF ModemAnswers, Texts, Spaced
    <3>2. PICK t \in Texts : Says(t)
      BY <3>1
    <3>3. line' \in Seq(Unit) /\ Len(line') <= MaxLine
      BY <3>2, LineUnit, SaidUnit DEF Says, LineType
    <3>4. asked' = asked /\ (drops' = drops \/ (drops < MaxDrops /\ drops' = drops + 1))
      BY <1>4 DEF ModemAnswers
    <3>5. drops' \in 0 .. MaxDrops
      BY <3>4 DEF LineType
    <3> QED
      BY <3>3, <3>4, <3>5 DEF LineType
  <2> QED
    BY <2>1, <2>2, <2>3, <2>4, <2>5, <2>6 DEF Types
<1>5. CASE ConnectionDrops
  <2>1. MainType'
    BY <1>5 DEF ConnectionDrops, Says, MainType
  <2>2. UartType'
    BY <1>5 DEF ConnectionDrops, Says, UartType
  <2>3. HeardType'
    BY <1>5 DEF ConnectionDrops, Says, HeardType
  <2>4. SendType'
    BY <1>5 DEF ConnectionDrops, Says, SendType
  <2>5. ModemType'
    BY <1>5 DEF ConnectionDrops, Says, ModemType
  <2>6. LineType'
    <3>1. \E t \in Texts : Says(t)
      BY <1>5 DEF ConnectionDrops, Texts, Spaced
    <3>2. PICK t \in Texts : Says(t)
      BY <3>1
    <3>3. line' \in Seq(Unit) /\ Len(line') <= MaxLine
      BY <3>2, LineUnit, SaidUnit DEF Says, LineType
    <3>4. asked' = asked /\ (drops' = drops \/ (drops < MaxDrops /\ drops' = drops + 1))
      BY <1>5 DEF ConnectionDrops
    <3>5. drops' \in 0 .. MaxDrops
      BY <3>4 DEF LineType
    <3> QED
      BY <3>3, <3>4, <3>5 DEF LineType
  <2> QED
    BY <2>1, <2>2, <2>3, <2>4, <2>5, <2>6 DEF Types
<1>6. CASE ServerSends
  <2>1. MainType'
    BY <1>6 DEF ServerSends, MainType
  <2>2. UartType'
    BY <1>6 DEF ServerSends, UartType
  <2>3. HeardType'
    BY <1>6 DEF ServerSends, HeardType
  <2>4. SendType'
    BY <1>6 DEF ServerSends, SendType
  <2>5. ModemType'
    BY <1>6 DEF ServerSends, ModemType
  <2>6. LineType'
    <3>1. PICK u \in Unit : line' = Append(line, u)
      BY <1>6, SentUnit DEF ServerSends
    <3>2. line' \in Seq(Unit) /\ Len(line') <= MaxLine
      BY <1>6, <3>1, SaidUnit DEF ServerSends, LineType
    <3>3. asked' \in 0 .. MaxFrames /\ drops' = drops
      BY <1>6 DEF ServerSends, LineType
    <3> QED
      BY <3>2, <3>3 DEF LineType
  <2> QED
    BY <2>1, <2>2, <2>3, <2>4, <2>5, <2>6 DEF Types
<1>7. CASE NetworkAttached
  <2>1. MainType'
    BY <1>7 DEF NetworkAttached, Says, MainType
  <2>2. UartType'
    BY <1>7 DEF NetworkAttached, Says, UartType
  <2>3. HeardType'
    BY <1>7 DEF NetworkAttached, Says, HeardType
  <2>4. SendType'
    BY <1>7 DEF NetworkAttached, Says, SendType
  <2>5. ModemType'
    BY <1>7 DEF NetworkAttached, Says, ModemType
  <2>6. LineType'
    <3>1. \E t \in Texts : Says(t)
      BY <1>7 DEF NetworkAttached, Texts, Spaced
    <3>2. PICK t \in Texts : Says(t)
      BY <3>1
    <3>3. line' \in Seq(Unit) /\ Len(line') <= MaxLine
      BY <3>2, LineUnit, SaidUnit DEF Says, LineType
    <3>4. asked' = asked /\ (drops' = drops \/ (drops < MaxDrops /\ drops' = drops + 1))
      BY <1>7 DEF NetworkAttached
    <3>5. drops' \in 0 .. MaxDrops
      BY <3>4 DEF LineType
    <3> QED
      BY <3>3, <3>4, <3>5 DEF LineType
  <2> QED
    BY <2>1, <2>2, <2>3, <2>4, <2>5, <2>6 DEF Types
<1> QED
  BY <1>1, <1>2, <1>3, <1>4, <1>5, <1>6, <1>7 DEF WorldSteps

\* What is left of the line when its first unit has been heard.
LEMMA TailUnits ==
  ASSUME LineType, line # <<>>
  PROVE  Tail(line) \in Seq(Unit) /\ Len(Tail(line)) <= MaxLine
BY BoundAssumption DEF LineType

LEMMA LineText == ASSUME NEW u \in Unit, u.kind = "line" PROVE u.text \in Texts
BY DEF Unit, Frame, CutFrame, Line

(***************************************************************************)
(* Types under the UART1 interrupt.                                        *)
(***************************************************************************)
InterruptSteps ==
  myUart1_ISR

LEMMA InterruptTypes == Types /\ InterruptSteps => Types'
<1> SUFFICES ASSUME Types, InterruptSteps PROVE Types'
  OBVIOUS
<1> USE BoundAssumption DEF Types, States, main, uart, heard, external
<1>1. CASE myUart1_ISR
  <2>1. MainType'
    BY <1>1 DEF myUart1_ISR, MainType
  <2>2. UartType'
    <3>1. PICK u \in {Head(line)} :
            \/ HearFrame(u) \/ HearFrameStart(u) \/ HearFrameRest
            \/ HearLine(u) \/ HearBlockedFrame(u)
      BY <1>1 DEF myUart1_ISR
    <3>2. u \in Unit
      BY <1>1 DEF myUart1_ISR, LineType
    <3>3. CASE HearFrame(u)
      <4>1. u \in Frame
        BY <3>2, <3>3, UnitFrame DEF HearFrame
      <4> QED
        BY <3>3, <4>1 DEF HearFrame, UartType
    <3>4. CASE HearFrameStart(u)
      BY <3>4 DEF HearFrameStart, UartType
    <3>5. CASE HearFrameRest
      <4>1. \/ eaten + 1 < MaxEaten /\ eaten' = eaten + 1
            \/ eaten' = 0
        BY <3>5, Zenon DEF HearFrameRest
      <4>2. eaten' \in 0 .. MaxEaten - 1
        BY <4>1 DEF UartType
      <4>3. /\ uart_state' \in {uart_state, "NOTHING", "BLOCK"}
            /\ full' \in {full, TRUE} /\ buffer_rx' \in {buffer_rx, BadFrame}
        BY <3>5, Zenon DEF HearFrameRest
      <4> QED
        BY <4>2, <4>3, BadFrameType, Zenon DEF UartType
    <3>6. CASE HearLine(u) \/ HearBlockedFrame(u)
      BY <3>6 DEF HearLine, HearBlockedFrame, UartType
    <3> QED
      BY <3>1, <3>3, <3>4, <3>5, <3>6
  <2>3. HeardType'
    <3>1. PICK u \in {Head(line)} :
            \/ HearFrame(u) \/ HearFrameStart(u) \/ HearFrameRest
            \/ HearLine(u) \/ HearBlockedFrame(u)
      BY <1>1 DEF myUart1_ISR
    <3>2. u \in Unit
      BY <1>1 DEF myUart1_ISR, LineType
    <3>3. CASE HearLine(u)
      <4>1. u.text \in Texts
        BY <3>2, <3>3, LineText DEF HearLine
      <4>2. responses' \subseteq Texts \cup {"overflow"}
        BY <3>3, <4>1 DEF HearLine, HeardType
      <4>3. prepareOk' \in BOOLEAN
        BY <3>3 DEF HearLine
      <4>4. early' \in BOOLEAN
        BY <3>3, Zenon DEF HearLine, HeardType
      <4> QED
        BY <4>2, <4>3, <4>4, Zenon DEF HeardType
    <3>4. CASE HearFrame(u) \/ HearFrameStart(u) \/ HearFrameRest
      BY <3>4 DEF HearFrame, HearFrameStart, HearFrameRest, HeardType
    <3>5. CASE HearBlockedFrame(u)
      <4>1. responses' \in {responses, responses \cup {"overflow"}}
        BY <3>5, Zenon DEF HearBlockedFrame
      <4>2. responses' \subseteq Texts \cup {"overflow"}
        BY <4>1 DEF HeardType
      <4>3. prepareOk' \in {prepareOk, TRUE}
        BY <3>5, Zenon DEF HearBlockedFrame
      <4>4. prepareOk' \in BOOLEAN
        BY <4>3 DEF HeardType
      <4>5. early' \in BOOLEAN
        BY <3>5, Zenon DEF HearBlockedFrame
      <4> QED
        BY <4>2, <4>4, <4>5 DEF HeardType
    <3> QED
      BY <3>1, <3>3, <3>4, <3>5
  <2>4. SendType'
    BY <1>1 DEF myUart1_ISR, SendType
  <2>5. ModemType'
    BY <1>1 DEF myUart1_ISR, ModemType
  <2>6. LineType'
    BY <1>1, TailUnits DEF myUart1_ISR, LineType
  <2> QED
    BY <2>1, <2>2, <2>3, <2>4, <2>5, <2>6 DEF Types
<1> QED
  BY <1>1 DEF InterruptSteps

LEMMA NextTypes == Types /\ [Next]_vars => Types'
<1> SUFFICES ASSUME Types, [Next]_vars PROVE Types'
  OBVIOUS
<1>1. CASE UNCHANGED vars
  BY <1>1 DEF vars, Types, MainType, UartType, HeardType, SendType, ModemType,
     LineType
<1>2. CASE PowerSteps \/ ConnectSteps
  BY <1>2, PowerTypes, ConnectTypes
<1>3. CASE SendSteps
  BY <1>3, SendTypes
<1>4. CASE ServeSteps
  BY <1>4, ServeTypes
<1>5. CASE WorldSteps
  BY <1>5, WorldTypes
<1>6. CASE InterruptSteps
  BY <1>6, InterruptTypes
<1> QED
  BY <1>1, <1>2, <1>3, <1>4, <1>5, <1>6, Zenon
     DEF Next, MainLoop, Modem, PowerSteps, ConnectSteps, SendSteps, ServeSteps,
         WorldSteps, InterruptSteps

(***************************************************************************)
(* The variables of every state have their types.                          *)
(***************************************************************************)
THEOREM TypeCorrect == Spec => []TypeOK
<1>1. Init => Types
  BY InitTypes
<1>2. Types /\ [Next]_vars => Types'
  BY NextTypes
<1>3. Types => TypeOK
  BY Groups
<1> QED
  BY <1>1, <1>2, <1>3, PTL DEF Spec

-----------------------------------------------------------------------------
(***************************************************************************)
(* LinkInv is inductive.  A step that touches neither buffer_rx nor the    *)
(* line preserves it unless it makes a frame wanted.                       *)
(***************************************************************************)
LEMMA InitLink == Init => BufferInv /\ SignalAsked
BY BadFrameType DEF Init, BufferInv, FrameGuarded, RequestsInOrder, Wanted,
   SignalAsked

LEMMA QuietStep ==
  ASSUME BufferInv,
         UNCHANGED <<full, uart_state, buffer_rx, line, asked, carriedOut>>,
         stateModule' = "PROCESS_DATA_SERVER" => stateModule = "PROCESS_DATA_SERVER"
  PROVE  BufferInv'
<1>1. Wanted' => Wanted
  BY DEF Wanted
<1>2. FrameGuarded'
  BY <1>1, Zenon DEF BufferInv, FrameGuarded
<1>3. RequestsInOrder'
  BY <1>1 DEF BufferInv, RequestsInOrder
<1> QED
  BY <1>2, <1>3 DEF BufferInv

\* One more unit on the line: a request is a new one.
LEMMA SaidStep ==
  ASSUME BufferInv, LineType, UartType, SendType,
         NEW u \in Unit, line' = Append(line, u),
         UNCHANGED <<full, uart_state, buffer_rx, stateModule, carriedOut>>,
         asked' \in {asked, asked + 1},
         IsRequest(u) => u.no = asked + 1 /\ asked' = asked + 1
  PROVE  BufferInv'
<1>1. Wanted' <=> Wanted
  BY DEF Wanted
<1>2. FrameGuarded'
  BY <1>1, Zenon DEF BufferInv, FrameGuarded
<1>3. /\ asked \in Nat /\ asked' \in Nat /\ asked <= asked'
      /\ carriedOut \in Nat /\ buffer_rx.no \in Nat /\ Len(line) \in Nat
  BY BoundAssumption, FrameFields DEF LineType, UartType, SendType
<1>4. /\ Len(line') = Len(line) + 1
      /\ \A i \in 1 .. Len(line) : line'[i] = line[i]
      /\ line'[Len(line) + 1] = u
  BY DEF LineType
<1>5. ASSUME NEW i \in 1 .. Len(line)
      PROVE  IsRequest(line[i]) => line[i].no \in Nat
  <2>1. line[i] \in Unit
    BY DEF LineType
  <2> QED
    BY <2>1, UnitFrame, FrameFields, BoundAssumption DEF IsRequest
<1>6. \A i \in 1 .. Len(line') :
        IsRequest(line'[i]) => line'[i].no > carriedOut /\ line'[i].no <= asked'
  <2> SUFFICES ASSUME NEW i \in 1 .. Len(line'), IsRequest(line'[i])
               PROVE  line'[i].no > carriedOut /\ line'[i].no <= asked'
    OBVIOUS
  <2>1. CASE i \in 1 .. Len(line)
    BY <2>1, <1>3, <1>4, <1>5 DEF BufferInv, RequestsInOrder
  <2>2. CASE i = Len(line) + 1
    BY <2>2, <1>3, <1>4 DEF BufferInv, RequestsInOrder
  <2> QED
    BY <2>1, <2>2, <1>3, <1>4
<1>7. \A i, j \in 1 .. Len(line') :
        i < j /\ IsRequest(line'[i]) /\ IsRequest(line'[j])
          => line'[i].no < line'[j].no
  <2> SUFFICES ASSUME NEW i \in 1 .. Len(line'), NEW j \in 1 .. Len(line'),
                      i < j, IsRequest(line'[i]), IsRequest(line'[j])
               PROVE  line'[i].no < line'[j].no
    OBVIOUS
  <2>1. i \in 1 .. Len(line)
    BY <1>3, <1>4
  <2>2. CASE j \in 1 .. Len(line)
    BY <2>1, <2>2, <1>4 DEF BufferInv, RequestsInOrder
  <2>3. CASE j = Len(line) + 1
    <3>1. line[i].no \in Nat /\ line[i].no <= asked
      BY <2>1, <1>4, <1>5 DEF BufferInv, RequestsInOrder
    <3>2. line'[j].no = asked + 1 /\ line'[i].no = line[i].no
      BY <2>1, <2>3, <1>4
    <3> QED
      BY <3>1, <3>2, <1>3
  <2> QED
    BY <2>2, <2>3, <1>3, <1>4
<1>8. Wanted /\ buffer_rx.good =>
        /\ buffer_rx.no > carriedOut /\ buffer_rx.no <= asked'
        /\ \A i \in 1 .. Len(line') :
             IsRequest(line'[i]) => line'[i].no > buffer_rx.no
  <2> SUFFICES ASSUME Wanted, buffer_rx.good
               PROVE  /\ buffer_rx.no > carriedOut /\ buffer_rx.no <= asked'
                      /\ \A i \in 1 .. Len(line') :
                           IsRequest(line'[i]) => line'[i].no > buffer_rx.no
    OBVIOUS
  <2>1. /\ buffer_rx.no > carriedOut /\ buffer_rx.no <= asked
        /\ \A i \in 1 .. Len(line) :
             IsRequest(line[i]) => line[i].no > buffer_rx.no
    BY DEF BufferInv, RequestsInOrder
  <2>2. ASSUME NEW i \in 1 .. Len(line'), IsRequest(line'[i])
        PROVE  line'[i].no > buffer_rx.no
    <3>1. CASE i \in 1 .. Len(line)
      BY <3>1, <2>1, <2>2, <1>4
    <3>2. CASE i = Len(line) + 1
      BY <3>2, <2>1, <2>2, <1>3, <1>4
    <3> QED
      BY <3>1, <3>2, <1>3, <1>4
  <2> QED
    BY <2>1, <2>2, <1>3
<1>9. carriedOut <= asked'
  BY <1>3 DEF BufferInv, RequestsInOrder
<1>10. buffer_rx' = buffer_rx /\ carriedOut' = carriedOut
  OBVIOUS
<1>11. RequestsInOrder'
  BY <1>1, <1>6, <1>7, <1>8, <1>9, <1>10 DEF RequestsInOrder
<1> QED
  BY <1>2, <1>11 DEF BufferInv

\* One unit less on the line; the frame in buffer_rx is the one that was
\* there, one that is not wanted or no request, or the unit just heard.
LEMMA HeardStep ==
  ASSUME BufferInv, LineType, UartType, SendType,
         line # <<>>, line' = Tail(line),
         UNCHANGED <<stateModule, asked, carriedOut>>,
         FrameGuarded',
         \/ buffer_rx' = buffer_rx /\ (Wanted' => Wanted)
         \/ ~buffer_rx'.good
         \/ buffer_rx' = Head(line) /\ buffer_rx' \in Frame
  PROVE  BufferInv'
<1>1. /\ asked \in Nat /\ carriedOut \in Nat /\ buffer_rx.no \in Nat
      /\ Len(line) \in Nat
  BY BoundAssumption, FrameFields DEF LineType, UartType, SendType
<1>2. /\ Len(line') = Len(line) - 1 /\ Len(line) >= 1
      /\ \A i \in 1 .. Len(line') : line'[i] = line[i + 1]
      /\ Head(line) = line[1]
  BY DEF LineType
<1>3. \A i \in 1 .. Len(line') : i + 1 \in 1 .. Len(line)
  BY <1>1, <1>2
<1>4. \A i \in 1 .. Len(line') :
        IsRequest(line'[i]) => line'[i].no > carriedOut /\ line'[i].no <= asked
  BY <1>2, <1>3 DEF BufferInv, RequestsInOrder
<1>5. \A i, j \in 1 .. Len(line') :
        i < j /\ IsRequest(line'[i]) /\ IsRequest(line'[j])
          => line'[i].no < line'[j].no
  <2> SUFFICES ASSUME NEW i \in 1 .. Len(line'), NEW j \in 1 .. Len(line'),
                      i < j, IsRequest(line'[i]), IsRequest(line'[j])
               PROVE  line'[i].no < line'[j].no
    OBVIOUS
  <2>1. i + 1 \in 1 .. Len(line) /\ j + 1 \in 1 .. Len(line) /\ i + 1 < j + 1
    BY <1>1, <1>2, <1>3
  <2>2. line'[i] = line[i + 1] /\ line'[j] = line[j + 1]
    BY <1>2
  <2> QED
    BY <2>1, <2>2 DEF BufferInv, RequestsInOrder
<1>6. ASSUME Wanted', buffer_rx'.good
      PROVE  /\ buffer_rx'.no > carriedOut /\ buffer_rx'.no <= asked
             /\ \A i \in 1 .. Len(line') :
                  IsRequest(line'[i]) => line'[i].no > buffer_rx'.no
  <2>1. CASE buffer_rx' = buffer_rx /\ (Wanted' => Wanted)
    <3>1. /\ buffer_rx.no > carriedOut /\ buffer_rx.no <= asked
          /\ \A i \in 1 .. Len(line) :
               IsRequest(line[i]) => line[i].no > buffer_rx.no
      BY <2>1, <1>6 DEF BufferInv, RequestsInOrder
    <3> QED
      BY <3>1, <2>1, <1>2, <1>3
  <2>2. CASE buffer_rx' = Head(line) /\ buffer_rx' \in Frame
    <3>1. IsRequest(line[1]) /\ buffer_rx' = line[1] /\ 1 \in 1 .. Len(line)
      BY <2>2, <1>1, <1>2, <1>6, FrameFields DEF IsRequest
    <3>2. line[1].no > carriedOut /\ line[1].no <= asked
      BY <3>1 DEF BufferInv, RequestsInOrder
    <3>3. ASSUME NEW i \in 1 .. Len(line'), IsRequest(line'[i])
          PROVE  line'[i].no > buffer_rx'.no
      <4>1. i + 1 \in 1 .. Len(line) /\ 1 < i + 1 /\ line'[i] = line[i + 1]
        BY <1>1, <1>2, <1>3
      <4>2. line[1].no < line[i + 1].no
        BY <3>1, <3>3, <4>1 DEF BufferInv, RequestsInOrder
      <4>3. line[1] \in Unit /\ line[i + 1] \in Unit
        BY <3>1, <4>1 DEF LineType
      <4>4. line[1].no \in Nat /\ line[i + 1].no \in Nat
        BY <3>1, <3>3, <4>1, <4>3, UnitFrame, FrameFields, BoundAssumption
           DEF IsRequest
      <4> QED
        BY <3>1, <4>1, <4>2, <4>4
    <3> QED
      BY <3>1, <3>2, <3>3
  <2> QED
    BY <1>6, <2>1, <2>2
<1>7. RequestsInOrder'
  BY <1>4, <1>5, <1>6 DEF BufferInv, RequestsInOrder
<1> QED
  BY <1>7 DEF BufferInv

-----------------------------------------------------------------------------
\* The steps that connect and send do not look at the frames.
LEMMA QuietLink ==
  ASSUME IInv, PowerSteps \/ ConnectSteps \/ SendSteps PROVE BufferInv'
<1> USE DEF main, uart, heard, external
<1>1. UNCHANGED <<full, uart_state, buffer_rx, line, asked, carriedOut>>
  <2>1. CASE ConnectSteps
    BY <2>1 DEF ConnectSteps, read_para, establishTCPClient, connectToServerNow,
       ConnectSucceeds, ConnectFails, LostConnect, Login
  <2>2. CASE SendSteps
    BY <2>2 DEF SendSteps, trans_data_server, PromptComes, PromptFails,
       SendAnswered
  <2>3. CASE PowerSteps
    BY <2>3 DEF PowerSteps, checkPowerOnOffGPRS, offModuleGprs, onOffModuleGprs,
       KeyPressed, NetworkFound, NetworkMissed
  <2> QED
    BY <2>1, <2>2, <2>3
<1>2. stateModule' = "PROCESS_DATA_SERVER" => stateModule = "PROCESS_DATA_SERVER"
  <2>1. CASE ConnectSteps
    BY <2>1 DEF ConnectSteps, read_para, establishTCPClient, connectToServerNow,
       ConnectSucceeds, ConnectFails, LostConnect, Login
  <2>2. CASE SendSteps
    BY <2>2 DEF SendSteps, trans_data_server, PromptComes, PromptFails,
       SendAnswered
  <2>3. CASE PowerSteps
    BY <2>3 DEF PowerSteps, checkPowerOnOffGPRS, offModuleGprs, onOffModuleGprs,
       KeyPressed, NetworkFound, NetworkMissed
  <2> QED
    BY <2>1, <2>2, <2>3
<1> QED
  BY <1>1, <1>2, QuietStep DEF IInv

\* A frame that is taken was wanted already, and one that has been carried out
\* is wanted no more.
LEMMA ServeLink ==
  ASSUME IInv, ServeSteps PROVE BufferInv'
<1> USE DEF external, heard
<1>1. CASE HoldSocket \/ ReadyConnect
  <2>1. UNCHANGED <<uart_state, buffer_rx, line, asked, carriedOut>>
    BY <1>1 DEF HoldSocket, ReadyConnect
  <2>2. /\ stateModule # "PROCESS_DATA_SERVER"
        /\ \/ full /\ full' = FALSE
           \/ ~full /\ full' = full /\ stateModule' # "PROCESS_DATA_SERVER"
    BY <1>1 DEF HoldSocket, ReadyConnect, TakeFrame, TakeFlag
  <2>3. Wanted' => Wanted
    BY <2>2, Zenon DEF Wanted
  <2>4. FrameGuarded'
    BY <2>1, <2>2, <2>3, Zenon DEF IInv, BufferInv, FrameGuarded
  <2>5. RequestsInOrder'
    BY <2>1, <2>3 DEF IInv, BufferInv, RequestsInOrder
  <2> QED
    BY <2>4, <2>5 DEF BufferInv
<1>2. CASE get_command_from_server \/ SignalHeard
  <2>0. stateModule = "PROCESS_DATA_SERVER" /\ buffer_rx.good
    BY <1>2 DEF get_command_from_server, SignalHeard, IInv, SignalAsked
  <2>1. /\ stateModule' # "PROCESS_DATA_SERVER"
        /\ carriedOut' = buffer_rx.no
        /\ UNCHANGED <<full, buffer_rx, line, asked>>
    BY <1>2 DEF get_command_from_server, SignalHeard, CarriedOut, Answer, NoAnswer
  <2>2. Wanted /\ ~Wanted' /\ ~full'
    BY <2>0, <2>1 DEF IInv, BufferInv, FrameGuarded, Wanted
  <2>3. FrameGuarded'
    BY <2>2 DEF FrameGuarded
  <2>4. /\ buffer_rx.no <= asked
        /\ \A i \in 1 .. Len(line) :
             IsRequest(line[i]) => line[i].no > buffer_rx.no
    BY <2>0, <2>1, <2>2 DEF IInv, BufferInv, RequestsInOrder
  <2>5. RequestsInOrder'
    BY <2>1, <2>2, <2>4 DEF IInv, BufferInv, RequestsInOrder
  <2> QED
    BY <2>3, <2>5 DEF BufferInv
<1>3. CASE get_RSSI_signal
  <2>1. /\ UNCHANGED <<full, uart_state, buffer_rx, line, asked, carriedOut>>
        /\ stateModule' = stateModule
    BY <1>3 DEF get_RSSI_signal, uart
  <2> QED
    BY <2>1, QuietStep DEF IInv
<1> QED
  BY <1>1, <1>2, <1>3 DEF ServeSteps

\* What the modem says is no request, and what the server asks is a new one.
LEMMA WorldLink ==
  ASSUME IInv, WorldSteps PROVE BufferInv'
<1> USE DEF main, uart, heard, external, IInv, Types
<1>1. CASE myTimer0_ISR
  <2>1. UNCHANGED <<full, uart_state, buffer_rx, line, asked, carriedOut, stateModule>>
    BY <1>1 DEF myTimer0_ISR
  <2> QED
    BY <2>1, QuietStep
<1>2. CASE \/ NetworkAttached \/ ModemConnects \/ ServerAccepts
           \/ ModemAnswers \/ ConnectionDrops
  <2>1. PICK t \in Texts : Says(t)
    BY <1>2 DEF NetworkAttached, ModemConnects, ServerAccepts, ModemAnswers,
       ConnectionDrops, Texts, Spaced
  <2>2. UNCHANGED <<full, uart_state, buffer_rx, stateModule, carriedOut, asked>>
    BY <1>2 DEF NetworkAttached, ModemConnects, ServerAccepts, ModemAnswers,
       ConnectionDrops
  <2>3. Line(t) \in Unit /\ ~IsRequest(Line(t)) /\ line' = Append(line, Line(t))
    BY <2>1, LineUnit, NoRequest DEF Says
  <2> QED
    BY <2>2, <2>3, SaidStep
<1>3. CASE ServerSends
  <2>1. asked' = asked + 1
    BY <1>3 DEF ServerSends
  <2>2. PICK u \in [kind : {"frame"}, no : {asked'}, req : Requests, good : {TRUE}]
              \cup (IF BadFrames THEN {BadFrame} ELSE {})
              \cup (IF CutFrames THEN {CutFrame} ELSE {}) : line' = Append(line, u)
    BY <1>3 DEF ServerSends
  <2>3. IsRequest(u) => u.no = asked + 1
    BY <2>1, <2>2, NoRequest
  <2>4. u \in Unit
    <3>1. asked' \in 0 .. MaxFrames
      <4>1. asked < MaxFrames /\ asked \in 0 .. MaxFrames
        BY <1>3, Zenon DEF ServerSends, IInv, Types, LineType
      <4> QED
        BY <4>1, <2>1, BoundAssumption
    <3>2. [kind : {"frame"}, no : {asked'}, req : Requests, good : {TRUE}]
            \subseteq Frame
      BY <3>1 DEF Frame
    <3>3. BadFrame \in Unit /\ CutFrame \in Unit
      BY BadFrameType, FrameUnits, Zenon
    <3>4. \/ u \in [kind : {"frame"}, no : {asked'}, req : Requests, good : {TRUE}]
          \/ u = BadFrame \/ u = CutFrame
      BY <2>2, Zenon
    <3> QED
      BY <3>2, <3>3, <3>4, FrameUnits, Zenon
  <2>5. UNCHANGED <<full, uart_state, buffer_rx, stateModule, carriedOut>>
    BY <1>3 DEF ServerSends
  <2> QED
    BY <2>1, <2>2, <2>3, <2>4, <2>5, SaidStep
<1> QED
  BY <1>1, <1>2, <1>3 DEF WorldSteps

\* The interrupt puts a frame into buffer_rx only when none is wanted.
LEMMA InterruptLink ==
  ASSUME IInv, InterruptSteps PROVE BufferInv'
<1> USE DEF main, uart, heard, IInv, Types
<1>1. /\ line # <<>> /\ line' = Tail(line)
      /\ UNCHANGED <<stateModule, asked, carriedOut>>
  BY DEF InterruptSteps, myUart1_ISR
<1>2. PICK u \in {Head(line)} :
        \/ HearFrame(u) \/ HearFrameStart(u) \/ HearFrameRest
        \/ HearLine(u) \/ HearBlockedFrame(u)
  BY DEF InterruptSteps, myUart1_ISR
<1>3. FrameGuarded
  BY DEF BufferInv
<1>4. CASE HearFrame(u)
  <2>1. /\ uart_state = "NOTHING" /\ full' = TRUE /\ uart_state' = "BLOCK"
        /\ buffer_rx' = Head(line)
    BY <1>4, <1>2 DEF HearFrame
  <2>2. stateModule # "PROCESS_DATA_SERVER"
    BY <2>1, <1>3 DEF FrameGuarded, Wanted
  <2>3. FrameGuarded'
    BY <2>1, <2>2, <1>1 DEF FrameGuarded, Wanted
  <2>4. buffer_rx' \in Frame
    <3>1. u \in Unit
      BY <1>1 DEF LineType
    <3> QED
      BY <1>4, <3>1, UnitFrame DEF HearFrame
  <2> QED
    BY <1>1, <2>1, <2>3, <2>4, HeardStep
<1>5. CASE HearFrameRest
  <2>1. /\ uart_state = "RECEIVING"
        /\ \/ UNCHANGED <<full, buffer_rx>>
           \/ buffer_rx' = BadFrame /\ uart_state' = "BLOCK"
    BY <1>5, Zenon DEF HearFrameRest
  <2>2. ~full /\ stateModule # "PROCESS_DATA_SERVER"
    BY <2>1, <1>3 DEF FrameGuarded, Wanted
  <2>3. FrameGuarded'
    BY <2>1, <2>2, <1>1 DEF FrameGuarded, Wanted
  <2>4. \/ buffer_rx' = buffer_rx /\ (Wanted' => Wanted)
        \/ ~buffer_rx'.good
    BY <2>1, <2>2, <1>1, BadFrameType DEF Wanted
  <2> QED
    BY <1>1, <2>3, <2>4, HeardStep
<1>6. CASE HearFrameStart(u) \/ HearLine(u) \/ HearBlockedFrame(u)
  <2>1. /\ UNCHANGED <<full, buffer_rx>>
        /\ uart_state = "NOTHING" \/ uart_state' = uart_state
    BY <1>6 DEF HearFrameStart, HearLine, HearBlockedFrame
  <2>2. Wanted' => Wanted
    BY <2>1, <1>1 DEF Wanted
  <2>3. FrameGuarded'
    BY <2>1, <2>2, <1>1, <1>3, Zenon DEF FrameGuarded, Wanted
  <2> QED
    BY <1>1, <2>1, <2>2, <2>3, HeardStep
<1> QED
  BY <1>2, <1>4, <1>5, <1>6

\* The frame whose request asks for the signal is being carried out until the
\* answer is made: nothing else sets stateModule or writes buffer_rx then.
LEMMA SignalStep ==
  ASSUME IInv, [Next]_vars PROVE SignalAsked'
<1> USE DEF main, uart, heard, external, SignalAsked
<1>1. CASE UNCHANGED vars
  BY <1>1 DEF vars, IInv
<1>2. CASE ConnectSteps
  BY <1>2 DEF IInv, ConnectSteps, read_para, establishTCPClient,
     connectToServerNow, ConnectSucceeds, ConnectFails, LostConnect, Login
<1>8. CASE PowerSteps
  BY <1>8 DEF IInv, PowerSteps, checkPowerOnOffGPRS, offModuleGprs,
     onOffModuleGprs, KeyPressed, NetworkFound, NetworkMissed
<1>3. CASE SendSteps
  BY <1>3 DEF IInv, SendSteps, trans_data_server, PromptComes, PromptFails,
     SendAnswered
<1>4. CASE HoldSocket \/ ReadyConnect
  BY <1>4 DEF IInv, HoldSocket, ReadyConnect
<1>5. CASE get_command_from_server \/ get_RSSI_signal \/ SignalHeard
  BY <1>5 DEF get_command_from_server, get_RSSI_signal, SignalHeard
<1>6. CASE WorldSteps
  BY <1>6 DEF IInv, WorldSteps, myTimer0_ISR, NetworkAttached, ModemConnects,
     ServerAccepts, ModemAnswers, ConnectionDrops, ServerSends
<1>7. CASE InterruptSteps
  <2>1. stateModule = "PROCESS_DATA_SERVER" => uart_state = "BLOCK"
    BY DEF IInv, BufferInv, FrameGuarded, Wanted
  <2>2. UNCHANGED <<pc, stateModule>>
    BY <1>7 DEF InterruptSteps, myUart1_ISR
  <2>3. uart_state = "BLOCK" => buffer_rx' = buffer_rx
    BY <1>7 DEF InterruptSteps, myUart1_ISR, HearFrame, HearFrameStart,
       HearFrameRest, HearLine, HearBlockedFrame
  <2> QED
    BY <2>1, <2>2, <2>3 DEF IInv
<1> QED
  BY <1>1, <1>2, <1>3, <1>4, <1>5, <1>6, <1>7, <1>8, Zenon
     DEF Next, MainLoop, Modem, PowerSteps, ConnectSteps, SendSteps, ServeSteps,
         WorldSteps, InterruptSteps

\* IInv is inductive.
LEMMA NextInv == IInv /\ [Next]_vars => IInv'
<1> SUFFICES ASSUME IInv, [Next]_vars PROVE IInv'
  OBVIOUS
<1>1. Types'
  BY NextTypes DEF IInv
<1>2. BufferInv'
  <2>1. CASE UNCHANGED vars
    <3>1. /\ UNCHANGED <<full, uart_state, buffer_rx, line, asked, carriedOut>>
          /\ stateModule' = stateModule
      BY <2>1 DEF vars
    <3> QED
      BY <3>1, QuietStep DEF IInv
  <2>2. CASE PowerSteps \/ ConnectSteps \/ SendSteps
    BY <2>2, QuietLink
  <2>3. CASE ServeSteps
    BY <2>3, ServeLink
  <2>4. CASE WorldSteps
    BY <2>4, WorldLink
  <2>5. CASE InterruptSteps
    BY <2>5, InterruptLink
  <2> QED
    BY <2>1, <2>2, <2>3, <2>4, <2>5, Zenon
       DEF Next, MainLoop, Modem, PowerSteps, ConnectSteps, SendSteps, ServeSteps,
           WorldSteps, InterruptSteps
<1> QED
  BY <1>1, <1>2, SignalStep DEF IInv

LEMMA AlwaysInv == Spec => []IInv
<1>1. Init => IInv
  BY InitTypes, InitLink DEF IInv
<1> QED
  BY <1>1, NextInv, PTL DEF Spec

(***************************************************************************)
(* The receive buffer is blocked as long as its frame is waiting or being  *)
(* carried out, and requests stay in order, on the line and off it.        *)
(***************************************************************************)
THEOREM LinkInvHolds == Spec => []LinkInv
<1>1. IInv => LinkInv
  BY DEF IInv, BufferInv, LinkInv
<1> QED
  BY <1>1, AlwaysInv, PTL

-----------------------------------------------------------------------------
(***************************************************************************)
(* The interrupt and the main loop share buffer_rx without a lock; the     *)
(* frame in it does not change while it is wanted.                         *)
(***************************************************************************)
THEOREM FrameHeldHolds == Spec => FrameHeld
<1>1. ASSUME IInv, [Next]_vars,
             full \/ stateModule = "PROCESS_DATA_SERVER"
      PROVE  buffer_rx' = buffer_rx
  <2> USE DEF main, uart, heard, external
  <2>1. uart_state = "BLOCK"
    BY <1>1 DEF IInv, BufferInv, FrameGuarded, Wanted
  <2>2. CASE UNCHANGED vars
    BY <2>2 DEF vars
  <2>3. CASE ConnectSteps
    BY <2>3 DEF ConnectSteps, read_para, establishTCPClient, connectToServerNow,
       ConnectSucceeds, ConnectFails, LostConnect, Login
  <2>8. CASE PowerSteps
    BY <2>8 DEF PowerSteps, checkPowerOnOffGPRS, offModuleGprs, onOffModuleGprs,
       KeyPressed, NetworkFound, NetworkMissed
  <2>4. CASE SendSteps
    BY <2>4 DEF SendSteps, trans_data_server, PromptComes, PromptFails,
       SendAnswered
  <2>5. CASE ServeSteps
    BY <2>5 DEF ServeSteps, HoldSocket, ReadyConnect, get_command_from_server,
       get_RSSI_signal, SignalHeard
  <2>6. CASE WorldSteps
    BY <2>6 DEF WorldSteps, myTimer0_ISR, NetworkAttached, ModemConnects,
       ServerAccepts, ModemAnswers, ConnectionDrops, ServerSends
  <2>7. CASE InterruptSteps
    BY <2>1, <2>7 DEF InterruptSteps, myUart1_ISR, HearFrame, HearFrameStart,
       HearFrameRest, HearLine, HearBlockedFrame
  <2> QED
    BY <1>1, <2>2, <2>3, <2>4, <2>5, <2>6, <2>7, <2>8, Zenon
       DEF Next, MainLoop, Modem, PowerSteps, ConnectSteps, SendSteps, ServeSteps,
           WorldSteps, InterruptSteps
<1>2. IInv /\ [Next]_vars =>
        [full \/ stateModule = "PROCESS_DATA_SERVER" => buffer_rx' = buffer_rx]_vars
  BY <1>1
<1> QED
  BY <1>2, AlwaysInv, PTL DEF Spec, FrameHeld

(***************************************************************************)
(* A request is carried out at most once, and after the ones sent before   *)
(* it, whatever is lost, late or sent again.                               *)
(***************************************************************************)
THEOREM CarriedOutOnceHolds == Spec => CarriedOutOnce
<1>1. IInv /\ [Next]_vars =>
        [get_command_from_server \/ SignalHeard => buffer_rx.no > carriedOut]_vars
  BY DEF IInv, BufferInv, RequestsInOrder, Wanted, SignalAsked,
     get_command_from_server, SignalHeard
<1> QED
  BY <1>1, AlwaysInv, PTL DEF Spec, CarriedOutOnce

-----------------------------------------------------------------------------
\* One more unit on the line.
LEMMA Appending ==
  ASSUME LineType, NEW u, line' = Append(line, u)
  PROVE  /\ Len(line) \in Nat /\ Len(line') = Len(line) + 1
         /\ \A i \in 1 .. Len(line) : line'[i] = line[i]
         /\ line'[Len(line) + 1] = u
         /\ \A i \in 1 .. Len(line') : i \in 1 .. Len(line) \/ i = Len(line) + 1
BY DEF LineType

Is(u, t) == u.kind = "line" /\ u.text = t

(***************************************************************************)
(* From READ_PARA_CONFIG on the modem is switched on.  A failure noticed   *)
(* in a wait sets stateModule, so it matters that the main loop waits for  *)
(* the modem only where it is in use or being switched on.  And the answer *)
(* "attached" that is heard after the first question comes from a modem    *)
(* that is on: the wait after the key has emptied the line, the question   *)
(* clears what was heard, and a modem that is off is idle.                 *)
(***************************************************************************)
WaitsInUse ==
  /\ pc \in {"key", "network"} => stateModule = "ON_GPRS"
  /\ pc \notin {"loop", "key", "network"} =>
       stateModule \in {"CONNECTING_SERVER", "UPDATE_DATA_SERVER", "LOST_CONNECT",
                       "PROCESS_DATA_SERVER"}

Attached ==
  \/ "CGATT_1" \in responses
  \/ \E k \in 1 .. Len(line) : Is(line[k], "CGATT_1")

PowerInv ==
  /\ PoweredWhenUsed /\ WaitsInUse
  /\ ~powered => modem = "idle"
  /\ pc = "network" /\ Attached => powered

\* Nothing but the modem itself says that it is attached.
LEMMA AppendsOther ==
  ASSUME LineType, NEW u, line' = Append(line, u), responses' = responses,
         ~Is(u, "CGATT_1"), Attached'
  PROVE  Attached
<1>1. /\ Len(line) \in Nat /\ Len(line') = Len(line) + 1
      /\ \A i \in 1 .. Len(line) : line'[i] = line[i]
      /\ line'[Len(line) + 1] = u
      /\ \A i \in 1 .. Len(line') : i \in 1 .. Len(line) \/ i = Len(line) + 1
  BY Appending
<1> QED
  BY <1>1 DEF Attached

LEMMA HearsOther ==
  ASSUME LineType, myUart1_ISR, Attached' PROVE Attached
<1>1. line # <<>> /\ line' = Tail(line)
  BY DEF myUart1_ISR
<1>2. /\ Len(line) \in Nat /\ 1 \in 1 .. Len(line) /\ Head(line) = line[1]
      /\ \A i \in 1 .. Len(line') : i + 1 \in 1 .. Len(line) /\ line'[i] = line[i + 1]
  BY <1>1 DEF LineType
<1>3. "CGATT_1" \in responses' =>
        "CGATT_1" \in responses \/ Is(Head(line), "CGATT_1")
  <2>1. PICK u \in {Head(line)} :
          \/ HearFrame(u) \/ HearFrameStart(u) \/ HearFrameRest
          \/ HearLine(u) \/ HearBlockedFrame(u)
    BY DEF myUart1_ISR
  <2>2. CASE HearFrame(u) \/ HearFrameStart(u) \/ HearFrameRest
    BY <2>2 DEF HearFrame, HearFrameStart, HearFrameRest, heard
  <2>3. CASE HearLine(u)
    BY <2>1, <2>3 DEF HearLine, Is
  <2>4. CASE HearBlockedFrame(u)
    BY <2>4 DEF HearBlockedFrame
  <2> QED
    BY <2>1, <2>2, <2>3, <2>4
<1> QED
  BY <1>1, <1>2, <1>3 DEF Attached

(***************************************************************************)
(* PowerInv under the steps that switch the modem on, ...                  *)
(***************************************************************************)
LEMMA SwitchesPower ==
  ASSUME Types, PowerInv, PowerSteps PROVE PowerInv'
<1> USE DEF uart, external, PowerInv, PoweredWhenUsed, WaitsInUse
<1>1. CASE checkPowerOnOffGPRS
  BY <1>1 DEF checkPowerOnOffGPRS, Attached, heard
<1>2. CASE offModuleGprs
  BY <1>2 DEF offModuleGprs, PressKey
<1>3. CASE onOffModuleGprs
  BY <1>3 DEF onOffModuleGprs, PressKey
<1>4. CASE KeyPressed
  <2>1. ~Attached'
    BY <1>4 DEF KeyPressed, AskNetwork, Attached
  <2> QED
    BY <1>4, <2>1 DEF KeyPressed, AskNetwork
<1>5. CASE NetworkFound
  <2>1. powered
    BY <1>5 DEF NetworkFound, Attached
  <2> QED
    BY <1>5, <2>1 DEF NetworkFound
<1>6. CASE NetworkMissed
  <2>1. Attached' => Attached
    BY <1>6 DEF NetworkMissed, AskNetwork, Attached, heard
  <2> QED
    BY <1>6, <2>1 DEF NetworkMissed, AskNetwork
<1> QED
  BY <1>1, <1>2, <1>3, <1>4, <1>5, <1>6 DEF PowerSteps

(***************************************************************************)
(* ... those that connect, send and serve, which use a modem that is on,   *)
(***************************************************************************)
LEMMA UsesPower ==
  ASSUME Types, PowerInv, ConnectSteps \/ SendSteps \/ ServeSteps PROVE PowerInv'
<1> USE DEF uart, external, Types, PowerInv, PoweredWhenUsed, WaitsInUse
<1>1. powered \in BOOLEAN /\ powered' = powered /\ powered
  BY DEF ModemType, ConnectSteps, SendSteps, ServeSteps, read_para, establishTCPClient, connectToServerNow, ConnectSucceeds, ConnectFails, LostConnect, Login, trans_data_server, PromptComes, PromptFails, SendAnswered, HoldSocket, ReadyConnect, get_command_from_server, get_RSSI_signal, SignalHeard
<1>2. pc' \notin {"key", "network"} /\ WaitsInUse'
  <2>1. CASE read_para
    BY <2>1 DEF read_para, MainType
  <2>2. CASE establishTCPClient
    BY <2>2 DEF establishTCPClient, MainType
  <2>3. CASE connectToServerNow
    BY <2>3 DEF connectToServerNow, MainType
  <2>4. CASE ConnectSucceeds
    BY <2>4 DEF ConnectSucceeds, MainType
  <2>5. CASE ConnectFails
    BY <2>5 DEF ConnectFails, MainType
  <2>6. CASE LostConnect
    BY <2>6 DEF LostConnect, MainType
  <2>7. CASE Login
    BY <2>7 DEF Login, MainType
  <2>8. CASE trans_data_server
    BY <2>8 DEF trans_data_server, MainType
  <2>9. CASE PromptComes
    BY <2>9 DEF PromptComes, MainType
  <2>10. CASE PromptFails
    BY <2>10 DEF PromptFails, MainType
  <2>11. CASE SendAnswered
    BY <2>11 DEF SendAnswered, MainType
  <2>12. CASE HoldSocket
    BY <2>12 DEF HoldSocket, TakeFrame, TakeFlag, MainType
  <2>13. CASE ReadyConnect
    BY <2>13 DEF ReadyConnect, TakeFrame, TakeFlag, MainType
  <2>14. CASE get_command_from_server
    BY <2>14 DEF get_command_from_server, Answer, NoAnswer, MainType
  <2>15. CASE get_RSSI_signal
    BY <2>15 DEF get_RSSI_signal, MainType
  <2>16. CASE SignalHeard
    BY <2>16 DEF SignalHeard, Answer, MainType
  <2> QED
    BY <2>1, <2>2, <2>3, <2>4, <2>5, <2>6, <2>7, <2>8, <2>9, <2>10, <2>11, <2>12, <2>13, <2>14, <2>15, <2>16
       DEF ConnectSteps, SendSteps, ServeSteps
<1> QED
  BY <1>1, <1>2

(***************************************************************************)
(* ... and those of the interrupt, the timer, the modem and the server.    *)
(***************************************************************************)
LEMMA WorldPower ==
  ASSUME Types, PowerInv, WorldSteps \/ InterruptSteps PROVE PowerInv'
<1> USE DEF main, heard, external, Types
<1>1. UNCHANGED <<stateModule, pc, powered>>
  BY DEF WorldSteps, InterruptSteps, myUart1_ISR, myTimer0_ISR, NetworkAttached,
     ModemConnects, ServerAccepts, ModemAnswers, ConnectionDrops, ServerSends
<1>2. /\ powered \in BOOLEAN /\ PoweredWhenUsed' /\ WaitsInUse'
      /\ ~powered => modem = "idle"
      /\ pc = "network" /\ Attached => powered
  BY <1>1 DEF ModemType, PowerInv, PoweredWhenUsed, WaitsInUse
<1>3. ~powered => modem' = "idle"
  BY <1>2 DEF WorldSteps, InterruptSteps, myUart1_ISR, myTimer0_ISR,
     NetworkAttached, ModemConnects, ServerAccepts, ModemAnswers,
     ConnectionDrops, ServerSends
<1>4. Attached' => Attached \/ powered
  <2>1. CASE InterruptSteps
    BY <2>1, HearsOther DEF InterruptSteps
  <2>2. CASE myTimer0_ISR
    BY <2>2 DEF myTimer0_ISR, Attached
  <2>3. CASE NetworkAttached
    BY <2>3, <1>2 DEF NetworkAttached
  <2>4. CASE ModemConnects \/ ServerAccepts \/ ModemAnswers \/ ConnectionDrops
    <3>1. PICK t \in Texts \ {"CGATT_1"} : line' = Append(line, Line(t))
      BY <2>4 DEF ModemConnects, ServerAccepts, ModemAnswers, ConnectionDrops,
         Says, Texts, Spaced
    <3>2. ~Is(Line(t), "CGATT_1") /\ responses' = responses
      BY <2>4, <3>1 DEF Is, Line, ModemConnects, ServerAccepts, ModemAnswers,
         ConnectionDrops
    <3> QED
      BY <3>1, <3>2, AppendsOther
  <2>5. CASE ServerSends
    <3>1. PICK u \in [kind : {"frame"}, no : {asked'}, req : Requests, good : {TRUE}]
                \cup (IF BadFrames THEN {BadFrame} ELSE {})
                \cup (IF CutFrames THEN {CutFrame} ELSE {}) : line' = Append(line, u)
      BY <2>5 DEF ServerSends
    <3>2. \/ u \in [kind : {"frame"}, no : {asked'}, req : Requests, good : {TRUE}]
          \/ u = BadFrame \/ u = CutFrame
      BY <3>1, Zenon
    <3>3. u.kind # "line"
      <4>1. BadFrame.kind # "line" /\ CutFrame.kind # "line"
        BY DEF BadFrame, CutFrame
      <4> QED
        BY <3>2, <4>1
    <3>4. responses' = responses
      BY <2>5 DEF ServerSends
    <3> QED
      BY <3>1, <3>3, <3>4, AppendsOther DEF Is
  <2> QED
    BY <2>1, <2>2, <2>3, <2>4, <2>5 DEF WorldSteps
<1> QED
  BY <1>1, <1>2, <1>3, <1>4 DEF PowerInv

(***************************************************************************)
(* From READ_PARA_CONFIG on the modem is switched on, whatever the module  *)
(* found when it asked, however often it pressed the key, and however late *)
(* the modem answers.                                                      *)
(***************************************************************************)
THEOREM PoweredHolds == Spec => []PoweredWhenUsed
<1>1. Init => PowerInv
  BY DEF Init, PowerInv, PoweredWhenUsed, WaitsInUse
<1>2. Types /\ PowerInv /\ [Next]_vars => PowerInv'
  <2>1. ASSUME PowerInv, UNCHANGED vars PROVE PowerInv'
    BY <2>1 DEF vars, PowerInv, PoweredWhenUsed, WaitsInUse, Attached
  <2> QED
    BY <2>1, SwitchesPower, UsesPower, WorldPower, Zenon
       DEF Next, MainLoop, Modem, PowerSteps, ConnectSteps, SendSteps, ServeSteps,
           WorldSteps, InterruptSteps
<1>3. IInv => Types
  BY DEF IInv
<1> QED
  BY <1>1, <1>2, <1>3, AlwaysInv, PTL DEF Spec, PowerInv

(***************************************************************************)
(* The remains of a refused request are never sent.                        *)
(***************************************************************************)
THEOREM SentWholeHolds == Spec => []SentWhole
<1>1. Init => SentWhole
  BY DEF Init, SentWhole, Sending
<1>2. SentWhole /\ [Next]_vars => SentWhole'
  <2> SUFFICES ASSUME SentWhole, [Next]_vars PROVE SentWhole'
    OBVIOUS
  <2> USE DEF main, uart, heard, external, SentWhole, Sending
  <2>1. CASE UNCHANGED vars
    BY <2>1 DEF vars
  <2>2. CASE ConnectSteps
    <3>1. CASE read_para
      BY <3>1 DEF read_para
    <3>2. CASE establishTCPClient
      BY <3>2 DEF establishTCPClient
    <3>3. CASE connectToServerNow
      BY <3>3 DEF connectToServerNow
    <3>4. CASE ConnectSucceeds
      BY <3>4 DEF ConnectSucceeds
    <3>5. CASE ConnectFails
      BY <3>5 DEF ConnectFails
    <3>6. CASE LostConnect
      BY <3>6 DEF LostConnect
    <3>7. CASE Login
      BY <3>7 DEF Login, send_command_to_server
    <3> QED
      BY <2>2, <3>1, <3>2, <3>3, <3>4, <3>5, <3>6, <3>7, Zenon
         DEF ConnectSteps
  <2>8. CASE PowerSteps
    BY <2>8 DEF PowerSteps, checkPowerOnOffGPRS, offModuleGprs, onOffModuleGprs,
       KeyPressed, NetworkFound, NetworkMissed
  <2>3. CASE SendSteps
    <3>1. CASE trans_data_server
      BY <3>1 DEF trans_data_server
    <3>2. CASE PromptComes
      BY <3>2 DEF PromptComes
    <3>3. CASE PromptFails
      BY <3>3 DEF PromptFails
    <3>4. CASE SendAnswered
      BY <3>4 DEF SendAnswered
    <3> QED
      BY <2>3, <3>1, <3>2, <3>3, <3>4, Zenon DEF SendSteps
  <2>4. CASE HoldSocket \/ ReadyConnect
    BY <2>4 DEF HoldSocket, ReadyConnect, TakeFrame, TakeFlag,
       send_command_to_server
  <2>5. CASE get_command_from_server \/ get_RSSI_signal \/ SignalHeard
    <3>1. CASE get_command_from_server
      BY <3>1 DEF get_command_from_server, Answer, NoAnswer
    <3>2. CASE get_RSSI_signal
      BY <3>2 DEF get_RSSI_signal
    <3>3. CASE SignalHeard
      BY <3>3 DEF SignalHeard, Answer
    <3> QED
      BY <2>5, <3>1, <3>2, <3>3, Zenon
  <2>6. CASE WorldSteps
    BY <2>6 DEF WorldSteps, myTimer0_ISR, NetworkAttached, ModemConnects,
       ServerAccepts, ModemAnswers, ConnectionDrops, ServerSends
  <2>7. CASE InterruptSteps
    BY <2>7 DEF InterruptSteps, myUart1_ISR
  <2> QED
    BY <2>1, <2>2, <2>3, <2>4, <2>5, <2>6, <2>7, <2>8, Zenon
       DEF Next, MainLoop, Modem, PowerSteps, ConnectSteps, SendSteps, ServeSteps,
           WorldSteps, InterruptSteps
<1> QED
  BY <1>1, <1>2, PTL DEF Spec

-----------------------------------------------------------------------------
(***************************************************************************)
(* The link implements RequestService.  Most steps send no answer that was *)
(* not on its way before; a request is carried out while none is.          *)
(***************************************************************************)
Served == <<asked, carriedOut, AnswerSent>>

LEMMA NoNewAnswer ==
  ASSUME UNCHANGED <<asked, carriedOut>>, AnswerSent' \in {0, AnswerSent}
  PROVE  [Service!Next]_Served
BY DEF Served, Service!Next, Service!GiveUp

LEMMA NotSentAnew ==
  ASSUME UNCHANGED <<asked, carriedOut, buffer_tx>>, Sending' => Sending
  PROVE  [Service!Next]_Served
<1>1. AnswerSent' \in {0, AnswerSent}
  BY DEF AnswerSent
<1> QED BY <1>1, NoNewAnswer

LEMMA PowerService == PowerSteps => [Service!Next]_Served
BY NotSentAnew DEF main, uart, heard, external, Sending, PowerSteps,
   checkPowerOnOffGPRS, offModuleGprs, onOffModuleGprs, KeyPressed,
   NetworkFound, NetworkMissed

LEMMA ConnectService == ConnectSteps => [Service!Next]_Served
<1> SUFFICES ASSUME ConnectSteps PROVE [Service!Next]_Served
  OBVIOUS
<1> USE DEF main, uart, heard, external, Sending
<1>1. CASE read_para
  BY <1>1, NotSentAnew DEF read_para
<1>2. CASE establishTCPClient
  BY <1>2, NotSentAnew DEF establishTCPClient
<1>3. CASE connectToServerNow
  BY <1>3, NotSentAnew DEF connectToServerNow
<1>4. CASE ConnectSucceeds
  BY <1>4, NotSentAnew DEF ConnectSucceeds
<1>5. CASE ConnectFails
  BY <1>5, NotSentAnew DEF ConnectFails
<1>6. CASE LostConnect
  BY <1>6, NotSentAnew DEF LostConnect
<1>7. CASE Login
  <2>1. AnswerSent' = 0
    BY <1>7 DEF Login, send_command_to_server, AnswerSent
  <2> QED BY <1>7, <2>1, NoNewAnswer DEF Login
<1> QED
  BY <1>1, <1>2, <1>3, <1>4, <1>5, <1>6, <1>7
     DEF ConnectSteps

LEMMA SendService == SendSteps => [Service!Next]_Served
<1> SUFFICES ASSUME SendSteps PROVE [Service!Next]_Served
  OBVIOUS
<1> USE DEF main, uart, heard, external, Sending
<1>1. CASE trans_data_server
  BY <1>1, NotSentAnew DEF trans_data_server
<1>2. CASE PromptComes
  BY <1>2, NotSentAnew DEF PromptComes
<1>3. CASE PromptFails
  BY <1>3, NotSentAnew DEF PromptFails
<1>4. CASE SendAnswered
  BY <1>4, NotSentAnew DEF SendAnswered
<1> QED
  BY <1>1, <1>2, <1>3, <1>4 DEF SendSteps

\* The request carried out is the one in buffer_rx, which is newer than the
\* last; the answer is its own, or there is none.
LEMMA CarryOutService ==
  ASSUME IInv, get_command_from_server \/ SignalHeard
  PROVE  Service!CarryOut
<1>1. stateModule = "PROCESS_DATA_SERVER" /\ pc \notin {"prompt", "sent"} /\ buffer_rx.good
  BY DEF IInv, SignalAsked, get_command_from_server, SignalHeard
<1>2. /\ buffer_rx.no > carriedOut /\ buffer_rx.no <= asked
      /\ buffer_rx.no \in Nat /\ carriedOut \in Nat /\ asked \in Nat
  BY <1>1, FrameFields, BoundAssumption
     DEF IInv, BufferInv, RequestsInOrder, Wanted, Types, UartType, SendType, LineType
<1>3. carriedOut' = buffer_rx.no /\ asked' = asked /\ pc' = "loop"
  BY DEF get_command_from_server, SignalHeard, CarriedOut, external
<1>4. AnswerSent = 0
  BY <1>1 DEF AnswerSent, Sending
<1>5. AnswerSent' \in {0, carriedOut'}
  <2>1. CASE Answer
    BY <2>1, <1>3 DEF Answer, AnswerSent
  <2>2. CASE NoAnswer
    BY <2>2, <1>3 DEF NoAnswer, AnswerSent, Sending
  <2> QED BY <2>1, <2>2 DEF get_command_from_server, SignalHeard
<1> QED BY <1>2, <1>3, <1>4, <1>5 DEF Service!CarryOut

LEMMA ServeService == IInv /\ ServeSteps => [Service!Next]_Served
<1> SUFFICES ASSUME IInv, ServeSteps PROVE [Service!Next]_Served
  OBVIOUS
<1> USE DEF main, uart, heard, external, Sending
<1>1. CASE HoldSocket
  <2>1. AnswerSent' = 0
    BY <1>1 DEF HoldSocket, send_command_to_server, AnswerSent
  <2> QED BY <1>1, <2>1, NoNewAnswer DEF HoldSocket
<1>2. CASE ReadyConnect
  BY <1>2, NotSentAnew DEF ReadyConnect, TakeFrame, TakeFlag
<1>3. CASE get_command_from_server \/ SignalHeard
  BY <1>3, CarryOutService DEF Service!Next
<1>4. CASE get_RSSI_signal
  BY <1>4, NotSentAnew DEF get_RSSI_signal
<1> QED
  BY <1>1, <1>2, <1>3, <1>4 DEF ServeSteps

LEMMA WorldService == IInv /\ WorldSteps => [Service!Next]_Served
<1> SUFFICES ASSUME IInv, WorldSteps PROVE [Service!Next]_Served
  OBVIOUS
<1> USE DEF main, uart, heard, external, Sending
<1>1. CASE ServerSends
  <2>1. /\ asked' = asked + 1
        /\ UNCHANGED <<carriedOut, buffer_tx, stateModule, pc>>
    BY <1>1 DEF ServerSends
  <2>2. UNCHANGED AnswerSent
    BY <2>1 DEF AnswerSent
  <2> QED BY <2>1, <2>2 DEF Service!Next, Service!Request
<1>2. CASE myTimer0_ISR
  BY <1>2, NotSentAnew DEF myTimer0_ISR
<1>3. CASE ModemConnects
  BY <1>3, NotSentAnew DEF ModemConnects
<1>4. CASE ServerAccepts
  BY <1>4, NotSentAnew DEF ServerAccepts
<1>5. CASE ModemAnswers
  BY <1>5, NotSentAnew DEF ModemAnswers
<1>6. CASE ConnectionDrops
  BY <1>6, NotSentAnew DEF ConnectionDrops
<1>7. CASE NetworkAttached
  BY <1>7, NotSentAnew DEF NetworkAttached
<1> QED
  BY <1>1, <1>2, <1>3, <1>4, <1>5, <1>6, <1>7 DEF WorldSteps

(***************************************************************************)
(* For the server the link is RequestService: an answer that it hears is   *)
(* the one to the request carried out last, whatever connection was lost,  *)
(* frame repeated or heartbeat due in between.                             *)
(***************************************************************************)
THEOREM ImplementsServiceHolds == Spec => ImplementsService
<1>1. Init => Service!Init
  BY DEF Init, Service!Init, AnswerSent
<1>2. IInv /\ [Next]_vars => [Service!Next]_Served
  <2> SUFFICES ASSUME IInv, [Next]_vars PROVE [Service!Next]_Served
    OBVIOUS
  <2>1. CASE UNCHANGED vars
    BY <2>1, NotSentAnew DEF vars, Sending
  <2>2. CASE InterruptSteps
    BY <2>2, NotSentAnew DEF InterruptSteps, myUart1_ISR, Sending, main
  <2> QED
    BY <2>1, <2>2, PowerService, ConnectService, SendService, ServeService, WorldService
       DEF Next, MainLoop, Modem, PowerSteps, ConnectSteps, SendSteps, ServeSteps,
           WorldSteps, InterruptSteps
<1> QED
  BY <1>1, <1>2, AlwaysInv, PTL DEF Spec, ImplementsService, Service!Spec, Served

-----------------------------------------------------------------------------
(***************************************************************************)
(* The module and the modem in step.  For a modem that answers in time,    *)
(* AlarmInv says that the module waits for one answer at a time: each      *)
(* command is given to a modem that has nothing more to say.  A prompt is  *)
(* left behind by data that was sent before it, so it is not an answer     *)
(* that is awaited then.                                                   *)
(***************************************************************************)
Replies == Texts \ {"CLOSED", "PDP_DEACT"}
Awaited == IF pc = "sent" THEN Replies \ {"PROMPT"} ELSE Replies
BusyWith == {"CGATT", "CIPSTART", "CIPSEND", "CSQ", "sending"}

Among(u, T) == u.kind = "line" /\ u.text \in T

NoReply == \A k \in 1 .. Len(line) : ~Among(line[k], Replies)
Settled == modem \in {"idle", "prompted"} /\ NoReply

WaitPlace ==
  /\ pc \in {"key", "network"} => stateModule = "ON_GPRS"
  /\ pc = "connect" => stateModule = "CONNECTING_SERVER"
  /\ pc \in {"prompt", "sent"} =>
       stateModule \in {"UPDATE_DATA_SERVER", "LOST_CONNECT"}
  /\ pc = "signal" => stateModule = "PROCESS_DATA_SERVER"

InStep ==
  /\ pc \in {"loop", "key"} => Settled
  /\ modem = "CIPSTART" => pc = "connect"
  /\ modem \in BusyWith =>
       /\ responses \cap Awaited = {}
       /\ \A k \in 1 .. Len(line) : ~Among(line[k], Awaited)
  /\ modem \in BusyWith \ {"sending"} => NoReply
  /\ modem = "prompted" =>
       \A k \in 1 .. Len(line) : Among(line[k], Replies) => Is(line[k], "PROMPT")
  /\ \A j, k \in 1 .. Len(line) :
       Among(line[j], Awaited) /\ Among(line[k], Replies) => k <= j
  /\ responses \cap Awaited # {} => NoReply

\* The connection is made again only behind the word that it was lost.
Severed ==
  /\ \A k \in 1 .. Len(line) :
       Is(line[k], "PDP_DEACT") /\ connected =>
         /\ pc = "connect"
         /\ \E j \in 1 .. Len(line) : k < j /\ Is(line[j], "CONNECT_OK")
  /\ \A j, k \in 1 .. Len(line) :
       Is(line[j], "SEND_OK") /\ Is(line[k], "PDP_DEACT") => j < k

NoSendOk ==
  /\ \A k \in 1 .. Len(line) : ~Is(line[k], "SEND_OK")
  /\ ~(modem = "sending" /\ connected)

Reported ==
  /\ pc = "prompt" /\ prepareOk /\ ~early => NoSendOk
  /\ pc = "sent" /\ ~early /\ ~handedOver => NoSendOk /\ "SEND_OK" \notin responses

AlarmInv == WaitPlace /\ InStep /\ Severed /\ Reported

\* What the texts of the modem are to the module that waits.
LEMMA LineFields == \A t : Line(t).kind = "line" /\ Line(t).text = t
BY DEF Line

LEMMA ReplyTexts ==
  /\ Awaited \subseteq Replies /\ "overflow" \notin Replies
  /\ {"CONNECT_OK", "CONNECT_FAIL", "ALREADY_CONNECT", "PROMPT", "SEND_OK",
      "CSQ_OK", "CGATT_0", "CGATT_1", "ERROR"} \subseteq Replies
  /\ Spaced \subseteq Replies \cup {"PDP_DEACT"}
  /\ "PDP_DEACT" \notin Replies /\ "CLOSED" \notin Replies
BY DEF Awaited, Replies, Texts, Spaced

\* A modem that has answered, and one that has not answered in time, has
\* nothing more to say.
LEMMA AnswerSettles ==
  ASSUME AlarmInv, ModemType, responses \cap Awaited # {} PROVE Settled
BY DEF AlarmInv, InStep, ModemType, BusyWith, Settled

LEMMA TimeoutSettles ==
  ASSUME ~Late, TimedOut PROVE Settled
BY DEF TimedOut, Settled, NoReply

LEMMA LoopSettles ==
  ASSUME AlarmInv, pc \in {"loop", "key"} PROVE Settled
BY DEF AlarmInv, InStep

LEMMA InitAlarm == Init => AlarmInv
<1> SUFFICES ASSUME Init PROVE AlarmInv
  OBVIOUS
<1>1. pc = "loop" /\ modem = "idle" /\ line = <<>> /\ responses = {}
  BY DEF Init
<1>2. NoReply
  BY <1>1 DEF NoReply
<1>3. WaitPlace /\ Reported
  BY <1>1 DEF WaitPlace, Reported
<1>4. InStep
  BY <1>1, <1>2 DEF InStep, Settled, BusyWith
<1>5. Severed
  BY <1>1 DEF Severed
<1> QED
  BY <1>3, <1>4, <1>5 DEF AlarmInv

(***************************************************************************)
(* AlarmInv by kinds of steps.  First those of the main loop between two   *)
(* commands, and of the timer.                                             *)
(***************************************************************************)
LEMMA StaysStep ==
  ASSUME AlarmInv, UNCHANGED <<pc, heard, line, modem, connected>>,
         pc = "loop" \/ UNCHANGED <<stateModule, handedOver>>
  PROVE  AlarmInv'
<1> USE DEF heard
<1>1. NoReply' <=> NoReply
  BY DEF NoReply
<1>2. WaitPlace'
  BY DEF AlarmInv, WaitPlace
<1>3. Awaited' = Awaited
  BY DEF Awaited
<1>4. InStep'
  BY <1>1, <1>3 DEF AlarmInv, InStep, Settled, Among
<1>5. Severed'
  BY DEF AlarmInv, Severed
<1>6. NoSendOk' <=> NoSendOk
  BY DEF NoSendOk
<1>7. Reported'
  BY <1>6 DEF AlarmInv, Reported
<1> QED
  BY <1>2, <1>4, <1>5, <1>7 DEF AlarmInv

\* The main loop goes on after a wait, or closes the connection.
LEMMA LeavesStep ==
  ASSUME AlarmInv, NoReply, line' = line,
         pc' = "loop" \/ (pc' = "key" /\ stateModule' = "ON_GPRS"),
         modem' \in {"idle", "prompted"}, connected' => connected
  PROVE  AlarmInv'
<1>1. NoReply'
  BY DEF NoReply
<1>2. WaitPlace' /\ Reported'
  BY DEF WaitPlace, Reported
<1>3. \A k \in 1 .. Len(line) : ~Among(line[k], Replies) /\ ~Among(line[k], Awaited')
  BY ReplyTexts DEF NoReply, Among, Awaited
<1>4. InStep'
  BY <1>1, <1>3 DEF InStep, Settled, BusyWith
<1>5. Severed'
  BY <1>3, ReplyTexts DEF AlarmInv, Severed, Among, Is
<1> QED
  BY <1>2, <1>4, <1>5 DEF AlarmInv

\* A command is given to a modem that has nothing more to say.
LEMMA CommandStep ==
  ASSUME AlarmInv, Settled, NEW c \in {"CIPSTART", "CIPSEND", "CSQ"},
         Command(c) \/ AskNetwork, UNCHANGED <<line, connected>>,
         pc' \in {"network", "connect", "prompt", "signal"},
         c = "CIPSTART" => pc' = "connect", WaitPlace'
  PROVE  AlarmInv'
<1>1. NoReply /\ NoReply'
  BY DEF NoReply, Settled
<1>2. /\ responses' = {} /\ prepareOk' = FALSE
      /\ modem' \in {"idle", "prompted", "CGATT", "sending", c}
  BY DEF Command, AskNetwork, Settled
<1>3. \A k \in 1 .. Len(line) : ~Among(line[k], Replies) /\ ~Among(line[k], Awaited')
  BY <1>1, ReplyTexts DEF NoReply, Among, Awaited
<1>4. InStep'
  BY <1>1, <1>2, <1>3 DEF InStep, Settled, BusyWith
<1>5. Severed'
  BY <1>3, ReplyTexts DEF AlarmInv, Severed, Among, Is
<1>6. Reported'
  BY <1>2 DEF Reported
<1> QED
  BY <1>4, <1>5, <1>6 DEF AlarmInv

\* The data goes out behind the prompt, or behind what was taken for it.
LEMMA PromptStep ==
  ASSUME AlarmInv, PromptComes PROVE AlarmInv'
<1>1. /\ pc = "prompt" /\ prepareOk /\ pc' = "sent" /\ responses' = {}
      /\ UNCHANGED <<early, stateModule, line, connected>>
      /\ modem' = IF modem = "prompted" THEN "sending" ELSE modem
      /\ modem = "prompted" /\ connected => handedOver'
  BY DEF PromptComes
<1>2. WaitPlace'
  BY <1>1 DEF AlarmInv, WaitPlace
<1>3. \A k \in 1 .. Len(line) :
        /\ Among(line[k], Awaited') => Among(line[k], Awaited) /\ ~Is(line[k], "PROMPT")
        /\ Among(line[k], Replies) <=> Among(line[k], Awaited)
  BY <1>1 DEF Among, Awaited, Is
<1>4. modem' \in BusyWith => modem \in BusyWith \cup {"prompted"}
  BY <1>1 DEF BusyWith
<1>5. InStep'
  <2>1. pc' # "loop" /\ modem' # "CIPSTART" /\ modem' # "prompted"
    BY <1>1 DEF AlarmInv, InStep
  <2>2. modem' \in BusyWith => \A k \in 1 .. Len(line) : ~Among(line[k], Awaited')
    BY <1>3, <1>4 DEF AlarmInv, InStep
  <2>3. modem' \in BusyWith \ {"sending"} => NoReply'
    BY <1>1 DEF AlarmInv, InStep, NoReply
  <2>4. \A j, k \in 1 .. Len(line) : Among(line[j], Awaited') /\ Among(line[k], Replies) => k <= j
    BY <1>3 DEF AlarmInv, InStep
  <2> QED
    BY <1>1, <2>1, <2>2, <2>3, <2>4 DEF InStep
<1>6. Severed'
  BY <1>1 DEF AlarmInv, Severed
<1>7. Reported'
  <2>1. ~early /\ ~handedOver' => NoSendOk
    BY <1>1 DEF AlarmInv, Reported
  <2>2. NoSendOk /\ ~handedOver' => NoSendOk'
    BY <1>1 DEF NoSendOk
  <2> QED
    BY <1>1, <2>1, <2>2 DEF Reported
<1> QED
  BY <1>2, <1>5, <1>6, <1>7 DEF AlarmInv

(***************************************************************************)
(* One more unit on the line: the answer to the command, ...               *)
(***************************************************************************)
Replying(t) ==
  /\ t \in Replies /\ line' = Append(line, Line(t))
  /\ modem \in BusyWith
  /\ modem' = "idle" \/ (modem' = "prompted" /\ modem = "CIPSEND" /\ t = "PROMPT")
  /\ t = "SEND_OK" => modem = "sending" /\ connected
  /\ connected' => connected \/ (modem = "CIPSTART" /\ t = "CONNECT_OK")
  /\ UNCHANGED <<pc, stateModule, heard, handedOver>>

LEMMA RepliesStep ==
  ASSUME AlarmInv, LineType, NEW t, Replying(t)
  PROVE  AlarmInv'
<1>0. /\ Len(line) \in Nat /\ Len(line') = Len(line) + 1
      /\ \A i \in 1 .. Len(line) : line'[i] = line[i]
      /\ line'[Len(line) + 1] = Line(t)
      /\ \A i \in 1 .. Len(line') : i \in 1 .. Len(line) \/ i = Len(line) + 1
  BY Appending DEF Replying
<1> USE <1>0 DEF Replying, heard
<1>1. Awaited' = Awaited /\ modem' \notin BusyWith /\ pc \notin {"loop", "key"}
  BY DEF Awaited, BusyWith, AlarmInv, InStep, Settled
<1>2. /\ Among(Line(t), Replies) /\ \A x : Is(Line(t), x) <=> x = t
      /\ t # "PDP_DEACT"
  BY LineFields DEF Among, Is, Replies
<1>3. /\ responses \cap Awaited = {}
      /\ \A k \in 1 .. Len(line) : ~Among(line[k], Awaited)
      /\ modem = "CIPSEND" => NoReply
      /\ modem = "CIPSTART" => pc = "connect"
  BY DEF AlarmInv, InStep, BusyWith
<1>4. WaitPlace'
  BY DEF AlarmInv, WaitPlace
<1>5. InStep'
  <2>2. \A j, k \in 1 .. Len(line') :
          Among(line'[j], Awaited') /\ Among(line'[k], Replies) => k <= j
    <3> SUFFICES ASSUME NEW j \in 1 .. Len(line'), NEW k \in 1 .. Len(line'),
                        Among(line'[j], Awaited)
                 PROVE  k <= j
      BY <1>1
    <3>1. j = Len(line) + 1
      BY <1>3
    <3> QED
      BY <3>1
  <2>3. modem' = "prompted" =>
          \A k \in 1 .. Len(line') : Among(line'[k], Replies) => Is(line'[k], "PROMPT")
    BY <1>2, <1>3 DEF NoReply
  <2> QED
    BY <1>1, <1>3, <2>2, <2>3 DEF InStep, BusyWith
<1>6. Severed'
  <2>1. ASSUME NEW k \in 1 .. Len(line'), Is(line'[k], "PDP_DEACT"), connected'
        PROVE  /\ pc = "connect"
               /\ \E j \in 1 .. Len(line') : k < j /\ Is(line'[j], "CONNECT_OK")
    <3>1. k \in 1 .. Len(line) /\ Is(line[k], "PDP_DEACT")
      BY <2>1, <1>2
    <3>2. CASE connected
      <4>1. pc = "connect"
        BY <3>1, <3>2 DEF AlarmInv, Severed
      <4>2. PICK j \in 1 .. Len(line) : k < j /\ Is(line[j], "CONNECT_OK")
        BY <3>1, <3>2 DEF AlarmInv, Severed
      <4>3. j \in 1 .. Len(line') /\ k < j /\ Is(line'[j], "CONNECT_OK")
        BY <4>2
      <4> QED
        BY <4>1, <4>3
    <3>3. CASE modem = "CIPSTART" /\ t = "CONNECT_OK"
      <4>1. /\ Len(line) + 1 \in 1 .. Len(line') /\ k < Len(line) + 1
            /\ Is(line'[Len(line) + 1], "CONNECT_OK")
        BY <3>1, <3>3, <1>2
      <4> QED
        BY <4>1, <3>3, <1>3
    <3> QED
      BY <2>1, <3>2, <3>3
  <2>2. ASSUME NEW j \in 1 .. Len(line'), NEW k \in 1 .. Len(line'),
               Is(line'[j], "SEND_OK"), Is(line'[k], "PDP_DEACT")
        PROVE  j < k
    <3>1. k \in 1 .. Len(line) /\ Is(line[k], "PDP_DEACT")
      BY <2>2, <1>2
    <3>2. CASE j \in 1 .. Len(line)
      BY <2>2, <3>1, <3>2 DEF AlarmInv, Severed
    <3>3. CASE j = Len(line) + 1
      <4>1. connected
        BY <2>2, <3>3, <1>2
      <4>2. PICK i \in 1 .. Len(line) : Is(line[i], "CONNECT_OK") /\ pc = "connect"
        BY <3>1, <4>1 DEF AlarmInv, Severed
      <4>3. Among(line[i], Awaited)
        BY <4>2, ReplyTexts DEF Is, Among, Awaited
      <4> QED
        BY <4>3, <1>3
    <3> QED
      BY <3>2, <3>3
  <2> QED
    BY <2>1, <2>2 DEF Severed
<1>7. Reported'
  <2>1. NoSendOk => NoSendOk'
    BY <1>1, <1>2 DEF NoSendOk, BusyWith
  <2> QED
    BY <2>1 DEF AlarmInv, Reported
<1> QED
  BY <1>4, <1>5, <1>6, <1>7 DEF AlarmInv

\* ... or the loss of the connection, or a frame of the server.
Speaking(u) ==
  /\ line' = Append(line, u) /\ ~Among(u, Replies)
  /\ connected' => connected
  /\ Is(u, "PDP_DEACT") => ~connected'
  /\ UNCHANGED <<pc, stateModule, heard, handedOver, modem>>

LEMMA SpeaksStep ==
  ASSUME AlarmInv, LineType, NEW u, Speaking(u)
  PROVE  AlarmInv'
<1>0. /\ Len(line) \in Nat /\ Len(line') = Len(line) + 1
      /\ \A i \in 1 .. Len(line) : line'[i] = line[i]
      /\ line'[Len(line) + 1] = u
      /\ \A i \in 1 .. Len(line') : i \in 1 .. Len(line) \/ i = Len(line) + 1
  BY Appending DEF Speaking
<1> USE <1>0 DEF Speaking, heard
<1>1. Awaited' = Awaited
  BY DEF Awaited
<1>2. NoReply => NoReply'
  BY DEF NoReply
<1>3. ~Among(u, Awaited) /\ ~Is(u, "SEND_OK")
  BY ReplyTexts DEF Among, Is
<1>4. WaitPlace'
  BY DEF AlarmInv, WaitPlace
<1>5. InStep'
  <2>2. \A j, k \in 1 .. Len(line') :
          Among(line'[j], Awaited') /\ Among(line'[k], Replies) => k <= j
    BY <1>1, <1>3 DEF AlarmInv, InStep
  <2>3. modem' = "prompted" =>
          \A k \in 1 .. Len(line') : Among(line'[k], Replies) => Is(line'[k], "PROMPT")
    BY DEF AlarmInv, InStep
  <2>4. modem' \in BusyWith => \A k \in 1 .. Len(line') : ~Among(line'[k], Awaited')
    BY <1>1, <1>3 DEF AlarmInv, InStep
  <2> QED
    BY <1>1, <1>2, <2>2, <2>3, <2>4 DEF AlarmInv, InStep, Settled
<1>6. Severed'
  <2>1. ASSUME NEW k \in 1 .. Len(line'), Is(line'[k], "PDP_DEACT"), connected'
        PROVE  /\ pc = "connect"
               /\ \E j \in 1 .. Len(line') : k < j /\ Is(line'[j], "CONNECT_OK")
    <3>1. k \in 1 .. Len(line) /\ Is(line[k], "PDP_DEACT") /\ connected
      BY <2>1
    <3>2. pc = "connect"
      BY <3>1 DEF AlarmInv, Severed
    <3>3. PICK j \in 1 .. Len(line) : k < j /\ Is(line[j], "CONNECT_OK")
      BY <3>1 DEF AlarmInv, Severed
    <3>4. j \in 1 .. Len(line') /\ k < j /\ Is(line'[j], "CONNECT_OK")
      BY <3>3
    <3> QED
      BY <3>2, <3>4
  <2>2. ASSUME NEW j \in 1 .. Len(line'), NEW k \in 1 .. Len(line'),
               Is(line'[j], "SEND_OK"), Is(line'[k], "PDP_DEACT")
        PROVE  j < k
    <3>1. j \in 1 .. Len(line) /\ Is(line[j], "SEND_OK")
      BY <2>2, <1>3
    <3>2. CASE k \in 1 .. Len(line)
      <4>1. Is(line[k], "PDP_DEACT")
        BY <2>2, <3>2
      <4> QED
        BY <3>1, <3>2, <4>1 DEF AlarmInv, Severed
    <3>3. CASE k = Len(line) + 1
      BY <3>1, <3>3
    <3> QED
      BY <3>2, <3>3
  <2> QED
    BY <2>1, <2>2 DEF Severed
<1>7. Reported'
  <2>1. NoSendOk => NoSendOk'
    BY <1>3 DEF NoSendOk
  <2> QED
    BY <2>1 DEF AlarmInv, Reported
<1> QED
  BY <1>4, <1>5, <1>6, <1>7 DEF AlarmInv

(***************************************************************************)
(* The first unit of the line is heard.  Before the data is sent, what is  *)
(* taken for the prompt is the prompt, the error that is awaited in its    *)
(* place, the word that the connection is lost, or a blocked frame.        *)
(***************************************************************************)
Hearing ==
  /\ line # <<>> /\ line' = Tail(line)
  /\ \A t \in responses' :
       t \in responses \/ t = "overflow" \/ Is(Head(line), t)
  /\ early => early'
  /\ pc = "prompt" /\ ~prepareOk /\ prepareOk' /\ ~early' =>
       \E t \in Spaced : Is(Head(line), t)
  /\ UNCHANGED <<pc, stateModule, modem, connected, handedOver>>

LEMMA HearsStep ==
  ASSUME AlarmInv, LineType, Hearing PROVE AlarmInv'
<1>0. /\ Len(line) \in Nat /\ 1 \in 1 .. Len(line) /\ Head(line) = line[1]
      /\ Len(line') = Len(line) - 1 /\ Len(line') \in Nat
      /\ \A i \in 1 .. Len(line') : i + 1 \in 1 .. Len(line) /\ line'[i] = line[i + 1]
      /\ \A i \in 1 .. Len(line) : i > 1 => i - 1 \in 1 .. Len(line')
  BY DEF Hearing, LineType
<1> USE <1>0 DEF Hearing
<1>1. Awaited' = Awaited
  BY DEF Awaited
<1>2. NoReply => NoReply'
  BY DEF NoReply
<1>3. Among(line[1], Awaited) => NoReply' /\ modem \notin BusyWith
  BY DEF AlarmInv, InStep, NoReply
<1>4. WaitPlace'
  BY DEF AlarmInv, WaitPlace
<1>5. InStep'
  <2>1. responses' \cap Awaited # {} =>
          responses \cap Awaited # {} \/ Among(line[1], Awaited)
    BY ReplyTexts DEF Is, Among
  <2>2. modem \in BusyWith =>
          /\ responses' \cap Awaited = {}
          /\ \A k \in 1 .. Len(line') : ~Among(line'[k], Awaited)
    BY <1>3, <2>1 DEF AlarmInv, InStep
  <2>3. responses' \cap Awaited # {} => NoReply'
    BY <1>2, <1>3, <2>1 DEF AlarmInv, InStep
  <2>4. \A j, k \in 1 .. Len(line') :
          Among(line'[j], Awaited) /\ Among(line'[k], Replies) => k <= j
    <3> SUFFICES ASSUME NEW j \in 1 .. Len(line'), NEW k \in 1 .. Len(line'),
                        Among(line'[j], Awaited), Among(line'[k], Replies)
                 PROVE  k <= j
      OBVIOUS
    <3>1. k + 1 <= j + 1
      BY DEF AlarmInv, InStep
    <3> QED
      BY <3>1
  <2>5. modem = "prompted" =>
          \A k \in 1 .. Len(line') : Among(line'[k], Replies) => Is(line'[k], "PROMPT")
    BY DEF AlarmInv, InStep
  <2> QED
    BY <1>1, <1>2, <2>2, <2>3, <2>4, <2>5 DEF AlarmInv, InStep, Settled
<1>6. Severed'
  <2>1. ASSUME NEW k \in 1 .. Len(line'), Is(line'[k], "PDP_DEACT"), connected
        PROVE  /\ pc = "connect"
               /\ \E j \in 1 .. Len(line') : k < j /\ Is(line'[j], "CONNECT_OK")
    <3>1. k + 1 \in 1 .. Len(line) /\ Is(line[k + 1], "PDP_DEACT")
      BY <2>1
    <3>2. pc = "connect"
      BY <2>1, <3>1 DEF AlarmInv, Severed
    <3>3. PICK j \in 1 .. Len(line) : k + 1 < j /\ Is(line[j], "CONNECT_OK")
      BY <2>1, <3>1 DEF AlarmInv, Severed
    <3>4. j - 1 \in 1 .. Len(line') /\ k < j - 1 /\ Is(line'[j - 1], "CONNECT_OK")
      BY <3>3
    <3> QED
      BY <3>2, <3>4
  <2>2. ASSUME NEW j \in 1 .. Len(line'), NEW k \in 1 .. Len(line'),
               Is(line'[j], "SEND_OK"), Is(line'[k], "PDP_DEACT")
        PROVE  j < k
    <3>1. j + 1 < k + 1
      BY <2>2 DEF AlarmInv, Severed
    <3> QED
      BY <3>1
  <2> QED
    BY <2>1, <2>2 DEF Severed
<1>7. Reported'
  <2>1. NoSendOk => NoSendOk'
    BY DEF NoSendOk
  <2>2. ASSUME pc = "prompt", ~prepareOk, prepareOk', ~early'
        PROVE  NoSendOk'
    <3>1. PICK t \in Spaced : Is(line[1], t)
      BY <2>2
    <3>2. CASE t \in Replies
      <4>1. NoReply' /\ modem \notin BusyWith
        BY <2>2, <3>1, <3>2, <1>3 DEF Is, Among, Awaited
      <4> QED
        BY <4>1, ReplyTexts DEF NoSendOk, NoReply, Among, Is, BusyWith
    <3>3. CASE t = "PDP_DEACT"
      <4>1. ~connected
        BY <2>2, <3>1, <3>3 DEF AlarmInv, Severed
      <4>2. \A j \in 1 .. Len(line) : Is(line[j], "SEND_OK") => j < 1
        BY <3>1, <3>3 DEF AlarmInv, Severed
      <4> QED
        BY <4>1, <4>2 DEF NoSendOk
    <3> QED
      BY <3>2, <3>3, ReplyTexts
  <2>3. NoSendOk /\ "SEND_OK" \notin responses => "SEND_OK" \notin responses'
    BY DEF NoSendOk
  <2> QED
    BY <2>1, <2>2, <2>3 DEF AlarmInv, Reported
<1> QED
  BY <1>4, <1>5, <1>6, <1>7 DEF AlarmInv

(***************************************************************************)
(* AlarmInv under the steps of the main loop, ...                          *)
(***************************************************************************)
LEMMA PowerAlarm ==
  ASSUME ~Late, Types, AlarmInv, PowerSteps PROVE AlarmInv'
<1> USE DEF external, Types
<1>1. CASE checkPowerOnOffGPRS
  <2>1. pc = "loop"
    BY <1>1 DEF checkPowerOnOffGPRS, AlarmInv, WaitPlace, MainType
  <2> QED
    BY <1>1, <2>1, StaysStep DEF checkPowerOnOffGPRS
<1>2. CASE offModuleGprs \/ onOffModuleGprs
  <2>1. pc = "loop"
    BY <1>2 DEF offModuleGprs, onOffModuleGprs, AlarmInv, WaitPlace, MainType
  <2>2. NoReply
    BY <2>1, LoopSettles DEF Settled
  <2>3. /\ UNCHANGED <<line, connected>> /\ modem' = "idle"
        /\ pc' = "loop" \/ (pc' = "key" /\ stateModule' = "ON_GPRS")
    BY <1>2, <2>1 DEF offModuleGprs, onOffModuleGprs, PressKey
  <2> QED
    BY <2>2, <2>3, LeavesStep
<1>3. CASE KeyPressed
  <2>1. WaitPlace' /\ Settled
    BY <1>3, LoopSettles DEF KeyPressed, AlarmInv, WaitPlace
  <2> QED
    BY <1>3, <2>1, CommandStep DEF KeyPressed
<1>4. CASE NetworkFound
  <2>1. responses \cap Awaited # {}
    BY <1>4 DEF NetworkFound, Awaited, Replies, Texts, Spaced
  <2> QED
    BY <1>4, <2>1, AnswerSettles, LeavesStep DEF NetworkFound, Settled
<1>5. CASE NetworkMissed
  <2>1. pc = "network" /\ UNCHANGED <<stateModule, line, connected>>
    BY <1>5 DEF NetworkMissed
  <2>2. {"CGATT_0", "ERROR"} \subseteq Awaited
    BY <2>1 DEF Awaited, Replies, Texts, Spaced
  <2>3. Settled
    BY <1>5, <2>2, AnswerSettles, TimeoutSettles DEF NetworkMissed
  <2>4. CASE pc' = pc /\ AskNetwork
    <3>1. WaitPlace'
      BY <2>1, <2>4 DEF AlarmInv, WaitPlace
    <3> QED
      BY <2>1, <2>3, <2>4, <3>1, CommandStep
  <2>5. CASE pc' = "loop" /\ UNCHANGED <<heard, modem>>
    BY <2>1, <2>3, <2>5, LeavesStep DEF Settled
  <2> QED
    BY <1>5, <2>4, <2>5 DEF NetworkMissed
<1> QED
  BY <1>1, <1>2, <1>3, <1>4, <1>5 DEF PowerSteps

LEMMA ConnectAlarm ==
  ASSUME ~Late, Types, AlarmInv, ConnectSteps PROVE AlarmInv'
<1> USE DEF external, Types
<1>1. CASE establishTCPClient
  <2>1. pc = "loop"
    BY <1>1 DEF establishTCPClient, AlarmInv, WaitPlace, MainType
  <2>2. NoReply
    BY <2>1, LoopSettles DEF Settled
  <2> QED
    BY <1>1, <2>1, <2>2, LeavesStep DEF establishTCPClient
<1>2. CASE connectToServerNow
  <2>1. WaitPlace'
    BY <1>2 DEF connectToServerNow, WaitPlace
  <2> QED
    BY <1>2, <2>1, LoopSettles, CommandStep DEF connectToServerNow
<1>3. CASE ConnectSucceeds
  <2>1. responses \cap Awaited # {}
    BY <1>3 DEF ConnectSucceeds, Awaited, Replies, Texts, Spaced
  <2> QED
    BY <1>3, <2>1, AnswerSettles, LeavesStep DEF ConnectSucceeds, Settled
<1>4. CASE ConnectFails
  <2>1. pc = "connect" /\ UNCHANGED <<line, connected>>
    BY <1>4 DEF ConnectFails
  <2>2. "CONNECT_FAIL" \in responses => responses \cap Awaited # {}
    BY <2>1 DEF Awaited, Replies, Texts, Spaced
  <2>3. "CONNECT_FAIL" \in responses \/ TimedOut
    BY <1>4 DEF ConnectFails
  <2>4. Settled
    BY <2>2, <2>3, AnswerSettles, TimeoutSettles
  <2>5. CASE Command("CIPSTART") /\ UNCHANGED <<stateModule, pc>>
    <3>1. WaitPlace'
      BY <2>5 DEF AlarmInv, WaitPlace
    <3> QED
      BY <2>1, <2>4, <2>5, <3>1, CommandStep
  <2>6. CASE pc' = "loop" /\ UNCHANGED <<heard, modem>>
    BY <2>1, <2>4, <2>6, LeavesStep DEF Settled
  <2> QED
    BY <1>4, <2>5, <2>6, Zenon DEF ConnectFails
<1>5. CASE LostConnect \/ Login
  <2>1. pc = "loop"
    BY <1>5 DEF LostConnect, Login, AlarmInv, WaitPlace, MainType
  <2> QED
    BY <1>5, <2>1, StaysStep DEF LostConnect, Login
<1>6. CASE read_para
  <2>1. pc = "loop"
    BY <1>6 DEF read_para, AlarmInv, WaitPlace, MainType
  <2> QED
    BY <1>6, <2>1, StaysStep DEF read_para
<1> QED
  BY <1>1, <1>2, <1>3, <1>4, <1>5, <1>6 DEF ConnectSteps

LEMMA SendAlarm ==
  ASSUME ~Late, Types, AlarmInv, SendSteps PROVE AlarmInv'
<1> USE DEF external, Types
<1>1. CASE trans_data_server
  <2>1. WaitPlace'
    BY <1>1 DEF trans_data_server, WaitPlace
  <2> QED
    BY <1>1, <2>1, LoopSettles, CommandStep DEF trans_data_server
<1>2. CASE PromptComes
  BY <1>2, PromptStep
<1>3. CASE PromptFails
  <2>1. pc = "prompt" /\ UNCHANGED <<line, connected>>
    BY <1>3 DEF PromptFails
  <2>2. "ERROR" \in responses => responses \cap Awaited # {}
    BY <2>1 DEF Awaited, Replies, Texts, Spaced
  <2>3. "ERROR" \in responses \/ TimedOut
    BY <1>3 DEF PromptFails
  <2>4. Settled
    BY <2>2, <2>3, AnswerSettles, TimeoutSettles
  <2>5. CASE Command("CIPSEND") /\ pc' = pc /\ stateModule' \in {"LOST_CONNECT", stateModule}
    <3>1. WaitPlace'
      BY <2>1, <2>5 DEF AlarmInv, WaitPlace
    <3> QED
      BY <2>1, <2>4, <2>5, <3>1, CommandStep
  <2>6. CASE pc' = "loop" /\ UNCHANGED <<heard, modem>>
    BY <2>1, <2>4, <2>6, LeavesStep DEF Settled
  <2> QED
    BY <1>3, <2>5, <2>6 DEF PromptFails
<1>4. CASE SendAnswered
  <2>1. \/ {"SEND_OK", "ERROR"} \cap responses # {}
        \/ TimedOut
    BY <1>4 DEF SendAnswered
  <2>2. {"SEND_OK", "ERROR"} \subseteq Awaited
    BY DEF Awaited, Replies, Texts, Spaced
  <2>3. Settled
    BY <2>1, <2>2, AnswerSettles, TimeoutSettles
  <2> QED
    BY <1>4, <2>3, LeavesStep DEF SendAnswered, Settled
<1> QED
  BY <1>1, <1>2, <1>3, <1>4 DEF SendSteps

LEMMA ServeAlarm ==
  ASSUME ~Late, Types, AlarmInv, ServeSteps PROVE AlarmInv'
<1> USE DEF external, Types
<1>1. CASE HoldSocket \/ ReadyConnect \/ get_command_from_server
  <2>1. pc = "loop"
    BY <1>1 DEF HoldSocket, ReadyConnect, get_command_from_server, AlarmInv,
       WaitPlace, MainType
  <2>2. UNCHANGED <<pc, heard, line, modem, connected>>
    BY <1>1 DEF HoldSocket, ReadyConnect, get_command_from_server
  <2> QED
    BY <2>1, <2>2, StaysStep
<1>2. CASE get_RSSI_signal
  <2>1. WaitPlace'
    BY <1>2 DEF get_RSSI_signal, WaitPlace
  <2> QED
    BY <1>2, <2>1, LoopSettles, CommandStep DEF get_RSSI_signal
<1>3. CASE SignalHeard
  <2>1. \/ {"CSQ_OK", "CGATT_0", "CGATT_1", "CONNECT_OK", "SEND_OK", "ERROR"}
             \cap responses # {}
        \/ TimedOut
    BY <1>3 DEF SignalHeard
  <2>2. {"CSQ_OK", "CGATT_0", "CGATT_1", "CONNECT_OK", "SEND_OK", "ERROR"}
          \subseteq Awaited
    BY <1>3 DEF SignalHeard, Awaited, Replies, Texts, Spaced
  <2>3. Settled
    BY <2>1, <2>2, AnswerSettles, TimeoutSettles
  <2> QED
    BY <1>3, <2>3, LeavesStep DEF SignalHeard, Settled
<1> QED
  BY <1>1, <1>2, <1>3 DEF ServeSteps

(***************************************************************************)
(* ... of the modem, the server and the timer, and of the interrupt.       *)
(***************************************************************************)
LEMMA WorldAlarm ==
  ASSUME Types, AlarmInv, WorldSteps PROVE AlarmInv'
<1> USE DEF main, external, Types
<1>1. CASE myTimer0_ISR
  BY <1>1, StaysStep DEF myTimer0_ISR
<1>2. CASE NetworkAttached \/ ModemConnects \/ ServerAccepts \/ ModemAnswers
  <2>1. \E t \in Texts : Replying(t)
    <3>1. CASE ModemConnects
      <4>1. Replying("ALREADY_CONNECT") \/ Replying("CONNECT_FAIL")
        BY <3>1, ReplyTexts DEF ModemConnects, Says, Replying, BusyWith
      <4> QED
        BY <4>1 DEF Texts, Spaced
    <3>2. CASE ServerAccepts
      <4>1. Replying("CONNECT_OK")
        BY <3>2, ReplyTexts DEF ServerAccepts, Says, Replying, BusyWith
      <4> QED
        BY <4>1 DEF Texts, Spaced
    <3>3. CASE ModemAnswers
      <4>1. \/ Replying("ERROR") \/ Replying("PROMPT")
            \/ Replying("CSQ_OK") \/ Replying("SEND_OK") \/ Replying("CGATT_0")
        BY <3>3, ReplyTexts DEF ModemAnswers, Says, Replying, BusyWith
      <4> QED
        BY <4>1 DEF Texts, Spaced
    <3>4. CASE NetworkAttached
      <4>1. Replying("CGATT_1")
        BY <3>4, ReplyTexts DEF NetworkAttached, Says, Replying, BusyWith
      <4> QED
        BY <4>1 DEF Texts, Spaced
    <3> QED
      BY <1>2, <3>1, <3>2, <3>3, <3>4
  <2> QED
    BY <2>1, RepliesStep
<1>3. CASE ConnectionDrops
  <2>1. ~connected' /\ UNCHANGED <<pc, stateModule, heard, handedOver, modem>>
    BY <1>3 DEF ConnectionDrops
  <2>2. PICK t \in {"CLOSED", "PDP_DEACT"} : line' = Append(line, Line(t))
    BY <1>3 DEF ConnectionDrops, Says
  <2>3. ~Among(Line(t), Replies)
    BY ReplyTexts, LineFields DEF Among
  <2> QED
    BY <2>1, <2>2, <2>3, SpeaksStep DEF Speaking
<1>4. CASE ServerSends
  <2>1. UNCHANGED <<pc, stateModule, heard, handedOver, modem, connected>>
    BY <1>4 DEF ServerSends
  <2>2. PICK u \in [kind : {"frame"}, no : {asked'}, req : Requests, good : {TRUE}]
              \cup (IF BadFrames THEN {BadFrame} ELSE {})
              \cup (IF CutFrames THEN {CutFrame} ELSE {}) : line' = Append(line, u)
    BY <1>4 DEF ServerSends
  <2>3. u.kind # "line"
    <3>1. \/ u \in [kind : {"frame"}, no : {asked'}, req : Requests, good : {TRUE}]
          \/ u = BadFrame \/ u = CutFrame
      BY <2>2, Zenon
    <3>2. BadFrame.kind # "line" /\ CutFrame.kind # "line"
      BY DEF BadFrame, CutFrame
    <3> QED
      BY <3>1, <3>2
  <2> QED
    BY <2>1, <2>2, <2>3, SpeaksStep DEF Speaking, Among, Is
<1> QED
  BY <1>1, <1>2, <1>3, <1>4 DEF WorldSteps

LEMMA InterruptAlarm ==
  ASSUME Types, AlarmInv, InterruptSteps PROVE AlarmInv'
<1> USE DEF main, heard
<1>1. /\ line # <<>> /\ line' = Tail(line)
      /\ UNCHANGED <<pc, stateModule, modem, connected, handedOver>>
  BY DEF InterruptSteps, myUart1_ISR
<1>2. PICK u \in {Head(line)} :
        \/ HearFrame(u) \/ HearFrameStart(u) \/ HearFrameRest
        \/ HearLine(u) \/ HearBlockedFrame(u)
  BY DEF InterruptSteps, myUart1_ISR
<1>3. Hearing
  <2>1. CASE HearFrame(u) \/ HearFrameStart(u) \/ HearFrameRest
    BY <1>1, <2>1 DEF HearFrame, HearFrameStart, HearFrameRest, Hearing
  <2>2. CASE HearLine(u)
    BY <1>1, <1>2, <2>2 DEF HearLine, Hearing, Is
  <2>3. CASE HearBlockedFrame(u)
    BY <1>1, <2>3 DEF HearBlockedFrame, Hearing
  <2> QED
    BY <1>2, <2>1, <2>2, <2>3
<1> QED
  BY <1>3, HearsStep DEF Types

LEMMA NextAlarm ==
  ASSUME ~Late, Types, AlarmInv, [Next]_vars PROVE AlarmInv'
<1>1. CASE UNCHANGED vars
  BY <1>1, StaysStep DEF vars, heard
<1> QED
  BY <1>1, PowerAlarm, ConnectAlarm, SendAlarm, ServeAlarm, WorldAlarm, InterruptAlarm, Zenon
     DEF Next, MainLoop, Modem, PowerSteps, ConnectSteps, SendSteps, ServeSteps,
         WorldSteps, InterruptSteps

(***************************************************************************)
(* The alarm for an error of sending is not missed: with a modem that      *)
(* answers in time, a frame that the modem has not taken ends in           *)
(* READY_CONNECT only behind another frame that was taken for the prompt.  *)
(***************************************************************************)
THEOREM SendErrorAlarmHolds ==
  ASSUME ~Late PROVE Spec => SendErrorAlarm
<1>1. Init => Types /\ AlarmInv
  BY InitTypes, InitAlarm
<1>2. Types /\ AlarmInv /\ [Next]_vars => (Types /\ AlarmInv)'
  BY NextTypes, NextAlarm
<1>3. AlarmInv /\ [Next]_vars =>
        [SendAnswered /\ stateModule' = "READY_CONNECT" => handedOver \/ early]_vars
  <2> SUFFICES ASSUME AlarmInv, SendAnswered, stateModule' = "READY_CONNECT"
               PROVE  handedOver \/ early
    OBVIOUS
  <2>1. pc = "sent" /\ ("SEND_OK" \in responses \/ stateModule = "READY_CONNECT")
    BY DEF SendAnswered
  <2>2. stateModule # "READY_CONNECT"
    BY <2>1 DEF AlarmInv, WaitPlace
  <2> QED
    BY <2>1, <2>2 DEF AlarmInv, Reported
<1> QED
  BY <1>1, <1>2, <1>3, PTL DEF Spec, SendErrorAlarm
=============================================================================
