---------------------------- MODULE ServerRequests ----------------------------
(***************************************************************************)
(* The answers to the server's requests, in hexadecimal digits, as the     *)
(* handlers of read_para.c put them into buffer_tx behind the 17 bytes of  *)
(* a frame's head.  buffer_tx is one buffer for all answers: what an       *)
(* answer does not reach stays there.                                      *)
(*                                                                         *)
(* A digit is known by the field it belongs to, its place in the field and *)
(* the request that brought it about.  The head, and the logins and        *)
(* heartbeats that fill no more than the head, are left out.               *)
(***************************************************************************)
EXTENDS Naturals, Sequences

CONSTANTS
  MaxRequests,  \* bound on the requests of the server
  MaxList,      \* bound on the codes of a request
  Room          \* digits of buffer_tx behind the head

Digits(code, part, no, n) ==
  [k \in 1 .. n |-> [code |-> code, part |-> part, no |-> no, k |-> k]]

\* The codes that can be written: the digits of their values, those of them
\* that are written, and the digits that the parser passes over.
WriteCodes ==
  [c1FD3 |-> [has |-> 12, takes |-> 12, skips |-> 12],
   c02D3 |-> [has |-> 4,  takes |-> 4,  skips |-> 4],
   c3080 |-> [has |-> 12, takes |-> 12, skips |-> 12],
   c05C1 |-> [has |-> 20, takes |-> 8,  skips |-> 20],
   c08C1 |-> [has |-> 20, takes |-> 8,  skips |-> 20],
   c06C1 |-> [has |-> 4,  takes |-> 4,  skips |-> 4],
   c07C1 |-> [has |-> 32, takes |-> 32, skips |-> 32]]

\* What process_commands() knows, and the digits of its answers: the clock, the
\* interval of the log, versions, the signal, the number of the lost connections
\* and their times.  The code is repeated before them, also one that is not known.
ReadCodes == [c3080 |-> 12, c1688 |-> 4, c0988 |-> 16, c0A88 |-> 4, c3180 |-> 2,
              c3280 |-> 4, c3380 |-> 100, unknown |-> 0]

Lists(codes) == UNION {[1 .. n -> codes] : n \in 1 .. MaxList}

VARIABLES
  data_frame,   \* the digits of buffer_tx behind the head
  requests,     \* the requests that have come
  asked,        \* the last writing request: its number and the codes it names
  written,      \* what it has written to the meter
  RESET_CONFIG  \* the settings are to be read again

vars == <<data_frame, requests, asked, written, RESET_CONFIG>>

Init ==
  /\ data_frame = Digits("zero", "other", 0, Room)
  /\ requests = 0 /\ asked = [no |-> 0, codes |-> <<>>] /\ written = <<>>
  /\ RESET_CONFIG = FALSE

-----------------------------------------------------------------------------
\* The fields of a list of codes, each with its value.
Fields(list, digits, no) ==
  LET f[i \in 0 .. Len(list)] ==
        IF i = 0 THEN <<>>
        ELSE f[i - 1] \o Digits(list[i], "code", no, 4)
                      \o Digits(list[i], "value", no, digits[list[i]])
  IN f[Len(list)]

\* The answer, its checksum and the 0x16 behind it.
Put(answer, no) ==
  LET new == answer \o Digits("sum", "other", no, 4) IN
  data_frame' = new \o SubSeq(data_frame, Len(new) + 1, Room)

Comes == requests < MaxRequests /\ requests' = requests + 1

\* A frame found in the log, or none: time, ID and a status before it.
process_server_reading_data_save ==
  /\ Comes
  /\ \E frame \in {0, 16} : Put(Digits("saved", "other", requests', 24 + frame), requests')
  /\ UNCHANGED <<asked, written, RESET_CONFIG>>

\* An interval of the log is acknowledged without being set.
process_server_syntime_module ==
  /\ Comes
  /\ \E c \in {"c3080", "c1688"} :
       Put(Digits("zero", "other", requests', 4) \o Digits(c, "code", requests', 4)
             \o Digits("zero", "other", requests', 2), requests')
  /\ UNCHANGED <<asked, written, RESET_CONFIG>>

process_server_readtime_module ==
  /\ Comes
  /\ \E list \in Lists(DOMAIN ReadCodes) :
       Put(Digits("head", "other", requests', 4) \o Fields(list, ReadCodes, requests'),
           requests')
  /\ UNCHANGED <<asked, written, RESET_CONFIG>>

\* The meter's codes, whatever of them it has answered.
process_server_reading_direct ==
  /\ Comes
  /\ \/ UNCHANGED data_frame
     \/ \E n \in 0 .. MaxList : Put(Digits("meter", "other", requests', 12 * n), requests')
  /\ UNCHANGED <<asked, written, RESET_CONFIG>>

(***************************************************************************)
(* write_data_metter() looks for a code at one digit after the other.      *)
(* Behind one that it knows it goes on three digits before the end of its  *)
(* value.                                                                  *)
(***************************************************************************)
CodesAt(commands, i) ==
  {c \in DOMAIN WriteCodes :
     /\ i + 3 <= Len(commands)
     /\ \A k \in 1 .. 4 : /\ commands[i + k - 1].code = c
                          /\ commands[i + k - 1].part = "code"
                          /\ commands[i + k - 1].k = k}

Least(m, n) == IF m < n THEN m ELSE n

write_data_metter(commands) ==
  LET w[i \in 1 .. Len(commands) + 40] ==
        IF i > Len(commands) THEN <<>>
        ELSE IF CodesAt(commands, i) = {} THEN w[i + 1]
        ELSE LET c == CHOOSE c \in CodesAt(commands, i) : TRUE IN
             <<[code |-> c,
                value |-> SubSeq(commands, i + 4,
                            Least(i + 3 + WriteCodes[c].takes, Len(commands)))]>>
               \o w[i + WriteCodes[c].skips + 1]
  IN w[1]

\* write_data() reports the second IP under the code of the first.
Report(c, no) ==
  Digits(IF c = "c08C1" THEN "c05C1" ELSE c, "code", no, 4)
    \o Digits("zero", "other", no, 2)

\* What is written is as long as the request, but it is taken from buffer_tx.
\* The writes that the meter refuses are not reported.
Requested(list) ==
  LET digits == [c \in DOMAIN WriteCodes |-> WriteCodes[c].has] IN
  SubSeq(data_frame, 1, Len(Fields(list, digits, requests')))

Reports(writes, taken) ==
  LET r[i \in 0 .. Len(writes)] ==
        IF i = 0 THEN <<>>
        ELSE r[i - 1] \o IF i \in taken THEN Report(writes[i].code, requests')
                                        ELSE <<>>
  IN r[Len(writes)]

NotSignedIn ==
  /\ written' = <<>>
  /\ UNCHANGED <<data_frame, RESET_CONFIG>>

SignedIn(writes) ==
  /\ written' = writes
  /\ RESET_CONFIG' = (RESET_CONFIG \/ \E i \in DOMAIN writes : writes[i].code = "c07C1")
  /\ \E taken \in SUBSET DOMAIN writes : Put(Reports(writes, taken), requests')

process_server_write_mode ==
  /\ Comes
  /\ \E list \in Lists(DOMAIN WriteCodes) :
       /\ asked' = [no |-> requests', codes |-> list]
       /\ \/ NotSignedIn
          \/ \E commands \in {Requested(list)} :
               \E writes \in {write_data_metter(commands)} : SignedIn(writes)

Next ==
  \/ process_server_reading_data_save \/ process_server_syntime_module
  \/ process_server_readtime_module \/ process_server_reading_direct
  \/ process_server_write_mode

Spec == Init /\ [][Next]_vars

-----------------------------------------------------------------------------
(***************************************************************************)
(* "Ghi gia tri tu server vao cong to" (read_para.c:544), it writes values *)
(* of the server into the meter: only codes the request names are written, *)
(* each with the value that the request gives it.                          *)
(***************************************************************************)
WritesRequested ==
  \A i \in DOMAIN written :
    LET w == written[i] IN
    /\ \E j \in DOMAIN asked.codes : asked.codes[j] = w.code
    /\ w.value = Digits(w.code, "value", asked.no, WriteCodes[w.code].takes)
=============================================================================
