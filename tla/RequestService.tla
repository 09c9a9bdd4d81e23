--------------------------- MODULE RequestService ---------------------------
(***************************************************************************)
(* What the link promises to the server: its requests are carried out in   *)
(* the order in which they were sent, none twice, though some may be lost. *)
(* The answer that is on its way is the one to the request carried out     *)
(* last, and an answer given up is not sent again: whatever the server     *)
(* hears after another request has been carried out belongs to that one.   *)
(***************************************************************************)
EXTENDS Naturals

VARIABLES
  sent,   \* the requests sent by the server, numbered from 1
  done,   \* the last one carried out
  answer  \* the request whose answer is being sent, 0 for none

Init == sent = 0 /\ done = 0 /\ answer = 0

Request ==
  /\ sent' = sent + 1
  /\ UNCHANGED <<done, answer>>

CarryOut ==
  /\ answer = 0
  /\ done' \in done + 1 .. sent
  /\ answer' \in {0, done'}
  /\ UNCHANGED sent

GiveUp ==
  /\ answer' = 0
  /\ UNCHANGED <<sent, done>>

Next == Request \/ CarryOut \/ GiveUp

Spec == Init /\ [][Next]_<<sent, done, answer>>
=============================================================================
