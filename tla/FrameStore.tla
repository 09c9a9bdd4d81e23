----------------------------- MODULE FrameStore -----------------------------
(***************************************************************************)
(* What the freeze log promises to the server: a store of images in the    *)
(* order in which they were saved.  It may give up the oldest ones, but    *)
(* never so many that fewer than Keep remain, and it is emptied as a whole *)
(* or not at all.                                                          *)
(***************************************************************************)
EXTENDS Naturals, Sequences

CONSTANTS
  Image,  \* what can be saved
  Keep    \* how many images are never given up, a natural number

VARIABLE kept  \* the images in the store, oldest first

Init == kept = <<>>

Save ==
  /\ kept' \in Seq(Image)
  /\ Len(kept') = Len(kept) + 1
  /\ SubSeq(kept', 1, Len(kept)) = kept

GiveUp ==
  \E k \in 1 .. Len(kept) :
    /\ Len(kept) >= k + Keep
    /\ kept' = SubSeq(kept, k + 1, Len(kept))

Empty == kept' = <<>>

Next == Save \/ GiveUp \/ Empty

Spec == Init /\ [][Next]_kept
=============================================================================
