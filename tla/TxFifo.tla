------------------------------- MODULE TxFifo -------------------------------
(***************************************************************************)
(* What the transmit side of the CPSW driver promises to lwIP: frames the  *)
(* driver accepts leave the wire in the order they were accepted, each one *)
(* once, and the driver gives a frame's pbuf back only after the frame has *)
(* left.  Capacity bounds the frames the driver holds: every frame takes   *)
(* at least one of the buffer descriptors.                                 *)
(***************************************************************************)
EXTENDS Naturals, Sequences

CONSTANTS Frames,      \* what is queued: the head pbufs of frames
          Capacity     \* number of transmit buffer descriptors

VARIABLES waiting,     \* accepted frames the DMA engine has not finished
          sent         \* finished frames the interrupt has not reclaimed

fifoVars == <<waiting, sent>>

Init == waiting = <<>> /\ sent = <<>>

Accept(f) ==
  /\ Len(waiting) + Len(sent) < Capacity
  /\ waiting' = Append(waiting, f)
  /\ UNCHANGED sent

Transmit ==
  /\ waiting # <<>>
  /\ sent' = Append(sent, Head(waiting))
  /\ waiting' = Tail(waiting)

Reclaim ==
  /\ sent # <<>>
  /\ sent' = Tail(sent)
  /\ UNCHANGED waiting

Next == Transmit \/ Reclaim \/ \E f \in Frames : Accept(f)

Spec == /\ Init /\ [][Next]_fifoVars
        /\ WF_fifoVars(Transmit) /\ WF_fifoVars(Reclaim)
=============================================================================
