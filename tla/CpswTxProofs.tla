---------------------------- MODULE CpswTxProofs ----------------------------
(***************************************************************************)
(* Proofs about the transmit ring, for every ring size, every set of pbufs *)
(* and both kinds of engine.                                               *)
(*                                                                         *)
(* The inductive invariant IInv describes the ring by positions: Busy      *)
(* descriptors from send_head on carry frames, the others do not, and the  *)
(* SOP and EOP flags and the pbuf of a descriptor depend on its position   *)
(* only through those of its neighbour.  QueueInv, further down, relates   *)
(* the positions to the frames of the queue.                               *)
(***************************************************************************)
EXTENDS CpswTx, FiniteSetTheorems, SequenceTheorems, TLAPS

Walking  == pc \in {"walk", "reclaim"}
Chaining == pc \in {"chain", "restart"}

(* Descriptors that carry an accepted frame, counted from send_head: those *)
(* the running code has counted out of free_num for a new frame, or back   *)
(* into it for the frame it reclaims, are put right.                       *)
Busy == IF pc = "fill" THEN NumBd - free_num - Dist(first, cur)
        ELSE IF Walking THEN NumBd - free_num + Dist(send_head, cur) + 1
        ELSE NumBd - free_num

(* The links form the ring, cut behind the last frame. *)
LinksInv ==
  /\ \A b \in Bd : next[b] = IF \/ b = send_tail /\ pc # "restart"
                                \/ b = end /\ Chaining
                             THEN NULL ELSE Succ(b)
  /\ send_tail # NULL => Succ(send_tail) = IF Chaining THEN first ELSE free_head

(* What the locals of the running code hold. *)
FillInv ==
  pc = "fill" =>
    /\ first = free_head /\ first \in sop /\ cur \in Bd /\ txp \in Pbuf
    /\ left <= free_num
    /\ Dist(first, cur) + left \in 1 .. MaxChain
    /\ cur # first => end \in Bd /\ Succ(end) = cur
    /\ \A b \in Bd : Dist(first, b) < Dist(first, cur) => pkt[b] = txp

ChainInv ==
  Chaining =>
    /\ first \in Bd /\ end \in Bd /\ send_tail \in Bd
    /\ Succ(end) = free_head /\ send_tail # end

WalkInv ==
  Walking =>
    /\ cur \in Bd /\ Dist(send_head, cur) < Busy
    /\ pkt[cur] = pkt[send_head]
    /\ \A b \in Bd : Dist(send_head, b) < Dist(send_head, cur) => b \notin eop
    /\ pc = "reclaim" => cur \in eop

PositionInv ==
  /\ Busy \in 0 .. NumBd
  /\ Dist(send_head, free_head) = IF Busy = NumBd THEN 0 ELSE Busy

FlagsInv ==
  /\ Busy > 0 => send_head \in sop
  /\ \A b \in Bd : Dist(send_head, b) < Busy => pkt[b] \in Pbuf
  /\ \A b \in Bd : Dist(send_head, b) = Busy - 1 => b \in eop
  /\ \A b \in Bd : Dist(send_head, b) < Busy - 1 =>
       /\ b \in eop <=> Succ(b) \in sop
       /\ b \in eop \/ pkt[Succ(b)] = pkt[b]
  /\ \A b \in Bd : Dist(send_head, b) >= Busy =>
       b \notin eop /\ (b \notin sop \/ (pc = "fill" /\ b = first))

(* The references of a pbuf, the frame being filled included. *)
Heads(p) == IF pc = "fill" THEN FramesWith(p) \ {first} ELSE FramesWith(p)
Filling(p) == IF pc = "fill" /\ txp = p THEN 1 ELSE 0
Holds(p)   == IF p \in held THEN 1 ELSE 0

RefInv ==
  \A p \in Pbuf : ref[p] >= Cardinality(Heads(p)) + Holds(p) + Filling(p)

RingInv == /\ LinksInv /\ FillInv /\ ChainInv /\ WalkInv
           /\ PositionInv /\ FlagsInv

IInv == TypeOK /\ RingInv /\ RefInv
-----------------------------------------------------------------------------
(* Positions on the ring *)

(* Positions are 0 .. NumBd-1 and tell descriptors apart.                  *)
LEMMA DistBasic ==
  ASSUME NEW a \in Bd, NEW b \in Bd
  PROVE  /\ Dist(a, b) \in 0 .. NumBd - 1
         /\ Dist(a, b) = 0 <=> a = b
         /\ \A c \in Bd : Dist(a, b) = Dist(a, c) => b = c
  BY NumBdAssumption DEF Bd, Dist

(* The successor is one position on, or wraps to position zero.            *)
LEMMA DistSucc ==
  ASSUME NEW a \in Bd, NEW b \in Bd
  PROVE  /\ Succ(b) \in Bd
         /\ Dist(a, Succ(b)) = IF Dist(a, b) = NumBd - 1 THEN 0 ELSE Dist(a, b) + 1
  BY NumBdAssumption DEF Bd, Dist, Succ

(* Positions from another origin. *)
LEMMA DistShift ==
  ASSUME NEW a \in Bd, NEW b \in Bd, NEW c \in Bd
  PROVE  Dist(c, b) = IF Dist(a, b) >= Dist(a, c)
                      THEN Dist(a, b) - Dist(a, c)
                      ELSE Dist(a, b) - Dist(a, c) + NumBd
  BY NumBdAssumption DEF Bd, Dist

(* The descriptors of the frames with one pbuf are finitely many.          *)
LEMMA HeadsFinite ==
  ASSUME sop \subseteq Bd, NEW p
  PROVE  IsFiniteSet(FramesWith(p)) /\ IsFiniteSet(Heads(p))
  <1>1. IsFiniteSet(Bd)
    BY NumBdAssumption, FS_Interval DEF Bd
  <1>2. FramesWith(p) \subseteq Bd /\ Heads(p) \subseteq Bd
    BY DEF FramesWith, Heads
  <1> QED BY <1>1, <1>2, FS_Subset
-----------------------------------------------------------------------------
(* The initial states *)

LEMMA InitIInv == Init => IInv
  <1> SUFFICES ASSUME Init PROVE IInv
    OBVIOUS
  <1>0. 0 \in Bd /\ Dist(0, 0) = 0
    BY NumBdAssumption DEF Bd, Dist
  <1>1. TypeOK
    <2>1. \A b \in Bd : Succ(b) \in Bd
      BY DistSucc
    <2>2. MaxChain \in Nat /\ NumBd \in Nat
      BY NumBdAssumption, ChainAssumption
    <2> QED BY <1>0, <2>1, <2>2 DEF Init, TypeOK, BdOrNull, DmaIdle
  <1>2. LinksInv
    BY NumBdAssumption DEF Init, LinksInv, Chaining, NULL, Bd
  <1>3. FillInv /\ ChainInv /\ WalkInv
    BY DEF Init, FillInv, ChainInv, WalkInv, Chaining, Walking
  <1>4. Busy = 0
    BY NumBdAssumption DEF Init, Busy, Walking
  <1>5. PositionInv
    BY <1>0, <1>4, NumBdAssumption DEF Init, PositionInv
  <1>6. FlagsInv
    BY <1>0, <1>4, DistBasic DEF Init, FlagsInv
  <1>7. RefInv
    <2> SUFFICES ASSUME NEW p \in Pbuf
                 PROVE  ref[p] >= Cardinality(Heads(p)) + Holds(p) + Filling(p)
      BY DEF RefInv
    <2>1. Heads(p) = {}
      BY DEF Init, Heads, FramesWith
    <2>2. Cardinality(Heads(p)) = 0
      BY <2>1, FS_EmptySet
    <2> QED BY <2>2 DEF Init, Holds, Filling
  <1> QED BY <1>1, <1>2, <1>3, <1>5, <1>6, <1>7 DEF IInv, RingInv
-----------------------------------------------------------------------------
(* Steps that leave the ring alone *)

ring == <<next, sop, eop, pkt, txch, pc, local>>

LEMMA RingUnchanged ==
  ASSUME RingInv, UNCHANGED ring
  PROVE  RingInv' /\ \A p : Heads(p)' = Heads(p) /\ Filling(p)' = Filling(p)
  BY DEF RingInv, ring, txch, local, LinksInv, FillInv, ChainInv, WalkInv,
         PositionInv, FlagsInv, Busy, Walking, Chaining, Heads, FramesWith, Filling

LEMMA EngineStep ==
  ASSUME IInv, Engine
  PROVE  IInv'
  <1>1. UNCHANGED ring /\ UNCHANGED pbufs
    BY DEF Engine, DmaStart, DmaFollow, DmaDone, ring, txch, local, mem
  <1>2. TypeOK'
    <2> USE DEF IInv, TypeOK, BdOrNull, DmaIdle, Fetch
    <2>1. CASE DmaStart
      BY <2>1 DEF DmaStart, mem, txch, local, pbufs
    <2>2. CASE DmaFollow
      BY <2>2 DEF DmaFollow, mem, txch, local, pbufs
    <2>3. CASE DmaDone
      BY <2>3 DEF DmaDone, txch, local, pbufs
    <2> QED BY <2>1, <2>2, <2>3 DEF Engine
  <1>3. RingInv' /\ \A p : Heads(p)' = Heads(p) /\ Filling(p)' = Filling(p)
    BY <1>1, RingUnchanged DEF IInv
  <1>4. RefInv'
    BY <1>1, <1>3 DEF IInv, RefInv, Holds, pbufs
  <1> QED BY <1>2, <1>3, <1>4 DEF IInv

(* lwIP allocates, releases, or has a frame refused. *)
LEMMA LwipStep ==
  ASSUME IInv, NEW p \in Pbuf, NEW c \in 1 .. MaxChain,
         PbufAlloc(p) \/ PbufRelease(p) \/ OutputErrMem(p, c)
  PROVE  IInv'
  <1>1. UNCHANGED ring /\ UNCHANGED <<mem, hw>> /\ pc = "idle"
    BY DEF PbufAlloc, PbufRelease, OutputErrMem, PbufRef, ring, txch, local, mem
  <1>2. RingInv' /\ \A q : Heads(q)' = Heads(q) /\ Filling(q)' = Filling(q)
    BY <1>1, RingUnchanged DEF IInv
  <1>3. \A q \in Pbuf : Cardinality(Heads(q)) \in Nat
    BY HeadsFinite, FS_CardinalityType DEF IInv, TypeOK
  <1>4. \A q \in Pbuf : ref[q] \in Nat
    BY DEF IInv, TypeOK
  <1>5. RefInv' /\ ref' \in [Pbuf -> Nat]
    <2>1. CASE PbufAlloc(p)
      <3>1. p \notin held
        BY <1>3, <1>4, <2>1 DEF PbufAlloc, IInv, RefInv, Holds, Filling
      <3> QED BY <1>2, <1>3, <1>4, <2>1, <3>1
                 DEF PbufAlloc, IInv, RefInv, Holds, Filling, TypeOK
    <2>2. CASE PbufRelease(p)
      <3>1. ref[p] >= 1
        BY <1>3, <1>4, <2>2 DEF PbufRelease, IInv, RefInv, Holds, Filling
      <3> QED BY <1>2, <1>3, <1>4, <2>2, <3>1
                 DEF PbufRelease, IInv, RefInv, Holds, Filling, TypeOK
    <2>3. CASE OutputErrMem(p, c)
      BY <1>2, <1>3, <1>4, <2>3
         DEF OutputErrMem, PbufRef, IInv, RefInv, Holds, Filling, TypeOK
    <2> QED BY <2>1, <2>2, <2>3
  <1>6. held' \subseteq Pbuf
    BY DEF PbufAlloc, PbufRelease, OutputErrMem, PbufRef, IInv, TypeOK
  <1>7. TypeOK'
    BY <1>1, <1>5, <1>6 DEF IInv, TypeOK, ring, txch, local, mem, hw
  <1> QED BY <1>2, <1>5, <1>7 DEF IInv
-----------------------------------------------------------------------------
(* eth0_tx_isr *)

LEMMA IsrEnterStep ==
  ASSUME IInv, IsrEnter \/ IsrExit
  PROVE  IInv'
  <1> USE DEF IInv, RingInv
  <1>1. /\ UNCHANGED <<mem, txch, hw, pbufs>>
        /\ pc \in {"idle", "isr"} /\ pc' \in {"idle", "isr"}
    BY DEF IsrEnter, IsrExit, Return
  <1>2. TypeOK'
    BY <1>1, ChainAssumption
       DEF IsrEnter, IsrExit, Return, TypeOK, mem, txch, hw, pbufs, local, BdOrNull
  <1>3. Busy' = Busy
    BY <1>1 DEF Busy, Walking, txch
  <1>4. LinksInv' /\ FillInv' /\ ChainInv' /\ WalkInv'
    BY <1>1 DEF LinksInv, FillInv, ChainInv, WalkInv, Chaining, Walking, mem, txch
  <1>5. PositionInv' /\ FlagsInv'
    BY <1>1, <1>3 DEF PositionInv, FlagsInv, mem, txch
  <1>6. RefInv'
    BY <1>1 DEF RefInv, Heads, FramesWith, Holds, Filling, mem, pbufs
  <1> QED BY <1>2, <1>4, <1>5, <1>6

(* The first descriptor of the oldest frame is counted as free. *)
LEMMA IsrFrameStep ==
  ASSUME IInv, IsrFrame
  PROVE  IInv'
  <1> USE DEF IInv, RingInv
  <1>1. send_head \in Bd /\ free_num \in 0 .. NumBd /\ NumBd \in Nat /\ cur' = send_head
    BY NumBdAssumption DEF TypeOK, IsrFrame
  <1>2. Dist(send_head, send_head) = 0
    BY <1>1, DistBasic
  <1>3. Busy = NumBd - free_num /\ Busy' = Busy
    BY <1>1, <1>2 DEF IsrFrame, Busy, Walking
  <1>4. Busy > 0
    BY <1>1, <1>2, <1>3 DEF IsrFrame, FlagsInv
  <1>5. TypeOK'
    BY <1>1, <1>3, <1>4 DEF IsrFrame, TypeOK, BdOrNull, mem, hw, pbufs
  <1>6. LinksInv' /\ FillInv' /\ ChainInv'
    BY DEF IsrFrame, LinksInv, FillInv, ChainInv, Chaining, mem
  <1>7. WalkInv'
    BY <1>1, <1>2, <1>3, <1>4, DistBasic DEF IsrFrame, WalkInv, Walking, mem
  <1>8. PositionInv' /\ FlagsInv'
    BY <1>3 DEF IsrFrame, PositionInv, FlagsInv, mem
  <1>9. RefInv'
    BY DEF IsrFrame, RefInv, Heads, FramesWith, Holds, Filling, mem, pbufs
  <1> QED BY <1>5, <1>6, <1>7, <1>8, <1>9

(* The walk is inside a frame, and its next descriptor is the next one on  *)
(* the ring.                                                               *)
LEMMA WalkPosition ==
  ASSUME IInv, IsrWalk
  PROVE  /\ send_head \in Bd /\ free_num \in 0 .. NumBd /\ NumBd \in Nat
         /\ cur \in Bd /\ cur \notin eop /\ Busy \in 0 .. NumBd
         /\ Dist(send_head, cur) \in 0 .. NumBd - 1
         /\ Dist(send_head, cur) < Busy - 1
         /\ Busy = NumBd - free_num + Dist(send_head, cur) + 1
         /\ Succ(cur) \in Bd /\ cur' = Succ(cur)
         /\ Dist(send_head, cur') = Dist(send_head, cur) + 1
         /\ Busy' = Busy
  <1> USE DEF IInv, RingInv
  <1>1. /\ send_head \in Bd /\ free_num \in 0 .. NumBd /\ NumBd \in Nat
        /\ cur \in Bd /\ cur \notin eop /\ Busy \in 0 .. NumBd
        /\ Dist(send_head, cur) < Busy
    BY NumBdAssumption DEF TypeOK, IsrWalk, WalkInv, Walking, PositionInv
  <1> DEFINE d == Dist(send_head, cur)
  <1>2. d \in 0 .. NumBd - 1 /\ Busy = NumBd - free_num + d + 1
    BY <1>1, DistBasic DEF IsrWalk, Busy, Walking
  <1>3. d < Busy - 1
    BY <1>1, <1>2 DEF FlagsInv
  <1>4. cur # send_tail
    <2> SUFFICES ASSUME cur = send_tail PROVE FALSE
      OBVIOUS
    <2>1. Succ(cur) = free_head /\ free_head \in Bd
      BY <1>1 DEF LinksInv, IsrWalk, Chaining, NULL, Bd, TypeOK
    <2>2. Dist(send_head, free_head) = d + 1
      BY <1>1, <1>2, <1>3, <2>1, DistSucc
    <2> QED BY <1>2, <1>3, <2>2 DEF PositionInv
  <1>5. next[cur] = Succ(cur) /\ Succ(cur) \in Bd
    BY <1>1, <1>4, DistSucc DEF LinksInv, IsrWalk, Chaining
  <1>6. cur' = Succ(cur) /\ Dist(send_head, cur') = d + 1
    BY <1>1, <1>2, <1>3, <1>5, DistSucc DEF IsrWalk
  <1>7. Busy' = Busy
    BY <1>1, <1>2, <1>6 DEF IsrWalk, Busy, Walking
  <1> QED BY <1>1, <1>2, <1>3, <1>5, <1>6, <1>7

(* The walk goes on to the next descriptor of the same frame. *)
LEMMA IsrWalkStep ==
  ASSUME IInv, IsrWalk
  PROVE  IInv'
  <1> USE DEF IInv, RingInv
  <1> DEFINE d == Dist(send_head, cur)
  <1>1. /\ send_head \in Bd /\ free_num \in 0 .. NumBd /\ NumBd \in Nat
        /\ cur \in Bd /\ cur \notin eop /\ Busy \in 0 .. NumBd
        /\ d \in 0 .. NumBd - 1 /\ d < Busy - 1
        /\ Busy = NumBd - free_num + d + 1
        /\ Succ(cur) \in Bd /\ cur' = Succ(cur)
        /\ Dist(send_head, cur') = d + 1 /\ Busy' = Busy
    BY WalkPosition
  <1>2. TypeOK'
    BY <1>1 DEF IsrWalk, TypeOK, BdOrNull, mem, hw, pbufs
  <1>3. LinksInv' /\ FillInv' /\ ChainInv'
    BY DEF IsrWalk, LinksInv, FillInv, ChainInv, Chaining, mem
  <1>4. PositionInv' /\ FlagsInv'
    BY <1>1 DEF IsrWalk, PositionInv, FlagsInv, mem
  <1>5. WalkInv'
    <2>1. pkt[cur'] = pkt[send_head]
      BY <1>1 DEF FlagsInv, WalkInv, IsrWalk, Walking
    <2>2. \A b \in Bd : Dist(send_head, b) < d + 1 => b \notin eop
      <3> SUFFICES ASSUME NEW b \in Bd, Dist(send_head, b) < d + 1, b # cur
                   PROVE  b \notin eop
        BY <1>1
      <3>1. Dist(send_head, b) < d
        BY <1>1, DistBasic
      <3> QED BY <3>1 DEF WalkInv, IsrWalk, Walking
    <2>3. pc' = "reclaim" => cur' \in eop
      <3> SUFFICES ASSUME free_num + 1 = NumBd PROVE cur' \in eop
        BY DEF IsrWalk
      <3>1. Dist(send_head, cur') = Busy - 1
        BY <1>1
      <3> QED BY <1>1, <3>1 DEF FlagsInv
    <2>4. Dist(send_head, cur') < Busy'
      BY <1>1
    <2>5. UNCHANGED <<send_head, eop, pkt>>
      BY DEF IsrWalk, mem
    <2> QED BY <1>1, <2>1, <2>2, <2>3, <2>4, <2>5 DEF WalkInv
  <1>6. RefInv'
    BY DEF IsrWalk, RefInv, Heads, FramesWith, Holds, Filling, mem, pbufs
  <1> QED BY <1>2, <1>3, <1>4, <1>5, <1>6

(* The walk has ended on the last descriptor of the oldest frame, and the  *)
(* new send_head is the one behind it, whatever the link says.             *)
LEMMA ReclaimPosition ==
  ASSUME IInv, IsrReclaim
  PROVE  /\ send_head \in Bd /\ free_num \in 0 .. NumBd /\ NumBd \in Nat
         /\ cur \in Bd /\ cur \in eop /\ Busy \in 0 .. NumBd
         /\ Dist(send_head, cur) \in 0 .. NumBd - 1
         /\ Dist(send_head, cur) < Busy /\ pkt[cur] = pkt[send_head]
         /\ Busy = NumBd - free_num + Dist(send_head, cur) + 1
         /\ Succ(cur) \in Bd /\ send_head' = Succ(cur)
         /\ Busy' = NumBd - free_num
         /\ \A b \in Bd :
              /\ Dist(send_head, b) \in 0 .. NumBd - 1
              /\ Dist(Succ(cur), b) =
                   IF Dist(send_head, b) > Dist(send_head, cur)
                   THEN Dist(send_head, b) - Dist(send_head, cur) - 1
                   ELSE Dist(send_head, b) - Dist(send_head, cur) - 1 + NumBd
  <1> USE DEF IInv, RingInv
  <1>1. /\ send_head \in Bd /\ free_num \in 0 .. NumBd /\ NumBd \in Nat
        /\ cur \in Bd /\ cur \in eop /\ Busy \in 0 .. NumBd
        /\ Dist(send_head, cur) < Busy /\ pkt[cur] = pkt[send_head]
    BY NumBdAssumption DEF TypeOK, IsrReclaim, ClearFlags, TxCPWr, WalkInv, Walking, PositionInv
  <1> DEFINE d == Dist(send_head, cur)
  <1>2. d \in 0 .. NumBd - 1 /\ Busy = NumBd - free_num + d + 1
    BY <1>1, DistBasic DEF IsrReclaim, ClearFlags, TxCPWr, Busy, Walking
  <1>3. Succ(cur) \in Bd /\ send_head' = Succ(cur)
    <2>1. Succ(cur) \in Bd /\ ~Chaining /\ pc # "restart"
      BY <1>1, DistSucc DEF IsrReclaim, ClearFlags, TxCPWr, Chaining
    <2>2. CASE cur = send_tail
      <3>1. cur # NULL
        BY <1>1 DEF NULL, Bd
      <3> QED BY <1>1, <2>1, <2>2, <3>1 DEF LinksInv, IsrReclaim, ClearFlags, TxCPWr
    <2>3. CASE cur # send_tail
      <3>1. next[cur] = Succ(cur) /\ Succ(cur) # NULL
        BY <1>1, <2>1, <2>3 DEF LinksInv, NULL, Bd
      <3> QED BY <2>1, <3>1 DEF IsrReclaim, ClearFlags, TxCPWr
    <2> QED BY <2>2, <2>3
  <1>4. Busy' = NumBd - free_num
    BY DEF IsrReclaim, ClearFlags, TxCPWr, Busy, Walking
  <1>5. \A b \in Bd : /\ Dist(send_head, b) \in 0 .. NumBd - 1
                      /\ Dist(Succ(cur), b) = IF Dist(send_head, b) > d
                                              THEN Dist(send_head, b) - d - 1
                                              ELSE Dist(send_head, b) - d - 1 + NumBd
    <2> SUFFICES ASSUME NEW b \in Bd
                 PROVE  /\ Dist(send_head, b) \in 0 .. NumBd - 1
                        /\ Dist(Succ(cur), b) = IF Dist(send_head, b) > d
                                                THEN Dist(send_head, b) - d - 1
                                                ELSE Dist(send_head, b) - d - 1 + NumBd
      OBVIOUS
    <2>1. Dist(send_head, b) \in 0 .. NumBd - 1
      BY <1>1, DistBasic
    <2>2. Dist(send_head, Succ(cur)) = IF d = NumBd - 1 THEN 0 ELSE d + 1
      BY <1>1, DistSucc
    <2>3. Dist(Succ(cur), b) = IF Dist(send_head, b) >= Dist(send_head, Succ(cur))
                               THEN Dist(send_head, b) - Dist(send_head, Succ(cur))
                               ELSE Dist(send_head, b) - Dist(send_head, Succ(cur)) + NumBd
      BY <1>1, <1>3, DistShift
    <2> QED BY <1>1, <1>2, <2>1, <2>2, <2>3
  <1> QED BY <1>1, <1>2, <1>3, <1>4, <1>5

(* The frame leaves the ring: its flags go, and with them its reference.   *)
LEMMA IsrReclaimStep ==
  ASSUME IInv, IsrReclaim
  PROVE  IInv'
  <1> USE DEF IInv, RingInv
  <1> DEFINE d == Dist(send_head, cur)
  <1>1. /\ send_head \in Bd /\ free_num \in 0 .. NumBd /\ NumBd \in Nat
        /\ cur \in Bd /\ cur \in eop /\ Busy \in 0 .. NumBd
        /\ d \in 0 .. NumBd - 1 /\ d < Busy /\ pkt[cur] = pkt[send_head]
        /\ Busy = NumBd - free_num + d + 1
        /\ Succ(cur) \in Bd /\ send_head' = Succ(cur)
        /\ Busy' = NumBd - free_num
        /\ \A b \in Bd : /\ Dist(send_head, b) \in 0 .. NumBd - 1
                         /\ Dist(Succ(cur), b) = IF Dist(send_head, b) > d
                                                 THEN Dist(send_head, b) - d - 1
                                                 ELSE Dist(send_head, b) - d - 1 + NumBd
    BY ReclaimPosition
  <1>2. pkt[send_head] \in Pbuf /\ send_head \in sop
    BY <1>1, DistBasic DEF FlagsInv
  <1> PICK q \in Pbuf : q = pkt[send_head]
    BY <1>2
  <1>3. /\ \A p \in Pbuf : p # q => Heads(p)' = Heads(p)
        /\ Heads(q)' = Heads(q) \ {send_head} /\ send_head \in Heads(q)
    BY <1>2 DEF IsrReclaim, ClearFlags, TxCPWr, Heads, FramesWith
  <1>4. \A p \in Pbuf : IsFiniteSet(Heads(p)) /\ Cardinality(Heads(p)) \in Nat
    BY HeadsFinite, FS_CardinalityType DEF TypeOK
  <1>5. Cardinality(Heads(q)') = Cardinality(Heads(q)) - 1
    BY <1>2, <1>3, <1>4, FS_RemoveElement
  <1>6. RefInv' /\ ref' \in [Pbuf -> Nat]
    <2>1. ref' = [ref EXCEPT ![q] = @ - 1] /\ ref \in [Pbuf -> Nat]
      BY <1>1 DEF IsrReclaim, ClearFlags, TxCPWr, TypeOK
    <2>2. \A p \in Pbuf : /\ Holds(p)' = Holds(p) /\ Holds(p) \in {0, 1}
                          /\ Filling(p)' = 0 /\ Filling(p) = 0
      BY DEF IsrReclaim, ClearFlags, TxCPWr, Holds, Filling
    <2>3. Cardinality(Heads(q)) >= 1
      <3>1. Cardinality(Heads(q)') \in Nat
        BY <1>2, <1>3, <1>4, FS_Subset, FS_RemoveElement, FS_CardinalityType
      <3> QED BY <1>2, <1>4, <1>5, <3>1
    <2>4. ref[q] >= Cardinality(Heads(q)) + Holds(q) + Filling(q)
      BY <1>2 DEF RefInv
    <2>5. ref[q] \in Nat /\ ref[q] >= 1 + Holds(q)
      BY <1>2, <1>4, <2>1, <2>2, <2>3, <2>4
    <2>6. ref' \in [Pbuf -> Nat]
      BY <1>2, <2>1, <2>2, <2>5
    <2>7. ASSUME NEW p \in Pbuf
          PROVE  ref'[p] >= Cardinality(Heads(p)') + Holds(p)' + Filling(p)'
      <3>1. CASE p = q
        BY <1>2, <1>4, <1>5, <2>1, <2>2, <2>4, <2>5, <3>1
      <3>2. CASE p # q
        BY <1>3, <2>1, <2>2, <3>2 DEF RefInv
      <3> QED BY <3>1, <3>2
    <2>8. \A p \in Pbuf : Cardinality(Heads(p))' = Cardinality(Heads(p)')
      OBVIOUS
    <2> QED BY <2>6, <2>7, <2>8 DEF RefInv
  <1>7. TypeOK'
    <2>1. UNCHANGED <<next, own, eoq, pkt, free_head, free_num, send_tail,
                      first, end, left, txp, dma, cp, held>>
      BY DEF IsrReclaim, ClearFlags, TxCPWr
    <2>2. /\ sop' \subseteq Bd /\ eop' \subseteq Bd /\ cur' = NULL
          /\ pc' = "isr" /\ irq' \in BOOLEAN
      BY DEF IsrReclaim, ClearFlags, TxCPWr, TypeOK
    <2> QED BY <1>1, <1>6, <2>1, <2>2 DEF TypeOK, BdOrNull
  <1>8. LinksInv' /\ FillInv' /\ ChainInv' /\ WalkInv'
    BY DEF IsrReclaim, ClearFlags, TxCPWr, LinksInv, FillInv, ChainInv, WalkInv, Chaining, Walking
  <1>9. PositionInv'
    <2>1. free_head \in Bd
      BY DEF TypeOK
    <2>2. Dist(send_head, free_head) = IF Busy = NumBd THEN 0 ELSE Busy
      BY DEF PositionInv
    <2>3. Dist(Succ(cur), free_head) = IF Busy' = NumBd THEN 0 ELSE Busy'
      BY <1>1, <2>1, <2>2
    <2>4. Busy' \in 0 .. NumBd
      BY <1>1
    <2> QED BY <1>1, <2>3, <2>4 DEF PositionInv, IsrReclaim, ClearFlags, TxCPWr
  <1>10. FlagsInv'
    <2>1. /\ sop' = sop \ {send_head} /\ eop' = eop \ {cur} /\ pkt' = pkt
          /\ pc' = "isr" /\ pc # "fill"
      BY DEF IsrReclaim, ClearFlags, TxCPWr
    <2>2. Busy' = Busy - d - 1
      BY <1>1
    <2>3. Dist(send_head, send_head) = 0
      BY <1>1, DistBasic
    <2>4. Busy' > 0 => send_head' \in sop'
      <3> SUFFICES ASSUME Busy' > 0 PROVE Succ(cur) \in sop \ {send_head}
        BY <1>1, <2>1
      <3>1. d < Busy - 1
        BY <1>1, <2>2
      <3>2. Succ(cur) \in sop
        BY <1>1, <3>1 DEF FlagsInv
      <3>3. Dist(send_head, Succ(cur)) = d + 1
        BY <1>1, <3>1, DistSucc
      <3> QED BY <1>1, <2>3, <3>2, <3>3
    <2>5. ASSUME NEW b \in Bd, Dist(Succ(cur), b) < Busy'
          PROVE  /\ Dist(send_head, b) > d
                 /\ Dist(send_head, b) = Dist(Succ(cur), b) + d + 1
                 /\ Dist(send_head, b) < Busy
                 /\ b # cur /\ b # send_head
      BY <1>1, <2>2, <2>3, <2>5
    <2>6. ASSUME NEW b \in Bd, Dist(Succ(cur), b) < Busy'
          PROVE  pkt'[b] \in Pbuf
      BY <2>1, <2>5, <2>6 DEF FlagsInv
    <2>7. ASSUME NEW b \in Bd, Dist(Succ(cur), b) = Busy' - 1
          PROVE  b \in eop'
      <3>1. Dist(Succ(cur), b) < Busy' /\ Dist(send_head, b) \in 0 .. NumBd - 1
        BY <1>1, <2>7
      <3>2. Dist(send_head, b) = Busy - 1 /\ b # cur
        BY <1>1, <2>2, <2>5, <2>7, <3>1
      <3> QED BY <2>1, <3>2 DEF FlagsInv
    <2>8. ASSUME NEW b \in Bd, Dist(Succ(cur), b) < Busy' - 1
          PROVE  (b \in eop' <=> Succ(b) \in sop') /\ (b \in eop' \/ pkt'[Succ(b)] = pkt'[b])
      <3>1. /\ Dist(send_head, b) \in 0 .. NumBd - 1
            /\ Dist(Succ(cur), b) \in Nat
        BY <1>1
      <3>2. Dist(Succ(cur), b) < Busy'
        BY <1>1, <2>8, <3>1
      <3>3. Dist(send_head, b) < Busy - 1 /\ b # cur
        BY <1>1, <2>2, <2>5, <2>8, <3>1, <3>2
      <3>4. Dist(send_head, Succ(b)) = Dist(send_head, b) + 1
        BY <1>1, <3>1, <3>3, DistSucc
      <3>5. Succ(b) # send_head
        BY <2>3, <3>1, <3>4
      <3> QED BY <2>1, <3>3, <3>5 DEF FlagsInv
    <2>9. ASSUME NEW b \in Bd, Dist(Succ(cur), b) >= Busy'
          PROVE  b \notin eop' /\ b \notin sop'
      <3>0. Dist(send_head, b) \in 0 .. NumBd - 1
        BY <1>1
      <3>1. CASE Dist(send_head, b) > d
        <4>1. Dist(send_head, b) >= Busy
          BY <1>1, <2>2, <2>9, <3>0, <3>1
        <4> QED BY <2>1, <4>1 DEF FlagsInv
      <3>2. CASE Dist(send_head, b) <= d
        <4>1. b \notin eop'
          <5>1. Dist(send_head, b) = d => b = cur
            BY <1>1, DistBasic
          <5>2. Dist(send_head, b) < d => b \notin eop
            BY DEF WalkInv, IsrReclaim, ClearFlags, TxCPWr, Walking
          <5> QED BY <1>1, <2>1, <3>0, <3>2, <5>1, <5>2
        <4>2. b # send_head => b \notin sop
          <5> SUFFICES ASSUME b # send_head PROVE b \notin sop
            OBVIOUS
          <5>1. PICK a \in Bd : Succ(a) = b
            BY NumBdAssumption DEF Bd, Succ
          <5>2. /\ Dist(send_head, a) \in 0 .. NumBd - 1
                /\ Dist(send_head, b) = IF Dist(send_head, a) = NumBd - 1
                                        THEN 0 ELSE Dist(send_head, a) + 1
            BY <1>1, <5>1, DistSucc, DistBasic
          <5>3. Dist(send_head, b) # 0
            BY <1>1, DistBasic
          <5>4. Dist(send_head, a) < d /\ Dist(send_head, a) < Busy - 1
            BY <1>1, <3>2, <5>2, <5>3
          <5>5. a \notin eop
            BY <5>4 DEF WalkInv, IsrReclaim, ClearFlags, TxCPWr, Walking
          <5> QED BY <5>1, <5>4, <5>5 DEF FlagsInv
        <4> QED BY <2>1, <4>1, <4>2
      <3> QED BY <1>1, <3>0, <3>1, <3>2
    <2> QED BY <1>1, <2>1, <2>4, <2>6, <2>7, <2>8, <2>9 DEF FlagsInv
  <1> QED BY <1>6, <1>7, <1>8, <1>9, <1>10
-----------------------------------------------------------------------------
(* cpswif_transmit *)

(* The first descriptor of the new frame is free and takes its flags. *)
LEMMA OutputBeginStep ==
  ASSUME IInv, NEW p \in Pbuf, NEW c \in 1 .. MaxChain, OutputBegin(p, c)
  PROVE  IInv'
  <1> USE DEF IInv, RingInv
  <1>1. /\ send_head \in Bd /\ free_head \in Bd /\ free_num \in 0 .. NumBd
        /\ NumBd \in Nat /\ MaxChain \in 1 .. NumBd - 1 /\ c <= free_num
    BY NumBdAssumption, ChainAssumption DEF TypeOK, OutputBegin, PbufRef, Fits
  <1>2. Dist(free_head, free_head) = 0
    BY <1>1, DistBasic
  <1>3. Busy = NumBd - free_num /\ Busy' = Busy /\ Busy < NumBd
    BY <1>1, <1>2 DEF OutputBegin, PbufRef, Fits, Busy, Walking, txch
  <1>4. Dist(send_head, free_head) = Busy
    BY <1>3 DEF PositionInv
  <1>5. free_head \notin sop
    BY <1>1, <1>3, <1>4 DEF FlagsInv, OutputBegin, PbufRef, Fits
  <1>6. TypeOK'
    BY <1>1 DEF OutputBegin, PbufRef, Fits, TypeOK, txch, hw, BdOrNull
  <1>7. LinksInv' /\ ChainInv' /\ WalkInv'
    BY DEF OutputBegin, PbufRef, Fits, LinksInv, ChainInv, WalkInv, Chaining, Walking, txch
  <1>8. FillInv'
    BY <1>1, <1>2, DistBasic DEF OutputBegin, PbufRef, Fits, FillInv, txch
  <1>9. PositionInv'
    BY <1>3 DEF OutputBegin, PbufRef, Fits, PositionInv, txch
  <1>10. FlagsInv'
    <2>1. /\ sop' = sop \cup {free_head} /\ eop' = eop \ {free_head}
          /\ pkt' = pkt /\ send_head' = send_head /\ pc' = "fill"
          /\ first' = free_head /\ pc # "fill"
      BY DEF OutputBegin, PbufRef, Fits, txch
    <2>2. ASSUME NEW b \in Bd, Dist(send_head, b) < Busy
          PROVE  b # free_head
      BY <1>1, <1>3, <1>4, <2>2
    <2>3. ASSUME NEW b \in Bd, Dist(send_head, b) < Busy - 1
          PROVE  Succ(b) # free_head
      BY <1>1, <1>3, <1>4, <2>3, DistSucc, DistBasic
    <2>4. ASSUME NEW b \in Bd, Dist(send_head, b) < Busy - 1 \/ Dist(send_head, b) = Busy - 1
          PROVE  Dist(send_head, b) < Busy
      BY <1>1, <1>3, <2>4, DistBasic
    <2> QED BY <1>3, <2>1, <2>2, <2>3, <2>4 DEF FlagsInv
  <1>11. \A x : Heads(x)' = Heads(x)
    BY <1>5 DEF OutputBegin, PbufRef, Fits, Heads, FramesWith
  <1>12. \A x \in Pbuf : Cardinality(Heads(x)) \in Nat
    BY HeadsFinite, FS_CardinalityType DEF TypeOK
  <1>13. RefInv'
    BY <1>11, <1>12 DEF OutputBegin, PbufRef, Fits, RefInv, TypeOK, Holds, Filling
  <1> QED BY <1>6, <1>7, <1>8, <1>9, <1>10, <1>13

(* Where the frame being filled lies, seen from send_head. *)
LEMMA FillPosition ==
  ASSUME TypeOK, RingInv, pc = "fill", left > 0 \/ cur # first
  PROVE  /\ Busy \in 0 .. NumBd - 1 /\ Busy = NumBd - free_num - Dist(first, cur)
         /\ first \in Bd /\ cur \in Bd /\ send_head \in Bd
         /\ free_num \in 0 .. NumBd /\ NumBd \in Nat /\ NumBd >= 2
         /\ Dist(first, cur) \in 0 .. NumBd - 1
         /\ Dist(send_head, first) = Busy
         /\ \A b \in Bd : Dist(first, b) < NumBd - Busy =>
              Dist(send_head, b) = Busy + Dist(first, b)
         /\ \A b \in Bd : Dist(send_head, b) >= Busy =>
              Dist(first, b) = Dist(send_head, b) - Busy
  <1> USE DEF RingInv
  <1>1. /\ first = free_head /\ first \in Bd /\ cur \in Bd /\ send_head \in Bd
        /\ free_num \in 0 .. NumBd /\ NumBd \in Nat /\ NumBd >= 2
        /\ left \in Nat /\ left <= free_num
    BY NumBdAssumption DEF FillInv, TypeOK
  <1>2. Dist(first, cur) \in 0 .. NumBd - 1 /\ (cur # first => Dist(first, cur) # 0)
    BY <1>1, DistBasic
  <1>3. Busy = NumBd - free_num - Dist(first, cur)
    BY DEF Busy
  <1>4. Busy \in 0 .. NumBd - 1
    BY <1>1, <1>2, <1>3 DEF PositionInv
  <1>5. Dist(send_head, first) = Busy
    BY <1>1, <1>4 DEF PositionInv
  <1>6. \A b \in Bd : /\ Dist(send_head, b) \in 0 .. NumBd - 1
                      /\ Dist(first, b) \in 0 .. NumBd - 1
                      /\ Dist(first, b) = IF Dist(send_head, b) >= Busy
                                          THEN Dist(send_head, b) - Busy
                                          ELSE Dist(send_head, b) - Busy + NumBd
    BY <1>1, <1>5, DistBasic, DistShift
  <1> QED BY <1>1, <1>2, <1>3, <1>4, <1>5, <1>6

(* Filling works on free descriptors, one after the other. *)
LEMMA FillNext ==
  ASSUME IInv, Fill
  PROVE  /\ pc = "fill" /\ left > 0 /\ left \in Nat /\ txp \in Pbuf
         /\ Busy \in 0 .. NumBd - 1 /\ first = free_head
         /\ first \in Bd /\ cur \in Bd /\ send_head \in Bd
         /\ free_num \in 1 .. NumBd /\ NumBd \in Nat /\ NumBd >= 2
         /\ Dist(first, cur) \in 0 .. NumBd - 2 /\ left <= free_num
         /\ Dist(first, cur) + left \in 1 .. MaxChain
         /\ MaxChain \in 1 .. NumBd - 1
         /\ cur' = Succ(cur) /\ Succ(cur) \in Bd
         /\ Dist(first, Succ(cur)) = Dist(first, cur) + 1
         /\ Busy' = Busy /\ Dist(send_head, cur) >= Busy
  <1> USE DEF IInv, RingInv
  <1>0. pc = "fill" /\ left > 0 /\ left \in Nat
    BY DEF Fill, TypeOK
  <1>1. /\ Busy \in 0 .. NumBd - 1 /\ Busy = NumBd - free_num - Dist(first, cur)
        /\ first \in Bd /\ cur \in Bd /\ send_head \in Bd
        /\ free_num \in 0 .. NumBd /\ NumBd \in Nat /\ NumBd >= 2
        /\ Dist(first, cur) \in 0 .. NumBd - 1
        /\ Dist(first, cur) < NumBd - Busy =>
             Dist(send_head, cur) = Busy + Dist(first, cur)
    BY <1>0, FillPosition
  <1> DEFINE n == Dist(first, cur)
  <1>2. /\ first = free_head /\ left <= free_num /\ n + left \in 1 .. MaxChain
        /\ MaxChain \in 1 .. NumBd - 1 /\ txp \in Pbuf
    BY <1>0, ChainAssumption DEF FillInv
  <1>3. n < NumBd - 1 /\ free_num >= 1
    BY <1>0, <1>1, <1>2
  <1>4. cur # send_tail
    <2> SUFFICES ASSUME cur = send_tail PROVE FALSE
      OBVIOUS
    <2>1. Succ(cur) = first
      BY <1>0, <1>1, <1>2 DEF LinksInv, Chaining, NULL, Bd
    <2>2. Dist(first, first) = 0
      BY <1>1, DistBasic
    <2> QED BY <1>1, <1>3, <2>1, <2>2, DistSucc
  <1>5. cur' = Succ(cur) /\ Succ(cur) \in Bd /\ Dist(first, Succ(cur)) = n + 1
    BY <1>0, <1>1, <1>3, <1>4, DistSucc DEF Fill, LinksInv, Chaining
  <1>6. Busy' = Busy
    BY <1>1, <1>5 DEF Fill, Busy
  <1>7. Dist(send_head, cur) >= Busy
    BY <1>1, <1>2, <1>3
  <1> QED BY <1>0, <1>1, <1>2, <1>3, <1>5, <1>6, <1>7

LEMMA FillStep ==
  ASSUME IInv, Fill
  PROVE  IInv'
  <1> USE DEF IInv, RingInv
  <1> DEFINE n == Dist(first, cur)
  <1>1. /\ pc = "fill" /\ left > 0 /\ left \in Nat /\ txp \in Pbuf
        /\ Busy \in 0 .. NumBd - 1 /\ first = free_head
        /\ first \in Bd /\ cur \in Bd /\ send_head \in Bd
        /\ free_num \in 1 .. NumBd /\ NumBd \in Nat /\ NumBd >= 2
        /\ n \in 0 .. NumBd - 2 /\ left <= free_num
        /\ n + left \in 1 .. MaxChain /\ MaxChain \in 1 .. NumBd - 1
        /\ cur' = Succ(cur) /\ Succ(cur) \in Bd
        /\ Dist(first, Succ(cur)) = n + 1
        /\ Busy' = Busy /\ Dist(send_head, cur) >= Busy
    BY FillNext
  <1>2. cur \notin sop \/ cur = first
    BY <1>1 DEF FlagsInv
  <1>3. TypeOK'
    BY <1>1 DEF Fill, TypeOK, BdOrNull, hw, pbufs
  <1>4. LinksInv' /\ ChainInv' /\ WalkInv' /\ PositionInv'
    BY <1>1
       DEF Fill, LinksInv, ChainInv, WalkInv, PositionInv, Chaining, Walking
  <1>5. FillInv'
    <2>1. /\ first' = first /\ free_head' = free_head /\ sop' = sop /\ txp' = txp
          /\ left' = left - 1 /\ free_num' = free_num - 1 /\ end' = cur
          /\ pkt' = [pkt EXCEPT ![cur] = txp]
      BY DEF Fill
    <2>2. \A b \in Bd : Dist(first, b) < n + 1 => pkt'[b] = txp
      <3> SUFFICES ASSUME NEW b \in Bd, Dist(first, b) < n + 1 PROVE pkt'[b] = txp
        OBVIOUS
      <3>1. CASE b = cur
        BY <2>1, <3>1 DEF TypeOK
      <3>2. CASE b # cur
        <4>1. Dist(first, b) < n
          BY <1>1, <3>2, DistBasic
        <4> QED BY <1>1, <2>1, <3>2, <4>1 DEF FillInv, TypeOK
      <3> QED BY <3>1, <3>2
    <2>3. first \in sop
      BY <1>1 DEF FillInv
    <2> QED BY <1>1, <2>1, <2>2, <2>3 DEF FillInv
  <1>6. FlagsInv'
    <2>1. /\ UNCHANGED <<sop, eop, send_head, pc, first>>
          /\ pkt' = [pkt EXCEPT ![cur] = txp]
      BY DEF Fill
    <2>0. send_head \in Bd /\ Busy \in 0 .. NumBd - 1 /\ NumBd \in Nat
      BY <1>1
    <2>2. ASSUME NEW b \in Bd, Dist(send_head, b) < Busy
          PROVE  pkt'[b] = pkt[b]
      BY <1>1, <2>1, <2>2, DistBasic DEF TypeOK
    <2>3. ASSUME NEW b \in Bd, Dist(send_head, b) < Busy - 1
          PROVE  /\ Dist(send_head, b) < Busy
                 /\ Succ(b) \in Bd /\ Dist(send_head, Succ(b)) < Busy
      BY <2>0, <2>3, DistSucc, DistBasic
    <2> QED BY <1>1, <2>1, <2>2, <2>3 DEF FlagsInv
  <1>7. \A x : Heads(x)' = Heads(x)
    BY <1>1, <1>2 DEF Fill, Heads, FramesWith, TypeOK
  <1>8. RefInv'
    BY <1>7 DEF Fill, RefInv, Holds, Filling, pbufs
  <1> QED BY <1>3, <1>4, <1>5, <1>6, <1>8

(* The finished frame lies at the end of the busy part of the ring. *)
LEMMA ClosePosition ==
  ASSUME IInv, Close
  PROVE  /\ pc = "fill" /\ pc' \in {"idle", "chain"} /\ cur # first
         /\ Dist(first, cur) \in 1 .. MaxChain /\ MaxChain \in 1 .. NumBd - 1
         /\ Busy \in 0 .. NumBd - 1
         /\ Busy = NumBd - free_num - Dist(first, cur)
         /\ first \in Bd /\ cur \in Bd /\ send_head \in Bd
         /\ free_num \in 0 .. NumBd /\ NumBd \in Nat /\ NumBd >= 2
         /\ Dist(send_head, first) = Busy
         /\ \A b \in Bd : Dist(first, b) < NumBd - Busy =>
              Dist(send_head, b) = Busy + Dist(first, b)
         /\ \A b \in Bd : Dist(send_head, b) >= Busy =>
              Dist(first, b) = Dist(send_head, b) - Busy
         /\ end \in Bd /\ Succ(end) = cur /\ first = free_head /\ txp \in Pbuf
         /\ first \in sop
         /\ \A b \in Bd : Dist(first, b) < Dist(first, cur) => pkt[b] = txp
         /\ Busy + Dist(first, cur) <= NumBd
         /\ Dist(send_head, end) = Busy + Dist(first, cur) - 1
         /\ Busy' = NumBd - free_num /\ Busy' = Busy + Dist(first, cur)
  <1> USE DEF IInv, RingInv
  <1>0. pc = "fill" /\ left = 0 /\ pc' \in {"idle", "chain"}
    BY DEF Close, Return
  <1> DEFINE n == Dist(first, cur)
  <1>1. n \in 1 .. MaxChain /\ MaxChain \in 1 .. NumBd - 1
    <2>1. first \in Bd /\ cur \in Bd /\ n + left \in 1 .. MaxChain
      BY <1>0 DEF FillInv, TypeOK
    <2>2. n \in 0 .. NumBd - 1
      BY <2>1, DistBasic
    <2> QED BY <1>0, <2>1, <2>2, ChainAssumption
  <1>2. cur # first
    <2>1. cur = first => n = 0
      BY <1>0, DistBasic DEF FillInv, TypeOK
    <2> QED BY <1>1, <2>1
  <1>3. /\ Busy \in 0 .. NumBd - 1 /\ Busy = NumBd - free_num - n
        /\ first \in Bd /\ cur \in Bd /\ send_head \in Bd
        /\ free_num \in 0 .. NumBd /\ NumBd \in Nat /\ NumBd >= 2
        /\ Dist(send_head, first) = Busy
        /\ \A b \in Bd : Dist(first, b) < NumBd - Busy =>
             Dist(send_head, b) = Busy + Dist(first, b)
        /\ \A b \in Bd : Dist(send_head, b) >= Busy =>
             Dist(first, b) = Dist(send_head, b) - Busy
    BY <1>0, <1>2, FillPosition
  <1>4. /\ end \in Bd /\ Succ(end) = cur /\ first = free_head /\ txp \in Pbuf
        /\ first \in sop
        /\ \A b \in Bd : Dist(first, b) < n => pkt[b] = txp
    BY <1>0, <1>2 DEF FillInv
  <1>5. Dist(first, end) = n - 1
    BY <1>1, <1>3, <1>4, DistBasic, DistSucc
  <1>6. Busy + n <= NumBd /\ Dist(send_head, end) = Busy + n - 1
    BY <1>1, <1>3, <1>4, <1>5
  <1>7. Busy' = NumBd - free_num /\ Busy' = Busy + n
    BY <1>0, <1>1, <1>3 DEF Close, Busy, Walking
  <1> QED BY <1>0, <1>1, <1>2, <1>3, <1>4, <1>6, <1>7

(* The frame is complete and joins the busy part of the ring. *)
LEMMA CloseStep ==
  ASSUME IInv, Close
  PROVE  IInv'
  <1> USE DEF IInv, RingInv
  <1> DEFINE n == Dist(first, cur)
  <1>1. /\ pc = "fill" /\ pc' \in {"idle", "chain"} /\ cur # first
        /\ n \in 1 .. MaxChain /\ MaxChain \in 1 .. NumBd - 1
        /\ Busy \in 0 .. NumBd - 1 /\ Busy = NumBd - free_num - n
        /\ first \in Bd /\ cur \in Bd /\ send_head \in Bd
        /\ free_num \in 0 .. NumBd /\ NumBd \in Nat /\ NumBd >= 2
        /\ Dist(send_head, first) = Busy
        /\ \A b \in Bd : Dist(first, b) < NumBd - Busy =>
             Dist(send_head, b) = Busy + Dist(first, b)
        /\ \A b \in Bd : Dist(send_head, b) >= Busy =>
             Dist(first, b) = Dist(send_head, b) - Busy
        /\ end \in Bd /\ Succ(end) = cur /\ first = free_head /\ txp \in Pbuf
        /\ first \in sop
        /\ \A b \in Bd : Dist(first, b) < n => pkt[b] = txp
        /\ Busy + n <= NumBd /\ Dist(send_head, end) = Busy + n - 1
        /\ Busy' = NumBd - free_num /\ Busy' = Busy + n
    BY ClosePosition
  <1>2. pkt[first] = txp
    BY <1>1, DistBasic
  <1>3. TypeOK'
    <2>1. /\ next' \in [Bd -> BdOrNull] /\ eop' \subseteq Bd /\ eoq' \subseteq Bd
          /\ free_head' \in Bd
      BY <1>1 DEF Close, TypeOK, BdOrNull
    <2>2. /\ send_tail' \in BdOrNull /\ pc' \in {"idle", "chain"}
          /\ first' \in BdOrNull /\ end' \in BdOrNull /\ cur' \in BdOrNull
          /\ left' \in 0 .. MaxChain /\ txp' \in Pbuf \cup {NoPbuf}
          /\ dma' \in [bd : BdOrNull, sop : BdOrNull, link : BdOrNull,
                       buf : Pbuf \cup {NoPbuf}]
      BY <1>1
         DEF Close, TypeOK, BdOrNull, Return, TxHdrDescPWr, DmaIdle, local
    <2> QED BY <2>1, <2>2 DEF Close, TypeOK, pbufs
  <1>4. LinksInv'
    <2>1. \A b \in Bd : next[b] = IF b = send_tail THEN NULL ELSE Succ(b)
      BY <1>1 DEF LinksInv, Chaining
    <2>2. send_tail # NULL => Succ(send_tail) = first
      BY <1>1 DEF LinksInv, Chaining
    <2>3. next' = [next EXCEPT ![end] = NULL] /\ next \in [Bd -> BdOrNull] /\ free_head' = cur
      BY DEF Close, TypeOK
    <2>4. CASE send_tail = NULL
      <3>1. send_tail' = end /\ pc' = "idle"
        BY <2>4 DEF Close, Return
      <3> QED BY <1>1, <2>1, <2>3, <2>4, <3>1 DEF LinksInv, Chaining, NULL, Bd
    <2>5. CASE send_tail # NULL
      <3>1. send_tail' = send_tail /\ pc' = "chain" /\ end' = end /\ first' = first
        BY <2>5 DEF Close, local
      <3> QED BY <1>1, <2>1, <2>2, <2>3, <2>5, <3>1 DEF LinksInv, Chaining
    <2> QED BY <2>4, <2>5
  <1>5. ChainInv'
    <2> SUFFICES ASSUME pc' = "chain"
                 PROVE  /\ first' \in Bd /\ end' \in Bd /\ send_tail' \in Bd
                        /\ Succ(end') = free_head' /\ send_tail' # end'
      BY <1>1 DEF ChainInv, Chaining
    <2>1. /\ send_tail # NULL /\ UNCHANGED <<first, end, send_tail>> /\ free_head' = cur
      BY DEF Close, Return, local
    <2>2. send_tail \in Bd
      BY <2>1 DEF TypeOK, BdOrNull
    <2>3. Succ(send_tail) = first
      BY <1>1, <2>1 DEF LinksInv, Chaining
    <2>4. send_tail # end
      <3>1. Succ(end) # first
        BY <1>1
      <3> QED BY <2>3, <3>1
    <2> QED BY <1>1, <2>1, <2>2, <2>4
  <1>6. FillInv' /\ WalkInv'
    BY <1>1 DEF FillInv, WalkInv, Walking
  <1>7. PositionInv'
    <2>1. Dist(first, cur) = IF Dist(send_head, cur) >= Dist(send_head, first)
                             THEN Dist(send_head, cur) - Dist(send_head, first)
                             ELSE Dist(send_head, cur) - Dist(send_head, first) + NumBd
      BY <1>1, DistShift
    <2>2. Dist(send_head, cur) \in 0 .. NumBd - 1
      BY <1>1, DistBasic
    <2>0. /\ Dist(first, cur) = n /\ n \in 1 .. NumBd - 1 /\ NumBd \in Nat
          /\ Dist(send_head, first) = Busy /\ Busy \in 0 .. NumBd - 1
          /\ Busy + n <= NumBd
      BY <1>1
    <2>3. Dist(send_head, cur) = IF Busy + n = NumBd THEN 0 ELSE Busy + n
      BY <2>0, <2>1, <2>2
    <2>4. free_head' = cur /\ send_head' = send_head
      BY DEF Close
    <2> QED BY <1>1, <2>3, <2>4 DEF PositionInv
  <1>8. FlagsInv'
    <2>1. /\ sop' = sop /\ eop' = eop \cup {end} /\ pkt' = pkt
          /\ send_head' = send_head
      BY DEF Close
    <2>0. \A b \in Bd : Dist(send_head, b) \in 0 .. NumBd - 1
      BY <1>1, DistBasic
    <2>2. send_head \in sop
      <3>1. CASE Busy > 0
        BY <3>1 DEF FlagsInv
      <3>2. CASE Busy = 0
        BY <1>1, <3>2, DistBasic
      <3> QED BY <1>1, <3>1, <3>2
    <2>3. ASSUME NEW b \in Bd, Dist(send_head, b) < Busy + n
          PROVE  pkt[b] \in Pbuf
      <3>1. CASE Dist(send_head, b) < Busy
        BY <3>1 DEF FlagsInv
      <3>2. CASE Dist(send_head, b) >= Busy
        BY <1>1, <2>0, <2>3, <3>2
      <3> QED BY <1>1, <2>0, <3>1, <3>2
    <2>4. ASSUME NEW b \in Bd, Dist(send_head, b) = Busy + n - 1
          PROVE  b = end
      BY <1>1, <2>4, DistBasic
    <2>5. ASSUME NEW b \in Bd, Dist(send_head, b) < Busy + n - 1
          PROVE  (b \in eop' <=> Succ(b) \in sop) /\ (b \in eop' \/ pkt[Succ(b)] = pkt[b])
      <3>0. b # end /\ Succ(b) \in Bd /\ Dist(send_head, Succ(b)) = Dist(send_head, b) + 1
        BY <1>1, <2>0, <2>5, DistSucc
      <3>1. CASE Dist(send_head, b) < Busy - 1
        BY <2>1, <3>0, <3>1 DEF FlagsInv
      <3>2. CASE Dist(send_head, b) = Busy - 1
        <4>1. b \in eop
          BY <3>2 DEF FlagsInv
        <4>2. Succ(b) = first
          BY <1>1, <2>0, <3>0, <3>2, DistBasic
        <4> QED BY <1>1, <2>1, <4>1, <4>2
      <3>3. CASE Dist(send_head, b) >= Busy
        <4>1. b \notin eop'
          BY <2>1, <3>0, <3>3 DEF FlagsInv
        <4>2. Dist(send_head, Succ(b)) >= Busy /\ Succ(b) # first
          BY <1>1, <2>0, <3>0, <3>3
        <4>3. Succ(b) \notin sop
          BY <3>0, <4>2 DEF FlagsInv
        <4>4. Dist(first, b) < n /\ Dist(first, Succ(b)) < n
          BY <1>1, <2>0, <2>5, <3>0, <3>3, <4>2
        <4> QED BY <1>1, <3>0, <4>1, <4>3, <4>4
      <3>4. Dist(send_head, b) \in 0 .. NumBd - 1 /\ NumBd \in Nat /\ Busy \in Nat
        BY <1>1, <2>0
      <3> QED BY <3>1, <3>2, <3>3, <3>4
    <2>6. ASSUME NEW b \in Bd, Dist(send_head, b) >= Busy + n
          PROVE  b \notin eop' /\ b \notin sop
      <3>1. Dist(send_head, b) >= Busy /\ b # end /\ b # first
        BY <1>1, <2>0, <2>6
      <3> QED BY <2>1, <3>1 DEF FlagsInv
    <2>7. Busy' - 1 = Busy + n - 1 /\ Busy' \in Nat
      BY <1>1
    <2>8. \A b \in Bd : Dist(send_head, b) = Busy' - 1 => b \in eop'
      BY <2>1, <2>4, <2>7
    <2>9. \A b \in Bd : Dist(send_head, b) < Busy' - 1 =>
            (b \in eop' <=> Succ(b) \in sop') /\ (b \in eop' \/ pkt'[Succ(b)] = pkt'[b])
      BY <2>1, <2>5, <2>7
    <2>10. \A b \in Bd : /\ Dist(send_head, b) < Busy' => pkt'[b] \in Pbuf
                         /\ Dist(send_head, b) >= Busy' => b \notin eop' /\ b \notin sop'
      BY <1>1, <2>1, <2>3, <2>6
    <2> HIDE DEF n
    <2> QED BY <2>1, <2>2, <2>8, <2>9, <2>10 DEF FlagsInv
  <1>9. RefInv'
    <2>1. \A x \in Pbuf : IsFiniteSet(Heads(x)) /\ Cardinality(Heads(x)) \in Nat
      BY HeadsFinite, FS_CardinalityType DEF TypeOK
    <2>2. /\ FramesWith(txp) = Heads(txp) \cup {first} /\ first \notin Heads(txp)
          /\ \A x \in Pbuf : x # txp => FramesWith(x) = Heads(x)
      BY <1>1, <1>2 DEF Heads, FramesWith
    <2>3. Cardinality(FramesWith(txp)) = Cardinality(Heads(txp)) + 1
      BY <1>1, <2>1, <2>2, FS_AddElement
    <2>4. /\ \A x : Heads(x)' = FramesWith(x) /\ Filling(x)' = 0 /\ Holds(x)' = Holds(x)
          /\ ref' = ref
      BY <1>1 DEF Close, Heads, FramesWith, Filling, Holds, pbufs
    <2>5. ASSUME NEW x \in Pbuf
          PROVE  ref[x] >= Cardinality(FramesWith(x)) + Holds(x)
      <3>0. /\ ref[x] >= Cardinality(Heads(x)) + Holds(x) + Filling(x)
            /\ Holds(x) \in {0, 1} /\ ref[x] \in Nat
        BY DEF RefInv, Holds, TypeOK
      <3>1. CASE x = txp
        BY <1>1, <2>1, <2>3, <3>0, <3>1 DEF Filling
      <3>2. CASE x # txp
        BY <2>1, <2>2, <3>0, <3>2 DEF Filling
      <3> QED BY <3>1, <3>2
    <2>6. \A x \in Pbuf : Cardinality(FramesWith(x)) \in Nat /\ Holds(x) \in {0, 1}
      BY HeadsFinite, FS_CardinalityType DEF TypeOK, Holds
    <2> QED BY <2>4, <2>5, <2>6 DEF RefInv
  <1> QED BY <1>3, <1>4, <1>5, <1>6, <1>7, <1>8, <1>9

(* The new frame is linked behind the old tail, and becomes the tail. *)
LEMMA ChainStep ==
  ASSUME IInv, Chain \/ Restart
  PROVE  IInv'
  <1> USE DEF IInv, RingInv
  <1>0. /\ Chaining /\ pc \in {"chain", "restart"} /\ pc' \in {"restart", "idle"}
        /\ UNCHANGED <<sop, eop, pkt, free_head, free_num, send_head, pbufs>>
    BY DEF Chain, Restart, EngineStopped, Chaining, Return, mem, txch
  <1>1. /\ first \in Bd /\ end \in Bd /\ send_tail \in Bd
        /\ Succ(end) = free_head /\ send_tail # end /\ Succ(send_tail) = first
    BY <1>0 DEF ChainInv, LinksInv, NULL, Bd
  <1>2. TypeOK'
    <2>1. CASE Chain
      BY <1>1, <2>1 DEF Chain, TypeOK, BdOrNull, txch, local, hw, pbufs
    <2>2. CASE Restart
      BY <1>1, <2>2, ChainAssumption
         DEF Restart, EngineStopped, Return, TxHdrDescPWr, DmaIdle, TypeOK, BdOrNull, mem, pbufs
    <2> QED BY <2>1, <2>2
  <1>3. LinksInv' /\ ChainInv'
    <2>1. CASE Chain
      BY <1>1, <2>1 DEF Chain, LinksInv, ChainInv, Chaining, TypeOK, txch, local
    <2>2. CASE Restart
      BY <1>1, <2>2 DEF Restart, EngineStopped, Return, LinksInv, ChainInv, Chaining, mem
    <2> QED BY <2>1, <2>2
  <1>4. Busy' = Busy
    BY <1>0 DEF Busy, Walking
  <1>5. FillInv' /\ WalkInv' /\ PositionInv' /\ FlagsInv'
    BY <1>0, <1>4 DEF FillInv, WalkInv, PositionInv, FlagsInv, Walking
  <1>6. RefInv'
    BY <1>0 DEF RefInv, Heads, FramesWith, Holds, Filling, pbufs
  <1> QED BY <1>2, <1>3, <1>5, <1>6
-----------------------------------------------------------------------------
(* The theorems *)

LEMMA NextIInv == IInv /\ [Next]_vars => IInv'
  <1> SUFFICES ASSUME IInv, [Next]_vars PROVE IInv'
    OBVIOUS
  <1>0. 1 \in 1 .. MaxChain
    BY ChainAssumption, NumBdAssumption
  <1>1. CASE Lwip
    BY <1>0, <1>1, LwipStep, OutputBeginStep DEF Lwip
  <1>2. CASE Transmit
    BY <1>2, FillStep, CloseStep, ChainStep DEF Transmit
  <1>3. CASE IsrEnter \/ Isr
    BY <1>3, IsrEnterStep, IsrFrameStep, IsrWalkStep, IsrReclaimStep DEF Isr
  <1>4. CASE Engine
    BY <1>4, EngineStep
  <1>5. CASE UNCHANGED vars
    <2>1. UNCHANGED ring /\ UNCHANGED pbufs /\ UNCHANGED mem /\ UNCHANGED hw
      BY <1>5 DEF vars, ring, mem
    <2>2. RingInv' /\ \A p : Heads(p)' = Heads(p) /\ Filling(p)' = Filling(p)
      BY <2>1, RingUnchanged DEF IInv
    <2>3. RefInv'
      BY <2>1, <2>2 DEF IInv, RefInv, Holds, pbufs
    <2>4. TypeOK'
      BY <2>1 DEF IInv, TypeOK, ring, mem, hw, pbufs, txch, local
    <2> QED BY <2>2, <2>3, <2>4 DEF IInv
  <1> QED BY <1>1, <1>2, <1>3, <1>4, <1>5 DEF Next

LEMMA IInvHolds == Spec => []IInv
  BY InitIInv, NextIInv, PTL DEF Spec

(* Ring pointers stay descriptors, free_num stays within 0 .. NumBd and no *)
(* reference count goes below zero, whatever cpswif_transmit, eth0_tx_isr  *)
(* and the engine do in whatever order.                                    *)
THEOREM TypeCorrect == Spec => []TypeOK
  <1>1. IInv => TypeOK
    BY DEF IInv
  <1> QED BY <1>1, IInvHolds, PTL

(* eth0_tx_isr never frees the pbuf of a frame that still waits: there is  *)
(* a reference for each frame in the ring and one for lwIP's hold.         *)
THEOREM ReferencesCoverFrames == Spec => []RefPerFrame
  <1>1. IInv => RefPerFrame
    <2> SUFFICES ASSUME IInv, pc # "fill", NEW p \in Pbuf
                 PROVE  ref[p] >= Cardinality(FramesWith(p))
                                  + (IF p \in held THEN 1 ELSE 0)
      BY DEF RefPerFrame
    <2>1. /\ Heads(p) = FramesWith(p) /\ Filling(p) = 0
          /\ Cardinality(FramesWith(p)) \in Nat
      BY HeadsFinite, FS_CardinalityType DEF Heads, Filling, IInv, TypeOK
    <2> QED BY <2>1 DEF IInv, RefInv, Holds
  <1> QED BY <1>1, IInvHolds, PTL
-----------------------------------------------------------------------------
(* The queue on the ring                                                   *)
(*                                                                         *)
(* The queue of accepted frames is laid out on the ring without gap or     *)
(* overlap, and each frame is delimited by its own flags.  The inductive   *)
(* invariant QueueInv relates the frames of the queue to positions counted *)
(* from send_head; it rests on IInv.                                       *)

Frame == [sop : Bd, eop : Bd, pbuf : Pbuf]

Pos(b) == Dist(send_head, b)

Newest == queue[Len(queue)]

InFrame(f, b) == Pos(f.sop) <= Pos(b) /\ Pos(b) <= Pos(f.eop)

(* The frames follow one another from send_head to the last busy           *)
(* descriptor.                                                             *)
OrderInv ==
  /\ Len(queue) = 0 <=> Busy = 0
  /\ Len(queue) > 0 => queue[1].sop = send_head /\ Pos(Newest.eop) = Busy - 1
  /\ \A i \in 1 .. Len(queue) : Pos(queue[i].sop) <= Pos(queue[i].eop)
  /\ \A i, j \in 1 .. Len(queue) : i < j => Pos(queue[i].eop) < Pos(queue[j].sop)
  /\ \A i \in 1 .. Len(queue) - 1 : Pos(queue[i + 1].sop) = Pos(queue[i].eop) + 1

(* The flags and the pbuf of the descriptors of a frame. *)
FramesInv ==
  \A i \in 1 .. Len(queue) : \A b \in Bd :
    InFrame(queue[i], b) =>
      /\ pkt[b] = queue[i].pbuf
      /\ b \in sop <=> b = queue[i].sop
      /\ b \in eop <=> b = queue[i].eop

(* No busy descriptor is outside every frame. *)
CoverInv ==
  \A b \in Bd : Pos(b) < Busy => \E i \in 1 .. Len(queue) : InFrame(queue[i], b)

(* The frame cpswif_transmit is chaining is the newest one. *)
NewestInv ==
  Chaining => Len(queue) > 0 /\ Newest.sop = first /\ Newest.eop = end

QueueInv == /\ queue \in Seq(Frame)
            /\ OrderInv /\ FramesInv /\ CoverInv /\ NewestInv
-----------------------------------------------------------------------------
(* Steps that leave the queue alone *)

(* The first frame cannot be missed: positions are naturals below NumBd.   *)
LEMMA PosRange ==
  ASSUME TypeOK, NEW b \in Bd
  PROVE  /\ NumBd \in Nat /\ NumBd >= 2 /\ send_head \in Bd
         /\ Pos(b) \in 0 .. NumBd - 1
         /\ Pos(b) = 0 <=> b = send_head
         /\ \A c \in Bd : Pos(b) = Pos(c) => b = c
  BY DistBasic, NumBdAssumption DEF TypeOK, Pos

(* The frames of the queue are frames, and lie in the busy part.           *)
LEMMA FramePosition ==
  ASSUME IInv, QueueInv, NEW i \in 1 .. Len(queue)
  PROVE  /\ Len(queue) \in Nat /\ queue[i] \in Frame
         /\ queue[i].sop \in Bd /\ queue[i].eop \in Bd /\ queue[i].pbuf \in Pbuf
         /\ InFrame(queue[i], queue[i].sop) /\ InFrame(queue[i], queue[i].eop)
         /\ Busy \in 1 .. NumBd
         /\ Pos(queue[i].sop) \in 0 .. Busy - 1
         /\ Pos(queue[i].eop) \in 0 .. Busy - 1
  <1> USE DEF QueueInv
  <1>1. Len(queue) \in Nat /\ Len(queue) \in 1 .. Len(queue)
    BY LenProperties
  <1>2. queue[i] \in Frame /\ Newest \in Frame
    BY <1>1, ElementOfSeq DEF Newest
  <1>3. /\ queue[i].sop \in Bd /\ queue[i].eop \in Bd /\ queue[i].pbuf \in Pbuf
        /\ Newest.eop \in Bd /\ Newest.sop \in Bd
    BY <1>2 DEF Frame
  <1>4. /\ Pos(queue[i].sop) \in 0 .. NumBd - 1 /\ Pos(queue[i].eop) \in 0 .. NumBd - 1
        /\ Pos(Newest.sop) \in 0 .. NumBd - 1 /\ Pos(Newest.eop) \in 0 .. NumBd - 1
    BY <1>3, PosRange DEF IInv
  <1>5. Pos(queue[i].sop) <= Pos(queue[i].eop) /\ Pos(Newest.sop) <= Pos(Newest.eop)
    BY <1>1 DEF OrderInv, Newest
  <1>6. Busy \in 0 .. NumBd /\ Busy # 0 /\ Pos(Newest.eop) = Busy - 1 /\ NumBd \in Nat
    BY <1>1, NumBdAssumption DEF OrderInv, IInv, RingInv, PositionInv
  <1>7. Pos(queue[i].eop) <= Busy - 1
    <2>1. CASE i = Len(queue)
      BY <1>4, <1>6, <2>1 DEF Newest
    <2>2. CASE i # Len(queue)
      <3>1. Pos(queue[i].eop) < Pos(Newest.sop)
        BY <1>1, <2>2 DEF OrderInv, Newest
      <3> QED BY <1>4, <1>5, <1>6, <3>1
    <2> QED BY <2>1, <2>2
  <1> QED BY <1>1, <1>2, <1>3, <1>4, <1>5, <1>6, <1>7 DEF InFrame

(* A step that touches neither the queue nor a busy descriptor. *)
LEMMA QueueUnchanged ==
  ASSUME IInv, QueueInv, queue' = queue, send_head' = send_head, Busy' = Busy,
         \A b \in Bd : Pos(b) < Busy => /\ pkt'[b] = pkt[b]
                                        /\ b \in sop' <=> b \in sop
                                        /\ b \in eop' <=> b \in eop,
         Chaining' => Chaining /\ first' = first /\ end' = end
  PROVE  QueueInv'
  <1>1. OrderInv'
    BY DEF OrderInv, QueueInv, Pos, Newest
  <1>2. CoverInv'
    BY DEF CoverInv, QueueInv, Pos, InFrame
  <1>3. NewestInv'
    BY DEF NewestInv, QueueInv, Newest
  <1>4. FramesInv'
    <2> SUFFICES ASSUME NEW i \in 1 .. Len(queue), NEW b \in Bd, InFrame(queue[i], b)
                 PROVE  /\ pkt'[b] = queue[i].pbuf
                        /\ b \in sop' <=> b = queue[i].sop
                        /\ b \in eop' <=> b = queue[i].eop
      BY DEF FramesInv, InFrame, Pos
    <2>1. Pos(queue[i].eop) \in 0 .. Busy - 1 /\ Busy \in 1 .. NumBd
      BY FramePosition
    <2>2. Pos(b) \in 0 .. NumBd - 1 /\ NumBd \in Nat
      BY PosRange DEF IInv
    <2>3. Pos(b) < Busy
      BY <2>1, <2>2 DEF InFrame
    <2> QED BY <2>3 DEF QueueInv, FramesInv
  <1> QED BY <1>1, <1>2, <1>3, <1>4 DEF QueueInv

LEMMA QueueStable ==
  ASSUME IInv, QueueInv, NEW p, NEW c \in 1 .. MaxChain,
         \/ PbufAlloc(p) \/ PbufRelease(p) \/ OutputErrMem(p, c) \/ OutputBegin(p, c)
         \/ Fill \/ Chain \/ Restart
         \/ IsrEnter \/ IsrFrame \/ IsrWalk \/ IsrExit
         \/ Engine \/ UNCHANGED vars
  PROVE  QueueInv'
  <1>0. TypeOK /\ RingInv
    BY DEF IInv
  <1>1. CASE \/ PbufAlloc(p) \/ PbufRelease(p) \/ OutputErrMem(p, c)
             \/ Chain \/ Restart \/ IsrEnter \/ IsrExit \/ Engine \/ UNCHANGED vars
    <2>1. /\ UNCHANGED <<queue, send_head, free_num, sop, eop, pkt>>
          /\ Chaining' => Chaining /\ first' = first /\ end' = end
      BY <1>1 DEF PbufAlloc, PbufRelease, OutputErrMem, PbufRef, Chain, Restart,
                  EngineStopped, Return, IsrEnter, IsrExit, Engine, DmaStart, DmaFollow,
                  DmaDone, vars, mem, txch, local, Chaining
    <2>2. Busy' = Busy
      <3>1. CASE pc' = pc /\ UNCHANGED <<cur, first>>
        BY <2>1, <3>1 DEF Busy, Walking
      <3>2. CASE pc \notin {"fill", "walk", "reclaim"} /\ pc' \notin {"fill", "walk", "reclaim"}
        BY <2>1, <3>2 DEF Busy, Walking
      <3> QED BY <1>1, <3>1, <3>2
              DEF PbufAlloc, PbufRelease, OutputErrMem, PbufRef, Chain, Restart,
                  EngineStopped, Return, IsrEnter, IsrExit, Engine, DmaStart, DmaFollow,
                  DmaDone, vars, local
    <2> QED BY <2>1, <2>2, QueueUnchanged
  <1>2. CASE OutputBegin(p, c)
    <2>1. /\ UNCHANGED <<queue, send_head, pkt>> /\ ~Chaining'
          /\ sop' = sop \cup {free_head} /\ eop' = eop \ {free_head}
      BY <1>2 DEF OutputBegin, PbufRef, Chaining, txch
    <2>2. /\ free_num \in Nat /\ free_num > 0 /\ NumBd \in Nat /\ free_head \in Bd
          /\ Dist(free_head, free_head) = 0
      BY <1>0, <1>2, NumBdAssumption, DistBasic DEF OutputBegin, Fits, TypeOK
    <2>3. Busy' = Busy /\ Busy = NumBd - free_num
      BY <1>2, <2>2 DEF OutputBegin, PbufRef, Busy, Walking, txch
    <2>4. Pos(free_head) = Busy
      BY <1>0, <2>2, <2>3 DEF RingInv, PositionInv, Pos
    <2>5. \A b \in Bd : Pos(b) < Busy => b # free_head
      BY <2>2, <2>3, <2>4
    <2> QED BY <2>1, <2>3, <2>5, QueueUnchanged
  <1>3. CASE Fill
    <2>1. /\ UNCHANGED <<queue, send_head, sop, eop>> /\ ~Chaining'
          /\ pkt' = [pkt EXCEPT ![cur] = txp]
      BY <1>3 DEF Fill, Chaining
    <2>2. Busy' = Busy /\ Busy \in Nat /\ Pos(cur) >= Busy /\ cur \in Bd
      BY <1>3, FillNext DEF Pos
    <2>3. \A b \in Bd : Pos(b) < Busy => b # cur
      BY <1>0, <2>2, PosRange
    <2>4. \A b \in Bd : Pos(b) < Busy => pkt'[b] = pkt[b]
      BY <1>0, <2>1, <2>3 DEF TypeOK
    <2> QED BY <2>1, <2>2, <2>4, QueueUnchanged
  <1>4. CASE IsrFrame
    <2>1. Dist(send_head, send_head) = 0 /\ free_num \in Nat /\ NumBd \in Nat
      BY <1>0, DistBasic, NumBdAssumption DEF TypeOK
    <2>2. Busy' = Busy
      BY <1>4, <2>1 DEF IsrFrame, Busy, Walking
    <2> QED BY <1>4, <2>2, QueueUnchanged DEF IsrFrame, Chaining, mem
  <1>5. CASE IsrWalk
    <2>1. Busy' = Busy
      BY <1>5, WalkPosition
    <2> QED BY <1>5, <2>1, QueueUnchanged DEF IsrWalk, Chaining, mem
  <1> QED BY <1>1, <1>2, <1>3, <1>4, <1>5
-----------------------------------------------------------------------------
(* The frame cpswif_transmit has closed is appended: it begins behind the  *)
(* newest frame and its flags delimit it.                                  *)
LEMMA QueueClose ==
  ASSUME IInv, QueueInv, Close
  PROVE  QueueInv'
  <1> DEFINE n == Dist(first, cur)
             f == [sop |-> first, eop |-> end, pbuf |-> txp]
  <1>0. TypeOK /\ RingInv
    BY DEF IInv
  <1>1. /\ pc = "fill" /\ n \in 1 .. NumBd
        /\ Busy \in 0 .. NumBd - 1 /\ NumBd \in Nat /\ Busy + n <= NumBd
        /\ first \in Bd /\ end \in Bd /\ txp \in Pbuf /\ first \in sop
        /\ Pos(first) = Busy /\ Pos(end) = Busy + n - 1 /\ Busy' = Busy + n
        /\ \A b \in Bd : Dist(first, b) < n => pkt[b] = txp
        /\ \A b \in Bd : Pos(b) >= Busy => Dist(first, b) = Pos(b) - Busy
    BY ClosePosition DEF Pos
  <1>2. /\ f \in Frame /\ queue' = Append(queue, f) /\ queue \in Seq(Frame)
        /\ UNCHANGED <<send_head, sop, pkt>> /\ eop' = eop \cup {end}
        /\ Chaining' => first' = first /\ end' = end
    BY <1>1 DEF Close, Return, Frame, local, Chaining, QueueInv
  <1> DEFINE L == Len(queue)
  <1>3. /\ L \in Nat /\ queue' \in Seq(Frame) /\ Len(queue') = L + 1
        /\ \A i \in 1 .. L : queue'[i] = queue[i]
        /\ queue'[L + 1] = f
    BY <1>2, AppendProperties, LenProperties
  <1>4. f.sop = first /\ f.eop = end /\ f.pbuf = txp /\ Newest' = f
    BY <1>3 DEF Newest
  <1>5. \A b : Pos(b)' = Dist(send_head, b')
    BY <1>2 DEF Pos
  <1>6. \A i \in 1 .. L : /\ Pos(queue[i].sop) \in 0 .. Busy - 1
                          /\ Pos(queue[i].eop) \in 0 .. Busy - 1
                          /\ queue[i].sop \in Bd /\ queue[i].eop \in Bd
    BY FramePosition
  <1>7. \A b \in Bd : Pos(b) \in 0 .. NumBd - 1
    BY <1>0, PosRange
  <1> HIDE DEF f, n, L
  <1>8. OrderInv'
    <2>1. Len(queue') # 0 /\ Busy' # 0
      BY <1>1, <1>3
    <2>2. queue'[1].sop = send_head
      <3>1. CASE L = 0
        <4>1. Busy = 0
          BY <3>1 DEF OrderInv, QueueInv, L
        <4> QED BY <1>0, <1>1, <1>3, <1>4, <3>1, <4>1, PosRange
      <3>2. CASE L > 0
        BY <1>3, <3>2 DEF OrderInv, QueueInv, L
      <3> QED BY <1>3, <3>1, <3>2
    <2>3. Dist(send_head, Newest'.eop) = Busy' - 1
      BY <1>1, <1>4 DEF Pos
    <2>4. \A i \in 1 .. L + 1 :
            Dist(send_head, queue'[i].sop) <= Dist(send_head, queue'[i].eop)
      <3> TAKE i \in 1 .. L + 1
      <3>1. CASE i = L + 1
        BY <1>1, <1>3, <1>4, <3>1 DEF Pos
      <3>2. CASE i \in 1 .. L
        BY <1>3, <3>2 DEF OrderInv, QueueInv, Pos, L
      <3> QED BY <1>3, <3>1, <3>2
    <2>5. \A i, j \in 1 .. L + 1 :
            i < j => Dist(send_head, queue'[i].eop) < Dist(send_head, queue'[j].sop)
      <3> SUFFICES ASSUME NEW i \in 1 .. L + 1, NEW j \in 1 .. L + 1, i < j
                   PROVE  Dist(send_head, queue'[i].eop) < Dist(send_head, queue'[j].sop)
        OBVIOUS
      <3>0. i \in 1 .. L
        BY <1>3
      <3>1. CASE j = L + 1
        BY <1>1, <1>3, <1>4, <1>6, <3>0, <3>1 DEF Pos
      <3>2. CASE j \in 1 .. L
        BY <1>3, <3>0, <3>2 DEF OrderInv, QueueInv, Pos, L
      <3> QED BY <1>3, <3>1, <3>2
    <2>6. \A i \in 1 .. L :
            Dist(send_head, queue'[i + 1].sop) = Dist(send_head, queue'[i].eop) + 1
      <3> TAKE i \in 1 .. L
      <3>1. CASE i = L
        <4>1. Pos(queue[i].eop) = Busy - 1
          BY <1>3, <3>1 DEF OrderInv, QueueInv, Newest, L
        <4> QED BY <1>1, <1>3, <1>4, <3>1, <4>1 DEF Pos
      <3>2. CASE i # L
        <4>1. i \in 1 .. L - 1 /\ i + 1 \in 1 .. L
          BY <1>3, <3>2
        <4> QED BY <1>3, <4>1 DEF OrderInv, QueueInv, Pos, L
      <3> QED BY <3>1, <3>2
    <2>7. Len(queue') - 1 = L
      BY <1>3
    <2> QED BY <1>2, <1>3, <2>1, <2>2, <2>3, <2>4, <2>5, <2>6, <2>7 DEF OrderInv, Pos
  <1>9. FramesInv'
    <2> SUFFICES ASSUME NEW i \in 1 .. L + 1, NEW b \in Bd,
                        Dist(send_head, queue'[i].sop) <= Pos(b),
                        Pos(b) <= Dist(send_head, queue'[i].eop)
                 PROVE  /\ pkt[b] = queue'[i].pbuf
                        /\ b \in sop <=> b = queue'[i].sop
                        /\ b \in eop' <=> b = queue'[i].eop
      BY <1>2, <1>3 DEF FramesInv, InFrame, Pos
    <2>1. CASE i = L + 1
      <3>1. Pos(b) >= Busy /\ Pos(b) <= Busy + n - 1
        BY <1>1, <1>3, <1>4, <2>1 DEF Pos
      <3>2. Dist(first, b) < n
        BY <1>1, <1>7, <3>1
      <3>3. pkt[b] = txp /\ b \notin eop /\ (b \notin sop \/ b = first)
        BY <1>0, <1>1, <3>1, <3>2 DEF RingInv, FlagsInv, Pos
      <3> QED BY <1>1, <1>2, <1>3, <1>4, <2>1, <3>3
    <2>2. CASE i \in 1 .. L
      <3>1. InFrame(queue[i], b)
        BY <1>3, <2>2 DEF InFrame, Pos
      <3>2. Pos(b) < Busy
        BY <1>1, <1>6, <1>7, <2>2, <3>1 DEF InFrame
      <3>3. b # end
        BY <1>1, <1>7, <3>2
      <3> QED BY <1>2, <1>3, <2>2, <3>1, <3>3 DEF QueueInv, FramesInv, L
    <2> QED BY <1>3, <2>1, <2>2
  <1>10. CoverInv'
    <2> SUFFICES ASSUME NEW b \in Bd, Pos(b) < Busy + n
                 PROVE  \E i \in 1 .. L + 1 :
                          /\ Dist(send_head, queue'[i].sop) <= Pos(b)
                          /\ Pos(b) <= Dist(send_head, queue'[i].eop)
      BY <1>1, <1>2, <1>3 DEF CoverInv, InFrame, Pos
    <2>1. CASE Pos(b) < Busy
      <3>1. PICK i \in 1 .. L : InFrame(queue[i], b)
        BY <2>1 DEF QueueInv, CoverInv, L
      <3> QED BY <1>3, <3>1 DEF InFrame, Pos
    <2>2. CASE Pos(b) >= Busy
      <3>1. Pos(first) <= Pos(b) /\ Pos(b) <= Pos(end)
        BY <1>1, <1>7, <2>2
      <3> QED BY <1>3, <1>4, <3>1 DEF Pos
    <2> QED BY <1>1, <1>7, <2>1, <2>2
  <1>11. NewestInv'
    BY <1>2, <1>3, <1>4 DEF NewestInv
  <1> QED BY <1>3, <1>8, <1>9, <1>10, <1>11 DEF QueueInv

(* eth0_tx_isr has walked to the end of the oldest frame, no further.      *)
LEMMA ReclaimsOldest ==
  ASSUME IInv, QueueInv, IsrReclaim
  PROVE  /\ Len(queue) \in Nat /\ Len(queue) > 0
         /\ queue[1].sop = send_head /\ queue[1].eop = cur
         /\ queue[1].pbuf = pkt[cur]
  <1>0. TypeOK /\ RingInv
    BY DEF IInv
  <1>1. /\ send_head \in Bd /\ cur \in Bd /\ cur \in eop /\ Walking
        /\ Busy \in 0 .. NumBd /\ Pos(cur) \in 0 .. NumBd - 1 /\ Pos(cur) < Busy
    BY ReclaimPosition DEF Pos, IsrReclaim, Walking
  <1>2. Len(queue) \in Nat /\ Len(queue) > 0
    <2>1. Len(queue) \in Nat
      BY LenProperties DEF QueueInv
    <2> QED BY <1>1, <2>1 DEF QueueInv, OrderInv
  <1>3. 1 \in 1 .. Len(queue) /\ queue[1].sop = send_head
    BY <1>2 DEF QueueInv, OrderInv
  <1>4. /\ queue[1].eop \in Bd /\ queue[1].eop \in eop
        /\ Pos(queue[1].eop) \in 0 .. Busy - 1
    BY <1>3, FramePosition DEF QueueInv, FramesInv
  <1>5. Pos(send_head) = 0
    BY <1>0, <1>1, PosRange
  <1>6. ~(Pos(queue[1].eop) < Pos(cur))
    BY <1>0, <1>1, <1>4 DEF RingInv, WalkInv, Pos
  <1>7. InFrame(queue[1], cur)
    BY <1>1, <1>3, <1>4, <1>5, <1>6 DEF InFrame
  <1>8. queue[1].eop = cur /\ queue[1].pbuf = pkt[cur]
    BY <1>1, <1>3, <1>7 DEF QueueInv, FramesInv
  <1> QED BY <1>2, <1>3, <1>8

(* The oldest frame is dropped: the others keep their place on the ring.   *)
LEMMA QueueReclaim ==
  ASSUME IInv, QueueInv, IsrReclaim
  PROVE  QueueInv'
  <1> DEFINE d == Pos(cur)
             L == Len(queue)
  <1>0. TypeOK /\ RingInv
    BY DEF IInv
  <1>1. /\ send_head \in Bd /\ NumBd \in Nat /\ cur \in Bd /\ Busy \in 0 .. NumBd
        /\ d \in 0 .. NumBd - 1 /\ d < Busy /\ Busy' = Busy - d - 1
        /\ \A b \in Bd : /\ Pos(b) \in 0 .. NumBd - 1
                         /\ Dist(send_head', b) = IF Pos(b) > d THEN Pos(b) - d - 1
                                                   ELSE Pos(b) - d - 1 + NumBd
    <2>1. /\ Busy = NumBd - free_num + Dist(send_head, cur) + 1
          /\ Busy' = NumBd - free_num /\ free_num \in 0 .. NumBd
      BY ReclaimPosition
    <2> QED BY <2>1, ReclaimPosition DEF Pos
  <1>2. L \in Nat /\ L > 0 /\ queue[1].sop = send_head /\ queue[1].eop = cur
    BY ReclaimsOldest
  <1>3. /\ queue' = Tail(queue) /\ queue \in Seq(Frame) /\ pkt' = pkt
        /\ sop' = sop \ {send_head} /\ eop' = eop \ {cur} /\ ~Chaining'
    BY DEF IsrReclaim, ClearFlags, TxCPWr, QueueInv, Chaining
  <1>4. /\ queue' \in Seq(Frame) /\ Len(queue') = L - 1
        /\ \A i \in 1 .. L - 1 : queue'[i] = queue[i + 1]
    BY <1>2, <1>3, HeadTailProperties
  <1>5. \A i \in 1 .. L : /\ queue[i].sop \in Bd /\ queue[i].eop \in Bd
                          /\ Pos(queue[i].sop) \in 0 .. Busy - 1
                          /\ Pos(queue[i].eop) \in 0 .. Busy - 1
                          /\ Pos(queue[i].sop) <= Pos(queue[i].eop)
    BY FramePosition DEF QueueInv, OrderInv
  <1>6. \A i \in 1 .. L - 1 : i + 1 \in 1 .. L /\ Pos(queue[i + 1].sop) > d
    BY <1>2 DEF QueueInv, OrderInv
  <1>7. \A i \in 1 .. L - 1 :
          /\ queue'[i].sop \in Bd /\ queue'[i].eop \in Bd
          /\ Dist(send_head', queue'[i].sop) = Pos(queue[i + 1].sop) - d - 1
          /\ Dist(send_head', queue'[i].eop) = Pos(queue[i + 1].eop) - d - 1
    <2> SUFFICES ASSUME NEW i \in 1 .. L - 1
                 PROVE  /\ queue[i + 1].sop \in Bd /\ queue[i + 1].eop \in Bd
                        /\ Dist(send_head', queue[i + 1].sop) = Pos(queue[i + 1].sop) - d - 1
                        /\ Dist(send_head', queue[i + 1].eop) = Pos(queue[i + 1].eop) - d - 1
      BY <1>4
    <2>1. i + 1 \in 1 .. L /\ Pos(queue[i + 1].sop) > d
      BY <1>6
    <2>2. Pos(queue[i + 1].eop) > d
      BY <1>1, <1>5, <2>1
    <2> QED BY <1>1, <1>5, <2>1, <2>2
  <1>8. \A b \in Bd : Dist(send_head', b) < Busy' =>
          Pos(b) > d /\ Pos(b) < Busy /\ Dist(send_head', b) = Pos(b) - d - 1
    <2> SUFFICES ASSUME NEW b \in Bd, Dist(send_head', b) < Busy'
                 PROVE  Pos(b) > d /\ Pos(b) < Busy /\ Dist(send_head', b) = Pos(b) - d - 1
      OBVIOUS
    <2> QED BY <1>1
  <1> HIDE DEF d, L
  <1>9. OrderInv'
    <2>1. L - 1 = 0 <=> Busy' = 0
      <3>1. CASE L = 1
        <4>1. d = Busy - 1
          BY <1>2, <3>1 DEF QueueInv, OrderInv, Newest, L, d
        <4> QED BY <1>1, <3>1, <4>1
      <3>2. CASE L # 1
        <4>1. 1 \in 1 .. L - 1
          BY <1>2, <3>2
        <4>2. Pos(queue[2].sop) > d /\ Pos(queue[2].sop) \in 0 .. Busy - 1
          BY <1>5, <1>6, <4>1
        <4> QED BY <1>1, <1>2, <3>2, <4>2
      <3> QED BY <3>1, <3>2
    <2>2. L - 1 > 0 => /\ queue'[1].sop = send_head'
                       /\ Dist(send_head', Newest'.eop) = Busy' - 1
      <3> SUFFICES ASSUME L - 1 > 0
                   PROVE  /\ queue'[1].sop = send_head'
                          /\ Dist(send_head', Newest'.eop) = Busy' - 1
        OBVIOUS
      <3>1. 1 \in 1 .. L - 1 /\ L - 1 \in 1 .. L - 1 /\ L - 1 + 1 = L
        BY <1>2
      <3>2. Pos(queue[2].sop) = d + 1
        BY <1>2, <3>1 DEF QueueInv, OrderInv, L, d
      <3>3. Dist(send_head', queue'[1].sop) = 0 /\ queue'[1].sop \in Bd
        BY <1>1, <1>7, <3>1, <3>2
      <3>4. send_head' \in Bd
        BY ReclaimPosition
      <3>5. queue'[1].sop = send_head'
        BY <3>3, <3>4, DistBasic
      <3>6. Newest' = queue'[L - 1] /\ Pos(queue[L].eop) = Busy - 1
        BY <1>2, <1>4 DEF QueueInv, OrderInv, Newest, L
      <3>7. Dist(send_head', Newest'.eop) = Pos(queue[L].eop) - d - 1
        BY <1>7, <3>1, <3>6
      <3> QED BY <1>1, <3>5, <3>6, <3>7
    <2>3. \A i \in 1 .. L - 1 :
            Dist(send_head', queue'[i].sop) <= Dist(send_head', queue'[i].eop)
      <3> TAKE i \in 1 .. L - 1
      <3>1. i + 1 \in 1 .. L
        BY <1>6
      <3> QED BY <1>1, <1>5, <1>7, <3>1
    <2>4. \A i, j \in 1 .. L - 1 :
            i < j => Dist(send_head', queue'[i].eop) < Dist(send_head', queue'[j].sop)
      <3> SUFFICES ASSUME NEW i \in 1 .. L - 1, NEW j \in 1 .. L - 1, i < j
                   PROVE  Dist(send_head', queue'[i].eop) < Dist(send_head', queue'[j].sop)
        OBVIOUS
      <3>1. i + 1 \in 1 .. L /\ j + 1 \in 1 .. L /\ i + 1 < j + 1
        BY <1>6
      <3>2. Pos(queue[i + 1].eop) < Pos(queue[j + 1].sop)
        BY <3>1 DEF QueueInv, OrderInv, L
      <3> QED BY <1>1, <1>5, <1>7, <3>1, <3>2
    <2>5. \A i \in 1 .. L - 1 - 1 :
            Dist(send_head', queue'[i + 1].sop) = Dist(send_head', queue'[i].eop) + 1
      <3> TAKE i \in 1 .. L - 1 - 1
      <3>1. i \in 1 .. L - 1 /\ i + 1 \in 1 .. L - 1 /\ i + 1 \in 1 .. L
        BY <1>2
      <3>2. Pos(queue[i + 1 + 1].sop) = Pos(queue[i + 1].eop) + 1
        BY <3>1 DEF QueueInv, OrderInv, L
      <3>3. /\ Dist(send_head', queue'[i + 1].sop) = Pos(queue[i + 1 + 1].sop) - d - 1
            /\ Dist(send_head', queue'[i].eop) = Pos(queue[i + 1].eop) - d - 1
            /\ Pos(queue[i + 1].eop) \in Int
        BY <1>5, <1>7, <3>1
      <3> QED BY <1>1, <3>2, <3>3
    <2> QED BY <1>2, <1>4, <2>1, <2>2, <2>3, <2>4, <2>5 DEF OrderInv, Pos
  <1>10. FramesInv'
    <2> SUFFICES ASSUME NEW i \in 1 .. L - 1, NEW b \in Bd,
                        Dist(send_head', queue'[i].sop) <= Dist(send_head', b),
                        Dist(send_head', b) <= Dist(send_head', queue'[i].eop)
                 PROVE  /\ pkt[b] = queue'[i].pbuf
                        /\ b \in sop' <=> b = queue'[i].sop
                        /\ b \in eop' <=> b = queue'[i].eop
      BY <1>3, <1>4 DEF FramesInv, InFrame, Pos
    <2>1. /\ i + 1 \in 1 .. L /\ Pos(queue[i + 1].sop) > d
          /\ Dist(send_head', queue'[i].sop) = Pos(queue[i + 1].sop) - d - 1
          /\ Dist(send_head', queue'[i].eop) = Pos(queue[i + 1].eop) - d - 1
          /\ Pos(queue[i + 1].sop) \in 0 .. Busy - 1
          /\ Pos(queue[i + 1].eop) \in 0 .. Busy - 1
      BY <1>5, <1>6, <1>7
    <2>2. /\ Pos(b) \in 0 .. NumBd - 1
          /\ Dist(send_head', b) = IF Pos(b) > d THEN Pos(b) - d - 1
                                    ELSE Pos(b) - d - 1 + NumBd
      BY <1>1
    <2>3. Pos(b) > d /\ InFrame(queue[i + 1], b)
      BY <1>1, <2>1, <2>2 DEF InFrame
    <2>4. b # cur /\ b # send_head
      <3>1. Pos(send_head) = 0
        BY <1>0, <1>1, PosRange
      <3> QED BY <1>1, <2>2, <2>3, <3>1 DEF d
    <2> QED BY <1>3, <1>4, <2>1, <2>3, <2>4 DEF QueueInv, FramesInv, L
  <1>11. CoverInv'
    <2> SUFFICES ASSUME NEW b \in Bd, Dist(send_head', b) < Busy'
                 PROVE  \E i \in 1 .. L - 1 :
                          /\ Dist(send_head', queue'[i].sop) <= Dist(send_head', b)
                          /\ Dist(send_head', b) <= Dist(send_head', queue'[i].eop)
      BY <1>4 DEF CoverInv, InFrame, Pos
    <2>1. Pos(b) > d /\ Pos(b) < Busy /\ Dist(send_head', b) = Pos(b) - d - 1
      BY <1>8
    <2>2. PICK j \in 1 .. L : InFrame(queue[j], b)
      BY <2>1 DEF QueueInv, CoverInv, L
    <2>3. j # 1
      <3>1. Pos(b) \in 0 .. NumBd - 1
        BY <1>1
      <3> QED BY <1>1, <1>2, <2>1, <2>2, <3>1 DEF InFrame, d
    <2>4. j - 1 \in 1 .. L - 1 /\ j - 1 + 1 = j
      BY <1>2, <2>3
    <2>5. /\ Dist(send_head', queue'[j - 1].sop) = Pos(queue[j].sop) - d - 1
          /\ Dist(send_head', queue'[j - 1].eop) = Pos(queue[j].eop) - d - 1
      BY <1>7, <2>4
    <2>6. Pos(queue[j].sop) \in Int /\ Pos(queue[j].eop) \in Int /\ Pos(b) \in Int
      BY <1>1, <1>5
    <2>7. /\ Dist(send_head', queue'[j - 1].sop) <= Dist(send_head', b)
          /\ Dist(send_head', b) <= Dist(send_head', queue'[j - 1].eop)
      BY <1>1, <2>1, <2>2, <2>5, <2>6 DEF InFrame
    <2> QED BY <2>4, <2>7
  <1>12. NewestInv'
    BY <1>3 DEF NewestInv
  <1> QED BY <1>4, <1>9, <1>10, <1>11, <1>12 DEF QueueInv
-----------------------------------------------------------------------------
(* The theorem *)

LEMMA InitQueueInv == Init => QueueInv
  <1> SUFFICES ASSUME Init PROVE QueueInv
    OBVIOUS
  <1>1. IInv /\ queue = <<>> /\ Len(queue) = 0 /\ queue \in Seq(Frame)
    BY InitIInv, EmptySeq DEF Init
  <1>2. Busy = 0
    BY NumBdAssumption DEF Init, Busy, Walking
  <1>3. OrderInv /\ FramesInv /\ NewestInv
    BY <1>1, <1>2 DEF OrderInv, FramesInv, NewestInv, Init, Chaining
  <1>4. CoverInv
    <2>1. \A b \in Bd : Pos(b) \in 0 .. NumBd - 1
      BY <1>1, PosRange DEF IInv
    <2> QED BY <1>2, <2>1 DEF CoverInv
  <1> QED BY <1>1, <1>3, <1>4 DEF QueueInv

LEMMA NextQueueInv == IInv /\ QueueInv /\ [Next]_vars => QueueInv'
  <1> SUFFICES ASSUME IInv, QueueInv, [Next]_vars PROVE QueueInv'
    OBVIOUS
  <1>0. 1 \in 1 .. MaxChain
    BY ChainAssumption, NumBdAssumption
  <1>1. CASE Lwip
    BY <1>0, <1>1, QueueStable DEF Lwip
  <1>2. CASE \/ Transmit \/ IsrEnter \/ Isr \/ Engine \/ UNCHANGED vars
    <2>1. CASE Close
      BY <2>1, QueueClose
    <2>2. CASE IsrReclaim
      BY <2>2, QueueReclaim
    <2>3. CASE \/ Fill \/ Chain \/ Restart \/ IsrEnter \/ IsrFrame \/ IsrWalk \/ IsrExit
               \/ Engine \/ UNCHANGED vars
      BY <1>0, <2>3, QueueStable
    <2> QED BY <1>2, <2>1, <2>2, <2>3 DEF Transmit, Isr
  <1> QED BY <1>1, <1>2 DEF Next

LEMMA QueueInvHolds == Spec => [](IInv /\ QueueInv)
  <1>1. Init => IInv /\ QueueInv
    BY InitIInv, InitQueueInv
  <1>2. IInv /\ QueueInv /\ [Next]_vars => (IInv /\ QueueInv)'
    BY NextIInv, NextQueueInv
  <1> QED BY <1>1, <1>2, PTL DEF Spec

(* The descriptors of a frame, by their positions. *)
LEMMA BdsByPosition ==
  ASSUME IInv, QueueInv, NEW i \in 1 .. Len(queue), NEW b \in Bd
  PROVE  b \in BdsOf(queue[i]) <=> InFrame(queue[i], b)
  <1> DEFINE s == queue[i].sop
             e == queue[i].eop
  <1>1. s \in Bd /\ e \in Bd /\ send_head \in Bd /\ InFrame(queue[i], e)
    BY FramePosition DEF IInv, TypeOK
  <1>2. /\ Pos(s) \in 0 .. NumBd - 1 /\ Pos(e) \in 0 .. NumBd - 1
        /\ Pos(b) \in 0 .. NumBd - 1 /\ NumBd \in Nat
    BY <1>1, PosRange DEF IInv
  <1>3. Pos(s) <= Pos(e)
    BY <1>1 DEF InFrame
  <1>4. /\ Dist(s, b) = IF Pos(b) >= Pos(s) THEN Pos(b) - Pos(s)
                        ELSE Pos(b) - Pos(s) + NumBd
        /\ Dist(s, e) = Pos(e) - Pos(s)
    BY <1>1, <1>2, <1>3, DistShift DEF Pos
  <1>5. Dist(s, b) <= Dist(s, e) <=> Pos(s) <= Pos(b) /\ Pos(b) <= Pos(e)
    BY <1>2, <1>3, <1>4
  <1> QED BY <1>5 DEF BdsOf, InFrame

(* The descriptors behind the busy ones are as many as free_num says.      *)
LEMMA FreeCount ==
  ASSUME TypeOK, NEW n \in 0 .. NumBd
  PROVE  Cardinality({b \in Bd : Pos(b) >= n}) = NumBd - n
  <1> DEFINE S == {b \in Bd : Pos(b) >= n}
             T == n .. NumBd - 1
             at == [k \in T |-> IF send_head + k < NumBd THEN send_head + k
                                ELSE send_head + k - NumBd]
  <1>1. NumBd \in Nat /\ send_head \in Bd
    BY NumBdAssumption DEF TypeOK
  <1>2. ASSUME NEW k \in T
        PROVE  at[k] \in Bd /\ Pos(at[k]) = k
    BY <1>1 DEF Bd, Pos, Dist
  <1>3. at \in [T -> S] /\ \A k \in T : Pos(at[k]) = k
    BY <1>1, <1>2
  <1>4. \A b \in S : Pos(b) \in T /\ at[Pos(b)] = b
    <2> SUFFICES ASSUME NEW b \in S PROVE Pos(b) \in T /\ at[Pos(b)] = b
      OBVIOUS
    <2>1. b \in Bd /\ Pos(b) \in T
      BY <1>1, PosRange
    <2>2. at[Pos(b)] \in Bd /\ Pos(at[Pos(b)]) = Pos(b)
      BY <1>2, <2>1
    <2> QED BY <2>1, <2>2, PosRange
  <1> HIDE DEF at, S, T
  <1>5. at \in Bijection(T, S)
    BY <1>3, <1>4 DEF Bijection, Injection, Surjection, IsInjective
  <1>6. ExistsBijection(T, S)
    BY <1>5 DEF ExistsBijection
  <1>7. IsFiniteSet(T) /\ Cardinality(T) = NumBd - n
    <2>1. n \in Int /\ NumBd - 1 \in Int
      BY <1>1
    <2>2. /\ IsFiniteSet(T)
          /\ Cardinality(T) = IF n > NumBd - 1 THEN 0 ELSE NumBd - 1 - n + 1
      BY <2>1, FS_Interval DEF T
    <2> QED BY <1>1, <2>2
  <1> QED BY <1>6, <1>7, FS_Bijection DEF S

(* Between two calls of cpswif_output and eth0_tx_isr the ring is exactly  *)
(* the queue of accepted frames, laid out from send_head to free_head      *)
(* without gap or overlap, and free_num counts the rest.                   *)
THEOREM RingIsTheQueue == Spec => []RingIsQueue
  <1>1. IInv /\ QueueInv => RingIsQueue
    <2> SUFFICES ASSUME IInv, QueueInv, pc = "idle" PROVE RingIsQueue
      BY DEF RingIsQueue
    <2> DEFINE L == Len(queue)
    <2>0. TypeOK /\ RingInv
      BY DEF IInv
    <2>1. /\ L \in Nat /\ DOMAIN queue = 1 .. L /\ queue \in Seq(Frame)
          /\ (queue = <<>> <=> L = 0)
      BY LenProperties, EmptySeq DEF QueueInv
    <2>2. /\ Busy \in 0 .. NumBd /\ Busy = NumBd - free_num /\ NumBd \in Nat
          /\ free_num \in 0 .. NumBd
      BY <2>0, NumBdAssumption DEF RingInv, PositionInv, Busy, Walking, TypeOK
    <2>3. \A b \in Bd : Pos(b) \in 0 .. NumBd - 1
      BY <2>0, PosRange
    <2>4. \A b \in Bd : b \in Queued <=> Pos(b) < Busy
      <3> SUFFICES ASSUME NEW b \in Bd PROVE b \in Queued <=> Pos(b) < Busy
        OBVIOUS
      <3>1. b \in Queued <=> \E i \in 1 .. L : InFrame(queue[i], b)
        BY <2>1, BdsByPosition DEF Queued
      <3>2. ASSUME NEW i \in 1 .. L, InFrame(queue[i], b)
            PROVE  Pos(b) < Busy
        <4>1. Pos(queue[i].eop) \in 0 .. Busy - 1
          BY FramePosition
        <4> QED BY <2>2, <2>3, <3>2, <4>1 DEF InFrame
      <3> QED BY <3>1, <3>2 DEF QueueInv, CoverInv
    <2>5. ASSUME NEW i \in DOMAIN queue
          PROVE  /\ queue[i].sop = IF i = 1 THEN send_head ELSE Succ(queue[i - 1].eop)
                 /\ \A b \in BdsOf(queue[i]) : pkt[b] = queue[i].pbuf
      <3>1. i \in 1 .. L /\ queue[i].sop \in Bd
        BY <2>1, FramePosition
      <3>2. i = 1 => queue[i].sop = send_head
        BY <3>1 DEF QueueInv, OrderInv
      <3>3. ASSUME i # 1
            PROVE  queue[i].sop = Succ(queue[i - 1].eop)
        <4>1. i - 1 \in 1 .. L /\ i - 1 \in 1 .. L - 1 /\ i - 1 + 1 = i
          BY <2>1, <3>1, <3>3
        <4>2. Pos(queue[i].sop) = Pos(queue[i - 1].eop) + 1
          BY <4>1 DEF QueueInv, OrderInv
        <4>3. /\ queue[i - 1].eop \in Bd /\ Pos(queue[i].sop) \in 0 .. NumBd - 1
              /\ Pos(queue[i - 1].eop) \in 0 .. NumBd - 1
          BY <2>3, <3>1, <4>1, FramePosition
        <4>4. /\ Succ(queue[i - 1].eop) \in Bd
              /\ Pos(Succ(queue[i - 1].eop)) = Pos(queue[i].sop)
          BY <2>0, <2>2, <4>2, <4>3, DistSucc DEF Pos, TypeOK
        <4> QED BY <2>0, <3>1, <4>4, PosRange
      <3>4. ASSUME NEW b \in BdsOf(queue[i])
            PROVE  pkt[b] = queue[i].pbuf
        BY <3>1, <3>4, BdsByPosition DEF BdsOf, QueueInv, FramesInv
      <3> QED BY <3>2, <3>3, <3>4
    <2>6. free_head = IF queue = <<>> THEN send_head ELSE Succ(queue[L].eop)
      <3>1. free_head \in Bd /\ Pos(free_head) = IF Busy = NumBd THEN 0 ELSE Busy
        BY <2>0 DEF TypeOK, RingInv, PositionInv, Pos
      <3>2. CASE L = 0
        <4>1. Busy = 0 /\ NumBd >= 2
          BY <3>2, NumBdAssumption DEF QueueInv, OrderInv
        <4> QED BY <2>0, <2>1, <3>1, <3>2, <4>1, PosRange
      <3>3. CASE L # 0
        <4>1. L \in 1 .. L /\ Pos(queue[L].eop) = Busy - 1
          BY <2>1, <3>3 DEF QueueInv, OrderInv, Newest
        <4>2. queue[L].eop \in Bd
          BY <4>1, FramePosition
        <4>3. /\ Succ(queue[L].eop) \in Bd
              /\ Pos(Succ(queue[L].eop)) = Pos(free_head)
          BY <2>0, <2>2, <3>1, <4>1, <4>2, DistSucc DEF Pos, TypeOK
        <4> QED BY <2>0, <2>1, <3>1, <3>3, <4>3, PosRange
      <3> QED BY <3>2, <3>3
    <2>7. free_num = Cardinality(Bd \ Queued)
      <3>1. Bd \ Queued = {b \in Bd : Pos(b) >= Busy}
        BY <2>2, <2>3, <2>4
      <3>2. Cardinality(Bd \ Queued) = NumBd - Busy
        BY <2>0, <2>2, <3>1, FreeCount
      <3> QED BY <2>2, <3>2
    <2>8. \A b \in Bd : Pos(b) >= Busy => b \notin sop /\ b \notin eop
      BY <2>0 DEF RingInv, FlagsInv, Pos
    <2>9. \A b \in Bd : b \in sop \/ b \in eop => \E i \in 1 .. L : InFrame(queue[i], b)
      BY <2>2, <2>3, <2>8 DEF QueueInv, CoverInv
    <2>10. \A i \in 1 .. L : /\ queue[i].sop \in Bd /\ InFrame(queue[i], queue[i].sop)
                            /\ queue[i].eop \in Bd /\ InFrame(queue[i], queue[i].eop)
      BY FramePosition
    <2>11. sop = {queue[i].sop : i \in DOMAIN queue}
      <3>1. sop \subseteq Bd
        BY <2>0 DEF TypeOK
      <3> QED BY <2>1, <2>9, <2>10, <3>1 DEF QueueInv, FramesInv
    <2>12. eop = {queue[i].eop : i \in DOMAIN queue}
      <3>1. eop \subseteq Bd
        BY <2>0 DEF TypeOK
      <3> QED BY <2>1, <2>9, <2>10, <3>1 DEF QueueInv, FramesInv
    <2> QED BY <2>5, <2>6, <2>7, <2>11, <2>12 DEF RingIsQueue
  <1> QED BY <1>1, QueueInvHolds, PTL
-----------------------------------------------------------------------------
(***************************************************************************)
(* The ring and its engine together, for an engine that reads the link of  *)
(* a descriptor when it has finished the frame and is never slower than    *)
(* the poll of eth0_tx_isr.                                                *)
(*                                                                         *)
(* The inductive invariant EngineInv says how far the engine has come: the *)
(* first n frames of the queue have left, and it works on the next one or, *)
(* if no linked frame is left, has stopped and marked the tail EOQ.        *)
(***************************************************************************)

(* Is the newest frame still to be handed to the engine? *)
Unlinked == pc = "chain" \/ (pc = "restart" /\ send_tail \in eoq)

(* The frames the engine can reach, and the last descriptor of the last.   *)
Linked  == IF Unlinked THEN Len(queue) - 1 ELSE Len(queue)
LastBd == IF pc = "restart" /\ send_tail \notin eoq THEN end ELSE send_tail

(* The engine is about to begin frame f, or inside it. *)
WorksOn(f) ==
  \/ dma = [DmaIdle EXCEPT !.bd = f.sop]
  \/ /\ dma.sop = f.sop /\ dma.buf = f.pbuf
     /\ dma.bd \in BdsOf(f)
     /\ dma.bd # f.eop => dma.link = Succ(dma.bd)

(* n frames have left. *)
ProgressInv(n) ==
  /\ \A i \in 1 .. Len(queue) : IsWaiting(queue[i]) <=> i > n
  /\ n <= Linked
  /\ n < Linked => WorksOn(queue[n + 1]) /\ LastBd \notin eoq
  /\ n = Linked => dma = DmaIdle /\ (LastBd # NULL => LastBd \in eoq)
  /\ Walking => n > 0
  /\ n > 0 => irq /\ cp = queue[n].eop

(* The frame being output waits for the engine, and no EOQ of an earlier   *)
(* round is left in it.                                                    *)
NewFrameInv ==
  /\ pc = "fill" => first \in own
  /\ Unlinked => end \notin eoq
  /\ send_tail = NULL => Len(queue) = 0

EngineInv == NewFrameInv /\ \E n \in 0 .. Len(queue) : ProgressInv(n)
-----------------------------------------------------------------------------
(* Links and tails *)

(* Inside a frame every link leads to the next descriptor of the ring.     *)
LEMMA LinkInside ==
  ASSUME IInv, QueueInv, NEW b \in Bd, Pos(b) < Busy, b \notin eop
  PROVE  next[b] = Succ(b)
  <1>0. TypeOK /\ RingInv
    BY DEF IInv
  <1>1. /\ Pos(b) \in 0 .. NumBd - 1 /\ Busy \in 0 .. NumBd /\ NumBd \in Nat
        /\ send_head \in Bd
    BY <1>0, PosRange DEF RingInv, PositionInv
  <1>2. Pos(b) < Busy - 1
    BY <1>0, <1>1 DEF RingInv, FlagsInv, Pos
  <1>3. Succ(b) \in Bd /\ Pos(Succ(b)) = Pos(b) + 1
    BY <1>1, <1>2, DistSucc DEF Pos
  <1>4. Succ(b) \notin sop
    BY <1>0, <1>2 DEF RingInv, FlagsInv, Pos
  <1>5. ~(b = end /\ Chaining)
    <2> SUFFICES ASSUME b = end, Chaining PROVE FALSE
      OBVIOUS
    <2>1. Len(queue) \in 1 .. Len(queue) /\ Newest.eop = b
      BY LenProperties DEF QueueInv, NewestInv
    <2>2. b \in eop
      BY <2>1, FramePosition DEF QueueInv, FramesInv, Newest
    <2> QED BY <2>2
  <1>6. ~(b = send_tail /\ pc # "restart")
    <2> SUFFICES ASSUME b = send_tail, pc # "restart" PROVE FALSE
      OBVIOUS
    <2>1. Succ(b) = IF Chaining THEN first ELSE free_head
      BY <1>0 DEF RingInv, LinksInv, NULL, Bd
    <2>2. CASE Chaining
      <3>1. Len(queue) \in 1 .. Len(queue) /\ Newest.sop = first
        BY <2>2, LenProperties DEF QueueInv, NewestInv
      <3>2. first \in sop
        BY <3>1, FramePosition DEF QueueInv, FramesInv, Newest
      <3> QED BY <1>4, <2>1, <2>2, <3>2
    <2>3. CASE ~Chaining
      <3>1. Pos(free_head) = IF Busy = NumBd THEN 0 ELSE Busy
        BY <1>0 DEF RingInv, PositionInv, Pos
      <3> QED BY <1>1, <1>2, <1>3, <2>1, <2>3, <3>1
    <2> QED BY <2>2, <2>3
  <1> QED BY <1>0, <1>5, <1>6 DEF RingInv, LinksInv

(* The frame being filled begins behind the busy descriptors. *)
LEMMA FillFirst ==
  ASSUME IInv, pc = "fill"
  PROVE  Pos(first) = Busy
  <1>1. first \in Bd /\ cur \in Bd /\ Dist(first, cur) + left \in 1 .. MaxChain
    BY DEF IInv, RingInv, FillInv, TypeOK
  <1>2. Dist(first, cur) = 0 <=> first = cur
    BY <1>1, DistBasic
  <1>3. left > 0 \/ cur # first
    BY <1>1, <1>2, ChainAssumption DEF IInv, TypeOK
  <1> QED BY <1>3, FillPosition DEF IInv, Pos

LEMMA SuccInjective ==
  ASSUME NEW a \in Bd, NEW b \in Bd, Succ(a) = Succ(b)
  PROVE  a = b
  BY NumBdAssumption DEF Bd, Succ

(* Behind the end of a frame lies the next frame, or the first free        *)
(* descriptor; in chain and restart, end and the old tail are the ends of  *)
(* the newest frame and of the one before.                                 *)
LEMMA BehindEop ==
  ASSUME IInv, QueueInv, NEW i \in 1 .. Len(queue)
  PROVE  Succ(queue[i].eop) = IF i = Len(queue) THEN free_head ELSE queue[i + 1].sop
  <1>0. TypeOK /\ RingInv /\ queue[i].eop \in Bd /\ Len(queue) \in Nat
    BY FramePosition DEF IInv
  <1>1. /\ NumBd \in Nat /\ NumBd >= 2 /\ send_head \in Bd /\ free_head \in Bd
        /\ Busy \in 1 .. NumBd /\ Pos(queue[i].eop) \in 0 .. Busy - 1
    BY <1>0, PosRange, FramePosition DEF TypeOK
  <1>2. /\ Succ(queue[i].eop) \in Bd
        /\ Pos(Succ(queue[i].eop)) = IF Pos(queue[i].eop) = NumBd - 1 THEN 0
                                     ELSE Pos(queue[i].eop) + 1
    BY <1>0, <1>1, DistSucc DEF Pos
  <1>3. CASE i = Len(queue)
    <2>1. Pos(queue[i].eop) = Busy - 1
      BY <1>0, <1>3 DEF QueueInv, OrderInv, Newest
    <2>2. Pos(free_head) = IF Busy = NumBd THEN 0 ELSE Busy
      BY <1>0 DEF RingInv, PositionInv, Pos
    <2>3. Pos(Succ(queue[i].eop)) = Pos(free_head)
      BY <1>1, <1>2, <2>1, <2>2
    <2> QED BY <1>0, <1>1, <1>2, <1>3, <2>3, PosRange
  <1>4. CASE i # Len(queue)
    <2>1. i \in 1 .. Len(queue) - 1 /\ i + 1 \in 1 .. Len(queue)
      BY <1>0, <1>4
    <2>2. Pos(queue[i + 1].sop) = Pos(queue[i].eop) + 1
      BY <2>1 DEF QueueInv, OrderInv
    <2>3. queue[i + 1].sop \in Bd /\ Pos(queue[i + 1].sop) \in 0 .. Busy - 1
      BY <2>1, FramePosition
    <2>4. Pos(Succ(queue[i].eop)) = Pos(queue[i + 1].sop)
      BY <1>1, <1>2, <2>2, <2>3
    <2> QED BY <1>0, <1>2, <1>4, <2>3, <2>4, PosRange
  <1> QED BY <1>3, <1>4

(* Different frames have different first and last descriptors. *)
LEMMA FramesApart ==
  ASSUME IInv, QueueInv, NEW i \in 1 .. Len(queue), NEW j \in 1 .. Len(queue), i # j
  PROVE  queue[i].sop # queue[j].sop /\ queue[i].eop # queue[j].eop
  <1>1. ASSUME NEW k \in 1 .. Len(queue), NEW l \in 1 .. Len(queue), k < l
        PROVE  queue[k].sop # queue[l].sop /\ queue[k].eop # queue[l].eop
    <2>1. Pos(queue[k].eop) < Pos(queue[l].sop)
      BY <1>1 DEF QueueInv, OrderInv
    <2>2. /\ Pos(queue[k].sop) \in Int /\ Pos(queue[k].eop) \in Int
          /\ Pos(queue[l].sop) \in Int /\ Pos(queue[l].eop) \in Int
          /\ Pos(queue[k].sop) <= Pos(queue[k].eop)
          /\ Pos(queue[l].sop) <= Pos(queue[l].eop)
      BY FramePosition DEF QueueInv, OrderInv
    <2> QED BY <2>1, <2>2
  <1>2. i < j \/ j < i
    OBVIOUS
  <1> QED BY <1>1, <1>2

(* The tail the driver looks at is the end of the last frame the engine    *)
(* can reach.                                                              *)
LEMMA LinkedTail ==
  ASSUME IInv, QueueInv, NewFrameInv
  PROVE  /\ Len(queue) \in Nat /\ Linked \in 0 .. Len(queue)
         /\ Linked > 0 => LastBd = queue[Linked].eop
         /\ pc # "restart" \/ send_tail \notin eoq =>
              \A i \in 1 .. Linked :
                next[queue[i].eop] = IF i = Linked THEN NULL ELSE queue[i + 1].sop
  <1> DEFINE L == Len(queue)
  <1>0. TypeOK /\ RingInv /\ L \in Nat
    BY LenProperties DEF IInv, QueueInv
  <1>1. Chaining => L > 0 /\ queue[L].sop = first /\ queue[L].eop = end
    BY DEF QueueInv, NewestInv, Newest
  <1>2. Linked \in 0 .. L
    BY <1>0, <1>1 DEF Linked, Unlinked, Chaining
  <1>3. \A i \in 1 .. L : queue[i].sop \in Bd /\ queue[i].eop \in Bd
    BY FramePosition
  <1>4. ~Chaining /\ L > 0 => send_tail = queue[L].eop
    <2> SUFFICES ASSUME ~Chaining, L > 0 PROVE send_tail = queue[L].eop
      OBVIOUS
    <2>1. send_tail # NULL /\ send_tail \in Bd
      BY <1>0 DEF NewFrameInv, TypeOK, BdOrNull
    <2>2. Succ(send_tail) = free_head
      BY <1>0, <2>1 DEF RingInv, LinksInv
    <2>3. L \in 1 .. L /\ queue[L].eop \in Bd /\ Succ(queue[L].eop) = free_head
      BY <1>0, <1>3, BehindEop
    <2> QED BY <2>1, <2>2, <2>3, SuccInjective
  <1>5. Chaining /\ L > 1 => send_tail = queue[L - 1].eop
    <2> SUFFICES ASSUME Chaining, L > 1 PROVE send_tail = queue[L - 1].eop
      OBVIOUS
    <2>1. send_tail \in Bd /\ Succ(send_tail) = first
      BY <1>0 DEF RingInv, ChainInv, LinksInv, NULL, Bd
    <2>2. L - 1 \in 1 .. L /\ L - 1 # L /\ L - 1 + 1 = L
      BY <1>0
    <2>3. Succ(queue[L - 1].eop) = queue[L].sop /\ queue[L - 1].eop \in Bd
      BY <1>3, <2>2, BehindEop
    <2> QED BY <1>1, <2>1, <2>3, SuccInjective
  <1>6. Linked > 0 => LastBd = queue[Linked].eop
    BY <1>0, <1>1, <1>4, <1>5 DEF Linked, LastBd, Unlinked, Chaining
  <1>7. ASSUME pc # "restart" \/ send_tail \notin eoq, NEW i \in 1 .. Linked
        PROVE  next[queue[i].eop] = IF i = Linked THEN NULL ELSE queue[i + 1].sop
    <2>0. i \in 1 .. L
      BY <1>0, <1>2
    <2>1. next[queue[i].eop] =
            IF \/ queue[i].eop = send_tail /\ pc # "restart"
               \/ queue[i].eop = end /\ Chaining
            THEN NULL ELSE Succ(queue[i].eop)
      BY <1>0, <1>3, <2>0 DEF RingInv, LinksInv
    <2>2. CASE ~Chaining
      <3>1. Linked = L /\ L \in 1 .. L /\ send_tail = queue[L].eop /\ pc # "restart"
        BY <1>0, <1>4, <2>0, <2>2 DEF Linked, Unlinked, Chaining
      <3>2. i # L => queue[i].eop # send_tail
        BY <2>0, <3>1, FramesApart
      <3> QED BY <2>0, <2>1, <2>2, <3>1, <3>2, BehindEop
    <2>3. CASE pc = "chain"
      <3>1. /\ Linked = L - 1 /\ L > 1 /\ L \in 1 .. L /\ L - 1 \in 1 .. L /\ Chaining
            /\ send_tail = queue[L - 1].eop /\ end = queue[L].eop
        BY <1>0, <1>1, <1>5, <2>0, <2>3 DEF Linked, Unlinked, Chaining
      <3>2. i # L - 1 => queue[i].eop # send_tail
        BY <2>0, <3>1, FramesApart
      <3>3. i # L /\ queue[i].eop # end
        BY <1>0, <2>0, <3>1, FramesApart
      <3> QED BY <2>0, <2>1, <2>3, <3>1, <3>2, <3>3, BehindEop
    <2>4. CASE pc = "restart"
      <3>1. Linked = L /\ L \in 1 .. L /\ Chaining /\ end = queue[L].eop
        BY <1>0, <1>1, <1>7, <2>4 DEF Linked, Unlinked, Chaining
      <3>2. i # L => queue[i].eop # end
        BY <2>0, <3>1, FramesApart
      <3> QED BY <2>0, <2>1, <2>4, <3>1, <3>2, BehindEop
    <2> QED BY <2>2, <2>3, <2>4 DEF Chaining
  <1> QED BY <1>0, <1>2, <1>6, <1>7
-----------------------------------------------------------------------------
(* Steps of the software *)

(* A step the engine does not notice. *)
LEMMA ProgressUnchanged ==
  ASSUME NEW n \in Nat, ProgressInv(n), UNCHANGED <<queue, dma, cp, irq>>,
         Linked' = Linked, LastBd' = LastBd, LastBd \in eoq' <=> LastBd \in eoq,
         \A i \in 1 .. Len(queue) : queue[i].sop \in own' <=> queue[i].sop \in own,
         Walking' => n > 0
  PROVE  ProgressInv(n)'
  BY DEF ProgressInv, IsWaiting, WorksOn

(* lwIP, and the steps of the software that only look. *)
LEMMA EngineStable ==
  ASSUME IInv, QueueInv, EngineInv, NEW p, NEW c,
         \/ PbufAlloc(p) \/ PbufRelease(p) \/ OutputErrMem(p, c)
         \/ Fill \/ IsrEnter \/ IsrWalk \/ IsrExit \/ UNCHANGED vars
  PROVE  EngineInv'
  <1>1. PICK n \in 0 .. Len(queue) : ProgressInv(n)
    BY DEF EngineInv
  <1>2. Len(queue) \in Nat /\ n \in Nat
    BY LenProperties DEF QueueInv
  <1>3. /\ UNCHANGED <<queue, dma, cp, irq, own, eoq, send_tail>>
        /\ \/ pc' = pc /\ first' = first /\ (pc = "fill" \/ end' = end)
           \/ ~Chaining /\ pc # "fill" /\ ~Chaining' /\ pc' # "fill"
        /\ Walking' => Walking
    BY DEF PbufAlloc, PbufRelease, OutputErrMem, PbufRef, Fill, IsrEnter, IsrWalk, IsrExit,
           Return, vars, mem, txch, local, hw, Chaining, Walking
  <1>4. Linked' = Linked /\ LastBd' = LastBd /\ (Unlinked' => Unlinked /\ end' = end)
    BY <1>3 DEF Linked, LastBd, Unlinked, Chaining
  <1>5. ProgressInv(n)'
    BY <1>1, <1>2, <1>3, <1>4, ProgressUnchanged DEF ProgressInv
  <1>6. NewFrameInv'
    BY <1>3, <1>4 DEF EngineInv, NewFrameInv
  <1> QED BY <1>1, <1>3, <1>5, <1>6 DEF EngineInv

(* The first descriptor of a new frame is none of the queue's. *)
LEMMA FreeHeadUnused ==
  ASSUME IInv, QueueInv, NEW p, NEW c \in 1 .. MaxChain, OutputBegin(p, c)
  PROVE  Pos(free_head) = Busy /\ \A i \in 1 .. Len(queue) : queue[i].sop # free_head
  <1>1. TypeOK /\ RingInv /\ pc = "idle"
    BY DEF IInv, OutputBegin
  <1>2. free_num \in Nat /\ free_num > 0 /\ NumBd \in Nat /\ NumBd >= 2
    BY <1>1, NumBdAssumption DEF OutputBegin, Fits, TypeOK
  <1>3. Pos(free_head) = Busy
    BY <1>1, <1>2 DEF RingInv, PositionInv, Pos, Busy, Walking
  <1>4. \A i \in 1 .. Len(queue) : queue[i].sop # free_head
    <2> TAKE i \in 1 .. Len(queue)
    <2>1. Pos(queue[i].sop) \in 0 .. Busy - 1 /\ Busy \in 1 .. NumBd
      BY FramePosition
    <2> QED BY <1>3, <2>1
  <1> QED BY <1>3, <1>4

(* The first descriptor of a new frame is none of the queue's, and not the *)
(* tail.                                                                   *)
LEMMA EngineOutputBegin ==
  ASSUME IInv, QueueInv, EngineInv, NEW p, NEW c \in 1 .. MaxChain, OutputBegin(p, c)
  PROVE  EngineInv'
  <1>0. TypeOK /\ RingInv
    BY DEF IInv
  <1>1. PICK n \in 0 .. Len(queue) : ProgressInv(n)
    BY DEF EngineInv
  <1>2. Len(queue) \in Nat /\ n \in Nat
    BY LenProperties DEF QueueInv
  <1>3. /\ UNCHANGED <<queue, dma, cp, irq, send_tail>> /\ pc = "idle" /\ pc' = "fill"
        /\ own' = own \cup {free_head} /\ eoq' = eoq \ {free_head} /\ first' = free_head
    BY DEF OutputBegin, PbufRef, txch, hw
  <1>4. /\ free_num \in Nat /\ free_num > 0 /\ NumBd \in Nat /\ NumBd >= 2
        /\ free_head \in Bd
    BY <1>0, NumBdAssumption DEF OutputBegin, Fits, TypeOK
  <1>6. \A i \in 1 .. Len(queue) : queue[i].sop # free_head
    BY FreeHeadUnused
  <1>7. send_tail # free_head
    <2>1. send_tail \in Bd => Succ(send_tail) = free_head
      BY <1>0, <1>3 DEF RingInv, LinksInv, Chaining, NULL, Bd
    <2>2. Succ(free_head) # free_head
      BY <1>4 DEF Succ, Bd
    <2> QED BY <1>4, <2>1, <2>2
  <1>8. /\ Linked' = Linked /\ LastBd' = LastBd /\ LastBd = send_tail
        /\ ~Unlinked' /\ ~Walking'
    BY <1>3 DEF Linked, LastBd, Unlinked, Walking
  <1>9. ProgressInv(n)'
    BY <1>1, <1>2, <1>3, <1>6, <1>7, <1>8, ProgressUnchanged
  <1>10. NewFrameInv'
    BY <1>3, <1>8 DEF EngineInv, NewFrameInv
  <1> QED BY <1>1, <1>3, <1>9, <1>10 DEF EngineInv

(* The very first frame goes to an idle engine; a later one waits to be    *)
(* linked.                                                                 *)
LEMMA EngineClose ==
  ASSUME IInv, QueueInv, EngineInv, Close
  PROVE  EngineInv'
  <1> DEFINE L == Len(queue)
             f == [sop |-> first, eop |-> end, pbuf |-> txp]
  <1>0. TypeOK /\ RingInv
    BY DEF IInv
  <1>1. PICK n \in 0 .. L : ProgressInv(n)
    BY DEF EngineInv
  <1>2. /\ pc = "fill" /\ queue' = Append(queue, f) /\ own' = own /\ eoq' = eoq \ {end}
        /\ UNCHANGED <<cp, irq>>
    BY DEF Close
  <1>3. first \in Bd /\ end \in Bd /\ txp \in Pbuf
    BY ClosePosition
  <1>4. /\ L \in Nat /\ Len(queue') = L + 1 /\ queue'[L + 1] = f
        /\ \A i \in 1 .. L : queue'[i] = queue[i]
    <2>1. f \in Frame /\ queue \in Seq(Frame)
      BY <1>3 DEF Frame, QueueInv
    <2> QED BY <1>2, <2>1, AppendProperties, LenProperties
  <1>5. Linked = L /\ LastBd = send_tail
    BY <1>2 DEF Linked, LastBd, Unlinked
  <1>6. /\ NewFrameInv /\ n <= L /\ n \in Nat
        /\ \A i \in 1 .. L : queue[i].sop \in own <=> i > n
        /\ n < L => WorksOn(queue[n + 1]) /\ send_tail \notin eoq
        /\ n = L => dma = DmaIdle /\ (send_tail # NULL => send_tail \in eoq)
        /\ n > 0 => irq /\ cp = queue[n].eop
    BY <1>1, <1>4, <1>5 DEF ProgressInv, EngineInv, IsWaiting
  <1>7. \A i \in 1 .. L + 1 : queue'[i].sop \in own' <=> i > n
    <2> TAKE i \in 1 .. L + 1
    <2>1. CASE i \in 1 .. L
      BY <1>2, <1>4, <1>6, <2>1
    <2>2. CASE i = L + 1
      <3>1. first \in own
        BY <1>2, <1>6 DEF NewFrameInv
      <3> QED BY <1>2, <1>4, <1>6, <2>2, <3>1
    <2> QED BY <1>4, <2>1, <2>2
  <1>8. n > 0 => irq' /\ cp' = queue'[n].eop
    BY <1>2, <1>4, <1>6
  <1>9. CASE send_tail = NULL
    <2>1. L = 0 /\ n = 0
      BY <1>6, <1>9 DEF NewFrameInv
    <2>2. pc' = "idle" /\ send_tail' = end /\ dma' = [DmaIdle EXCEPT !.bd = first]
      BY <1>9 DEF Close, Return, TxHdrDescPWr
    <2>3. Linked' = 1 /\ LastBd' = end /\ ~Walking' /\ ~Unlinked'
      BY <1>4, <2>1, <2>2 DEF Linked, LastBd, Unlinked, Walking
    <2>4. WorksOn(queue[n + 1])'
      BY <1>4, <2>1, <2>2 DEF WorksOn
    <2>5. ProgressInv(0)'
      BY <1>2, <1>4, <1>7, <2>1, <2>3, <2>4 DEF ProgressInv, IsWaiting
    <2>6. NewFrameInv'
      BY <1>3, <2>2, <2>3 DEF NewFrameInv, NULL, Bd
    <2> QED BY <1>4, <2>1, <2>5, <2>6 DEF EngineInv
  <1>10. CASE send_tail # NULL
    <2>1. pc' = "chain" /\ UNCHANGED <<dma, send_tail, end>>
      BY <1>10 DEF Close, local
    <2>2. send_tail # end
      BY <2>1, CloseStep DEF IInv, RingInv, ChainInv, Chaining
    <2>3. Linked' = L /\ LastBd' = send_tail /\ ~Walking' /\ Unlinked'
      BY <1>4, <2>1 DEF Linked, LastBd, Unlinked, Walking
    <2>4. n < L => WorksOn(queue[n + 1])'
      <3> SUFFICES ASSUME n < L PROVE WorksOn(queue[n + 1])'
        OBVIOUS
      <3>1. n + 1 \in 1 .. L /\ queue'[n + 1] = queue[n + 1]
        BY <1>4, <1>6
      <3> QED BY <1>6, <2>1, <3>1 DEF WorksOn
    <2>5. ProgressInv(n)'
      BY <1>2, <1>4, <1>6, <1>7, <1>8, <2>1, <2>2, <2>3, <2>4 DEF ProgressInv, IsWaiting
    <2>6. NewFrameInv'
      BY <1>2, <1>10, <2>1 DEF NewFrameInv
    <2>7. n \in 0 .. Len(queue')
      BY <1>4, <1>6
    <2> QED BY <2>5, <2>6, <2>7 DEF EngineInv
  <1> QED BY <1>9, <1>10

(* The link is in memory before the old tail is looked at: either the      *)
(* engine will follow it, or it has marked the tail and stopped.           *)
LEMMA EngineChain ==
  ASSUME IInv, QueueInv, EngineInv, Chain
  PROVE  EngineInv'
  <1> DEFINE L == Len(queue)
  <1>0. Chaining /\ send_tail # NULL /\ L \in Nat /\ L > 0
    BY LenProperties
       DEF Chain, IInv, RingInv, ChainInv, Chaining, NULL, Bd, QueueInv, NewestInv
  <1>1. PICK n \in 0 .. L : ProgressInv(n)
    BY DEF EngineInv
  <1>2. /\ pc = "chain" /\ pc' = "restart"
        /\ UNCHANGED <<queue, own, eoq, send_tail, first, end, dma, cp, irq>>
    BY DEF Chain, txch, local, hw
  <1>3. NewFrameInv /\ end \notin eoq /\ Unlinked
    BY <1>2 DEF EngineInv, NewFrameInv, Unlinked
  <1>4. NewFrameInv'
    BY <1>0, <1>2, <1>3 DEF NewFrameInv
  <1>5. Linked = L - 1 /\ LastBd = send_tail /\ ~Walking'
    BY <1>2 DEF Linked, LastBd, Unlinked, Walking
  <1>6. CASE send_tail \in eoq
    <2>1. Linked' = Linked /\ LastBd' = LastBd
      BY <1>2, <1>5, <1>6 DEF Linked, LastBd, Unlinked
    <2>2. ProgressInv(n)'
      BY <1>0, <1>1, <1>2, <1>5, <2>1, ProgressUnchanged
    <2> QED BY <1>1, <1>2, <1>4, <2>2 DEF EngineInv
  <1>7. CASE send_tail \notin eoq
    <2>1. Linked' = L /\ LastBd' = end
      BY <1>2, <1>7 DEF Linked, LastBd, Unlinked
    <2>2. n < L - 1 /\ WorksOn(queue[n + 1])
      BY <1>0, <1>1, <1>5, <1>7 DEF ProgressInv
    <2>3. WorksOn(queue[n + 1])'
      BY <1>2, <2>2 DEF WorksOn
    <2>4. ProgressInv(n)'
      BY <1>0, <1>1, <1>2, <1>3, <1>5, <2>1, <2>2, <2>3 DEF ProgressInv, IsWaiting
    <2> QED BY <1>1, <1>2, <1>4, <2>4 DEF EngineInv
  <1> QED BY <1>6, <1>7

LEMMA EngineRestart ==
  ASSUME IInv, QueueInv, EngineInv, Restart
  PROVE  EngineInv'
  <1> DEFINE L == Len(queue)
  <1>0. /\ Chaining /\ end # NULL /\ L \in Nat /\ L > 0
        /\ queue[L].sop = first
    BY LenProperties
       DEF Restart, IInv, RingInv, ChainInv, Chaining, NULL, Bd, QueueInv, NewestInv, Newest
  <1>1. PICK n \in 0 .. L : ProgressInv(n)
    BY DEF EngineInv
  <1>2. /\ pc = "restart" /\ pc' = "idle" /\ send_tail' = end
        /\ UNCHANGED <<queue, own, eoq, cp, irq>>
    BY DEF Restart, Return, mem
  <1>3. Linked' = L /\ LastBd' = end /\ ~Walking' /\ ~Unlinked'
    BY <1>2 DEF Linked, LastBd, Unlinked, Walking
  <1>4. NewFrameInv'
    BY <1>0, <1>2, <1>3 DEF NewFrameInv
  <1>5. CASE send_tail \in eoq
    <2>1. Linked = L - 1 /\ LastBd = send_tail /\ end \notin eoq
      BY <1>2, <1>5 DEF Linked, LastBd, Unlinked, EngineInv, NewFrameInv
    <2>2. dma' = [DmaIdle EXCEPT !.bd = first]
      BY <1>5 DEF Restart, EngineStopped, TxHdrDescPWr
    <2>3. n = L - 1
      BY <1>0, <1>1, <1>5, <2>1 DEF ProgressInv
    <2>4. WorksOn(queue[n + 1])'
      BY <1>0, <1>2, <2>2, <2>3 DEF WorksOn
    <2>5. ProgressInv(n)'
      BY <1>0, <1>1, <1>2, <1>3, <2>1, <2>3, <2>4 DEF ProgressInv, IsWaiting
    <2> QED BY <1>1, <1>2, <1>4, <2>5 DEF EngineInv
  <1>6. CASE send_tail \notin eoq
    <2>1. Linked' = Linked /\ LastBd' = LastBd /\ dma' = dma
      BY <1>2, <1>3, <1>6 DEF Linked, LastBd, Unlinked, Restart, EngineStopped
    <2>2. ProgressInv(n)'
      BY <1>0, <1>1, <1>2, <1>3, <2>1, ProgressUnchanged
    <2> QED BY <1>1, <1>2, <1>4, <2>2 DEF EngineInv
  <1> QED BY <1>5, <1>6
-----------------------------------------------------------------------------
(* eth0_tx_isr *)

(* The poll ends because the frame has left: the engine is never slow, and *)
(* it has not stopped in front of a linked frame.                          *)
LEMMA EngineIsrFrame ==
  ASSUME ~SlowEngine, IInv, QueueInv, EngineInv, IsrFrame
  PROVE  EngineInv'
  <1>0. TypeOK /\ RingInv /\ Len(queue) \in Nat
    BY LenProperties DEF IInv, QueueInv
  <1>1. PICK n \in 0 .. Len(queue) : ProgressInv(n)
    BY DEF EngineInv
  <1>2. /\ pc = "isr" /\ pc' = "walk" /\ send_head \in sop
        /\ UNCHANGED <<queue, own, eoq, send_tail, end, dma, cp, irq>>
    BY DEF IsrFrame, mem, hw
  <1>3. /\ Linked = Len(queue) /\ Linked' = Linked /\ LastBd' = LastBd
        /\ Unlinked' = Unlinked
    BY <1>2 DEF Linked, LastBd, Unlinked
  <1>4. Len(queue) > 0 /\ queue[1].sop = send_head
    <2>1. Dist(send_head, send_head) = 0 /\ send_head \in Bd
      BY <1>0, DistBasic DEF TypeOK
    <2>2. Busy # 0
      BY <1>0, <1>2, <2>1 DEF RingInv, FlagsInv
    <2> QED BY <1>0, <2>2 DEF QueueInv, OrderInv
  <1>5. n > 0
    <2> SUFFICES ASSUME n = 0 PROVE FALSE
      BY <1>0
    <2>1. send_head \in own /\ WorksOn(queue[1])
      BY <1>0, <1>1, <1>3, <1>4 DEF ProgressInv, IsWaiting
    <2>2. dma.bd = NULL
      BY <2>1 DEF IsrFrame, IsrSent, IsrExpired
    <2>3. 1 \in 1 .. Len(queue)
      BY <1>0, <1>4
    <2>4. queue[1].sop # NULL
      BY <2>3, FramePosition DEF NULL, Bd
    <2>5. dma.bd # NULL
      BY <2>1, <2>4 DEF WorksOn, DmaIdle, BdsOf, NULL, Bd
    <2> QED BY <2>2, <2>5
  <1>6. ProgressInv(n)'
    BY <1>0, <1>1, <1>2, <1>3, <1>5, ProgressUnchanged
  <1>7. NewFrameInv'
    BY <1>2, <1>3 DEF EngineInv, NewFrameInv
  <1> QED BY <1>1, <1>2, <1>6, <1>7 DEF EngineInv

(* The acknowledgement drops the interrupt only if the frame was the last  *)
(* one that has left.                                                      *)
LEMMA EngineIsrReclaim ==
  ASSUME IInv, QueueInv, EngineInv, IsrReclaim
  PROVE  EngineInv'
  <1> DEFINE L == Len(queue)
  <1>1. PICK n \in 0 .. L : ProgressInv(n)
    BY DEF EngineInv
  <1>2. /\ Walking /\ pc' = "isr" /\ queue' = Tail(queue) /\ irq' = (irq /\ cur # cp)
        /\ UNCHANGED <<own, eoq, send_tail, end, dma, cp>>
    BY DEF IsrReclaim, ClearFlags, TxCPWr, Walking
  <1>3. L \in Nat /\ L > 0 /\ queue[1].eop = cur
    BY ReclaimsOldest
  <1>4. Len(queue') = L - 1 /\ \A i \in 1 .. L - 1 : queue'[i] = queue[i + 1]
    BY <1>2, <1>3, HeadTailProperties DEF QueueInv
  <1>5. n > 0 /\ n \in 1 .. L /\ irq /\ cp = queue[n].eop
    BY <1>1, <1>2, <1>3 DEF ProgressInv
  <1>6. /\ Linked = L /\ Linked' = L - 1 /\ LastBd = send_tail /\ LastBd' = send_tail
        /\ ~Walking' /\ ~Unlinked'
    BY <1>2, <1>4 DEF Linked, LastBd, Unlinked, Walking
  <1>7. \A i \in 1 .. L - 1 : queue'[i].sop \in own' <=> i > n - 1
    <2> TAKE i \in 1 .. L - 1
    <2>1. i + 1 \in 1 .. L /\ (i + 1 > n <=> i > n - 1)
      BY <1>3
    <2> QED BY <1>1, <1>2, <1>4, <2>1 DEF ProgressInv, IsWaiting
  <1>8. n - 1 < L - 1 => WorksOn(queue[n])' /\ send_tail \notin eoq
    <2> SUFFICES ASSUME n < L PROVE WorksOn(queue[n])' /\ send_tail \notin eoq
      BY <1>3
    <2>1. queue'[n] = queue[n + 1]
      BY <1>4, <1>5
    <2> QED BY <1>1, <1>2, <1>6, <2>1 DEF ProgressInv, WorksOn
  <1>9. n - 1 > 0 => irq' /\ cp' = queue'[n - 1].eop
    <2> SUFFICES ASSUME n > 1 PROVE irq' /\ cp' = queue'[n - 1].eop
      BY <1>3
    <2>1. n - 1 \in 1 .. L - 1 /\ n - 1 + 1 = n /\ 1 \in 1 .. L /\ n # 1
      BY <1>3, <1>5
    <2>2. cur # cp
      BY <1>3, <1>5, <2>1, FramesApart
    <2> QED BY <1>2, <1>4, <1>5, <2>1, <2>2
  <1>10. n - 1 = L - 1 => dma' = DmaIdle /\ (send_tail # NULL => send_tail \in eoq)
    BY <1>1, <1>2, <1>3, <1>6 DEF ProgressInv
  <1>11. n - 1 + 1 = n /\ n - 1 <= L - 1 /\ n - 1 \in 0 .. L - 1
    BY <1>3, <1>5
  <1>12. ProgressInv(n - 1)'
    BY <1>2, <1>4, <1>6, <1>7, <1>8, <1>9, <1>10, <1>11 DEF ProgressInv, IsWaiting
  <1>13. NewFrameInv'
    BY <1>2, <1>3, <1>4, <1>6 DEF EngineInv, NewFrameInv
  <1> QED BY <1>4, <1>11, <1>12, <1>13 DEF EngineInv
-----------------------------------------------------------------------------
(* The engine *)

(* An engine that holds a descriptor works on a frame that waits. *)
LEMMA EngineBusy ==
  ASSUME IInv, QueueInv, EngineInv, NEW n \in 0 .. Len(queue), ProgressInv(n),
         dma.bd # NULL
  PROVE  /\ n < Linked /\ n + 1 \in 1 .. Linked /\ n + 1 \in 1 .. Len(queue)
         /\ WorksOn(queue[n + 1]) /\ LastBd \notin eoq
         /\ pc # "restart" \/ send_tail \notin eoq
  <1>1. Len(queue) \in Nat /\ Linked \in 0 .. Len(queue)
    BY LinkedTail DEF EngineInv
  <1>2. n < Linked
    BY <1>1 DEF ProgressInv, DmaIdle
  <1>3. WorksOn(queue[n + 1]) /\ LastBd \notin eoq
    BY <1>2 DEF ProgressInv
  <1> QED BY <1>1, <1>2, <1>3 DEF LastBd

(* In frame f the engine reads the links of the ring. *)
LEMMA FetchInside ==
  ASSUME IInv, QueueInv, NEW i \in 1 .. Len(queue), NEW b \in BdsOf(queue[i])
  PROVE  /\ b \in Bd /\ Pos(b) < Busy
         /\ b \in eop <=> b = queue[i].eop
         /\ b # queue[i].eop => next[b] = Succ(b) /\ Succ(b) \in BdsOf(queue[i])
  <1>1. b \in Bd /\ InFrame(queue[i], b)
    BY BdsByPosition DEF BdsOf
  <1>2. b \in eop <=> b = queue[i].eop
    BY <1>1 DEF QueueInv, FramesInv
  <1>3. /\ queue[i].eop \in Bd /\ Busy \in 1 .. NumBd
        /\ Pos(queue[i].eop) \in 0 .. Busy - 1 /\ Pos(queue[i].sop) \in 0 .. Busy - 1
    BY FramePosition
  <1>4. /\ Pos(b) \in 0 .. NumBd - 1 /\ NumBd \in Nat /\ send_head \in Bd
        /\ Pos(b) = Pos(queue[i].eop) => b = queue[i].eop
    BY <1>1, <1>3, PosRange DEF IInv
  <1>5. Pos(b) < Busy
    BY <1>1, <1>3, <1>4 DEF InFrame
  <1>6. ASSUME b # queue[i].eop
        PROVE  next[b] = Succ(b) /\ Succ(b) \in BdsOf(queue[i])
    <2>1. next[b] = Succ(b)
      BY <1>1, <1>2, <1>5, <1>6, LinkInside
    <2>2. Pos(b) < Pos(queue[i].eop)
      BY <1>1, <1>3, <1>4, <1>6 DEF InFrame
    <2>3. Succ(b) \in Bd /\ Pos(Succ(b)) = Pos(b) + 1
      BY <1>1, <1>3, <1>4, <2>2, DistSucc DEF Pos
    <2>4. InFrame(queue[i], Succ(b))
      BY <1>1, <1>3, <1>4, <2>2, <2>3 DEF InFrame
    <2> QED BY <2>1, <2>3, <2>4, BdsByPosition
  <1> QED BY <1>1, <1>2, <1>5, <1>6

(* The engine begins a frame, or goes on inside it. *)
LEMMA EngineFetch ==
  ASSUME IInv, QueueInv, EngineInv, DmaStart \/ DmaFollow
  PROVE  EngineInv'
  <1> DEFINE L == Len(queue)
  <1>1. PICK n \in 0 .. L : ProgressInv(n)
    BY DEF EngineInv
  <1>2. UNCHANGED <<mem, txch, pc, local, cp, irq, queue>>
    BY DEF DmaStart, DmaFollow
  <1>3. Linked' = Linked /\ LastBd' = LastBd /\ Unlinked' = Unlinked /\ Walking' = Walking
    BY <1>2 DEF Linked, LastBd, Unlinked, Walking, mem, txch, local
  <1>4. dma.bd # NULL
    <2>1. CASE DmaStart
      BY <2>1 DEF DmaStart
    <2>2. CASE DmaFollow
      <3>1. dma # DmaIdle
        BY <2>2 DEF DmaFollow, DmaIdle
      <3>2. Linked \in 0 .. L /\ L \in Nat
        BY LinkedTail DEF EngineInv
      <3>3. n < Linked /\ WorksOn(queue[n + 1])
        BY <1>1, <3>1, <3>2 DEF ProgressInv
      <3>4. dma.bd \in Bd
        BY <2>2, <3>3 DEF WorksOn, BdsOf, DmaFollow, DmaIdle
      <3> QED BY <3>4 DEF NULL, Bd
    <2> QED BY <2>1, <2>2
  <1> DEFINE f == queue[n + 1]
  <1>5. /\ n < Linked /\ n + 1 \in 1 .. L /\ WorksOn(f) /\ LastBd \notin eoq
    BY <1>1, <1>4, EngineBusy
  <1>6. f.sop \in Bd /\ f.sop \in BdsOf(f) /\ pkt[f.sop] = f.pbuf /\ f.sop # NULL
    <2>1. f.sop \in Bd /\ InFrame(f, f.sop)
      BY <1>5, FramePosition
    <2> QED BY <1>5, <2>1, BdsByPosition DEF QueueInv, FramesInv, NULL, Bd
  <1>7. WorksOn(f)'
    <2>1. CASE DmaStart
      <3>1. dma = [DmaIdle EXCEPT !.bd = f.sop]
        BY <1>5, <1>6, <2>1 DEF WorksOn, DmaStart
      <3>2. dma.bd = f.sop
        BY <3>1 DEF DmaIdle
      <3>3. /\ dma'.bd = f.sop /\ dma'.sop = f.sop /\ dma'.buf = f.pbuf
            /\ dma'.link = next[f.sop]
        BY <1>6, <2>1, <3>1, <3>2 DEF DmaStart, Fetch, DmaIdle
      <3>4. f.sop # f.eop => next[f.sop] = Succ(f.sop)
        BY <1>5, <1>6, FetchInside
      <3> QED BY <1>2, <1>6, <3>3, <3>4 DEF WorksOn
    <2>2. CASE DmaFollow
      <3>1. /\ dma.sop = f.sop /\ dma.buf = f.pbuf /\ dma.bd \in BdsOf(f)
            /\ dma.bd # f.eop => dma.link = Succ(dma.bd)
        BY <1>5, <2>2 DEF WorksOn, DmaFollow, DmaIdle
      <3>2. dma.bd \notin eop /\ dma' = Fetch(dma.link)
        BY <2>2 DEF DmaFollow
      <3>3. dma.link = Succ(dma.bd) /\ Succ(dma.bd) \in BdsOf(f)
        BY <1>5, <3>1, <3>2, FetchInside
      <3>4. Succ(dma.bd) # f.eop => next[Succ(dma.bd)] = Succ(Succ(dma.bd))
        BY <1>5, <3>3, FetchInside
      <3>5. dma \in [bd : BdOrNull, sop : BdOrNull, link : BdOrNull,
                     buf : Pbuf \cup {NoPbuf}]
        BY DEF IInv, TypeOK
      <3>6. /\ dma'.bd = Succ(dma.bd) /\ dma'.link = next[Succ(dma.bd)]
            /\ dma'.sop = dma.sop /\ dma'.buf = dma.buf
        BY <3>2, <3>3, <3>5 DEF Fetch
      <3> QED BY <1>2, <3>1, <3>3, <3>4, <3>6 DEF WorksOn
    <2> QED BY <2>1, <2>2
  <1>8. ProgressInv(n)'
    BY <1>1, <1>2, <1>3, <1>5, <1>7 DEF ProgressInv, IsWaiting, mem
  <1>9. NewFrameInv'
    BY <1>2, <1>3 DEF EngineInv, NewFrameInv, mem, txch, local
  <1> QED BY <1>1, <1>2, <1>8, <1>9 DEF EngineInv

(* The frame the engine finishes is the first that waits; it goes on with  *)
(* the next one, or marks the tail and stops.                              *)
LEMMA DoneInOrder ==
  ASSUME ~LinkAtFetch, IInv, QueueInv, EngineInv, DmaDone,
         NEW n \in 0 .. Len(queue), ProgressInv(n)
  PROVE  n + 1 \in 1 .. Len(queue) /\ ProgressInv(n + 1)' /\ NewFrameInv'
  <1> DEFINE L == Len(queue)
             f == queue[n + 1]
  <1>1. L \in Nat /\ Linked \in 0 .. L
    BY LinkedTail DEF EngineInv
  <1>2. dma # DmaIdle
    BY DEF DmaDone, DmaIdle
  <1>3. n < Linked /\ WorksOn(f) /\ LastBd \notin eoq /\ n + 1 \in 1 .. L
        /\ n + 1 \in 1 .. Linked
    BY <1>1, <1>2 DEF ProgressInv
  <1>4. dma.sop = f.sop /\ dma.bd \in BdsOf(f) /\ dma.bd \in eop
    BY <1>3 DEF WorksOn, DmaDone, DmaIdle
  <1>5. dma.bd = f.eop /\ f.eop \in Bd
    BY <1>3, <1>4, FetchInside
  <1>6. next[f.eop] = IF n + 1 = Linked THEN NULL ELSE queue[n + 2].sop
    <2>1. pc # "restart" \/ send_tail \notin eoq
      BY <1>3 DEF LastBd
    <2>2. n + 1 + 1 = n + 2
      OBVIOUS
    <2> QED BY <1>3, <2>1, <2>2, LinkedTail DEF EngineInv
  <1>7. /\ dma' = [DmaIdle EXCEPT !.bd = next[f.eop]]
        /\ eoq' = IF next[f.eop] = NULL THEN eoq \cup {f.eop} ELSE eoq
        /\ own' = own \ {f.sop} /\ cp' = f.eop /\ irq'
        /\ UNCHANGED <<queue, pc, send_tail, end, first>>
    BY <1>4, <1>5 DEF DmaDone, txch, local
  <1>8. \A i \in 1 .. L : queue'[i].sop \in own' <=> i > n + 1
    <2> TAKE i \in 1 .. L
    <2>1. CASE i = n + 1
      BY <1>7, <2>1
    <2>2. CASE i # n + 1
      <3>1. queue[i].sop # f.sop
        BY <1>3, <2>2, FramesApart
      <3>2. queue[i].sop \in own <=> i > n
        BY DEF ProgressInv, IsWaiting
      <3> QED BY <1>1, <1>7, <2>2, <3>1, <3>2
    <2> QED BY <2>1, <2>2
  <1>9. n + 1 = Linked => f.eop = LastBd
    BY <1>1, <1>3, LinkedTail DEF EngineInv
  <1>10. n + 1 # Linked =>
           /\ next[f.eop] = queue[n + 2].sop /\ next[f.eop] # NULL
           /\ n + 2 \in 1 .. L
    <2> SUFFICES ASSUME n + 1 # Linked
                 PROVE  queue[n + 2].sop # NULL /\ n + 2 \in 1 .. L
      BY <1>6
    <2>1. n + 2 \in 1 .. L
      BY <1>1, <1>3
    <2>2. queue[n + 2].sop \in Bd
      BY <2>1, FramePosition
    <2> QED BY <2>1, <2>2 DEF NULL, Bd
  <1>11. pc = "restart" /\ n + 1 = Linked => send_tail # f.eop
    <2>1. pc = "restart" => send_tail # end
      BY DEF Chaining, IInv, RingInv, ChainInv
    <2> QED BY <1>3, <1>9, <2>1 DEF LastBd
  <1>12. send_tail \in eoq' <=> send_tail \in eoq \/ (n + 1 = Linked /\ send_tail = f.eop)
    BY <1>6, <1>7, <1>10
  <1>13. Linked' = Linked /\ LastBd' = LastBd /\ Unlinked' = Unlinked /\ Walking' = Walking
    BY <1>7, <1>11, <1>12 DEF Linked, LastBd, Unlinked, Walking
  <1>14. n + 1 < Linked => WorksOn(queue[n + 2])' /\ LastBd \notin eoq'
    BY <1>3, <1>7, <1>10 DEF WorksOn
  <1>15. n + 1 = Linked => dma' = DmaIdle /\ LastBd \in eoq'
    BY <1>6, <1>7, <1>9 DEF DmaIdle
  <1>16. ProgressInv(n + 1)'
    <2>1. n + 1 + 1 = n + 2 /\ n + 1 <= Linked /\ n + 1 > 0
      BY <1>1, <1>3
    <2> QED BY <1>7, <1>8, <1>13, <1>14, <1>15, <2>1 DEF ProgressInv, IsWaiting
  <1>17. NewFrameInv'
    <2>1. pc = "fill" => first \in own'
      <3> SUFFICES ASSUME pc = "fill" PROVE first # f.sop
        BY <1>7 DEF EngineInv, NewFrameInv
      <3>1. Pos(first) = Busy
        BY FillFirst
      <3>2. Pos(f.sop) \in 0 .. Busy - 1 /\ Busy \in 1 .. NumBd
        BY <1>3, FramePosition
      <3> QED BY <3>1, <3>2
    <2>2. Unlinked' => end \notin eoq'
      <3> SUFFICES ASSUME Unlinked PROVE f.eop # end
        BY <1>7, <1>13 DEF EngineInv, NewFrameInv
      <3>1. Linked = L - 1 /\ L \in 1 .. L /\ queue[L].eop = end
        BY <1>1, LenProperties
           DEF Linked, Unlinked, Chaining, QueueInv, NewestInv, Newest
      <3> QED BY <1>1, <1>3, <3>1, FramesApart
    <2> QED BY <1>7, <2>1, <2>2 DEF EngineInv, NewFrameInv
  <1> QED BY <1>3, <1>16, <1>17
-----------------------------------------------------------------------------
(* The invariant *)

LEMMA InitEngineInv == Init => EngineInv
  <1> SUFFICES ASSUME Init PROVE EngineInv
    OBVIOUS
  <1>1. queue = <<>> /\ Len(queue) = 0 /\ pc = "idle" /\ dma = DmaIdle /\ send_tail = NULL
    BY DEF Init
  <1>2. ProgressInv(0) /\ NewFrameInv
    BY <1>1 DEF ProgressInv, NewFrameInv, Linked, LastBd, Unlinked, Walking
  <1> QED BY <1>1, <1>2 DEF EngineInv

AllInv == IInv /\ QueueInv /\ EngineInv

LEMMA NextEngineInv ==
  ASSUME ~LinkAtFetch, ~SlowEngine
  PROVE  AllInv /\ [Next]_vars => AllInv'
  <1> SUFFICES ASSUME IInv, QueueInv, EngineInv, [Next]_vars PROVE EngineInv'
    BY NextIInv, NextQueueInv DEF AllInv
  <1>1. CASE Lwip
    BY <1>1, EngineStable, EngineOutputBegin DEF Lwip
  <1>2. CASE Fill \/ IsrEnter \/ IsrWalk \/ IsrExit \/ UNCHANGED vars
    BY <1>2, EngineStable
  <1>3. CASE Close \/ Chain \/ Restart
    BY <1>3, EngineClose, EngineChain, EngineRestart
  <1>4. CASE IsrFrame \/ IsrReclaim
    BY <1>4, EngineIsrFrame, EngineIsrReclaim
  <1>5. CASE DmaStart \/ DmaFollow
    BY <1>5, EngineFetch
  <1>6. CASE DmaDone
    <2>1. PICK n \in 0 .. Len(queue) : ProgressInv(n)
      BY DEF EngineInv
    <2>2. n + 1 \in 1 .. Len(queue) /\ ProgressInv(n + 1)' /\ NewFrameInv'
      BY <1>6, <2>1, DoneInOrder
    <2>3. Len(queue') = Len(queue)
      BY <1>6 DEF DmaDone
    <2> QED BY <2>2, <2>3 DEF EngineInv
  <1> QED BY <1>1, <1>2, <1>3, <1>4, <1>5, <1>6 DEF Next, Transmit, Isr, Engine

LEMMA EngineInvHolds ==
  ASSUME ~LinkAtFetch, ~SlowEngine
  PROVE  Spec => []AllInv
  <1>1. Init => AllInv
    BY InitIInv, InitQueueInv, InitEngineInv DEF AllInv
  <1>2. AllInv /\ [Next]_vars => AllInv'
    BY NextEngineInv
  <1> QED BY <1>1, <1>2, PTL DEF Spec
-----------------------------------------------------------------------------
(* Theorems *)

(* The EOQ test of cpswif_transmit never loses a frame: between two calls  *)
(* the engine runs as long as an accepted frame waits.                     *)
THEOREM EngineNeverStranded ==
  ASSUME ~LinkAtFetch, ~SlowEngine
  PROVE  Spec => []EngineRunsWhileWaiting
  <1>1. AllInv => EngineRunsWhileWaiting
    <2> SUFFICES ASSUME AllInv, pc = "idle", NEW i \in DOMAIN queue, IsWaiting(queue[i])
                 PROVE  dma.bd # NULL
      BY DEF EngineRunsWhileWaiting
    <2>1. PICK n \in 0 .. Len(queue) : ProgressInv(n)
      BY DEF AllInv, EngineInv
    <2>2. Len(queue) \in Nat /\ i \in 1 .. Len(queue)
      BY LenProperties DEF AllInv, QueueInv
    <2>3. Linked = Len(queue)
      BY DEF Linked, Unlinked
    <2>4. WorksOn(queue[n + 1]) /\ n + 1 \in 1 .. Len(queue)
      BY <2>1, <2>2, <2>3 DEF ProgressInv
    <2>5. queue[n + 1].sop \in Bd
      BY <2>4, FramePosition DEF AllInv
    <2> QED BY <2>4, <2>5 DEF WorksOn, BdsOf, DmaIdle, NULL, Bd
  <1> QED BY <1>1, EngineInvHolds, PTL

(* No acknowledgement of eth0_tx_isr hides a completion: between two calls *)
(* a frame that has left and is not reclaimed has its interrupt pending.   *)
THEOREM NoCompletionHidden ==
  ASSUME ~LinkAtFetch, ~SlowEngine
  PROVE  Spec => []CompletionIsSignalled
  <1>1. AllInv => CompletionIsSignalled
    <2> SUFFICES ASSUME AllInv, NEW i \in DOMAIN queue, ~IsWaiting(queue[i])
                 PROVE  irq
      BY DEF CompletionIsSignalled
    <2>1. PICK n \in 0 .. Len(queue) : ProgressInv(n)
      BY DEF AllInv, EngineInv
    <2>2. Len(queue) \in Nat /\ i \in 1 .. Len(queue)
      BY LenProperties DEF AllInv, QueueInv
    <2> QED BY <2>1, <2>2 DEF ProgressInv
  <1> QED BY <1>1, EngineInvHolds, PTL

(* eth0_tx_isr gives no pbuf back while the engine reads from it: the poll *)
(* of OWNER waits for the frame, and a later output holds its own          *)
(* reference.                                                              *)
THEOREM EngineReadsReferenced ==
  ASSUME ~LinkAtFetch, ~SlowEngine
  PROVE  Spec => []EngineReadsLivePbuf
  <1>1. AllInv => EngineReadsLivePbuf
    <2> SUFFICES ASSUME AllInv, dma.buf # NoPbuf PROVE ref[dma.buf] > 0
      BY DEF EngineReadsLivePbuf
    <2> USE DEF AllInv
    <2>1. PICK n \in 0 .. Len(queue) : ProgressInv(n)
      BY DEF EngineInv
    <2>2. Len(queue) \in Nat /\ Linked \in 0 .. Len(queue)
      BY LinkedTail DEF EngineInv
    <2>3. WorksOn(queue[n + 1]) /\ n + 1 \in 1 .. Len(queue)
      BY <2>1, <2>2 DEF ProgressInv, DmaIdle
    <2> DEFINE b == queue[n + 1].sop
    <2>4. dma.buf = queue[n + 1].pbuf
      BY <2>3 DEF WorksOn, DmaIdle
    <2>5. /\ b \in Bd /\ b \in sop /\ pkt[b] = dma.buf /\ dma.buf \in Pbuf
          /\ Pos(b) \in 0 .. Busy - 1 /\ Busy \in 1 .. NumBd
      BY <2>3, <2>4, FramePosition DEF QueueInv, FramesInv
    <2>6. pc = "fill" => b # first
      <3>1. pc = "fill" => Pos(first) = Busy
        BY FillFirst
      <3> QED BY <2>5, <3>1
    <2>7. b \in Heads(dma.buf) /\ IsFiniteSet(Heads(dma.buf))
      BY <2>5, <2>6, HeadsFinite DEF Heads, FramesWith, IInv, TypeOK
    <2>8. Cardinality(Heads(dma.buf)) \in Nat /\ Cardinality(Heads(dma.buf)) # 0
      BY <2>7, FS_CardinalityType, FS_EmptySet
    <2>9. ref[dma.buf] >= Cardinality(Heads(dma.buf)) + Holds(dma.buf) + Filling(dma.buf)
      BY <2>5 DEF IInv, RefInv
    <2>10. Holds(dma.buf) \in Nat /\ Filling(dma.buf) \in Nat /\ ref[dma.buf] \in Nat
      BY <2>5 DEF Holds, Filling, IInv, TypeOK
    <2> QED BY <2>8, <2>9, <2>10
  <1> QED BY <1>1, EngineInvHolds, PTL

(* cpswif_transmit writes the HDP register only while the engine is        *)
(* stopped: for the very first frame, and when the old tail carries EOQ.   *)
THEOREM HdpIsZeroWhenWritten ==
  ASSUME ~LinkAtFetch, ~SlowEngine
  PROVE  Spec => HdpWrittenWhenStopped
  <1>1. AllInv /\ [Next]_vars => [pc' # pc /\ dma' # dma => dma.bd = NULL]_vars
    <2> SUFFICES ASSUME AllInv, Next, pc' # pc, dma' # dma PROVE dma.bd = NULL
      OBVIOUS
    <2> USE DEF AllInv
    <2>0. PICK n \in 0 .. Len(queue) : ProgressInv(n)
      BY DEF EngineInv
    <2>1. Close \/ Restart
      BY DEF Next, Lwip, Transmit, Isr, Engine, PbufAlloc, PbufRelease, OutputErrMem,
             PbufRef, OutputBegin, Fill, Chain, IsrEnter, IsrFrame, IsrWalk, IsrReclaim,
             ClearFlags, TxCPWr, IsrExit, DmaStart, DmaFollow, DmaDone, hw
    <2>2. n = Linked
      <3>1. Len(queue) \in Nat /\ Linked \in 0 .. Len(queue)
        BY LinkedTail DEF EngineInv
      <3>2. CASE Close
        <4>1. send_tail = NULL
          BY <3>2 DEF Close
        <4> QED BY <3>1, <4>1 DEF EngineInv, NewFrameInv
      <3>3. CASE Restart
        <4>1. send_tail \in eoq
          BY <3>3 DEF Restart, EngineStopped
        <4>2. LastBd = send_tail
          BY <4>1 DEF LastBd
        <4> QED BY <2>0, <3>1, <4>1, <4>2 DEF ProgressInv
      <3> QED BY <2>1, <3>2, <3>3
    <2> QED BY <2>0, <2>2 DEF ProgressInv, DmaIdle
  <1> QED BY <1>1, EngineInvHolds, PTL DEF Spec, HdpWrittenWhenStopped
-----------------------------------------------------------------------------
(* The ring implements TxFifo *)

(* The safety part of Fifo!Spec. *)
FifoOrder == Fifo!Init /\ [][Fifo!Next]_(Fifo!fifoVars)

(* A function on 1 .. k is a sequence of length k. *)
LEMMA FunIsSeq ==
  ASSUME NEW S, NEW k \in Nat, NEW s \in [1 .. k -> S]
  PROVE  s \in Seq(S) /\ Len(s) = k /\ (s = <<>> <=> k = 0)
  <1>1. s \in Seq(S)
    BY SeqDef
  <1>2. Len(s) = k
    BY <1>1, LenProperties
  <1> QED BY <1>1, <1>2, EmptySeq

(* What it means for r to be s with one element more, or one less. *)
LEMMA AppendFun ==
  ASSUME NEW S, NEW k \in Nat, NEW s \in [1 .. k -> S], NEW r \in [1 .. k + 1 -> S],
         \A i \in 1 .. k : r[i] = s[i]
  PROVE  r = Append(s, r[k + 1])
  <1>1. s \in Seq(S) /\ Len(s) = k /\ r \in Seq(S) /\ Len(r) = k + 1 /\ r[k + 1] \in S
    BY FunIsSeq
  <1>2. /\ Append(s, r[k + 1]) \in Seq(S) /\ Len(Append(s, r[k + 1])) = k + 1
        /\ \A i \in 1 .. k : Append(s, r[k + 1])[i] = s[i]
        /\ Append(s, r[k + 1])[k + 1] = r[k + 1]
    BY <1>1, AppendProperties
  <1>3. \A i \in 1 .. k + 1 : Append(s, r[k + 1])[i] = r[i]
    BY <1>2
  <1> QED BY <1>1, <1>2, <1>3, SeqEqual

LEMMA TailFun ==
  ASSUME NEW S, NEW k \in Nat, NEW s \in [1 .. k + 1 -> S], NEW r \in [1 .. k -> S],
         \A i \in 1 .. k : r[i] = s[i + 1]
  PROVE  s # <<>> /\ r = Tail(s) /\ Head(s) = s[1]
  <1>1. /\ s \in Seq(S) /\ Len(s) = k + 1 /\ s # <<>>
        /\ r \in Seq(S) /\ Len(r) = k
    BY FunIsSeq
  <1>2. /\ Tail(s) \in Seq(S) /\ Len(Tail(s)) = k
        /\ \A i \in 1 .. k : Tail(s)[i] = s[i + 1]
    BY <1>1, HeadTailProperties
  <1> QED BY <1>1, <1>2, SeqEqual

(* A ring of NumBd descriptors holds at most NumBd frames: no two of them  *)
(* begin at the same descriptor.                                           *)
LEMMA FramesFit ==
  ASSUME IInv, QueueInv
  PROVE  Len(queue) \in Nat /\ Len(queue) <= Busy
  <1> DEFINE L == Len(queue)
             at == [i \in 1 .. L |-> Pos(queue[i].sop)]
  <1>0. L \in Nat
    BY LenProperties DEF QueueInv
  <1>1. CASE L = 0
    BY <1>1 DEF IInv, RingInv, PositionInv
  <1>2. CASE L > 0
    <2>1. Busy \in 1 .. NumBd /\ \A i \in 1 .. L : Pos(queue[i].sop) \in 0 .. Busy - 1
      BY <1>0, <1>2, FramePosition
    <2>2. \A i, j \in 1 .. L : at[i] = at[j] => i = j
      <3> SUFFICES ASSUME NEW i \in 1 .. L, NEW j \in 1 .. L, at[i] = at[j], i # j
                   PROVE  FALSE
        OBVIOUS
      <3>1. queue[i].sop # queue[j].sop
        BY FramesApart
      <3>2. queue[i].sop \in Bd /\ queue[j].sop \in Bd
        BY FramePosition
      <3> QED BY <3>1, <3>2, PosRange DEF IInv
    <2>3. at \in Injection(1 .. L, 0 .. Busy - 1)
      BY <2>1, <2>2 DEF Injection, IsInjective
    <2>4. Busy - 1 \in Int /\ L \in Int /\ 1 \in Int /\ 0 \in Int /\ NumBd \in Nat
      BY <1>0, <2>1, NumBdAssumption
    <2>5. IsFiniteSet(0 .. Busy - 1) /\ Cardinality(0 .. Busy - 1) = Busy
      <3>1. /\ IsFiniteSet(0 .. Busy - 1)
            /\ Cardinality(0 .. Busy - 1) = IF 0 > Busy - 1 THEN 0 ELSE Busy - 1 - 0 + 1
        BY <2>4, FS_Interval
      <3> QED BY <2>1, <2>4, <3>1
    <2>6. Cardinality(1 .. L) = L
      <3>1. Cardinality(1 .. L) = IF 1 > L THEN 0 ELSE L - 1 + 1
        BY <2>4, FS_Interval
      <3> QED BY <1>0, <1>2, <3>1
    <2>7. Cardinality(1 .. L) <= Cardinality(0 .. Busy - 1)
      BY <2>3, <2>5, FS_Injection
    <2> QED BY <1>0, <2>5, <2>6, <2>7
  <1> QED BY <1>0, <1>1, <1>2

(* What TxFifo sees of the ring when n frames have left. *)
SentOf(n)    == [i \in 1 .. n |-> queue[i].pbuf]
WaitingOf(n) == [i \in 1 .. Len(queue) - n |-> queue[n + i].pbuf]

LEMMA MappedState ==
  ASSUME QueueInv, NEW n \in 0 .. Len(queue),
         \A i \in 1 .. Len(queue) : IsWaiting(queue[i]) <=> i > n
  PROVE  /\ Len(queue) \in Nat /\ Sent = SentOf(n) /\ Waiting = WaitingOf(n)
         /\ Sent \in [1 .. n -> Pbuf] /\ Waiting \in [1 .. Len(queue) - n -> Pbuf]
  <1>1. Len(queue) \in Nat /\ \A i \in 1 .. Len(queue) : queue[i].pbuf \in Pbuf
    <2>1. queue \in Seq(Frame)
      BY DEF QueueInv
    <2>2. Len(queue) \in Nat /\ \A i \in 1 .. Len(queue) : queue[i] \in Frame
      BY <2>1, LenProperties, ElementOfSeq
    <2> QED BY <2>2 DEF Frame
  <1>2. AreSent(n)
    BY <1>1 DEF AreSent
  <1>3. ASSUME NEW m \in 0 .. Len(queue), AreSent(m)
        PROVE  m = n
    <2>1. ~(m < n)
      <3> SUFFICES ASSUME m < n PROVE FALSE
        OBVIOUS
      <3>1. m + 1 \in 1 .. Len(queue) /\ ~(m + 1 > n) /\ m < Len(queue)
        BY <1>1
      <3> QED BY <1>3, <3>1 DEF AreSent
    <2>2. ~(m > n)
      <3> SUFFICES ASSUME m > n PROVE FALSE
        OBVIOUS
      <3>1. n + 1 \in 1 .. Len(queue) /\ n + 1 > n /\ n + 1 \in 1 .. m
        BY <1>1
      <3> QED BY <1>3, <3>1 DEF AreSent
    <2> QED BY <1>1, <2>1, <2>2
  <1>4. SentNum = n
    BY <1>2, <1>3 DEF SentNum
  <1>5. Sent = SentOf(n) /\ Waiting = WaitingOf(n)
    BY <1>4 DEF Sent, Waiting, SentOf, WaitingOf
  <1>6. /\ \A i \in 1 .. n : i \in 1 .. Len(queue)
        /\ \A i \in 1 .. Len(queue) - n : n + i \in 1 .. Len(queue)
    BY <1>1
  <1>7. SentOf(n) \in [1 .. n -> Pbuf] /\ WaitingOf(n) \in [1 .. Len(queue) - n -> Pbuf]
    BY <1>1, <1>6 DEF SentOf, WaitingOf
  <1> QED BY <1>1, <1>5, <1>7

(* The mapped state of every state in which n frames have left. *)
Maps ==
  \A n \in 0 .. Len(queue) :
    (\A i \in 1 .. Len(queue) : queue[i].sop \in own <=> i > n) =>
      /\ Len(queue) \in Nat /\ Sent = SentOf(n) /\ Waiting = WaitingOf(n)
      /\ Sent \in [1 .. n -> Pbuf] /\ Waiting \in [1 .. Len(queue) - n -> Pbuf]

(* A step that neither changes the queue nor lets a frame leave. *)
LEMMA FifoUnchanged ==
  ASSUME EngineInv, Maps, Maps', queue' = queue,
         \A i \in 1 .. Len(queue) : queue[i].sop \in own' <=> queue[i].sop \in own
  PROVE  UNCHANGED Fifo!fifoVars
  <1>1. PICK n \in 0 .. Len(queue) : ProgressInv(n)
    BY DEF EngineInv
  <1>2. Sent = SentOf(n) /\ Waiting = WaitingOf(n)
    BY <1>1 DEF Maps, ProgressInv, IsWaiting
  <1>3. (Sent = SentOf(n))' /\ (Waiting = WaitingOf(n))'
    BY <1>1 DEF Maps, ProgressInv, IsWaiting
  <1>4. SentOf(n)' = SentOf(n) /\ WaitingOf(n)' = WaitingOf(n)
    BY DEF SentOf, WaitingOf
  <1> QED BY <1>2, <1>3, <1>4 DEF Fifo!fifoVars

(* cpswif_transmit accepts the frame: the ring has room for it. *)
LEMMA CloseAccepts ==
  ASSUME IInv, QueueInv, EngineInv, Maps, Maps', Close
  PROVE  Fifo!Accept(txp)
  <1> DEFINE L == Len(queue)
             f == [sop |-> first, eop |-> end, pbuf |-> txp]
  <1>1. PICK n \in 0 .. L : ProgressInv(n)
    BY DEF EngineInv
  <1>2. first \in Bd /\ end \in Bd /\ txp \in Pbuf /\ pc = "fill"
    BY ClosePosition DEF Close
  <1>3. /\ L \in Nat /\ Len(queue') = L + 1 /\ queue'[L + 1] = f
        /\ \A i \in 1 .. L : queue'[i] = queue[i]
    <2>1. f \in Frame /\ queue \in Seq(Frame)
      BY <1>2 DEF Frame, QueueInv
    <2>2. queue' = Append(queue, f)
      BY DEF Close
    <2> QED BY <2>1, <2>2, AppendProperties, LenProperties
  <1>4. /\ Sent = SentOf(n) /\ Waiting = WaitingOf(n)
        /\ Sent \in [1 .. n -> Pbuf] /\ Waiting \in [1 .. L - n -> Pbuf]
    BY <1>1 DEF Maps, ProgressInv, IsWaiting
  <1>5. \A i \in 1 .. Len(queue') : queue'[i].sop \in own' <=> i > n
    <2> TAKE i \in 1 .. Len(queue')
    <2>1. own' = own /\ first \in own
      BY <1>2 DEF Close, EngineInv, NewFrameInv
    <2>2. CASE i = L + 1
      BY <1>3, <2>1, <2>2
    <2>3. CASE i \in 1 .. L
      BY <1>1, <1>3, <2>1, <2>3 DEF ProgressInv, IsWaiting
    <2> QED BY <1>3, <2>2, <2>3
  <1>6. /\ (Sent = SentOf(n))' /\ (Waiting = WaitingOf(n))'
        /\ (Waiting \in [1 .. Len(queue) - n -> Pbuf])'
    <2>1. n \in 0 .. Len(queue')
      BY <1>3
    <2> QED BY <1>5, <2>1 DEF Maps
  <1>7. SentOf(n)' = SentOf(n)
    <2>1. \A i \in 1 .. n : i \in 1 .. L /\ queue'[i] = queue[i]
      BY <1>3
    <2> QED BY <2>1 DEF SentOf
  <1>8. Waiting' = Append(Waiting, txp)
    <2>1. /\ L - n \in Nat /\ Len(queue') - n = L - n + 1 /\ n + (L - n + 1) = L + 1
          /\ L - n + 1 \in 1 .. L - n + 1
          /\ \A i \in 1 .. L - n : /\ i \in 1 .. L - n + 1
                                   /\ n + i \in 1 .. L
      BY <1>3
    <2>2. \A i \in 1 .. L - n + 1 : Waiting'[i] = queue'[n + i].pbuf
      BY <1>6, <2>1 DEF WaitingOf
    <2>3. \A i \in 1 .. L - n : Waiting'[i] = Waiting[i]
      <3>1. \A i \in 1 .. L - n : Waiting[i] = queue[n + i].pbuf
        BY <1>4 DEF WaitingOf
      <3> QED BY <1>3, <2>1, <2>2, <3>1
    <2>4. Waiting'[L - n + 1] = txp
      <3>1. queue'[L + 1].pbuf = txp
        BY <1>3
      <3>2. Waiting'[L - n + 1] = queue'[n + (L - n + 1)].pbuf
        BY <2>1, <2>2
      <3> QED BY <2>1, <3>1, <3>2
    <2>5. Waiting' \in [1 .. L - n + 1 -> Pbuf] /\ Waiting \in [1 .. L - n -> Pbuf]
      <3>1. Waiting' \in [1 .. Len(queue') - n -> Pbuf]
        BY <1>6
      <3> QED BY <1>4, <2>1, <3>1
    <2> QED BY <2>1, <2>3, <2>4, <2>5, AppendFun
  <1>9. Len(Waiting) + Len(Sent) < NumBd
    <2>1. Len(Sent) = n /\ Len(Waiting) = L - n
      <3>1. n \in Nat /\ L - n \in Nat
        BY <1>3
      <3> QED BY <1>4, <3>1, FunIsSeq
    <2>2. L <= Busy
      BY FramesFit
    <2>3. Busy \in Nat /\ Busy < NumBd
      BY ClosePosition DEF Close
    <2> QED BY <1>3, <2>1, <2>2, <2>3, NumBdAssumption
  <1> QED BY <1>4, <1>6, <1>7, <1>8, <1>9 DEF Fifo!Accept

(* eth0_tx_isr gives back the oldest frame that has left. *)
LEMMA ReclaimReclaims ==
  ASSUME IInv, QueueInv, EngineInv, Maps, Maps', IsrReclaim
  PROVE  Fifo!Reclaim
  <1> DEFINE L == Len(queue)
  <1>1. PICK n \in 0 .. L : ProgressInv(n)
    BY DEF EngineInv
  <1>2. Walking /\ queue' = Tail(queue) /\ own' = own
    BY DEF IsrReclaim, Walking
  <1>3. L \in Nat /\ L > 0 /\ queue # <<>> /\ queue \in Seq(Frame)
    BY ReclaimsOldest, EmptySeq DEF QueueInv
  <1>4. Len(queue') = L - 1 /\ \A i \in 1 .. L - 1 : queue'[i] = queue[i + 1]
    BY <1>2, <1>3, HeadTailProperties
  <1>5. n \in 1 .. L /\ n - 1 \in 0 .. L - 1 /\ n - 1 \in Nat /\ n - 1 + 1 = n
    BY <1>1, <1>2, <1>3 DEF ProgressInv
  <1>6. /\ Sent = SentOf(n) /\ Waiting = WaitingOf(n)
        /\ Sent \in [1 .. n -> Pbuf]
    BY <1>1 DEF Maps, ProgressInv, IsWaiting
  <1>7. \A i \in 1 .. Len(queue') : queue'[i].sop \in own' <=> i > n - 1
    <2> TAKE i \in 1 .. Len(queue')
    <2>1. i \in 1 .. L - 1 /\ i + 1 \in 1 .. L /\ (i + 1 > n <=> i > n - 1)
      BY <1>3, <1>4
    <2> QED BY <1>1, <1>2, <1>4, <2>1 DEF ProgressInv, IsWaiting
  <1>8. /\ (Sent = SentOf(n - 1))' /\ (Waiting = WaitingOf(n - 1))'
        /\ (Sent \in [1 .. n - 1 -> Pbuf])'
    <2>1. n - 1 \in 0 .. Len(queue')
      BY <1>4, <1>5
    <2> QED BY <1>7, <2>1 DEF Maps
  <1>9. Sent # <<>> /\ Sent' = Tail(Sent)
    <2>1. \A i \in 1 .. n - 1 : Sent'[i] = queue'[i].pbuf
      BY <1>8 DEF SentOf
    <2>2. \A i \in 1 .. n - 1 : /\ i + 1 \in 1 .. n
                               /\ queue'[i] = queue[i + 1]
      BY <1>3, <1>4, <1>5
    <2>3. \A i \in 1 .. n - 1 : Sent'[i] = Sent[i + 1]
      <3>1. \A i \in 1 .. n : Sent[i] = queue[i].pbuf
        BY <1>6 DEF SentOf
      <3> QED BY <2>1, <2>2, <3>1
    <2>4. Sent' \in [1 .. n - 1 -> Pbuf] /\ Sent \in [1 .. (n - 1) + 1 -> Pbuf]
      BY <1>5, <1>6, <1>8
    <2> QED BY <1>5, <2>3, <2>4, TailFun
  <1>10. Waiting' = Waiting
    <2>1. Len(queue') - (n - 1) = L - n
      BY <1>3, <1>4, <1>5
    <2>2. \A i \in 1 .. L - n : queue'[n - 1 + i] = queue[n + i]
      <3> TAKE i \in 1 .. L - n
      <3>1. n - 1 + i \in 1 .. L - 1 /\ n - 1 + i + 1 = n + i
        BY <1>3, <1>5
      <3> QED BY <1>4, <3>1
    <2>3. Waiting' = [i \in 1 .. L - n |-> queue'[n - 1 + i].pbuf]
      BY <1>8, <2>1 DEF WaitingOf
    <2> QED BY <1>6, <2>2, <2>3 DEF WaitingOf
  <1> QED BY <1>9, <1>10 DEF Fifo!Reclaim

(* The engine sends the frame that has waited longest. *)
LEMMA DoneTransmits ==
  ASSUME ~LinkAtFetch, IInv, QueueInv, EngineInv, Maps, Maps', DmaDone
  PROVE  Fifo!Transmit
  <1> DEFINE L == Len(queue)
  <1>1. PICK n \in 0 .. L : ProgressInv(n)
    BY DEF EngineInv
  <1>2. n + 1 \in 1 .. L /\ ProgressInv(n + 1)' /\ queue' = queue
    BY <1>1, DoneInOrder DEF DmaDone
  <1>3. L \in Nat /\ L - (n + 1) \in Nat /\ L - n = L - (n + 1) + 1 /\ n \in Nat
    BY <1>2, LenProperties DEF QueueInv
  <1>4. /\ Sent = SentOf(n) /\ Waiting = WaitingOf(n)
        /\ Sent \in [1 .. n -> Pbuf] /\ Waiting \in [1 .. L - n -> Pbuf]
    BY <1>1 DEF Maps, ProgressInv, IsWaiting
  <1>5. /\ (Sent = SentOf(n + 1))' /\ (Waiting = WaitingOf(n + 1))'
        /\ (Sent \in [1 .. n + 1 -> Pbuf])'
        /\ (Waiting \in [1 .. Len(queue) - (n + 1) -> Pbuf])'
    <2>1. n + 1 \in 0 .. Len(queue')
      BY <1>2, <1>3
    <2> QED BY <1>2, <2>1 DEF Maps, ProgressInv, IsWaiting
  <1>6. Waiting # <<>> /\ Waiting' = Tail(Waiting) /\ Head(Waiting) = queue[n + 1].pbuf
    <2>1. \A i \in 1 .. L - (n + 1) : Waiting'[i] = queue[n + 1 + i].pbuf
      BY <1>2, <1>5 DEF WaitingOf
    <2>2. \A i \in 1 .. L - n : Waiting[i] = queue[n + i].pbuf
      BY <1>4 DEF WaitingOf
    <2>3. \A i \in 1 .. L - (n + 1) : i + 1 \in 1 .. L - n /\ n + (i + 1) = n + 1 + i
      BY <1>3
    <2>4. \A i \in 1 .. L - (n + 1) : Waiting'[i] = Waiting[i + 1]
      BY <2>1, <2>2, <2>3
    <2>5. 1 \in 1 .. L - n
      BY <1>3
    <2>6. /\ Waiting' \in [1 .. L - (n + 1) -> Pbuf]
          /\ Waiting \in [1 .. L - (n + 1) + 1 -> Pbuf]
      BY <1>2, <1>3, <1>4, <1>5
    <2>7. Waiting # <<>> /\ Waiting' = Tail(Waiting) /\ Head(Waiting) = Waiting[1]
      BY <1>3, <2>4, <2>6, TailFun
    <2> QED BY <2>2, <2>5, <2>7
  <1>7. Sent' = Append(Sent, queue[n + 1].pbuf)
    <2>1. \A i \in 1 .. n + 1 : Sent'[i] = queue[i].pbuf
      BY <1>2, <1>5 DEF SentOf
    <2>2. \A i \in 1 .. n : Sent[i] = queue[i].pbuf /\ i \in 1 .. n + 1
      BY <1>3, <1>4 DEF SentOf
    <2>3. n + 1 \in 1 .. n + 1
      BY <1>3
    <2>4. \A i \in 1 .. n : Sent'[i] = Sent[i]
      BY <2>1, <2>2
    <2> QED BY <1>3, <1>4, <1>5, <2>1, <2>3, <2>4, AppendFun
  <1> QED BY <1>6, <1>7 DEF Fifo!Transmit

(* What leaves the ring is what entered it, each frame once, in the order  *)
(* of cpswif_output, and eth0_tx_isr gives back only what has left.        *)
THEOREM RingImplementsFifo ==
  ASSUME ~LinkAtFetch, ~SlowEngine
  PROVE  Spec => FifoOrder
  <1>1. AllInv => Maps
    <2> SUFFICES ASSUME QueueInv, NEW n \in 0 .. Len(queue),
                        \A i \in 1 .. Len(queue) : queue[i].sop \in own <=> i > n
                 PROVE  /\ Len(queue) \in Nat /\ Sent = SentOf(n) /\ Waiting = WaitingOf(n)
                        /\ Sent \in [1 .. n -> Pbuf]
                        /\ Waiting \in [1 .. Len(queue) - n -> Pbuf]
      BY DEF AllInv, Maps
    <2>1. \A i \in 1 .. Len(queue) : IsWaiting(queue[i]) <=> i > n
      BY DEF IsWaiting
    <2> QED BY <2>1, MappedState
  <1>2. Init => Fifo!Init
    <2> SUFFICES ASSUME Init PROVE Fifo!Init
      OBVIOUS
    <2>1. QueueInv /\ queue = <<>> /\ Len(queue) = 0
      BY InitIInv, InitQueueInv DEF Init
    <2>2. Sent \in [1 .. 0 -> Pbuf] /\ Waiting \in [1 .. 0 -> Pbuf]
      BY <2>1, MappedState
    <2> QED BY <2>2, FunIsSeq DEF Fifo!Init
  <1>3. AllInv /\ Maps /\ Maps' /\ [Next]_vars => [Fifo!Next]_(Fifo!fifoVars)
    <2> SUFFICES ASSUME IInv, QueueInv, EngineInv, Maps, Maps', [Next]_vars
                 PROVE  Fifo!Next \/ UNCHANGED Fifo!fifoVars
      BY DEF AllInv
    <2>1. CASE \/ \E p \in Pbuf : \/ PbufAlloc(p) \/ PbufRelease(p)
                                 \/ \E c \in 1 .. MaxChain : OutputErrMem(p, c)
               \/ Fill \/ Chain \/ Restart \/ IsrEnter \/ IsrFrame \/ IsrWalk \/ IsrExit
               \/ DmaStart \/ DmaFollow \/ UNCHANGED vars
      <3>1. queue' = queue /\ own' = own
        BY <2>1 DEF PbufAlloc, PbufRelease, OutputErrMem, Fill, Chain, Restart, IsrEnter,
                    IsrFrame, IsrWalk, IsrExit, DmaStart, DmaFollow, vars, mem
      <3> QED BY <3>1, FifoUnchanged
    <2>2. ASSUME NEW p \in Pbuf, NEW c \in 1 .. MaxChain, OutputBegin(p, c)
          PROVE  UNCHANGED Fifo!fifoVars
      <3>1. queue' = queue /\ own' = own \cup {free_head}
        BY <2>2 DEF OutputBegin
      <3>2. \A i \in 1 .. Len(queue) : queue[i].sop # free_head
        BY <2>2, FreeHeadUnused
      <3> QED BY <3>1, <3>2, FifoUnchanged
    <2>3. CASE Close
      <3>1. txp \in Pbuf
        BY <2>3, ClosePosition
      <3> QED BY <2>3, <3>1, CloseAccepts DEF Fifo!Next
    <2>4. CASE IsrReclaim
      BY <2>4, ReclaimReclaims DEF Fifo!Next
    <2>5. CASE DmaDone
      BY <2>5, DoneTransmits DEF Fifo!Next
    <2> QED BY <2>1, <2>2, <2>3, <2>4, <2>5 DEF Next, Lwip, Transmit, Isr, Engine
  <1> QED BY <1>1, <1>2, <1>3, EngineInvHolds, PTL DEF Spec, FifoOrder
=============================================================================
